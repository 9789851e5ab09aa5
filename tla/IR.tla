---------------------------------- MODULE IR ----------------------------------
(***************************************************************************)
(* The nodes of the intermediate representation (compiler/internal/ir).    *)
(* A node is a record whose field "kind" names its Go type; a sealed        *)
(* interface (Decl, Stmt, Expr, Type) is the set of its kinds.  Shape gives *)
(* the Go type of every field: "string", "bool", an interface, a pointer to *)
(* a record, or List of one of these.  A Go slice is Nil or a sequence:     *)
(* the two empty ones are different values.                                 *)
(***************************************************************************)
EXTENDS Sequences, FiniteSets, FiniteSetsExt, TLC

CONSTANTS
  Nil,      \* Go's nil: of an interface, of a pointer, of a slice
  Failed    \* the result of a function that returns an error

List(c) == "[]" \o c
Elements == {"string", "Decl", "Stmt", "Expr", "File", "Param", "StructField",
             "MethodSig", "MapEntry", "StructLitField", "SelectCase"}
IsList(c) == \E e \in Elements : c = List(e)
ElemOf(c) == CHOOSE e \in Elements : c = List(e)

DeclShape ==
  [ Package  |-> [name |-> "string", files |-> List("File")],
    File     |-> [name |-> "string", imports |-> List("string"),
                  decls |-> List("Decl")],
    Function |-> [name |-> "string", receiver |-> "Receiver",
                  params |-> List("Param"), results |-> List("Param"),
                  body |-> List("Stmt")],
    Receiver |-> [name |-> "string", type |-> "string", pointer |-> "bool"],
    TypeDecl |-> [name |-> "string", underlying |-> "Type"],
    Param    |-> [name |-> "string", type |-> "Type"] ]

StmtShape ==
  [ Assign   |-> [lhs |-> List("Expr"), define |-> "bool", rhs |-> List("Expr")],
    If       |-> [cond |-> "Expr", then |-> List("Stmt"), else |-> List("Stmt")],
    For      |-> [init |-> "Stmt", cond |-> "Expr", post |-> "Stmt",
                  body |-> List("Stmt")],
    Return   |-> [results |-> List("Expr")],
    Call     |-> [fun |-> "Expr", args |-> List("Expr")],
    ExprStmt |-> [x |-> "Expr"] ]

ExprShape ==
  [ Ident     |-> [name |-> "string"],
    Lit       |-> [litKind |-> "string", value |-> "string"],
    BinOp     |-> [op |-> "string", x |-> "Expr", y |-> "Expr"],
    UnaryOp   |-> [op |-> "string", x |-> "Expr"],
    Selector  |-> [x |-> "Expr", sel |-> "string"],
    SliceLit  |-> [elem |-> "Type", elems |-> List("Expr")],
    MakeChan  |-> [elem |-> "Type", capacity |-> "Expr"],
    IndexExpr |-> [x |-> "Expr", index |-> "Expr"],
    SliceExpr |-> [x |-> "Expr", low |-> "Expr", high |-> "Expr"],
    MapEntry  |-> [key |-> "Expr", value |-> "Expr"],
    MapLit    |-> [key |-> "Type", value |-> "Type", entries |-> List("MapEntry")],
    StructLitField |-> [name |-> "string", value |-> "Expr"],
    StructLit |-> [typeName |-> "string", fields |-> List("StructLitField")] ]

LaterStmtShape ==
  [ RangeStmt |-> [keyName |-> "string", valueName |-> "string",
                   define |-> "bool", x |-> "Expr", body |-> List("Stmt")],
    DeferStmt |-> [call |-> "Stmt"],
    GoStmt    |-> [call |-> "Stmt"] ]

\* The case kind of a SelectCase, its Go field Kind, is the field "case" here.
ChanShape ==
  [ ChanSend   |-> [chan |-> "Expr", value |-> "Expr"],
    ChanRecv   |-> [chan |-> "Expr", commaOk |-> "bool"],
    SelectCase |-> [case |-> "string", chan |-> "Expr", value |-> "Expr",
                    valueLhs |-> "string", okLhs |-> "string",
                    body |-> List("Stmt")],
    SelectStmt |-> [cases |-> List("SelectCase")] ]

\* BuiltinCall implements both Stmt and Expr.
BuiltinShape == [ BuiltinCall |-> [name |-> "string", args |-> List("Expr")] ]

TypeShape ==
  [ NamedType   |-> [name |-> "string"],
    SliceType   |-> [elem |-> "Type"],
    MapType     |-> [key |-> "Type", value |-> "Type"],
    ChanType    |-> [elem |-> "Type"],
    StructField |-> [name |-> "string", type |-> "Type"],
    StructType  |-> [fields |-> List("StructField")],
    MethodSig   |-> [name |-> "string", params |-> List("Param"),
                     results |-> List("Param")],
    InterfaceType |-> [methods |-> List("MethodSig")] ]

BasicTypes == {"IntType", "StringType", "BoolType", "Float64Type"}

Shape == DeclShape @@ StmtShape @@ ExprShape @@ LaterStmtShape @@ ChanShape
           @@ BuiltinShape @@ TypeShape @@ [t \in BasicTypes |-> <<>>]

CaseKinds == {"Send", "Recv", "Default"}

RecordKinds == {"Package", "File", "Receiver", "Param", "MapEntry",
                "StructLitField", "StructField", "MethodSig", "SelectCase"}
DeclKinds == {"Function", "TypeDecl"}
StmtKinds == {"Assign", "If", "For", "Return", "Call", "ExprStmt", "RangeStmt",
              "DeferStmt", "GoStmt", "ChanSend", "SelectStmt", "BuiltinCall"}
ExprKinds == {"Ident", "Lit", "BinOp", "UnaryOp", "Selector", "SliceLit",
              "MakeChan", "IndexExpr", "SliceExpr", "MapLit", "StructLit",
              "ChanRecv", "BuiltinCall"}
TypeKinds == BasicTypes \cup {"NamedType", "SliceType", "MapType", "ChanType",
                              "StructType", "InterfaceType"}

\* The kinds a value of Go type c may have.
KindsOf(c) ==
  CASE c = "Decl" -> DeclKinds
    [] c = "Stmt" -> StmtKinds
    [] c = "Expr" -> ExprKinds
    [] c = "Type" -> TypeKinds
    [] c \in RecordKinds -> {c}

Fields(k) == DOMAIN Shape[k]

\* A Go slice's elements, for code that ranges over it: nil has none.
Elems(list) == IF list = Nil THEN <<>> ELSE list

\* A node, or a list, unless a field or an element of it could not be made.
Made(node) == IF \E f \in DOMAIN node : node[f] = Failed THEN Failed ELSE node
===============================================================================
