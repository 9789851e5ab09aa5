------------------------------- MODULE IRCodec --------------------------------
(***************************************************************************)
(* The JSON form of the IR: MarshalJSON and UnmarshalJSON of every node,    *)
(* the contract between the translator, the golden files and the emitter.   *)
(*                                                                          *)
(* A JSON object is a function from its keys to JSON values and null is     *)
(* Nil.  A table row says, per key, how the key is read back; the key is    *)
(* written from the field of the same name.  The readers:                   *)
(*   Str, Bool     the zero value when the key is absent or null            *)
(*   NonEmpty      a string that must not be ""                             *)
(*   Opt(c)        a child of the interface c, nil when absent or null      *)
(*   Req(c)        a child of the interface c, an error when absent         *)
(*   Ptr(k)        a pointer to a record of kind k                          *)
(*   Raws(c)       a slice of children, each through its envelope           *)
(*   Ptrs(k)       a slice of pointers to records, null elements allowed    *)
(*   Strs          a slice of strings                                       *)
(* and Omit(r) is a key left out when the field has its zero value.         *)
(* A scalar key holds a scalar of its Go type: the type errors that          *)
(* encoding/json reports by itself are left out.                             *)
(*                                                                          *)
(* EncodeNode and DecodeNode are one node's MarshalJSON and UnmarshalJSON.   *)
(* They call Encode and Decode for its children: two parameters, so that    *)
(* each equation Encode(n) = EncodeNode(n), Decode(k, d) = DecodeNode(k, d)  *)
(* is stated where it is needed, as the recursion of a configuration and as *)
(* a hypothesis of a theorem.                                               *)
(***************************************************************************)
EXTENDS IR

CONSTANTS
  Encode(_),      \* MarshalJSON of a child
  Decode(_, _)    \* UnmarshalJSON of a child, of a kind and an object

Reader(how, cat) == [how |-> how, cat |-> cat, omit |-> FALSE]
Str == Reader("string", "string")
Bool == Reader("bool", "bool")
Strs == Reader("strings", "string")
NonEmpty == Reader("nonempty", "string")
Opt(c) == Reader("optional", c)
Req(c) == Reader("required", c)
Ptr(k) == Reader("pointer", k)
Raws(c) == Reader("raws", c)
Ptrs(k) == Reader("pointers", k)
Omit(r) == [r EXCEPT !.omit = TRUE]

PackageWire ==
  [ Package  |-> [name |-> Str, files |-> Ptrs("File")],
    File     |-> [name |-> Str, imports |-> Strs, decls |-> Raws("Decl")],
    Function |-> [name |-> Str, receiver |-> Omit(Ptr("Receiver")),
                  params |-> Ptrs("Param"), results |-> Ptrs("Param"),
                  body |-> Raws("Stmt")],
    Receiver |-> [name |-> Str, type |-> NonEmpty, pointer |-> Bool],
    Param    |-> [name |-> Str, type |-> Opt("Type")] ]

AssignIfForWire ==
  [ Assign |-> [lhs |-> Raws("Expr"), define |-> Bool, rhs |-> Raws("Expr")],
    If     |-> [cond |-> Opt("Expr"), then |-> Raws("Stmt"), else |-> Raws("Stmt")],
    For    |-> [init |-> Opt("Stmt"), cond |-> Opt("Expr"), post |-> Opt("Stmt"),
                body |-> Raws("Stmt")] ]

ReturnCallWire ==
  [ Return   |-> [results |-> Raws("Expr")],
    Call     |-> [fun |-> Opt("Expr"), args |-> Raws("Expr")],
    ExprStmt |-> [x |-> Opt("Expr")] ]

OperatorWire ==
  [ Ident    |-> [name |-> Str],
    Lit      |-> [litKind |-> Str, value |-> Str],
    BinOp    |-> [op |-> Str, x |-> Opt("Expr"), y |-> Opt("Expr")],
    UnaryOp  |-> [op |-> Str, x |-> Opt("Expr")],
    Selector |-> [x |-> Opt("Expr"), sel |-> Str] ]

\* The four basic types have no key but the kind.
TypeWire ==
  [t \in BasicTypes |-> <<>>] @@
  [ NamedType   |-> [name |-> NonEmpty],
    SliceType   |-> [elem |-> Req("Type")],
    ChanType    |-> [elem |-> Req("Type")],
    StructType  |-> [fields |-> Ptrs("StructField")],
    InterfaceType |-> [methods |-> Ptrs("MethodSig")] ]

TypePartsWire ==
  [ MethodSig   |-> [name |-> Str, params |-> Ptrs("Param"),
                     results |-> Ptrs("Param")],
    StructField |-> [name |-> Str, type |-> Req("Type")],
    TypeDecl    |-> [name |-> Str, underlying |-> Req("Type")] ]

SliceWire ==
  [ SliceLit  |-> [elem |-> Req("Type"), elems |-> Raws("Expr")],
    MakeChan  |-> [elem |-> Req("Type"), capacity |-> Omit(Opt("Expr"))],
    IndexExpr |-> [x |-> Opt("Expr"), index |-> Opt("Expr")],
    SliceExpr |-> [x |-> Opt("Expr"), low |-> Opt("Expr"), high |-> Opt("Expr")] ]

BuiltinMapWire ==
  [ BuiltinCall |-> [name |-> Str, args |-> Raws("Expr")],
    MapType  |-> [key |-> Req("Type"), value |-> Req("Type")],
    MapEntry |-> [key |-> Opt("Expr"), value |-> Opt("Expr")],
    MapLit   |-> [key |-> Req("Type"), value |-> Req("Type"),
                  entries |-> Ptrs("MapEntry")] ]

StructLitWire ==
  [ StructLitField |-> [name |-> Omit(Str), value |-> Req("Expr")],
    StructLit |-> [typeName |-> NonEmpty, fields |-> Ptrs("StructLitField")] ]

RangeDeferGoWire ==
  [ RangeStmt |-> [keyName |-> Str, valueName |-> Str, define |-> Bool,
                   x |-> Opt("Expr"), body |-> Raws("Stmt")],
    DeferStmt |-> [call |-> Req("Stmt")],
    GoStmt    |-> [call |-> Req("Stmt")] ]

SendRecvWire ==
  [ ChanSend |-> [chan |-> Req("Expr"), value |-> Req("Expr")],
    ChanRecv |-> [chan |-> Req("Expr"), commaOk |-> Bool] ]

\* SelectStmt decodes its cases one by one, so a null case is an error; the
\* key "kind" of a case is its case kind, one of three.
SelectWire ==
  [ SelectCase |-> [case |-> Reader("casekind", "string"),
                    chan |-> Omit(Opt("Expr")), value |-> Omit(Opt("Expr")),
                    valueLhs |-> Omit(Str), okLhs |-> Omit(Str),
                    body |-> Raws("Stmt")],
    SelectStmt |-> [cases |-> Reader("cases", "SelectCase")] ]

Wire == PackageWire @@ AssignIfForWire @@ ReturnCallWire @@ OperatorWire
          @@ TypeWire @@ TypePartsWire @@ SliceWire @@ BuiltinMapWire
          @@ StructLitWire @@ RangeDeferGoWire @@ SendRecvWire @@ SelectWire

-------------------------------------------------------------------------------
(* Writing *)

ChildReaders == {"optional", "required", "pointer"}
ListReaders == {"raws", "pointers", "cases"}

\* The field "case" is written under the key "kind".
KeyOf(f) == IF f = "case" THEN "kind" ELSE f
FieldAt(w, key) == IF key = "kind" /\ "case" \in DOMAIN w THEN "case" ELSE key

\* What omitempty leaves out.
Zero(v, r) == IF r.how = "string" THEN v = "" ELSE v = Nil

EncodeValue(v, r) ==
  CASE v # Nil /\ r.how \in ListReaders  -> [i \in DOMAIN v |-> Encode(v[i])]
    [] v # Nil /\ r.how \in ChildReaders -> Encode(v)
    [] OTHER -> v

EncodeNode(n) ==
  IF n = Nil THEN Nil
  ELSE LET w == Wire[n.kind]
           kept == {f \in DOMAIN w : ~ (w[f].omit /\ Zero(n[f], w[f]))}
       IN  [key \in {"kind"} \cup {KeyOf(f) : f \in kept} |->
              LET f == FieldAt(w, key)
              IN  IF f = "kind" THEN n.kind ELSE EncodeValue(n[f], w[f])]

-------------------------------------------------------------------------------
(* Reading.  Whatever a value cannot be read as is an error. *)

At(d, key) == IF key \in DOMAIN d THEN d[key] ELSE Nil

\* The switches of the four envelopes, as the sets of kinds they know.
DeclEnvelope == {"Function", "TypeDecl"}
StmtEnvelope == {"Assign", "If", "For", "Return", "Call", "ExprStmt",
                 "BuiltinCall", "RangeStmt", "DeferStmt", "GoStmt", "ChanSend",
                 "SelectStmt"}
ExprEnvelope == {"Ident", "Lit", "BinOp", "UnaryOp", "Selector", "MakeChan",
                 "ChanRecv", "SliceLit", "IndexExpr", "SliceExpr",
                 "BuiltinCall", "MapLit", "StructLit"}
TypeEnvelope == {"IntType", "StringType", "BoolType", "Float64Type",
                 "NamedType", "SliceType", "ChanType", "MapType",
                 "StructType", "InterfaceType"}
Envelope == [Decl |-> DeclEnvelope, Stmt |-> StmtEnvelope,
             Expr |-> ExprEnvelope, Type |-> TypeEnvelope]

\* Mutant of DecodeChild: one switch over all kinds, whatever the interface.
DecodeAnyChild(c, v) ==
  IF v = Nil \/ At(v, "kind") \notin DOMAIN Wire THEN Failed
  ELSE Decode(At(v, "kind"), v)

DecodeChild(c, v) ==
  IF v = Nil \/ At(v, "kind") \notin Envelope[c] THEN Failed
  ELSE Decode(At(v, "kind"), v)

\* One element of a slice: a null is a nil pointer, or an error.
DecodeElement(r, e) ==
  CASE r.how = "raws"     -> DecodeChild(r.cat, e)
    [] r.how = "pointers" -> IF e = Nil THEN Nil ELSE Decode(r.cat, e)
    [] r.how = "cases"    -> IF e = Nil THEN Failed ELSE Decode(r.cat, e)

\* Mutant of DecodeList: a nil slice comes back empty.
DecodeListNonNil(r, v) ==
  IF v = Nil THEN <<>>
  ELSE IF \E i \in DOMAIN v : DecodeElement(r, v[i]) = Failed THEN Failed
  ELSE [i \in DOMAIN v |-> DecodeElement(r, v[i])]

\* unmarshalStmtList and its like: nil stays nil, the first error ends it.
DecodeList(r, v) ==
  IF v = Nil THEN Nil
  ELSE IF \E i \in DOMAIN v : DecodeElement(r, v[i]) = Failed THEN Failed
  ELSE [i \in DOMAIN v |-> DecodeElement(r, v[i])]

DecodeOptional(c, v) == IF v = Nil THEN Nil ELSE DecodeChild(c, v)

DecodeValue(r, v) ==
  CASE r.how = "string"   -> IF v = Nil THEN "" ELSE v
    [] r.how = "nonempty" -> IF v = Nil \/ v = "" THEN Failed ELSE v
    [] r.how = "casekind" -> IF v \in CaseKinds THEN v ELSE Failed
    [] r.how = "bool"     -> IF v = Nil THEN FALSE ELSE v
    [] r.how = "strings"  -> v
    [] r.how = "optional" -> DecodeOptional(r.cat, v)
    [] r.how = "required" -> DecodeChild(r.cat, v)
    [] r.how = "pointer"  -> IF v = Nil THEN Nil ELSE Decode(r.cat, v)
    [] r.how \in ListReaders -> DecodeList(r, v)

\* UnmarshalJSON of kind k; the object's own kind is not looked at.
DecodeNode(k, d) ==
  LET w == Wire[k]
      got == [f \in {"kind"} \cup DOMAIN w |->
                IF f = "kind" THEN k ELSE DecodeValue(w[f], At(d, KeyOf(f)))]
  IN  IF \E f \in DOMAIN w : got[f] = Failed THEN Failed ELSE got

-------------------------------------------------------------------------------
(* Well-formed trees, in terms of the Go types alone. *)

\* What the tests of the decoder require of a node (ir_test.go, Missing...).
NeverNil ==
  [ SliceType |-> {"elem"}, ChanType |-> {"elem"}, MapType |-> {"key", "value"},
    StructField |-> {"type"}, TypeDecl |-> {"underlying"}, SliceLit |-> {"elem"},
    MakeChan |-> {"elem"}, MapLit |-> {"key", "value"},
    StructLitField |-> {"value"}, DeferStmt |-> {"call"}, GoStmt |-> {"call"},
    ChanSend |-> {"chan", "value"}, ChanRecv |-> {"chan"} ]
NeverEmpty == [Receiver |-> "type", NamedType |-> "name", StructLit |-> "typeName"]

\* A value of the Go type c, as far as one level shows.  An element of a slice
\* of pointers to records may be nil, as encoding/json reads null so.
ElementFits(e, v) ==
  IF v = Nil THEN e \in RecordKinds \ {"SelectCase"} ELSE v.kind \in KindsOf(e)

Fits(c, v) ==
  /\ v # Failed
  /\ c \in {"string", "bool"} => v # Nil
  /\ v # Nil /\ c \notin {"string", "bool", List("string")} =>
       IF IsList(c)
       THEN /\ v = [i \in DOMAIN v |-> v[i]]
            /\ \A i \in DOMAIN v : ElementFits(ElemOf(c), v[i])
       ELSE v.kind \in KindsOf(c)

\* A node that the emitter can be given, its children aside: every field is of
\* its Go type, and present where the code relies on it.
NodeFits(n) ==
  /\ n.kind \in DOMAIN Shape
  /\ n = [f \in {"kind"} \cup Fields(n.kind) |-> n[f]]
  /\ n.kind \in DOMAIN NeverNil => \A f \in NeverNil[n.kind] : n[f] # Nil
  /\ n.kind \in DOMAIN NeverEmpty => n[NeverEmpty[n.kind]] # ""
  /\ n.kind = "SelectCase" => n.case \in CaseKinds
  /\ \A f \in Fields(n.kind) : Fits(Shape[n.kind][f], n[f])

\* The nodes right below n.
ChildrenAt(c, v) ==
  IF v = Nil \/ c \in {"string", "bool", List("string")} THEN {}
  ELSE IF IsList(c) THEN {v[i] : i \in {j \in DOMAIN v : v[j] # Nil}}
  ELSE {v}

Children(n) == UNION {ChildrenAt(Shape[n.kind][f], n[f]) : f \in Fields(n.kind)}

-------------------------------------------------------------------------------
(* The tables and the Go types, compared: both are written down from the    *)
(* source on their own, so each line is a claim about the code.             *)

\* A value that is read is neither null nor an error.
ASSUME ScalarsApart ==
  /\ Nil # Failed
  /\ Nil # "" /\ Failed # ""
  /\ Nil # FALSE /\ Failed # FALSE
  /\ Nil \notin CaseKinds

\* No list type is also the name of a type that is no list.
ASSUME ListsApart ==
  /\ \A e \in Elements : IsList(List(e)) /\ ElemOf(List(e)) = e
  /\ \A c \in {"string", "bool"} \cup DOMAIN Envelope \cup RecordKinds : ~ IsList(c)

\* Every interface knows exactly its own kinds, and no record.
ASSUME EnvelopesComplete ==
  /\ \A c \in DOMAIN Envelope :
       /\ Envelope[c] = KindsOf(c)
       /\ Envelope[c] \subseteq DOMAIN Wire \ RecordKinds
       /\ c \notin {"string", "bool"}
  /\ \A k \in RecordKinds : KindsOf(k) = {k} /\ k \in DOMAIN Wire
  /\ \A k \in DOMAIN Wire \ RecordKinds : \E c \in DOMAIN Envelope : k \in KindsOf(c)

\* The Go type of the field that a reader fills.
ReaderType(r) ==
  CASE r.how \in {"string", "nonempty", "casekind"} -> "string"
    [] r.how = "bool"           -> "bool"
    [] r.how = "strings"        -> List("string")
    [] r.how \in ListReaders    -> List(r.cat)
    [] r.how \in ChildReaders   -> r.cat

\* A reader fits the Go type of its field, leaves out only what reads back as
\* the zero value, and refuses exactly what the field must never be.
RowFits(k, f) ==
  LET r == Wire[k][f]
  IN  /\ Shape[k][f] = ReaderType(r)
      /\ r.how \in {"string", "nonempty", "casekind", "bool", "strings"}
                     \cup ListReaders \cup ChildReaders
      /\ r.omit => r.how \in {"string", "optional", "pointer"}
      /\ r.how \in {"optional", "required", "raws"} => r.cat \in DOMAIN Envelope
      /\ r.how \in {"pointer", "pointers"} => r.cat \in RecordKinds \ {"SelectCase"}
      /\ r.how = "cases" => r.cat = "SelectCase"
      /\ r.how \in ListReaders => r.cat \in Elements \ {"string"}
      /\ k \in DOMAIN NeverNil /\ f \in NeverNil[k] => r.how = "required"
      /\ k \in DOMAIN NeverEmpty /\ f = NeverEmpty[k] => r.how = "nonempty"
      /\ f = "case" => r.how = "casekind"
      /\ r.how = "required" => k \in DOMAIN NeverNil /\ f \in NeverNil[k]
      /\ r.how = "nonempty" => k \in DOMAIN NeverEmpty /\ f = NeverEmpty[k]
      /\ r.how = "casekind" => k = "SelectCase" /\ f = "case"

ASSUME WireAgrees ==
  /\ DOMAIN Wire = DOMAIN Shape
  /\ \A k \in DOMAIN Wire :
       /\ DOMAIN Wire[k] = Fields(k)
       /\ "kind" \notin Fields(k)
       /\ "case" \in Fields(k) <=> k = "SelectCase"
       /\ k \in DOMAIN NeverNil => NeverNil[k] \subseteq Fields(k)
       /\ k \in DOMAIN NeverEmpty => NeverEmpty[k] \in Fields(k)
       /\ \A f \in Fields(k) : RowFits(k, f)
===============================================================================
