----------------------------- MODULE MCIRSession ------------------------------
(***************************************************************************)
(* Nodes for IRSession: of every kind, all combinations of small values of  *)
(* its fields: nil and the two shortest lists, nil and two children; and    *)
(* what the translator makes of small Go files.  The recursion of the codec *)
(* is tied here: Encode is EncodeNode, Decode is DecodeNode.  (The LETs: TLC *)
(* unfolds other definitions when it counts coverage, without end here.)     *)
(***************************************************************************)
EXTENDS IRSession, Translate

MCEncode(n) == LET object == EncodeNode(n) IN object
MCDecode(k, d) == LET tree == DecodeNode(k, d) IN tree
MCWellFormed(n) == LET fits == WellFormedNode(n) IN fits

\* The smallest nodes of a Go type, the seeds of all others.
Seeds(c) ==
  CASE c = "Expr" -> {[kind |-> "Ident", name |-> "x"],
                      [kind |-> "BuiltinCall", name |-> "recover", args |-> Nil]}
    [] c = "Type" -> {[kind |-> "IntType"], [kind |-> "NamedType", name |-> "T"]}
    [] c = "Stmt" -> {[kind |-> "Return", results |-> <<>>],
                      [kind |-> "BuiltinCall", name |-> "panic", args |-> <<>>]}
    [] c = "Decl" -> {[kind |-> "TypeDecl", name |-> "T",
                       underlying |-> [kind |-> "StructType", fields |-> Nil]]}
    [] c = "Param" -> {[kind |-> "Param", name |-> "", type |-> Nil]}
    [] c = "Receiver" -> {[kind |-> "Receiver", name |-> "", type |-> "T",
                           pointer |-> TRUE]}
    [] c = "File" -> {[kind |-> "File", name |-> "f", imports |-> Nil,
                       decls |-> <<>>]}
    [] c = "StructField" -> {[kind |-> "StructField", name |-> "a",
                              type |-> [kind |-> "IntType"]]}
    [] c = "MethodSig" -> {[kind |-> "MethodSig", name |-> "M", params |-> Nil,
                            results |-> <<>>]}
    [] c = "MapEntry" -> {[kind |-> "MapEntry", key |-> Nil,
                           value |-> [kind |-> "Ident", name |-> "x"]]}
    [] c = "StructLitField" -> {[kind |-> "StructLitField", name |-> "",
                                 value |-> [kind |-> "Ident", name |-> "x"]]}
    [] c = "SelectCase" -> {[kind |-> "SelectCase", case |-> "Recv",
                             chan |-> [kind |-> "Ident", name |-> "x"],
                             value |-> Nil, valueLhs |-> "", okLhs |-> "ok",
                             body |-> <<>>]}

\* The values given to field f of kind k.
Values(k, f) ==
  LET c == Shape[k][f]
      nonNil == k \in DOMAIN NeverNil /\ f \in NeverNil[k]
      nonEmpty == k \in DOMAIN NeverEmpty /\ f = NeverEmpty[k]
  IN  CASE f = "case" -> CaseKinds
        [] c = "string" -> IF nonEmpty THEN {"T"} ELSE {"", "a"}
        [] c = "bool" -> BOOLEAN
        [] c = List("string") -> {Nil, <<>>, <<"a">>}
        [] IsList(c) -> {Nil, <<>>}
                          \cup {<<s>> : s \in Seeds(ElemOf(c))}
        [] OTHER -> Seeds(c) \cup IF nonNil THEN {} ELSE {Nil}

NodesOf(k) ==
  FoldSet(LAMBDA f, ns : {(f :> v) @@ n : v \in Values(k, f), n \in ns},
          {[kind |-> k]}, Fields(k))

Samples == UNION {NodesOf(k) : k \in DOMAIN Shape}

-------------------------------------------------------------------------------
(* Go files of one function or one declaration, each around one node. *)

INT == Ident("int")
X == Ident("x")
One == BasicLit("INT", "1")
Recv == UnaryExpr("<-", X)
Elt(k, v) == KeyValueExpr(k, v)
FieldOf(t) == Field(<<"a", "b">>, t)
Embedded == Field(<<>>, Ident("T"))
Signature == FuncType(<<FieldOf(INT)>>, <<Field(<<>>, Ident("string"))>>)
Call(f, args) == CallExpr(Ident(f), args)
Text == BasicLit("STRING", "s")

Types ==
  { Ident("float64"), Ident("T"), Ident("error"), ArrayType(Nil, ArrayType(Nil, INT)),
    ArrayType(One, INT), MapType(INT, Ident("bool")), ChanType("both", INT),
    ChanType("send", INT), ChanType("both", Ident("any")), StarExpr(INT),
    StructType(<<>>), StructType(<<FieldOf(INT)>>), StructType(<<Embedded>>),
    InterfaceType(<<>>), InterfaceType(<<Field(<<"M">>, Signature)>>),
    InterfaceType(<<Embedded>>), Signature }

Exprs ==
  { Ident("true"), BasicLit("FLOAT", "1.5"), BasicLit("CHAR", "c"), Text,
    BinaryExpr("+", X, One), BinaryExpr("+", X, FuncLit(Signature, <<>>)),
    UnaryExpr("-", X), Recv, ParenExpr(X), SelectorExpr(X, "f"), StarExpr(X),
    IndexExpr(X, One), SliceExpr(X, Nil, One, Nil), SliceExpr(X, One, One, One),
    Call("len", <<X>>), Call("f", <<X>>), Call("recover", <<>>),
    Call("make", <<ChanType("both", INT)>>), Call("make", <<ChanType("both", INT), One>>),
    Call("make", <<ChanType("both", INT), One, One>>), Call("make", <<ArrayType(Nil, INT), One>>),
    CompositeLit(ArrayType(Nil, INT), <<>>), CompositeLit(ArrayType(Nil, INT), <<X, One>>),
    CompositeLit(MapType(INT, INT), <<Elt(One, X)>>), CompositeLit(MapType(INT, INT), <<X>>),
    CompositeLit(Ident("T"), <<Elt(Ident("a"), X)>>), CompositeLit(Ident("T"), <<X>>),
    CompositeLit(Ident("T"), <<X, Elt(Ident("a"), X)>>),
    CompositeLit(Ident("T"), <<Elt(One, X)>>),
    CompositeLit(ArrayType(Nil, INT), <<CompositeLit(Nil, <<X>>)>>) }

Do == ExprStmt(Call("f", <<X>>))
Block == BlockStmt(<<Do>>)
Comms ==
  { Nil, ExprStmt(Recv), ExprStmt(X), SendStmt(X, One),
    AssignStmt(<<Ident("v")>>, ":=", <<Recv>>),
    AssignStmt(<<Ident("_"), Ident("ok")>>, ":=", <<Recv>>),
    AssignStmt(<<Ident("v")>>, ":=", <<X>>),
    AssignStmt(<<Ident("v")>>, "=", <<Recv>>) }
Stmts ==
  {ExprStmt(e) : e \in Exprs}
    \cup {ReturnStmt(<<e>>) : e \in Exprs}
    \cup {SelectStmt(<<CommClause(c, <<Do>>)>>) : c \in Comms}
    \cup { AssignStmt(<<X>>, ":=", <<One>>), AssignStmt(<<X>>, "+=", <<One>>),
           AssignStmt(<<X, Ident("ok")>>, ":=", <<Recv>>),
           AssignStmt(<<X, Ident("y")>>, "=", <<One, Text>>),
           IfStmt(Nil, X, <<Do>>, Nil), IfStmt(Nil, X, <<>>, Block),
           IfStmt(Nil, X, <<Do>>, IfStmt(Nil, X, <<>>, Nil)),
           IfStmt(Nil, X, <<Do>>, IfStmt(Do, X, <<>>, Nil)), IfStmt(Do, X, <<Do>>, Nil),
           ForStmt(Nil, Nil, Nil, <<>>), ForStmt(Do, X, Do, <<Do>>),
           ForStmt(Nil, X, IncDecStmt(X, "++"), <<>>),
           RangeStmt(X, Ident("_"), ":=", X, <<Do>>), RangeStmt(Nil, Nil, "", X, <<>>),
           RangeStmt(One, Nil, "=", X, <<>>),
           DeferStmt(Call("f", <<>>)), GoStmt(Call("f", <<X>>)), GoStmt(Call("close", <<X>>)),
           DeferStmt(CallExpr(FuncLit(Signature, <<>>), <<>>)),
           SendStmt(X, One), SelectStmt(<<>>), ReturnStmt(<<>>), Block }

Main(recv, type, body) == FuncDecl(recv, "main", type, body)
Decls ==
  {Main(Nil, FuncType(<<>>, <<>>), <<s>>) : s \in Stmts}
    \cup {GenDecl("type", <<TypeSpec("T", t)>>) : t \in Types}
    \cup {Main(Nil, FuncType(<<FieldOf(t)>>, <<Field(<<>>, t)>>), <<>>) : t \in Types}
    \cup {Main(<<Field(<<"r">>, t)>>, Signature, <<>>) : t \in {X, StarExpr(X), ArrayType(Nil, X)}}
    \cup { Main(Nil, Signature, Nil), GenDecl("import", <<>>), GenDecl("var", <<>>) }

Sources ==
  {AstFile("main", <<>>, <<d>>) : d \in Decls}
    \cup {AstFile("main", <<"fmt">>, <<GenDecl("type", <<TypeSpec("T", INT)>>),
                                      Main(Nil, Signature, <<Do>>)>>)}

MCNodes == Samples \cup ({TransFile(f) : f \in Sources} \ {Failed})

-------------------------------------------------------------------------------
(* Every change of one place of an object d that holds a node of kind k. *)

\* Nodes of every interface, to put where they do not belong.
Strangers ==
  { [kind |-> "Ident", name |-> "x"],
    [kind |-> "IntType"],
    [kind |-> "Return", results |-> Nil] }

RECURSIVE MCDamages(_, _)
DamagedValue(r, v) ==
  LET strangers == {Encode(s) : s \in Strangers}
      put(i, es) == {[v EXCEPT ![i] = e] : e \in {Nil} \cup es}
  IN  CASE v = Nil -> {}
        [] r.how \in {"optional", "required"} -> strangers \cup MCDamages(v.kind, v)
        [] r.how = "pointer"  -> MCDamages(r.cat, v)
        [] r.how = "raws"     ->
             UNION {put(i, strangers \cup MCDamages(v[i].kind, v[i])) : i \in DOMAIN v}
        [] r.how \in {"pointers", "cases"} ->
             UNION {put(i, MCDamages(r.cat, v[i])) : i \in DOMAIN v}
        [] r.how = "casekind" -> {"Timeout"}
        [] OTHER -> {}

MCDamages(k, d) ==
  LET fields == {f \in DOMAIN Wire[k] : KeyOf(f) \in DOMAIN d}
      without(key) == [j \in DOMAIN d \ {key} |-> d[j]]
  IN  {without(key) : key \in DOMAIN d}
        \cup {[d EXCEPT ![KeyOf(f)] = Nil] : f \in fields}
        \cup UNION {{[d EXCEPT ![KeyOf(f)] = v] :
                       v \in DamagedValue(Wire[k][f], d[KeyOf(f)])} : f \in fields}
        \cup (IF "case" \in fields THEN {} ELSE {[d EXCEPT !["kind"] = "Unknown"]})
===============================================================================
