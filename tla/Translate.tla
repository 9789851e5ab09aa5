------------------------------ MODULE Translate -------------------------------
(***************************************************************************)
(* The translator (compiler/internal/translate): a walk of a Go file's      *)
(* syntax tree that builds the IR, or ends with the first error.  Failed    *)
(* stands for every error; what has a part that Failed has Failed.          *)
(***************************************************************************)
EXTENDS GoAST, Functions, SequencesExt

\* The list of what was made of the elements: nil when there are none.
ListOf(list) == IF list = <<>> THEN Nil ELSE Made(list)

-------------------------------------------------------------------------------
(* Types *)

SupportedBuiltin == ("int" :> "IntType") @@ ("string" :> "StringType")
                      @@ ("bool" :> "BoolType") @@ ("float64" :> "Float64Type")
UnsupportedBuiltinType ==
  {"int8", "int16", "int32", "int64", "uint", "uint8", "uint16", "uint32", "uint64",
   "uintptr", "byte", "rune", "float32", "complex64", "complex128", "error", "any",
   "comparable"}

\* A name that is not predeclared may be undefined: the emitter finds out.
TransTypeName(name) ==
  CASE name \in DOMAIN SupportedBuiltin -> [kind |-> SupportedBuiltin[name]]
    [] name \in UnsupportedBuiltinType  -> Failed
    [] OTHER -> [kind |-> "NamedType", name |-> name]

RECURSIVE TransType(_)

\* One node per name of a field, or a single one without a name.
Param(name, t) == Made([kind |-> "Param", name |-> name, type |-> t])
TransField(field, t) ==
  IF field.names = <<>> THEN <<Param("", t)>>
  ELSE [i \in DOMAIN field.names |-> Param(field.names[i], t)]
TransFieldList(fields) ==
  ListOf(FlattenSeq([i \in DOMAIN fields |-> TransField(fields[i], TransType(fields[i].type))]))

\* A field without a name is embedded.
StructFields(field, t) ==
  IF field.names = <<>> THEN <<Failed>>
  ELSE [i \in DOMAIN field.names |->
         Made([kind |-> "StructField", name |-> field.names[i], type |-> t])]
TransStructType(t) ==
  Made([kind |-> "StructType",
        fields |-> ListOf(FlattenSeq([i \in DOMAIN Elems(t.fields) |->
                            StructFields(t.fields[i], TransType(t.fields[i].type))]))])

Methods(field) ==
  IF field.names = <<>> \/ field.type.ast # "FuncType" THEN <<Failed>>
  ELSE [i \in DOMAIN field.names |->
         Made([kind |-> "MethodSig", name |-> field.names[i],
               params |-> TransFieldList(field.type.params),
               results |-> TransFieldList(field.type.results)])]
TransInterfaceType(t) ==
  Made([kind |-> "InterfaceType",
        methods |-> ListOf(FlattenSeq([i \in DOMAIN Elems(t.methods) |->
                                         Methods(t.methods[i])]))])

TransElemType(kind, e) == Made([kind |-> kind, elem |-> TransType(e)])
TransMapType(t) ==
  Made([kind |-> "MapType", key |-> TransType(t.key), value |-> TransType(t.value)])

TransType(e) ==
  CASE e.ast = "Ident"     -> TransTypeName(e.name)
    [] e.ast = "ArrayType" /\ e.len = Nil    -> TransElemType("SliceType", e.elt)
    [] e.ast = "ChanType" /\ e.dir = "both"  -> TransElemType("ChanType", e.value)
    [] e.ast = "MapType"   -> TransMapType(e)
    [] e.ast = "StructType"    -> TransStructType(e)
    [] e.ast = "InterfaceType" -> TransInterfaceType(e)
    [] OTHER -> Failed

-------------------------------------------------------------------------------
(* Expressions *)

LitKinds == ("INT" :> "int") @@ ("STRING" :> "string") @@ ("FLOAT" :> "float")

TransIdent(e) ==
  IF e.name \in {"true", "false"}
  THEN [kind |-> "Lit", litKind |-> "bool", value |-> e.name]
  ELSE [kind |-> "Ident", name |-> e.name]

TransBasicLit(e) ==
  IF e.tok \in DOMAIN LitKinds
  THEN [kind |-> "Lit", litKind |-> LitKinds[e.tok], value |-> e.value]
  ELSE Failed

RECURSIVE TransExpr(_)
TransExprList(es) == ListOf([i \in DOMAIN es |-> TransExpr(es[i])])

\* A part that may be absent.
TransOptional(e) == IF e = Nil THEN Nil ELSE TransExpr(e)

TransBinary(e) ==
  Made([kind |-> "BinOp", op |-> e.op, x |-> TransExpr(e.x), y |-> TransExpr(e.y)])

IsReceive(e) == e.ast = "UnaryExpr" /\ e.op = "<-"
Unary(e, x) ==
  IF IsReceive(e) THEN [kind |-> "ChanRecv", chan |-> x, commaOk |-> FALSE]
  ELSE [kind |-> "UnaryOp", op |-> e.op, x |-> x]
TransUnary(e) == Made(Unary(e, TransExpr(e.x)))

TransSelector(e) == Made([kind |-> "Selector", x |-> TransExpr(e.x), sel |-> e.sel])

TransIndex(e) ==
  Made([kind |-> "IndexExpr", x |-> TransExpr(e.x), index |-> TransExpr(e.index)])

TransSlice(e) ==
  IF e.max # Nil THEN Failed
  ELSE Made([kind |-> "SliceExpr", x |-> TransExpr(e.x),
             low |-> TransOptional(e.low), high |-> TransOptional(e.high)])

\* Composite literals.  Keys are given for every field of a struct or for none.
StructLitField(name, value) ==
  Made([kind |-> "StructLitField", name |-> name, value |-> value])
TransStructField(elt) ==
  CASE elt.ast # "KeyValueExpr"  -> StructLitField("", TransExpr(elt))
    [] elt.ast = "KeyValueExpr" /\ elt.key.ast = "Ident" ->
         StructLitField(elt.key.name, TransExpr(elt.value))
    [] OTHER -> Failed
TransStructFields(elts) ==
  IF Cardinality({elts[i].ast = "KeyValueExpr" : i \in DOMAIN elts}) > 1 THEN Failed
  ELSE ListOf([i \in DOMAIN elts |-> TransStructField(elts[i])])

TransMapEntry(elt) ==
  IF elt.ast # "KeyValueExpr" THEN Failed
  ELSE Made([kind |-> "MapEntry", key |-> TransExpr(elt.key), value |-> TransExpr(elt.value)])
TransMapEntries(elts) == ListOf([i \in DOMAIN elts |-> TransMapEntry(elts[i])])

\* A name is taken for that of a struct type.
TransCompositeLit(e) ==
  CASE e.type = Nil -> Failed
    [] e.type # Nil /\ e.type.ast = "ArrayType" /\ e.type.len = Nil ->
         Made([kind |-> "SliceLit", elem |-> TransType(e.type.elt),
               elems |-> TransExprList(e.elts)])
    [] e.type # Nil /\ e.type.ast = "MapType" ->
         Made([kind |-> "MapLit", key |-> TransType(e.type.key),
               value |-> TransType(e.type.value), entries |-> TransMapEntries(e.elts)])
    [] e.type # Nil /\ e.type.ast = "Ident" ->
         Made([kind |-> "StructLit", typeName |-> e.type.name,
               fields |-> TransStructFields(e.elts)])
    [] OTHER -> Failed

\* Calls.  The name alone decides that one is a builtin.
BuiltinNames == {"append", "cap", "len", "delete", "panic", "recover", "close"}
IsNamed(e, names) == e.ast = "Ident" /\ e.name \in names

TransBuiltinCall(c) ==
  Made([kind |-> "BuiltinCall", name |-> c.fun.name, args |-> TransExprList(c.args)])

\* make (chan T) and make (chan T, n); no other make gets here.
IsMakeChan(c) ==
  IsNamed(c.fun, {"make"}) /\ c.args # <<>> /\ c.args[1].ast = "ChanType"
MakeChanOf(type, capacity) ==
  IF type = Failed THEN Failed
  ELSE Made([kind |-> "MakeChan", elem |-> type.elem, capacity |-> capacity])
TransMakeChan(c) ==
  IF Len(c.args) > 2 THEN Failed
  ELSE MakeChanOf(TransType(c.args[1]),
                  IF Len(c.args) = 1 THEN Nil ELSE TransExpr(c.args[2]))

TransGeneralCall(c) ==
  Made([kind |-> "Call", fun |-> TransExpr(c.fun), args |-> TransExprList(c.args)])

\* A call as a statement, deferred or started: tryBuiltinCall, then transCall.
TransCall(c) ==
  IF IsNamed(c.fun, BuiltinNames) THEN TransBuiltinCall(c) ELSE TransGeneralCall(c)

\* As an expression only make and the builtins are calls.
TransCallExpr(c) ==
  CASE IsMakeChan(c) -> TransMakeChan(c)
    [] IsNamed(c.fun, BuiltinNames) -> TransBuiltinCall(c)
    [] OTHER -> Failed

TransExpr(e) ==
  CASE e.ast = "Ident"        -> TransIdent(e)
    [] e.ast = "BasicLit"     -> TransBasicLit(e)
    [] e.ast = "BinaryExpr"   -> TransBinary(e)
    [] e.ast = "UnaryExpr"    -> TransUnary(e)
    [] e.ast = "SelectorExpr" -> TransSelector(e)
    [] e.ast = "ParenExpr"    -> TransExpr(e.x)
    [] e.ast = "CompositeLit" -> TransCompositeLit(e)
    [] e.ast = "IndexExpr"    -> TransIndex(e)
    [] e.ast = "SliceExpr"    -> TransSlice(e)
    [] e.ast = "CallExpr"     -> TransCallExpr(e)
    [] OTHER -> Failed

-------------------------------------------------------------------------------
(* Statements *)

RECURSIVE TransStmt(_)
TransStmtList(ss) == ListOf([i \in DOMAIN ss |-> TransStmt(ss[i])])

\* v, ok := <-c: only the two names on the left tell it from v := <-c.
CommaOk(lhs, rhs) ==
  IF Len(lhs) = 2 /\ Len(rhs) = 1 /\ rhs[1].kind = "ChanRecv"
  THEN [rhs EXCEPT ![1].commaOk = TRUE] ELSE rhs
Assign(define, lhs, rhs) ==
  IF Failed \in {lhs, rhs} THEN Failed
  ELSE [kind |-> "Assign", lhs |-> lhs, define |-> define, rhs |-> CommaOk(lhs, rhs)]
TransAssign(s) ==
  IF s.tok \notin {"=", ":="} THEN Failed
  ELSE Assign(s.tok = ":=", TransExprList(s.lhs), TransExprList(s.rhs))

RECURSIVE TransIf(_)
TransElse(els) ==
  CASE els = Nil -> Nil
    [] els # Nil /\ els.ast = "BlockStmt" -> TransStmtList(els.list)
    [] OTHER -> ListOf(<<TransIf(els)>>)
TransIf(s) ==
  IF s.init # Nil THEN Failed
  ELSE Made([kind |-> "If", cond |-> TransExpr(s.cond), then |-> TransStmtList(s.body),
             else |-> TransElse(s.els)])

TransOptionalStmt(s) == IF s = Nil THEN Nil ELSE TransStmt(s)
TransFor(s) ==
  Made([kind |-> "For", init |-> TransOptionalStmt(s.init), cond |-> TransOptional(s.cond),
        post |-> TransOptionalStmt(s.post), body |-> TransStmtList(s.body)])

\* Absent and _ are the same name.
IdentNameOrBlank(e) ==
  CASE e = Nil -> ""
    [] e # Nil /\ e.ast = "Ident" -> IF e.name = "_" THEN "" ELSE e.name
    [] OTHER -> Failed

TransRange(s) ==
  Made([kind |-> "RangeStmt", keyName |-> IdentNameOrBlank(s.key),
        valueName |-> IdentNameOrBlank(s.value), define |-> s.tok = ":=",
        x |-> TransExpr(s.x), body |-> TransStmtList(s.body)])

TransSend(s) ==
  Made([kind |-> "ChanSend", chan |-> TransExpr(s.chan), value |-> TransExpr(s.value)])

TransExprStmt(s) ==
  IF s.x.ast = "CallExpr" THEN TransCall(s.x)
  ELSE Made([kind |-> "ExprStmt", x |-> TransExpr(s.x)])

\* The head of a select clause: default, c <- v, v := <-c, v, ok := <-c, <-c.
SelectCase(case, chan, value, valueLhs, okLhs, body) ==
  Made([kind |-> "SelectCase", case |-> case, chan |-> chan, value |-> value,
        valueLhs |-> valueLhs, okLhs |-> okLhs, body |-> body])
RecvCase(x, lhs, body) ==
  IF ~ IsReceive(x) THEN Failed
  ELSE SelectCase("Recv", TransExpr(x.x), Nil,
                  IF lhs = <<>> THEN "" ELSE IdentNameOrBlank(lhs[1]),
                  IF Len(lhs) < 2 THEN "" ELSE IdentNameOrBlank(lhs[2]), body)
CommClauseHead(comm, body) ==
  CASE comm = Nil -> SelectCase("Default", Nil, Nil, "", "", body)
    [] comm # Nil /\ comm.ast = "SendStmt" ->
         SelectCase("Send", TransExpr(comm.chan), TransExpr(comm.value), "", "", body)
    [] comm # Nil /\ comm.ast = "AssignStmt" /\ comm.tok = ":=" ->
         RecvCase(comm.rhs[1], comm.lhs, body)
    [] comm # Nil /\ comm.ast = "ExprStmt" -> RecvCase(comm.x, <<>>, body)
    [] OTHER -> Failed

\* The one list that is made even when it is empty.
TransSelect(s) ==
  Made([kind |-> "SelectStmt",
        cases |-> Made([i \in DOMAIN s.clauses |->
                         CommClauseHead(s.clauses[i].comm, TransStmtList(s.clauses[i].body))])])

TransStmt(s) ==
  CASE s.ast = "AssignStmt" -> TransAssign(s)
    [] s.ast = "IfStmt"     -> TransIf(s)
    [] s.ast = "ForStmt"    -> TransFor(s)
    [] s.ast = "RangeStmt"  -> TransRange(s)
    [] s.ast \in {"DeferStmt", "GoStmt"} -> Made([kind |-> s.ast, call |-> TransCall(s.call)])
    [] s.ast = "SelectStmt" -> TransSelect(s)
    [] s.ast = "SendStmt"   -> TransSend(s)
    [] s.ast = "ReturnStmt" -> Made([kind |-> "Return", results |-> TransExprList(s.results)])
    [] s.ast = "ExprStmt"   -> TransExprStmt(s)
    [] OTHER -> Failed

-------------------------------------------------------------------------------
(* Declarations *)

\* T or *T, with or without a name.
Receiver(field, pointer, type) ==
  IF type.ast # "Ident" THEN Failed
  ELSE [kind |-> "Receiver", name |-> IF field.names = <<>> THEN "" ELSE field.names[1],
        type |-> type.name, pointer |-> pointer]
TransReceiver(recv) ==
  CASE recv = Nil -> Nil
    [] recv # Nil /\ recv[1].type.ast = "StarExpr" ->
         Receiver(recv[1], TRUE, recv[1].type.x)
    [] OTHER -> Receiver(recv[1], FALSE, recv[1].type)

TransFunc(fd) ==
  IF fd.body = Nil THEN Failed
  ELSE Made([kind |-> "Function", name |-> fd.name, receiver |-> TransReceiver(fd.recv),
             params |-> TransFieldList(fd.type.params),
             results |-> TransFieldList(fd.type.results),
             body |-> TransStmtList(fd.body)])

TransTypeDecl(spec) ==
  Made([kind |-> "TypeDecl", name |-> spec.name, underlying |-> TransType(spec.type)])

TransDecl(d) ==
  CASE d.ast = "FuncDecl" -> <<TransFunc(d)>>
    [] d.ast = "GenDecl" /\ d.tok = "import" -> <<>>
    [] d.ast = "GenDecl" /\ d.tok = "type" ->
         [i \in DOMAIN d.specs |-> TransTypeDecl(d.specs[i])]
    [] OTHER -> <<Failed>>

\* File: a package of one file, which the driver names.
IRFile(imports, decls) ==
  Made([kind |-> "File", name |-> "", imports |-> imports, decls |-> decls])
TransFile(f) ==
  Made([kind |-> "Package", name |-> f.name,
        files |-> Made(<<IRFile(IF f.imports = <<>> THEN Nil ELSE f.imports,
                                ListOf(FlattenSeq([i \in DOMAIN f.decls |->
                                                     TransDecl(f.decls[i])])))>>)])
===============================================================================
