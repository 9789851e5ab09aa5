------------------------------ MODULE EmitFacts -------------------------------
(***************************************************************************)
(* The emitter's pre-pass over a file (newEmitter, collectSliceElems): what *)
(* the Ada unit must declare before any subprogram is emitted.              *)
(*                                                                          *)
(* An instance is a generic package the unit declares: <<"Slices", T>>,      *)
(* <<"Maps", K, V>>, <<"Channels", T>>, <<"Selectors", T>>, <<"Panic">>, T a  *)
(* kind of type.  Equal go statements share a number here: the closures   *)
(* that the code gives them differ in nothing else.                          *)
(***************************************************************************)
EXTENDS IR, Functions, SequencesExt

\* elemBaseName and mapKeyBaseName: the types that have a base name.
ElemBase(t) == IF t # Nil /\ t.kind \in BasicTypes THEN t.kind ELSE Failed
MapBase(t) ==
  IF t # Nil /\ t.kind \in BasicTypes \ {"StringType"} THEN t.kind ELSE Failed

SlicePkg(elem) == Made(<<"Slices", ElemBase(elem)>>)
ChanPkg(elem) == Made(<<"Channels", ElemBase(elem)>>)
MapPkg(key, value) == Made(<<"Maps", MapBase(key), MapBase(value)>>)
Panics == <<"Panic">>

-------------------------------------------------------------------------------
(* The nodes that walkStmt and walkExpr visit, in the order they do.  The   *)
(* fields of a struct literal are not visited.                              *)

RECURSIVE WalkExpr(_)
WalkExprs(xs) == FlattenSeq([i \in DOMAIN Elems(xs) |-> WalkExpr(xs[i])])
WalkExpr(x) ==
  IF x = Nil THEN <<>>
  ELSE <<x>> \o
    CASE x.kind = "SliceLit"  -> WalkExprs(x.elems)
      [] x.kind = "MakeChan"  -> WalkExpr(x.capacity)
      [] x.kind = "ChanRecv"  -> WalkExpr(x.chan)
      [] x.kind = "MapLit"    ->
           FlattenSeq([i \in DOMAIN Elems(x.entries) |->
                        WalkExpr(x.entries[i].key) \o WalkExpr(x.entries[i].value)])
      [] x.kind = "IndexExpr" -> WalkExpr(x.x) \o WalkExpr(x.index)
      [] x.kind = "SliceExpr" -> WalkExpr(x.x) \o WalkExpr(x.low) \o WalkExpr(x.high)
      [] x.kind = "BuiltinCall" -> WalkExprs(x.args)
      [] x.kind = "BinOp"     -> WalkExpr(x.x) \o WalkExpr(x.y)
      [] x.kind \in {"UnaryOp", "Selector"} -> WalkExpr(x.x)
      [] x.kind \in {"Ident", "Lit", "StructLit"} -> <<>>

RECURSIVE WalkStmt(_)
WalkStmts(ss) == FlattenSeq([i \in DOMAIN Elems(ss) |-> WalkStmt(ss[i])])
WalkCase(c) ==
  (IF c.case # "Default" THEN WalkExpr(c.chan) ELSE <<>>)
    \o (IF c.case = "Send" THEN WalkExpr(c.value) ELSE <<>>) \o WalkStmts(c.body)
WalkStmt(s) ==
  IF s = Nil THEN <<>>
  ELSE <<s>> \o
    CASE s.kind = "Assign"   -> WalkExprs(s.lhs) \o WalkExprs(s.rhs)
      [] s.kind = "If"       -> WalkExpr(s.cond) \o WalkStmts(s.then)
                                  \o WalkStmts(s.else)
      [] s.kind = "For"      -> WalkStmt(s.init) \o WalkExpr(s.cond)
                                  \o WalkStmt(s.post) \o WalkStmts(s.body)
      [] s.kind = "Return"   -> WalkExprs(s.results)
      [] s.kind = "Call"     -> WalkExpr(s.fun) \o WalkExprs(s.args)
      [] s.kind = "ExprStmt" -> WalkExpr(s.x)
      [] s.kind = "BuiltinCall" -> WalkExprs(s.args)
      [] s.kind = "RangeStmt" -> WalkExpr(s.x) \o WalkStmts(s.body)
      [] s.kind \in {"DeferStmt", "GoStmt"} -> WalkStmt(s.call)
      [] s.kind = "ChanSend" -> WalkExpr(s.chan) \o WalkExpr(s.value)
      [] s.kind = "SelectStmt" ->
           FlattenSeq([i \in DOMAIN Elems(s.cases) |-> WalkCase(s.cases[i])])

-------------------------------------------------------------------------------
(* What one node asks for *)

RECURSIVE TypeInstances(_)
TypeInstances(t) ==
  CASE t = Nil -> {}
    [] t.kind = "SliceType" -> {SlicePkg(t.elem)} \cup TypeInstances(t.elem)
    [] t.kind = "ChanType"  -> {ChanPkg(t.elem)} \cup TypeInstances(t.elem)
    [] t.kind = "MapType"   -> {MapPkg(t.key, t.value)} \cup TypeInstances(t.key)
                                 \cup TypeInstances(t.value)
    [] OTHER -> {}

\* A select records the element types of the channels it names, as far as the
\* file has been read (recordSelectorElem); an unsupported one is ignored.
SelectorInstances(cases, idents) ==
  LET named == {c.chan.name : c \in {d \in Range(Elems(cases)) :
                   d.case # "Default" /\ d.chan # Nil /\ d.chan.kind = "Ident"}}
  IN  {<<"Selectors", ElemBase(idents[v])>> :
         v \in {n \in named \cap DOMAIN idents : ElemBase(idents[n]) # Failed}}

\* Mutant of IsPanicCall: recover( ) is forgotten.
IsPanicCallOnly(n) == n.kind = "BuiltinCall" /\ n.name = "panic"

IsPanicCall(n) == n.kind = "BuiltinCall" /\ n.name \in {"panic", "recover"}

NodeInstances(n, idents) ==
  CASE n.kind = "SliceLit" -> {SlicePkg(n.elem)} \cup TypeInstances(n.elem)
    [] n.kind = "MakeChan" -> {ChanPkg(n.elem)} \cup TypeInstances(n.elem)
    [] n.kind = "MapLit"   -> {MapPkg(n.key, n.value)} \cup TypeInstances(n.key)
                                \cup TypeInstances(n.value)
    [] n.kind = "SelectStmt" -> SelectorInstances(n.cases, idents)
    [] IsPanicCall(n)      -> {Panics}
    [] OTHER               -> {}

\* goCallArgCount
GoCallArgs(g) == IF g.call.kind \in {"Call", "BuiltinCall"}
                 THEN Len(Elems(g.call.args)) ELSE 0

NodeNeeds(n) ==
  CASE n.kind = "DeferStmt" -> {"Defer"}
    [] n.kind = "GoStmt"    -> {"Scheduler"}
                                 \cup IF GoCallArgs(n) > 0 THEN {"GoArgs"} ELSE {}
    [] OTHER                -> {}

-------------------------------------------------------------------------------
(* The pre-pass, one declaration at a time *)

IsDefine(s) == s.kind = "Assign" /\ s.define
IsSingle(a) == Len(Elems(a.lhs)) = 1 /\ Len(Elems(a.rhs)) = 1

\* The run of := a body begins with, where Ada's declarations come from.
LeadingDefines(body) ==
  LET b == Elems(body)
      stops == {i \in DOMAIN b : ~ IsDefine(b[i])}
  IN  SubSeq(b, 1, IF stops = {} THEN Len(b) ELSE Min(stops) - 1)

\* name := make (chan T) among them; a name bound twice keeps its last type.
MadeChans(body) ==
  FoldLeft(LAMBDA f, a : IF IsSingle(a) /\ a.lhs[1].kind = "Ident"
                              /\ a.rhs[1].kind = "MakeChan"
                         THEN (a.lhs[1].name :> a.rhs[1].elem) @@ f ELSE f,
           <<>>, LeadingDefines(body))

ChanParams(params) ==
  FoldLeft(LAMBDA f, p : IF p.name # "" /\ p.type # Nil /\ p.type.kind = "ChanType"
                         THEN (p.name :> p.type.elem) @@ f ELSE f,
           <<>>, Elems(params))

NoFacts(file) ==
  [ funcs      |-> <<>>,   \* funcByName
    chanIdents |-> <<>>,   \* chanIdentTypes: one map for the whole file
    instances  |-> {},     \* sliceElems, mapPairs, chanElems, selectorElems
    needs      |-> IF "fmt" \in Range(Elems(file.imports)) THEN {"IO"} ELSE {},
    gos        |-> <<>> ]  \* goIndex: a go statement's number is its place

CollectFunction(facts, fn) ==
  LET nodes  == WalkStmts(fn.body)
      idents == MadeChans(fn.body) @@ ChanParams(fn.params) @@ facts.chanIdents
      signature == UNION {TypeInstances(p.type) :
                            p \in Range(Elems(fn.params) \o Elems(fn.results))}
  IN  [ funcs      |-> (fn.name :> fn) @@ facts.funcs,
        chanIdents |-> idents,
        instances  |-> facts.instances \cup signature
                         \cup UNION {NodeInstances(n, idents) : n \in Range(nodes)},
        needs      |-> facts.needs \cup UNION {NodeNeeds(n) : n \in Range(nodes)},
        gos        |-> facts.gos \o SelectSeq(nodes, LAMBDA n : n.kind = "GoStmt") ]

CollectFailed(facts) == Failed \in facts.instances

GoIndex(facts, g) == CHOOSE i \in DOMAIN facts.gos : facts.gos[i] = g
===============================================================================
