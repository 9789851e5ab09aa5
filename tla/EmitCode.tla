------------------------------- MODULE EmitCode -------------------------------
(***************************************************************************)
(* How the emitter lowers expressions and statements (emitExpr, emitStmt    *)
(* and what they call) to Ada.                                              *)
(*                                                                          *)
(* The Ada side is a tree.  An expression is a record with field "ada":      *)
(* "lit", "name", "op", "field" (a dotted name) or "apply", the application  *)
(* of a subprogram of a runtime instance; a statement has "ada" one of       *)
(* "null", "assign", "if", "loop", "for", "return", "invoke" (a subprogram   *)
(* of the program), "apply", "print", "spawn", "while" (over a map),         *)
(* "select" or "raise".  Layout, and the spelling of names (adaIdent), are    *)
(* left out.                                                                *)
(*                                                                          *)
(* An environment e has the facts of the pre-pass and locals, the types of   *)
(* the local names the emitter knows (localTypes).  Whatever has a part that *)
(* Failed has Failed.                                                        *)
(***************************************************************************)
EXTENDS EmitFacts

Apply(pkg, op, args) ==
  Made([ada |-> "apply", pkg |-> pkg, op |-> op, args |-> Made(args)])
AdaLit(v) == [ada |-> "lit", value |-> v]
AdaOp(op, args) == Made([ada |-> "op", op |-> op, args |-> Made(args)])
PlusOne(x) == AdaOp("+", <<x, AdaLit("1")>>)

\* slicePkgForExpr, mapPkgForExpr, chanPkgForExpr: only a name whose type is
\* known has an instance.
IsLocal(x, e, kind) ==
  /\ x # Nil /\ x.kind = "Ident" /\ x.name \in DOMAIN e.locals
  /\ e.locals[x.name].kind = kind
SliceOf(x, e) ==
  IF IsLocal(x, e, "SliceType") THEN SlicePkg(e.locals[x.name].elem) ELSE Failed
MapOf(x, e) ==
  IF IsLocal(x, e, "MapType")
  THEN MapPkg(e.locals[x.name].key, e.locals[x.name].value) ELSE Failed
ChanOf(x, e) ==
  IF IsLocal(x, e, "ChanType") THEN ChanPkg(e.locals[x.name].elem) ELSE Failed

-------------------------------------------------------------------------------
(* Expressions *)

BinOps == {"+", "-", "*", "/", "<", ">", "<=", ">="}
RenamedOps == ("==" :> "=") @@ ("!=" :> "/=") @@ ("&&" :> "and")
                @@ ("||" :> "or") @@ ("%" :> "mod")
UnaryOps == ("-" :> "-") @@ ("+" :> "+") @@ ("!" :> "not")

EmitLit(l) ==
  CASE l.litKind \in {"int", "float", "string"} -> AdaLit(l.value)
    [] l.litKind = "bool" -> AdaLit(IF l.value = "true" THEN "True" ELSE "False")
    [] OTHER -> Failed

RECURSIVE EmitExpr(_, _)
EmitExprs(xs, e) == [i \in DOMAIN Elems(xs) |-> EmitExpr(xs[i], e)]

BinOp(op) ==
  CASE op \in BinOps -> op
    [] op \in DOMAIN RenamedOps -> RenamedOps[op]
    [] OTHER -> Failed
EmitBinOp(b, e) == AdaOp(BinOp(b.op), EmitExprs(<<b.x, b.y>>, e))

EmitUnaryOp(u, e) ==
  IF u.op \notin DOMAIN UnaryOps THEN Failed
  ELSE AdaOp(UnaryOps[u.op], EmitExprs(<<u.x>>, e))

EmitSelector(s, e) == Made([ada |-> "field", of |-> EmitExpr(s.x, e), name |-> s.sel])

EmitSliceLit(s, e) ==
  IF Elems(s.elems) = <<>> THEN Apply(SlicePkg(s.elem), "Empty", <<>>)
  ELSE Apply(SlicePkg(s.elem), "From_Array", EmitExprs(s.elems, e))

EmitMapLit(m, e) ==
  IF Elems(m.entries) = <<>> THEN Apply(MapPkg(m.key, m.value), "Make_Map", <<>>)
  ELSE Apply(MapPkg(m.key, m.value), "From_Pairs",
             FlattenSeq([i \in DOMAIN m.entries |->
                          EmitExprs(<<m.entries[i].key, m.entries[i].value>>, e)]))

\* An unbuffered channel becomes one of capacity 1.
EmitMakeChan(m, e) ==
  Apply(ChanPkg(m.elem), "Make",
        <<IF m.capacity = Nil THEN AdaLit("1") ELSE EmitExpr(m.capacity, e)>>)

EmitIndexExpr(ix, e) ==
  IF IsLocal(ix.x, e, "SliceType")
  THEN Apply(SliceOf(ix.x, e), "Element",
             <<EmitExpr(ix.x, e), PlusOne(EmitExpr(ix.index, e))>>)
  ELSE Apply(MapOf(ix.x, e), "Get", EmitExprs(<<ix.x, ix.index>>, e))

EmitSliceExpr(s, e) ==
  Apply(SliceOf(s.x, e), "Slice_Of",
        << EmitExpr(s.x, e),
           IF s.low = Nil THEN AdaLit("1") ELSE PlusOne(EmitExpr(s.low, e)),
           PlusOne(IF s.high = Nil THEN Apply(SliceOf(s.x, e), "Len", EmitExprs(<<s.x>>, e))
                   ELSE EmitExpr(s.high, e)) >>)

\* The operation and the number of arguments of a builtin on a slice or a map.
SliceBuiltins == ("len" :> <<"Len", 1>>) @@ ("cap" :> <<"Cap", 1>>)
                   @@ ("append" :> <<"Append", 2>>)
MapBuiltins == ("len" :> <<"Length", 1>>) @@ ("delete" :> <<"Delete", 2>>)

EmitContainer(pkg, op, b, e) ==
  IF Len(b.args) # op[2] THEN Failed ELSE Apply(pkg, op[1], EmitExprs(b.args, e))

EmitMapBuiltin(b, e) ==
  IF Elems(b.args) = <<>> THEN Failed
  ELSE EmitContainer(MapOf(b.args[1], e), MapBuiltins[b.name], b, e)

EmitSliceBuiltin(b, e) ==
  IF Elems(b.args) = <<>> THEN Failed
  ELSE EmitContainer(SliceOf(b.args[1], e), SliceBuiltins[b.name], b, e)

EmitBuiltinCall(b, e) ==
  CASE b.name = "len" /\ Len(Elems(b.args)) = 1 ->
         IF IsLocal(b.args[1], e, "MapType") THEN EmitMapBuiltin(b, e)
         ELSE EmitSliceBuiltin(b, e)
    [] b.name \in {"append", "cap"} -> EmitSliceBuiltin(b, e)
    [] b.name = "delete" -> EmitMapBuiltin(b, e)
    [] b.name = "recover" /\ Elems(b.args) = <<>> -> Apply(Panics, "Recover", <<>>)
    [] OTHER -> Failed   \* panic( ) among them: it is no expression

\* A receive is no expression either.  A struct literal needs a declared
\* struct, and the files modelled declare no types.
EmitExpr(x, e) ==
  CASE x = Nil              -> Failed
    [] x.kind = "Ident"     -> [ada |-> "name", name |-> x.name]
    [] x.kind = "Lit"       -> EmitLit(x)
    [] x.kind = "BinOp"     -> EmitBinOp(x, e)
    [] x.kind = "UnaryOp"   -> EmitUnaryOp(x, e)
    [] x.kind = "Selector"  -> EmitSelector(x, e)
    [] x.kind = "SliceLit"  -> EmitSliceLit(x, e)
    [] x.kind = "MapLit"    -> EmitMapLit(x, e)
    [] x.kind = "MakeChan"  -> EmitMakeChan(x, e)
    [] x.kind = "IndexExpr" -> EmitIndexExpr(x, e)
    [] x.kind = "SliceExpr" -> EmitSliceExpr(x, e)
    [] x.kind = "BuiltinCall" -> EmitBuiltinCall(x, e)
    [] x.kind \in {"ChanRecv", "StructLit"} -> Failed

-------------------------------------------------------------------------------
(* Statements: each lowers to a sequence of Ada statements *)

\* The statements of several parts in a row.
InOrder(parts) == IF Made(parts) = Failed THEN Failed ELSE FlattenSeq(parts)
One(s) == Made(<<s>>)
NullStatement == <<[ada |-> "null"]>>

RECURSIVE EmitStmt(_, _)
EmitStmts(ss, e) == InOrder([i \in DOMAIN Elems(ss) |-> EmitStmt(ss[i], e)])
EmitBody(ss, e) == IF Elems(ss) = <<>> THEN NullStatement ELSE EmitStmts(ss, e)

EmitAssignTo(to, from, e) ==
  CASE to.kind = "IndexExpr" /\ IsLocal(to.x, e, "MapType") ->
         Apply(MapOf(to.x, e), "Insert", EmitExprs(<<to.x, to.index>>, e) \o <<from>>)
    [] to.kind = "IndexExpr" /\ IsLocal(to.x, e, "SliceType") ->
         Apply(SliceOf(to.x, e), "Set_Element",
               <<EmitExpr(to.x, e), PlusOne(EmitExpr(to.index, e)), from>>)
    [] OTHER -> Made([ada |-> "assign", to |-> EmitExpr(to, e), from |-> from])
EmitAssign(a, e) ==
  IF a.define \/ ~ IsSingle(a) THEN Failed
  ELSE One(EmitAssignTo(a.lhs[1], EmitExpr(a.rhs[1], e), e))

\* else if becomes elsif: the same tree.
EmitIf(s, e) ==
  One(Made([ada |-> "if", cond |-> EmitExpr(s.cond, e),
            then |-> EmitStmts(s.then, e), else |-> EmitStmts(s.else, e)]))

EmitReturn(r, e) ==
  IF Len(Elems(r.results)) > 1 THEN Failed
  ELSE One(Made([ada |-> "return", value |-> IF Elems(r.results) = <<>> THEN Nil
                                             ELSE EmitExpr(r.results[1], e)]))

\* for v := start; v < end; v = v + 1
IsTrivialFor(f) ==
  /\ Nil \notin {f.init, f.cond, f.post}
  /\ IsDefine(f.init) /\ IsSingle(f.init) /\ f.init.lhs[1].kind = "Ident"
  /\ LET v == f.init.lhs[1]
     IN  /\ f.cond.kind = "BinOp" /\ f.cond.op = "<" /\ f.cond.x = v
         /\ f.post.kind = "Assign" /\ ~ f.post.define /\ IsSingle(f.post)
         /\ f.post.lhs[1] = v
         /\ f.post.rhs[1] = [kind |-> "BinOp", op |-> "+", x |-> v,
                             y |-> [kind |-> "Lit", litKind |-> "int", value |-> "1"]]

\* Ada evaluates both bounds once, before the first turn.
EmitFor(f, e) ==
  CASE {f.init, f.cond, f.post} = {Nil} ->
         One(Made([ada |-> "loop", body |-> EmitBody(f.body, e)]))
    [] IsTrivialFor(f) ->
         One(Made([ada |-> "for", var |-> f.init.lhs[1].name,
                   from |-> EmitExpr(f.init.rhs[1], e),
                   to |-> AdaOp("-", <<EmitExpr(f.cond.y, e), AdaLit("1")>>),
                   body |-> EmitBody(f.body, e)]))
    [] OTHER -> Failed

\* The key and the value are known to be local in the body, not after it.
Bind(locals, name, type) == IF name = "" THEN locals ELSE (name :> type) @@ locals
Within(s, locals, map) ==
  Bind(Bind(locals, s.keyName, map.key), s.valueName, map.value)
EmitRangeStmt(s, e) ==
  IF ~ IsLocal(s.x, e, "MapType") \/ (~ s.define /\ {s.keyName, s.valueName} # {""})
  THEN Failed
  ELSE One(Made([ada |-> "while", pkg |-> MapOf(s.x, e), map |-> EmitExpr(s.x, e),
                 key |-> s.keyName, value |-> s.valueName,
                 body |-> EmitBody(s.body, [e EXCEPT !.locals =
                                              Within(s, @, e.locals[s.x.name])])]))

IsPrintln(fun) == /\ fun.kind = "Selector" /\ fun.sel = "Println"
                  /\ fun.x = [kind |-> "Ident", name |-> "fmt"]

\* No method is callable, as no interface is declared.
EmitCallStmt(c, e) ==
  CASE IsPrintln(c.fun) ->
         One(Made([ada |-> "print", args |-> Made(EmitExprs(c.args, e))]))
    [] c.fun.kind = "Selector" /\ ~ IsPrintln(c.fun) -> Failed
    [] OTHER -> One(Made([ada |-> "invoke", fun |-> EmitExpr(c.fun, e),
                          args |-> Made(EmitExprs(c.args, e))]))

EmitBuiltinStmt(b, e) ==
  CASE b.name = "delete" -> One(EmitMapBuiltin(b, e))
    [] b.name = "panic" /\ Len(Elems(b.args)) = 1 ->
         One(Apply(Panics, "Do_Panic", EmitExprs(b.args, e)))
    [] b.name = "close" /\ Len(Elems(b.args)) = 1 ->
         One(Apply(ChanOf(b.args[1], e), "Close", EmitExprs(b.args, e)))
    [] OTHER -> Failed

EmitChanSend(s, e) ==
  One(Apply(ChanOf(s.chan, e), "Send", EmitExprs(<<s.chan, s.value>>, e)))

\* Go_Closure_n calls the function itself, Go_Worker_n after unpacking what
\* Allocate_Closure_n captured here.
EmitGoStmt(g, e) ==
  LET captured == g.call.kind = "Call" /\ Elems(g.call.args) # <<>>
  IN  One(Made([ada |-> "spawn", n |-> GoIndex(e.facts, g),
                entry |-> IF captured THEN "Go_Worker" ELSE "Go_Closure",
                args |-> IF captured THEN Made(EmitExprs(g.call.args, e)) ELSE <<>>]))

-------------------------------------------------------------------------------
(* select *)

\* The channels of a select are looked up by name in the whole file's table.
CaseElem(c, e) ==
  IF c.chan # Nil /\ c.chan.kind = "Ident" /\ c.chan.name \in DOMAIN e.facts.chanIdents
  THEN ElemBase(e.facts.chanIdents[c.chan.name]) ELSE Failed

\* Arms keep their place: Select_One returns the number of the one that fired.
EmitArm(c, e) ==
  LET binds(name) == IF c.case = "Recv" THEN name ELSE ""
  IN  Made([case |-> c.case,
            chan |-> IF c.case = "Default" THEN Nil ELSE EmitExpr(c.chan, e),
            value |-> IF c.case = "Send" THEN EmitExpr(c.value, e) ELSE Nil,
            body |-> EmitBody(c.body, e),
            valueVar |-> binds(c.valueLhs), okVar |-> binds(c.okLhs)])

SelectorPkg(elems) ==
  IF Cardinality(elems) > 1 THEN Failed
  ELSE Made(<<"Selectors", CHOOSE t \in elems : TRUE>>)

EmitSelectStmt(s, e) ==
  LET waiting == {c \in Range(Elems(s.cases)) : c.case # "Default"}
  IN  CASE Elems(s.cases) = <<>> -> One([ada |-> "raise"])
        [] Elems(s.cases) # <<>> /\ waiting = {} -> EmitBody(s.cases[1].body, e)
        [] OTHER ->
             One(Made([ada |-> "select", pkg |-> SelectorPkg({CaseElem(c, e) : c \in waiting}),
                       arms |-> Made([i \in DOMAIN s.cases |-> EmitArm(s.cases[i], e)])]))

-------------------------------------------------------------------------------

\* A defer leaves nothing here: it becomes a declaration of its subprogram.
EmitStmt(s, e) ==
  CASE s.kind = "Assign"      -> EmitAssign(s, e)
    [] s.kind = "If"          -> EmitIf(s, e)
    [] s.kind = "For"         -> EmitFor(s, e)
    [] s.kind = "Return"      -> EmitReturn(s, e)
    [] s.kind = "Call"        -> EmitCallStmt(s, e)
    [] s.kind = "ExprStmt"    -> NullStatement
    [] s.kind = "BuiltinCall" -> EmitBuiltinStmt(s, e)
    [] s.kind = "RangeStmt"   -> EmitRangeStmt(s, e)
    [] s.kind = "DeferStmt"   -> <<>>
    [] s.kind = "GoStmt"      -> EmitGoStmt(s, e)
    [] s.kind = "ChanSend"    -> EmitChanSend(s, e)
    [] s.kind = "SelectStmt"  -> EmitSelectStmt(s, e)
===============================================================================
