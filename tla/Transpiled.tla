------------------------------ MODULE Transpiled ------------------------------
(***************************************************************************)
(* The compiler, and what its output does next to what the Go file does.    *)
(***************************************************************************)
EXTENDS Emitter, AdaMeaning

Nodes(fn) == Range(WalkStmts(fn.body))
OfKind(fn, kind) == {n \in Nodes(fn) : n.kind = kind}
Declared == Range(file.decls)
Deferred(fn) == {d.call : d \in OfKind(fn, "DeferStmt")}
Calls(nodes, name) ==
  \E n \in nodes : n.kind = "Call" /\ n.fun = [kind |-> "Ident", name |-> name]
CallsBuiltin(fn, name) == \E n \in OfKind(fn, "BuiltinCall") : n.name = name
Recovering == {fn.name : fn \in {f \in Declared : CallsBuiltin(f, "recover")}}

-------------------------------------------------------------------------------
(* What the compiler asks of a file without saying. Each condition has a      *)
(* counterexample without it.                                               *)

\* A deferred call's arguments are read when the block is left, not at the
\* defer: they must be literals or parameters, which Ada cannot assign to.
DefersFixArguments(fn) ==
  \A c \in Deferred(fn) : \A a \in Range(Elems(c.args)) :
    \/ a.kind = "Lit"
    \/ a.kind = "Ident" /\ \E p \in Range(Elems(fn.params)) : p.name = a.name

\* Every defer site runs, once, in the order of the sites: they must come
\* first and unconditionally.
DefersComeFirst(fn) ==
  LET rest == SubSeq(Elems(fn.body), Len(LeadingDefines(fn.body)) + 1, Len(Elems(fn.body)))
      n == Cardinality({i \in DOMAIN rest :
                          \A j \in 1 .. i : rest[j].kind = "DeferStmt"})
  IN  Len(SelectSeq(WalkStmts(fn.body), LAMBDA s : s.kind = "DeferStmt")) = n

\* The handler is there only if the function itself names panic or recover.
HandlerWhereRecovered(fn) ==
  UsesPanic(fn.body) \/ \A g \in Recovering : ~ Calls(Deferred(fn), g)

\* Recover takes the last pending panic whoever asks: only a function called by
\* a defer may ask, and it calls nothing that could ask on another's behalf.
RecoverOnlyDeferred(fn) ==
  /\ \A g \in Recovering : ~ Calls(Nodes(fn) \ Deferred(fn), g)
  /\ fn.name \in Recovering =>
       OfKind(fn, "DeferStmt") = {} /\ fn.name # "main"
  /\ \A g \in Declared : Calls(Deferred(fn), g.name) => OfKind(g, "DeferStmt") = {}

\* A received value arrives after every declaration of its subprogram: none of
\* the later ones may read it.
ReceivedNotYetUsed(fn) ==
  LET d == LeadingDefines(fn.body)
      receives(a) == a.rhs[1].kind = "ChanRecv"
      reads(a) == {n.name : n \in {m \in Range(WalkExprs(a.rhs)) : m.kind = "Ident"}}
  IN  \A i, j \in DOMAIN d : i < j /\ receives(d[i]) =>
        {x.name : x \in Range(d[i].lhs)} \cap reads(d[j]) = {}

\* A channel's name means the same element type in the whole file.
OneElementType ==
  \A f, g \in Declared :
    LET cf == MadeChans(f.body) @@ ChanParams(f.params)
        cg == MadeChans(g.body) @@ ChanParams(g.params)
    IN  \A v \in DOMAIN cf \cap DOMAIN cg : ElemBase(cf[v]) = ElemBase(cg[v])

\* Nothing is hoisted out of a select's bodies.
SelectsArePlain(fn) ==
  \A s \in OfKind(fn, "SelectStmt") : \A c \in Range(s.cases) :
    \A n \in Range(WalkStmts(c.body)) : n.kind \notin {"GoStmt", "DeferStmt"}

\* Shutdown stands at the end of main's statements, before its defers.
MainRunsToTheEnd(fn) ==
  fn.name = "main" /\ "Scheduler" \in facts.needs =>
    OfKind(fn, "Return") = {} /\ OfKind(fn, "DeferStmt") = {}

\* The bound of a for is computed once.
BoundIsFixed(fn) ==
  \A f \in OfKind(fn, "For") : f.init # Nil =>
    LET reads == {n.name : n \in {m \in Range(WalkExpr(f.cond)) : m.kind = "Ident"}}
        sets == {a.lhs[1] : a \in {n \in Range(WalkStmts(f.body)) : n.kind = "Assign"}}
    IN  \A x \in sets : x.kind = "Ident" => x.name \notin reads

\* A statement that is an expression in the IR is not emitted: neither a
\* receive without a variable nor a call in parentheses.
NothingDropped(fn) == OfKind(fn, "ExprStmt") = {}

\* A channel made without a capacity has one of 1.
ChannelsAreBuffered(fn) == \A m \in OfKind(fn, "MakeChan") : m.capacity # Nil

\* The translator knows the builtins by their names.
NamesNoBuiltin(fn) == fn.name \notin BuiltinNames

\* All of them but HandlerWhereRecovered.
Plain(fn) ==
  /\ DefersFixArguments(fn)
  /\ DefersComeFirst(fn)
  /\ RecoverOnlyDeferred(fn)
  /\ ReceivedNotYetUsed(fn)
  /\ SelectsArePlain(fn)
  /\ MainRunsToTheEnd(fn)
  /\ BoundIsFixed(fn)
  /\ NothingDropped(fn)
  /\ ChannelsAreBuffered(fn)
  /\ NamesNoBuiltin(fn)

Supported(fn) == Plain(fn) /\ HandlerWhereRecovered(fn)

-------------------------------------------------------------------------------

\* What can be seen of a run: its events, the channels it leaves, its end.
Seen(end) ==
  [out |-> end.out, chans |-> end.chans,
   ends |-> IF end.how \in {"panic", "error"} THEN "crash" ELSE end.how]
SameRun(go, ada) == go.fault = {} => Seen(ada) = Seen(go)
RunsAsInGo == SameRun(GoProgram(source), AdaProgram(unit))

\* The emitted program of a supported file prints, spawns, sends and ends as
\* the Go file does (emitSubprogram, emitStmt, emitExpr and what they call).
SupportedBehaveAsGo ==
  stage = "done" /\ OneElementType /\ (\A fn \in Declared : Supported(fn))
    => RunsAsInGo

\* A panic stops at the function one of whose deferred calls recovers it,
\* whatever else that function does: what gada-core-panic.ads says of every
\* transpiled function (emitSubprogram, bodyUsesPanicOrRecover).
RecoverStopsThePanic ==
  stage = "done" /\ OneElementType /\ (\A fn \in Declared : Plain(fn))
    => RunsAsInGo

\* The instances that emitted code names.
RECURSIVE UsedBy(_)
UsedIn(parts) == UNION {UsedBy(parts[i]) : i \in DOMAIN parts}
UsedBy(n) ==
  CASE n = Nil            -> {}
    [] n.ada = "apply"    -> {n.pkg} \cup UsedIn(n.args)
    [] n.ada \in {"op", "print", "spawn", "invoke"} -> UsedIn(n.args)
    [] n.ada = "assign"   -> UsedIn(<<n.to, n.from>>)
    [] n.ada = "if"       -> UsedIn(<<n.cond>> \o n.then \o n.else)
    [] n.ada = "loop"     -> UsedIn(n.body)
    [] n.ada = "for"      -> UsedIn(<<n.from, n.to>> \o n.body)
    [] n.ada = "while"    -> {n.pkg} \cup UsedIn(<<n.map>> \o n.body)
    [] n.ada = "return"   -> UsedBy(n.value)
    [] n.ada = "receive"  -> {n.pkg} \cup UsedBy(n.chan)
    [] n.ada = "select"   -> {n.pkg, <<"Channels", n.pkg[2]>>} \cup UNION
         {UsedIn(<<n.arms[i].chan, n.arms[i].value>> \o n.arms[i].body) :
            i \in DOMAIN n.arms}
    [] OTHER              -> {}

UsedInSubprogram(sub) ==
  UsedIn(sub.body)
    \cup UNION {UsedBy(d.init) : d \in Range(sub.decls)}
    \cup UNION {UsedIn(c) : c \in Range(sub.outer) \cup Range(sub.inner)}
    \cup UNION {UsedIn(g.code) : g \in Range(sub.gos)}

\* Every instance of a generic that the emitted code uses is one the pre-pass
\* has put among the unit's instantiations (collectSliceElems against emitStmt).
UsesAreDeclared ==
  stage \in {"emit", "done"} /\ OneElementType =>
    \A f \in DOMAIN unit : UsedInSubprogram(unit[f]) \subseteq facts.instances
===============================================================================
