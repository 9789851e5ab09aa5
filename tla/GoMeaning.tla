------------------------------ MODULE GoMeaning -------------------------------
(***************************************************************************)
(* What a Go program does: the reference the emitted program is held to.    *)
(* It is the language's definition, for one goroutine, of the statements    *)
(* the emitter accepts; a goroutine that is started is an event, with the   *)
(* arguments it gets.                                                       *)
(*                                                                          *)
(* A state has the locals (vars), the channels, the events so far (out),    *)
(* and how the last statement ended: "next", "return", "panic", "blocked" or  *)
(* "error", a panic of the runtime's own.  fault keeps what the run did that  *)
(* Ada answers in its own way: a run-time panic, a deferred call that panics. *)
(* A select with several ready cases takes the first of them, in Go as in    *)
(* Ada: which one is the selector's choice, not the emitter's.              *)
(***************************************************************************)
EXTENDS GoAST, Functions, SequencesExt

Numbers == ("0" :> 0) @@ ("1" :> 1) @@ ("2" :> 2) @@ ("3" :> 3) @@ ("4" :> 4)
             @@ ("5" :> 5) @@ ("7" :> 7) @@ ("9" :> 9)

Say(st, event) == [st EXCEPT !.out = Append(@, event)]
Ends(st, how) == [st EXCEPT !.how = how]
Set(st, name, v) == [st EXCEPT !.vars = (name :> v) @@ @]

Faults(st, what) == [st EXCEPT !.how = "error", !.fault = @ \cup {what}]

\* The channel operations both languages have; a channel is its number.
SendOn(st, c, v) ==
  IF st.chans[c].closed THEN Faults(st, "closed channel")
  ELSE IF Len(st.chans[c].queue) = st.chans[c].cap THEN Ends(st, "blocked")
  ELSE [st EXCEPT !.chans[c].queue = Append(@, v)]
CanReceive(st, c) == st.chans[c].queue # <<>> \/ st.chans[c].closed
Received(st, c) == IF st.chans[c].queue = <<>> THEN 0 ELSE Head(st.chans[c].queue)
Taken(st, c) == [st EXCEPT !.chans[c].queue = IF @ = <<>> THEN @ ELSE Tail(@)]
CloseChan(st, c) ==
  IF st.chans[c].closed THEN Faults(st, "closed channel")
  ELSE [st EXCEPT !.chans[c].closed = TRUE]
NewChan(st, cap) ==
  [st EXCEPT !.chans = Append(@, [queue |-> <<>>, cap |-> cap, closed |-> FALSE])]

\* v, ok := <-c, under two names ("" for none).
ReceiveInto(st, c, value, ok) ==
  IF ~ CanReceive(st, c) THEN Ends(st, "blocked")
  ELSE LET got == Received(st, c)
           open == st.chans[c].queue # <<>>
           named(s, n, v) == IF n = "" THEN s ELSE Set(s, n, v)
       IN  named(named(Taken(st, c), value, got), ok, open)

\* Names of an inner scope are gone when it is left.
LeaveScope(after, before, names) ==
  [after EXCEPT !.vars =
     [n \in DOMAIN before.vars |->
        IF n \in names THEN before.vars[n] ELSE after.vars[n]]]

Arithmetic(op, x, y) ==
  CASE op = "+" -> x + y
    [] op = "-" -> x - y
    [] op = "<" -> x < y
    [] op = ">" -> x > y

\* chans[i] is the channel of case i, Nil for a default.
Ready(cases, chans, st) ==
  {i \in DOMAIN cases :
     \/ cases[i].case = "Recv" /\ CanReceive(st, chans[i])
     \/ cases[i].case = "Send" /\ LET c == st.chans[chans[i]]
                                 IN  c.closed \/ Len(c.queue) < c.cap}
Chosen(cases, ready) ==
  IF ready # {} THEN Min(ready)
  ELSE LET defaults == {i \in DOMAIN cases : cases[i].case = "Default"}
       IN  IF defaults = {} THEN 0 ELSE Min(defaults)

-------------------------------------------------------------------------------
(* Expressions: pure, but for recover() *)

\* A slice is a function on 0 .. len - 1, a map one on its keys.
SliceFrom(values) == [i \in 0 .. Len(values) - 1 |-> values[i + 1]]
MapFrom(pairs) == FoldLeft(LAMBDA f, p : (p[1] :> p[2]) @@ f, <<>>, pairs)
Length(s) == Cardinality(DOMAIN s)
ElementAt(s, i) == IF i \in DOMAIN s THEN s[i] ELSE 0
With(s, i, v) == (i :> v) @@ s
Without(s, i) == [j \in DOMAIN s \ {i} |-> s[j]]
Part(s, low, high) == [i \in 0 .. high - low - 1 |-> s[i + low]]

RECURSIVE Bare(_), Recovers(_), GoValue(_, _)
Bare(x) == IF x.ast = "ParenExpr" THEN Bare(x.x) ELSE x

Operands(x) ==
  CASE x.ast = "BinaryExpr" -> <<x.x, x.y>>
    [] x.ast = "IndexExpr"  -> <<x.x, x.index>>
    [] x.ast \in {"UnaryExpr", "ParenExpr"} -> <<x.x>>
    [] x.ast = "CallExpr"   -> x.args
    [] OTHER                -> <<>>
Recovers(x) ==
  \/ x.ast = "CallExpr" /\ x.fun = Ident("recover")
  \/ \E i \in DOMAIN Operands(x) : Recovers(Operands(x)[i])

\* A call in an expression is one of a builtin: the others are not accepted.
GoBuiltinValue(x, v, st) ==
  CASE x.fun.name = "len"     -> Length(v[1])
    [] x.fun.name = "append"  -> With(v[1], Length(v[1]), v[2])
    [] x.fun.name = "recover" -> IF st.recov = Nil THEN 0 ELSE st.recov

GoValues(xs, st) == [i \in DOMAIN xs |-> GoValue(xs[i], st)]
GoLiteral(x, st) ==
  IF x.type.ast = "ArrayType" THEN SliceFrom(GoValues(x.elts, st))
  ELSE MapFrom([i \in DOMAIN x.elts |-> GoValues(<<x.elts[i].key, x.elts[i].value>>, st)])
GoValue(x, st) ==
  LET V(y) == GoValue(y, st)
  IN  CASE x.ast = "Ident" -> IF x.name \in DOMAIN st.vars THEN st.vars[x.name]
                              ELSE x.name = "true"
        [] x.ast = "BasicLit"  -> Numbers[x.value]
        [] x.ast = "ParenExpr" -> V(x.x)
        [] x.ast = "UnaryExpr" /\ x.op = "!" -> ~ V(x.x)
        [] x.ast = "BinaryExpr" -> CASE x.op = "==" -> V(x.x) = V(x.y)
                                     [] x.op = "!=" -> V(x.x) # V(x.y)
                                     [] x.op = "&&" -> V(x.x) /\ V(x.y)
                                     [] x.op = "||" -> V(x.x) \/ V(x.y)
                                     [] OTHER       -> Arithmetic(x.op, V(x.x), V(x.y))
        [] x.ast = "CompositeLit" -> GoLiteral(x, st)
        [] x.ast = "IndexExpr" -> ElementAt(V(x.x), V(x.index))
        [] x.ast = "SliceExpr" ->
             Part(V(x.x), IF x.low = Nil THEN 0 ELSE V(x.low),
                  IF x.high = Nil THEN Length(V(x.x)) ELSE V(x.high))
        [] x.ast = "CallExpr" -> GoBuiltinValue(x, GoValues(x.args, st), st)

\* recover() stops the panic it returns.
AfterGo(st, xs) ==
  IF \E i \in DOMAIN xs : Recovers(xs[i]) THEN [st EXCEPT !.recov = Nil] ELSE st

-------------------------------------------------------------------------------
(* Statements.  p is the file's functions, by name. *)

RECURSIVE GoDo(_, _, _), GoCall(_, _, _, _, _), GoUnwind(_, _), GoLoop(_, _, _)
GoRun(p, ss, st) ==
  FoldLeft(LAMBDA s, stmt : IF s.how = "next" THEN GoDo(p, stmt, s) ELSE s, st, ss)

IsReceiveOf(x) == Bare(x).ast = "UnaryExpr" /\ Bare(x).op = "<-"
IsMake(x) == Bare(x).ast = "CallExpr" /\ Bare(x).fun = Ident("make")

\* An unbuffered channel holds nothing.
GoMake(args, to, st) ==
  LET cap == IF Len(args) = 1 THEN 0 ELSE GoValue(args[2], st)
  IN  Set(NewChan(st, cap), to.name, Len(st.chans) + 1)

GoAssign(s, st) ==
  LET to == s.lhs[1]
      from == Bare(s.rhs[1])
  IN  CASE IsReceiveOf(from) ->
             ReceiveInto(st, GoValue(from.x, st), to.name,
                         IF Len(s.lhs) = 2 THEN s.lhs[2].name ELSE "")
        [] IsMake(from) -> GoMake(from.args, to, st)
        [] to.ast = "IndexExpr" ->
             Set(st, to.x.name,
                 With(GoValue(to.x, st), GoValue(to.index, st), GoValue(from, st)))
        [] OTHER -> AfterGo(Set(st, to.name, GoValue(from, st)), <<from>>)

\* A call that is deferred or started: its arguments are evaluated here.
GoPlanned(call, st) ==
  [call |-> IF call.fun.ast = "SelectorExpr" THEN "Println" ELSE call.fun.name,
   args |-> GoValues(call.args, st)]

GoBuiltin(name, args, st) ==
  CASE name = "panic"   -> [Ends(st, "panic") EXCEPT !.panic = args[1]]
    [] name = "close"   -> CloseChan(st, args[1])
    [] name = "Println" -> Say(st, <<"print", args>>)

\* A function of the file hides the builtin of its name.
GoInvoke(p, plan, recov, st) ==
  IF plan.call \in DOMAIN p THEN GoCall(p, plan.call, plan.args, recov, st)
  ELSE GoBuiltin(plan.call, plan.args, st)

GoCallStmt(p, call, st) ==
  IF call.fun = Ident("delete") /\ "delete" \notin DOMAIN p
  THEN Set(st, call.args[1].name,
           Without(GoValue(call.args[1], st), GoValue(call.args[2], st)))
  ELSE AfterGo(GoInvoke(p, GoPlanned(call, st), Nil, st), call.args)

GoExprStmt(p, x, st) ==
  CASE IsReceiveOf(x) -> ReceiveInto(st, GoValue(x.x, st), "", "")
    [] x.ast = "CallExpr" -> GoCallStmt(p, x, st)

\* A clause of a select as a case: what it waits for, and the names it binds.
GoCase(clause) ==
  LET comm == clause.comm
      sends == comm # Nil /\ comm.ast = "SendStmt"
      binds == comm # Nil /\ comm.ast = "AssignStmt"
      name(i) == IF binds /\ i \in DOMAIN comm.lhs THEN comm.lhs[i].name ELSE ""
  IN  [ case  |-> IF comm = Nil THEN "Default" ELSE IF sends THEN "Send" ELSE "Recv",
        chan  |-> IF comm = Nil THEN Nil ELSE IF sends THEN comm.chan
                  ELSE IF binds THEN comm.rhs[1].x ELSE comm.x.x,
        value |-> IF sends THEN comm.value ELSE Nil,
        valueLhs |-> name(1), okLhs |-> name(2), body |-> clause.body ]

GoChan(c, st) == IF c.case = "Default" THEN Nil ELSE GoValue(c.chan, st)
GoFire(c, st) ==
  CASE c.case = "Recv" -> ReceiveInto(st, GoChan(c, st), c.valueLhs, c.okLhs)
    [] c.case = "Send" -> SendOn(st, GoChan(c, st), GoValue(c.value, st))
    [] OTHER -> st
GoClause(p, cases, i, st) ==
  IF i = 0 THEN Ends(st, "blocked")
  ELSE LeaveScope(GoRun(p, cases[i].body, GoFire(cases[i], st)), st,
                  {cases[i].valueLhs, cases[i].okLhs})
GoChoice(p, cases, st) ==
  GoClause(p, cases,
           Chosen(cases, Ready(cases, [i \in DOMAIN cases |-> GoChan(cases[i], st)], st)), st)
GoSelect(p, s, st) == GoChoice(p, [i \in DOMAIN s.clauses |-> GoCase(s.clauses[i])], st)

\* The keys in ascending order: Go leaves the order open.
GoRange(p, s, st) ==
  LET m == GoValue(s.x, st)
      bound(x, v) == IF x = Nil THEN <<>> ELSE (x.name :> v)
      turn(t, k) ==
        IF t.how # "next" THEN t
        ELSE LeaveScope(GoRun(p, s.body, [t EXCEPT !.vars =
               bound(s.key, k) @@ bound(s.value, m[k]) @@ @]),
               t, {x.name : x \in {s.key, s.value} \ {Nil}})
  IN  FoldLeft(turn, st, SetToSortSeq(DOMAIN m, <))

GoPost(p, s, st) == IF s.post = Nil \/ st.how # "next" THEN st ELSE GoDo(p, s.post, st)
GoLoop(p, s, st) ==
  IF st.how # "next" \/ (s.cond # Nil /\ ~ GoValue(s.cond, st)) THEN st
  ELSE GoLoop(p, s, GoPost(p, s, GoRun(p, s.body, st)))

GoIf(p, s, st) ==
  LET after == AfterGo(st, <<s.cond>>)
  IN  CASE GoValue(s.cond, st) -> GoRun(p, s.body, after)
        [] ~ GoValue(s.cond, st) /\ s.els = Nil -> after
        [] OTHER -> IF s.els.ast = "BlockStmt" THEN GoRun(p, s.els.list, after)
                    ELSE GoDo(p, s.els, after)

GoDo(p, s, st) ==
  CASE s.ast = "AssignStmt" -> GoAssign(s, st)
    [] s.ast = "IfStmt"     -> GoIf(p, s, st)
    [] s.ast = "ForStmt"    ->
         IF s.init = Nil THEN GoLoop(p, s, st)
         ELSE LeaveScope(GoLoop(p, s, GoDo(p, s.init, st)), st, {s.init.lhs[1].name})
    [] s.ast = "RangeStmt"  -> GoRange(p, s, st)
    [] s.ast = "ReturnStmt" -> Ends(AfterGo(st, s.results), "return")
    [] s.ast = "ExprStmt"   -> GoExprStmt(p, Bare(s.x), st)
    [] s.ast = "DeferStmt"  ->
         [st EXCEPT !.defers = Append(@, GoPlanned(s.call, st))]
    [] s.ast = "GoStmt"     ->
         LET plan == GoPlanned(s.call, st) IN Say(st, <<"go", plan.call, plan.args>>)
    [] s.ast = "SendStmt"   -> SendOn(st, GoValue(s.chan, st), GoValue(s.value, st))
    [] s.ast = "SelectStmt" -> GoSelect(p, s, st)

-------------------------------------------------------------------------------
(* Calls, defers and panics *)

\* The deferred calls, last first.  One that recovers makes the function
\* return; one that panics replaces the panic.
Unwound(before, after) ==
  LET how == CASE after.how # "next" -> after.how
               [] after.how = "next" /\ before.how = "panic" /\ ~ after.recovered -> "panic"
               [] OTHER -> "return"
      seen == IF after.how = "panic" THEN {"deferred panic"} ELSE {}
  IN  [after EXCEPT !.how = how, !.recovered = FALSE, !.fault = @ \cup seen]
GoUnwind(p, st) ==
  IF st.defers = <<>> \/ st.how \in {"blocked", "error"} THEN st
  ELSE GoUnwind(p, Unwound(st, GoInvoke(p, Last(st.defers),
                                        IF st.how = "panic" THEN st.panic ELSE Nil,
                                        [st EXCEPT !.defers = Front(@), !.how = "next"])))

\* recov is what a recover() of the callee itself returns: the panic of the
\* function that deferred it, Nil for every other call.
GoEntered(fn, args, recov, st) ==
  LET params == FlattenSeq([i \in DOMAIN fn.type.params |-> fn.type.params[i].names])
  IN  [st EXCEPT !.vars = MapFrom([i \in DOMAIN params |-> <<params[i], args[i]>>]),
                 !.defers = <<>>, !.recov = recov, !.recovered = FALSE]
GoLeft(before, recov, st) ==
  [st EXCEPT !.vars = before.vars, !.defers = before.defers, !.recov = before.recov,
             !.recovered = recov # Nil /\ st.recov = Nil,
             !.how = IF @ = "return" THEN "next" ELSE @]
GoCall(p, name, args, recov, st) ==
  GoLeft(st, recov,
         GoUnwind(p, GoRun(p, p[name].body, GoEntered(p[name], args, recov, st))))

GoStart == [vars |-> <<>>, chans |-> <<>>, out |-> <<>>, how |-> "next", panic |-> 0,
            defers |-> <<>>, recov |-> Nil, recovered |-> FALSE, fault |-> {}]

GoFuncs(file) ==
  LET funcs == SelectSeq(file.decls, LAMBDA d : d.ast = "FuncDecl")
  IN  FoldLeft(LAMBDA p, fd : (fd.name :> fd) @@ p, <<>>, funcs)

GoProgram(file) == GoCall(GoFuncs(file), "main", <<>>, Nil, GoStart)
===============================================================================
