------------------------------ MODULE AdaMeaning ------------------------------
(***************************************************************************)
(* What the emitted Ada does, with the runtime it calls: the defer blocks    *)
(* (Gada.Core.Defer), the stack of pending panics (Gada.Core.Panic) and the *)
(* scheduler's life.  A state is that of GoMeaning with                      *)
(*   pending    the panic stack of the one goroutine that runs              *)
(*   up         is the scheduler running?                                   *)
(*   self       the subprogram being executed                               *)
(* and a statement may also end in "error", an exception other than          *)
(* Panicking or a name that is not declared.  Junk is the value of a variable *)
(* that has none yet.                                                       *)
(***************************************************************************)
EXTENDS GoMeaning, EmitCode

CONSTANT Junk

MaxPending == 16   \* the depth of Panic_Stack

AdaNumbers == Numbers @@ ("True" :> TRUE) @@ ("False" :> FALSE)

\* Do_Panic pushes and raises; the push over a full stack raises instead.
DoPanic(st, v) ==
  IF Len(st.pending) = MaxPending THEN Ends(st, "error")
  ELSE [Ends(st, "panic") EXCEPT !.pending = Append(@, v)]
Recover(st) == IF st.pending = <<>> THEN 0 ELSE Last(st.pending)
\* Mutant of Recovered: Recover returns the payload but leaves it pending.
RecoveredPeeks(st) == st

Recovered(st) == [st EXCEPT !.pending = IF @ = <<>> THEN @ ELSE Front(@)]
IsPanicking(st) == st.pending # <<>>

-------------------------------------------------------------------------------
(* Expressions *)

RECURSIVE AdaRecovers(_)
AdaRecovers(x) ==
  \/ x.ada = "apply" /\ x.op = "Recover"
  \/ x.ada \in {"apply", "op"} /\ \E i \in DOMAIN x.args : AdaRecovers(x.args[i])

AdaOperator(op, v) ==
  CASE op = "="   -> v[1] = v[2]
    [] op = "/="  -> v[1] # v[2]
    [] op = "and" -> v[1] /\ v[2]
    [] op = "or"  -> v[1] \/ v[2]
    [] op = "not" -> ~ v[1]
    [] OTHER      -> Arithmetic(op, v[1], v[2])

\* Ada counts from 1, and Slice_Of's upper bound is one past the end.
AdaFunction(op, v, st) ==
  CASE op = "Empty"      -> <<>>
    [] op = "From_Array" -> SliceFrom(v)
    [] op = "Make_Map"   -> <<>>
    [] op = "From_Pairs" -> MapFrom([i \in 1 .. Len(v) \div 2 |-> <<v[2*i - 1], v[2*i]>>])
    [] op = "Element"    -> ElementAt(v[1], v[2] - 1)
    [] op = "Get"        -> ElementAt(v[1], v[2])
    [] op = "Slice_Of"   -> Part(v[1], v[2] - 1, v[3] - 1)
    [] op \in {"Len", "Length"} -> Length(v[1])
    [] op = "Append"     -> With(v[1], Length(v[1]), v[2])
    [] op = "Recover"    -> Recover(st)

\* Len(s) for a slice that holds Junk's kind of rubbish is never asked for:
\* only scalars are received.
RECURSIVE AdaValue(_, _)
AdaValues(xs, st) == [i \in DOMAIN xs |-> AdaValue(xs[i], st)]
AdaValue(x, st) ==
  CASE x.ada = "lit"   -> AdaNumbers[x.value]
    [] x.ada = "name"  -> st.vars[x.name]
    [] x.ada = "op"    -> AdaOperator(x.op, AdaValues(x.args, st))
    [] x.ada = "apply" -> AdaFunction(x.op, AdaValues(x.args, st), st)

AfterAda(st, xs) == IF \E x \in Range(xs) : AdaRecovers(x) THEN Recovered(st) ELSE st

-------------------------------------------------------------------------------
(* Statements.  u is the unit: the subprograms, by name. *)

RECURSIVE AdaDo(_, _, _), AdaCall(_, _, _, _), AdaFor(_, _, _, _, _), AdaLoop(_, _, _)
AdaRun(u, ss, st) ==
  FoldLeft(LAMBDA s, stmt : IF s.how = "next" THEN AdaDo(u, stmt, s) ELSE s, st, ss)

\* Procedures of the instances.
AdaProcedure(s, st) ==
  LET v == AdaValues(s.args, st)
      name == s.args[1].name
  IN  CASE s.op = "Do_Panic"    -> DoPanic(st, v[1])
        [] s.op = "Send"        -> SendOn(st, v[1], v[2])
        [] s.op = "Close"       -> CloseChan(st, v[1])
        [] s.op = "Insert"      -> Set(st, name, With(v[1], v[2], v[3]))
        [] s.op = "Set_Element" -> Set(st, name, With(v[1], v[2] - 1, v[3]))
        [] s.op = "Delete"      -> Set(st, name, Without(v[1], v[2]))

AdaReceive(s, st) ==
  ReceiveInto(st, AdaValue(s.chan, st), s.value, IF s.ok = "Discard_OK" THEN "" ELSE s.ok)

\* Spawn hands the scheduler a closure of the subprogram; what it will run is
\* known now, as a worker's arguments are captured.
AdaSpawn(u, s, st) ==
  LET found == {g \in Range(u[st.self].gos) : g.n = s.n /\ g.entry = s.entry}
      g == CHOOSE h \in found : TRUE
      inside == [st EXCEPT !.vars = IF s.entry = "Go_Closure" THEN @ ELSE
                   MapFrom([i \in DOMAIN s.args |->
                             <<g.fields[i], AdaValue(s.args[i], st)>>])]
      run == g.code[1]
      callee == IF run.ada = "invoke" THEN run.fun.name ELSE run.op
  IN  IF found = {} \/ ~ st.up THEN Ends(st, "error")
      ELSE Say(st, <<"go", callee, AdaValues(run.args, inside)>>)

AdaChan(arm, st) == IF arm.case = "Default" THEN Nil ELSE AdaValue(arm.chan, st)
AdaFire(arm, st) ==
  CASE arm.case = "Recv" -> ReceiveInto(st, AdaChan(arm, st), arm.valueVar, arm.okVar)
    [] arm.case = "Send" -> SendOn(st, AdaChan(arm, st), AdaValue(arm.value, st))
    [] OTHER -> st
AdaArm(u, arms, i, st) ==
  IF i = 0 THEN Ends(st, "blocked")
  ELSE LeaveScope(AdaRun(u, arms[i].body, AdaFire(arms[i], st)), st,
                  {arms[i].valueVar, arms[i].okVar})
AdaSelect(u, arms, st) ==
  AdaArm(u, arms,
         Chosen(arms, Ready(arms, [i \in DOMAIN arms |-> AdaChan(arms[i], st)], st)), st)

AdaWhile(u, s, st) ==
  LET m == AdaValue(s.map, st)
      turn(t, k) ==
        IF t.how # "next" THEN t
        ELSE LeaveScope(AdaRun(u, s.body, [t EXCEPT !.vars =
               (s.key :> k) @@ (s.value :> m[k]) @@ @]), t, {s.key, s.value})
  IN  FoldLeft(turn, st, SetToSortSeq(DOMAIN m, <))

AdaFor(u, s, i, to, st) ==
  IF i > to \/ st.how # "next" THEN st
  ELSE AdaFor(u, s, i + 1, to, AdaRun(u, s.body, Set(st, s.var, i)))

AdaLoop(u, s, st) ==
  IF st.how # "next" THEN st ELSE AdaLoop(u, s, AdaRun(u, s.body, st))

AdaDo(u, s, st) ==
  CASE s.ada = "null"    -> st
    [] s.ada = "assign"  -> AfterAda(Set(st, s.to.name, AdaValue(s.from, st)), <<s.from>>)
    [] s.ada = "if"      -> AdaRun(u, IF AdaValue(s.cond, st) THEN s.then ELSE s.else,
                                   AfterAda(st, <<s.cond>>))
    [] s.ada = "loop"    -> AdaLoop(u, s, st)
    [] s.ada = "for"     -> LeaveScope(AdaFor(u, s, AdaValue(s.from, st), AdaValue(s.to, st), st),
                                       st, {s.var})
    [] s.ada = "while"   -> AdaWhile(u, s, st)
    [] s.ada = "return"  -> Ends(IF s.value = Nil THEN st ELSE AfterAda(st, <<s.value>>),
                                 "return")
    [] s.ada = "invoke"  -> AfterAda(AdaCall(u, s.fun.name, AdaValues(s.args, st), st), s.args)
    [] s.ada = "print"   -> AfterAda(Say(st, <<"print", AdaValues(s.args, st)>>), s.args)
    [] s.ada = "apply"   -> AdaProcedure(s, st)
    [] s.ada = "receive" -> AdaReceive(s, st)
    [] s.ada = "spawn"   -> AdaSpawn(u, s, st)
    [] s.ada = "select"  -> AdaSelect(u, s.arms, st)
    [] s.ada = "raise"   -> Ends(st, "error")

-------------------------------------------------------------------------------
(* Subprograms *)

\* The blocks are finalised last declared first, however the scope is left;
\* an exception that leaves a Finalize turns into Program_Error.
Finalized(before, after) ==
  IF before.how = "blocked" THEN before
  ELSE Ends(after, CASE after.how = "blocked" -> "blocked"
                     [] after.how \in {"panic", "error"} -> "error"
                     [] OTHER -> before.how)
Finalize(u, closures, st) ==
  FoldRight(LAMBDA c, s : Finalized(s, AdaRun(u, c, Ends(s, "next"))), closures, st)

Elaborate(decls, st) ==
  FoldLeft(LAMBDA s, d :
             IF d.init = Nil THEN Set(s, d.name, Junk)
             ELSE IF d.init.ada = "apply" /\ d.init.op = "Make"
             THEN Set(NewChan(s, AdaValue(d.init.args[1], s)), d.name, Len(s.chans) + 1)
             ELSE Set(s, d.name, AdaValue(d.init, s)),
           st, decls)

\* main brings the scheduler up before its first statement and down after the
\* last, if it gets there.
Entered(sub, name, args, st) ==
  [st EXCEPT !.self = name, !.up = @ \/ sub.starts,
             !.vars = MapFrom([i \in DOMAIN sub.params |-> <<sub.params[i], args[i]>>])]
Stopped(sub, st) == [st EXCEPT !.up = @ /\ ~ (sub.stops /\ st.how = "next")]
Handled(sub, st) ==
  IF sub.handler /\ st.how = "panic" /\ ~ IsPanicking(st) THEN Ends(st, "return") ELSE st
Left(before, st) ==
  [st EXCEPT !.vars = before.vars, !.self = before.self,
             !.how = IF @ = "return" THEN "next" ELSE @]

AdaBody(u, sub, st) ==
  Stopped(sub, Finalize(u, sub.inner, AdaRun(u, sub.body, Elaborate(sub.decls, st))))
AdaCall(u, name, args, st) ==
  IF name \notin DOMAIN u THEN Ends(st, "error")
  ELSE Left(st, Finalize(u, u[name].outer,
                         Handled(u[name],
                                 AdaBody(u, u[name], Entered(u[name], name, args, st)))))

AdaStart == [vars |-> <<>>, chans |-> <<>>, out |-> <<>>, how |-> "next",
             pending |-> <<>>, up |-> FALSE, self |-> "main",
             fault |-> {}]

\* A program that ends with the scheduler up waits for its workers for ever.
AdaEnd(end) == IF end.up /\ end.how = "next" THEN Ends(end, "blocked") ELSE end
AdaProgram(u) == AdaEnd(AdaCall(u, "main", <<>>, AdaStart))
===============================================================================
