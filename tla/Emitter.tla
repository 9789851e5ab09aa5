------------------------------- MODULE Emitter --------------------------------
(***************************************************************************)
(* The compiler as it runs over a file of package main: the translation to  *)
(* IR, the emitter's pre-pass over the declarations, then one subprogram     *)
(* after the other, main last.                                              *)
(*                                                                          *)
(* A subprogram is a record                                                 *)
(*   params    the names of its parameters                                  *)
(*   decls     its declarations, in order: [name, init], or with init Nil   *)
(*             and no value yet when the value is received                  *)
(*   outer     the statements of the defer closures declared beside them    *)
(*   gos       its go closures: number, and the statements they run         *)
(*   inner     the defer closures of the block inside the body              *)
(*   body      the statements (of that block, if it has defers)             *)
(*   handler   does the body end with the handler of Panicking?             *)
(*   starts, stops   does main bring the scheduler up and down?             *)
(***************************************************************************)
EXTENDS EmitCode, Translate

CONSTANT Sources   \* the Go files compiled: they declare functions only

VARIABLES
  source,  \* the Go file being compiled
  file,    \* its IR
  stage,   \* "translate", "collect", "emit", "done", "failed"
  next,    \* how many declarations this stage has dealt with
  facts,   \* what the pre-pass has found
  unit     \* the subprograms emitted so far, by name

vars == <<source, file, stage, next, facts, unit>>

-------------------------------------------------------------------------------
(* What is hoisted out of a body *)

\* Only if, for and range bodies are searched: not those of select.
RECURSIVE Hoisted(_, _)
Hoisted(kind, body) ==
  FlattenSeq([i \in DOMAIN Elems(body) |->
    LET s == body[i]
    IN  CASE s.kind = kind -> <<s>>
          [] s.kind = "If" -> Hoisted(kind, s.then) \o Hoisted(kind, s.else)
          [] s.kind \in {"For", "RangeStmt"} -> Hoisted(kind, s.body)
          [] OTHER -> <<>>])

CollectDefers(body) == Hoisted("DeferStmt", body)
CollectGoStmts(body) == Hoisted("GoStmt", body)

\* bodyUsesPanicOrRecover: a walk of its own, which does not enter a make, a
\* receive, a struct literal, a send, a go or a select statement.
Unseen == {"MakeChan", "ChanRecv", "StructLit", "ChanSend", "GoStmt", "SelectStmt"}

RECURSIVE SeesPanic(_)
SeesPanic(n) ==
  /\ n # Nil
  /\ n.kind \notin Unseen
  /\ \/ IsPanicCall(n)
     \/ \E f \in Fields(n.kind) :
          LET c == Shape[n.kind][f]
          IN  CASE c \in {"Expr", "Stmt"} -> SeesPanic(n[f])
                [] c \in {List("Expr"), List("Stmt"), List("MapEntry")} ->
                     \E i \in DOMAIN Elems(n[f]) : SeesPanic(n[f][i])
                [] OTHER -> FALSE
UsesPanic(body) == \E i \in DOMAIN Elems(body) : SeesPanic(body[i])

-------------------------------------------------------------------------------
(* Local types and declarations *)

\* inferRHSType, for what the emitter remembers of a local.
LitType == ("int" :> "IntType") @@ ("string" :> "StringType")
             @@ ("bool" :> "BoolType") @@ ("float" :> "Float64Type")
RememberedType(x) ==
  CASE x.kind = "Lit"      -> [kind |-> LitType[x.litKind]]
    [] x.kind = "SliceLit" -> [kind |-> "SliceType", elem |-> x.elem]
    [] x.kind = "MapLit"   -> [kind |-> "MapType", key |-> x.key, value |-> x.value]
    [] OTHER               -> Failed

\* populateLocals: parameters, then the leading defines.
Locals(fn) ==
  LET typed == SelectSeq(Elems(fn.params), LAMBDA p : p.name # "" /\ p.type # Nil)
      params == FoldLeft(LAMBDA f, p : (p.name :> p.type) @@ f, <<>>, typed)
  IN  FoldLeft(LAMBDA f, a :
                 IF /\ IsSingle(a) /\ a.lhs[1].kind = "Ident"
                    /\ RememberedType(a.rhs[1]) # Failed
                 THEN (a.lhs[1].name :> RememberedType(a.rhs[1])) @@ f ELSE f,
               params, LeadingDefines(fn.body))

Declaration(name, init) == Made([name |-> name, init |-> init])

\* emitVarDecl: what a leading define declares.  A received value, and its ok,
\* are declared without a value.
VarDecls(a, e) ==
  LET rhs == a.rhs[1]
      received == rhs.kind = "ChanRecv"
      names == [i \in DOMAIN a.lhs |-> a.lhs[i].name]
      plain == \A i \in DOMAIN a.lhs : a.lhs[i].kind = "Ident"
      typed == rhs.kind \in {"Lit", "SliceLit", "MapLit", "MakeChan"}
      fits == Len(a.rhs) = 1 /\ Len(a.lhs) = (IF received /\ rhs.commaOk THEN 2 ELSE 1)
  IN  CASE ~ (fits /\ plain) -> <<Failed>>
        [] fits /\ plain /\ received ->
             IF ChanOf(rhs.chan, e) = Failed THEN <<Failed>>
             ELSE [i \in DOMAIN names |-> Declaration(names[i], Nil)]
        [] OTHER -> <<IF typed THEN Declaration(names[1], EmitExpr(rhs, e))
                      ELSE Failed>>

\* pendingRecvs: the receives themselves, at the head of the body.
PendingRecv(a, e) ==
  LET c == a.rhs[1].chan
      ok == IF a.rhs[1].commaOk THEN a.lhs[2].name ELSE "Discard_OK"
  IN  [ada |-> "receive", pkg |-> ChanOf(c, e), chan |-> EmitExpr(c, e),
       value |-> a.lhs[1].name, ok |-> ok]
PendingRecvs(defines, e) ==
  LET recvs == SelectSeq(defines, LAMBDA a : a.rhs[1].kind = "ChanRecv")
  IN  [i \in DOMAIN recvs |-> PendingRecv(recvs[i], e)]

-------------------------------------------------------------------------------
(* Closures *)

\* typeName: no file declares a named type.
HasTypeName(t) ==
  CASE t = Nil              -> FALSE
    [] t.kind = "SliceType" -> SlicePkg(t.elem) # Failed
    [] t.kind = "MapType"   -> MapPkg(t.key, t.value) # Failed
    [] t.kind = "ChanType"  -> ChanPkg(t.elem) # Failed
    [] OTHER                -> t.kind \in BasicTypes
Typed(params) == \A p \in Range(params) : HasTypeName(p.type)

\* Defer_Closure_i and Go_Closure_n run the call itself.
EmitClosure(call, e) ==
  CASE call.kind = "Call"        -> EmitCallStmt(call, e)
    [] call.kind = "BuiltinCall" -> EmitBuiltinStmt(call, e)
    [] OTHER                     -> Failed

Closures(defers, e) == Made([i \in DOMAIN defers |-> EmitClosure(defers[i].call, e)])

\* emitGoClosureWithArgs: a record of the callee's parameters, which the
\* worker unpacks before it calls.
FieldName(params, i) ==
  IF params[i].name = "" THEN "Anon_" \o ToString(i) ELSE params[i].name
Worker(g, params, e) ==
  IF Len(g.call.args) # Len(params) \/ ~ Typed(params) THEN Failed
  ELSE [n |-> GoIndex(e.facts, g), entry |-> "Go_Worker",
        fields |-> [i \in DOMAIN params |-> FieldName(params, i)],
        code |-> <<[ada |-> "invoke", fun |-> [ada |-> "name", name |-> g.call.fun.name],
                    args |-> [i \in DOMAIN params |->
                               [ada |-> "name", name |-> FieldName(params, i)]]]>>]
EmitGoWorker(g, e) ==
  LET known == /\ g.call.kind = "Call"
               /\ g.call.fun.kind = "Ident"
               /\ g.call.fun.name \in DOMAIN e.facts.funcs
  IN  IF known THEN Worker(g, Elems(e.facts.funcs[g.call.fun.name].params), e) ELSE Failed

EmitGoClosure(g, e) ==
  IF GoCallArgs(g) > 0 THEN EmitGoWorker(g, e)
  ELSE Made([n |-> GoIndex(e.facts, g), entry |-> "Go_Closure", fields |-> <<>>,
             code |-> EmitClosure(g.call, e)])

GoClosures(gos, e) == Made([i \in DOMAIN gos |-> EmitGoClosure(gos[i], e)])

-------------------------------------------------------------------------------
(* Subprograms *)

\* emitSubprogram, and emitMainProcedure for main: the defers of a body that
\* uses panic or recover go into a block that the handler encloses.
IsTyped(fn) == Typed(Elems(fn.params) \o Elems(fn.results)) /\ Len(Elems(fn.results)) <= 1
Declarations(defines, e) ==
  Made(FlattenSeq([i \in DOMAIN defines |-> VarDecls(defines[i], e)]))
Body(recvs, code) ==
  CASE code = Failed -> Failed
    [] code # Failed /\ recvs \o code = <<>> -> NullStatement
    [] OTHER -> recvs \o code

SubprogramOf(fn, isMain, defines, panics, defers, e) ==
  LET scheduler == isMain /\ "Scheduler" \in e.facts.needs
      rest == SubSeq(Elems(fn.body), Len(defines) + 1, Len(Elems(fn.body)))
  IN  Made([ params  |-> [i \in DOMAIN Elems(fn.params) |-> fn.params[i].name],
             decls   |-> Declarations(defines, e),
             outer   |-> IF panics THEN <<>> ELSE defers,
             gos     |-> GoClosures(CollectGoStmts(fn.body), e),
             inner   |-> IF panics THEN defers ELSE <<>>,
             body    |-> Body(IF isMain THEN <<>> ELSE PendingRecvs(defines, e),
                              EmitStmts(rest, e)),
             handler |-> panics,
             starts  |-> scheduler,
             stops   |-> scheduler ])

Subprogram(fn, isMain) ==
  LET e == [facts |-> facts, locals |-> Locals(fn)]
  IN  IF ~ IsTyped(fn) THEN Failed
      ELSE SubprogramOf(fn, isMain, LeadingDefines(fn.body), UsesPanic(fn.body),
                        Closures(CollectDefers(fn.body), e), e)

IsMain(fn) == fn.name = "main" /\ Elems(fn.params) = <<>> /\ Elems(fn.results) = <<>>

\* The order in which run emits: the others as they come, then main.
EmitOrder(decls) == SelectSeq(decls, LAMBDA fn : ~ IsMain(fn))
                      \o SelectSeq(decls, IsMain)

-------------------------------------------------------------------------------

Init ==
  /\ source \in Sources
  /\ file = Nil
  /\ stage = "translate"
  /\ next = 0
  /\ facts = Nil
  /\ unit = <<>>

\* buildPackage: only package main is compiled, and newEmitter starts on it.
TranslateFile ==
  /\ stage = "translate"
  /\ \E pkg \in {TransFile(source)} :
       IF pkg = Failed \/ pkg.name # "main"
       THEN stage' = "failed" /\ UNCHANGED <<file, facts>>
       ELSE /\ stage' = "collect"
            /\ file' = pkg.files[1]
            /\ facts' = NoFacts(pkg.files[1])
  /\ UNCHANGED <<source, next, unit>>

\* collectSliceElems, one declaration of the file.
Collect ==
  /\ stage = "collect" /\ next < Len(Elems(file.decls))
  /\ facts' = CollectFunction(facts, file.decls[next + 1])
  /\ next' = next + 1
  /\ UNCHANGED <<source, file, stage, unit>>

\* run: the error of the pre-pass, if any, is found by the first subprogram.
Collected ==
  /\ stage = "collect" /\ next = Len(Elems(file.decls))
  /\ stage' = IF CollectFailed(facts) THEN "failed" ELSE "emit"
  /\ next' = 0
  /\ UNCHANGED <<source, file, facts, unit>>

EmitSubprogram ==
  /\ stage = "emit" /\ next < Len(Elems(file.decls))
  /\ \E fn \in {EmitOrder(Elems(file.decls))[next + 1]} :
       \E code \in {Subprogram(fn, IsMain(fn))} :
         /\ stage' = IF code = Failed THEN "failed" ELSE "emit"
         /\ unit' = IF code = Failed THEN unit ELSE (fn.name :> code) @@ unit
  /\ next' = next + 1
  /\ UNCHANGED <<source, file, facts>>

Emitted ==
  /\ stage = "emit" /\ next = Len(Elems(file.decls))
  /\ stage' = "done"
  /\ UNCHANGED <<source, file, next, facts, unit>>

Next == TranslateFile \/ Collect \/ Collected \/ EmitSubprogram \/ Emitted

Spec == Init /\ [][Next]_vars
===============================================================================
