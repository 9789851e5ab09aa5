---------------------------- MODULE SelectorProofs ----------------------------
(***************************************************************************)
(* What Select_One returns is what it has done, proved for any sets of     *)
(* goroutines and channels, any capacity and any arrays of cases.  The     *)
(* argument is the invariant IInv of SelectorInvariant.                    *)
(***************************************************************************)
EXTENDS SelectorInvariant, DataLemmas

-----------------------------------------------------------------------------
(***************************************************************************)
(* Arrays of cases.                                                        *)
(***************************************************************************)

\* The indices of an array are positive, and those of its channel operations are
\* finitely many.
LEMMA ActiveFinite ==
  ASSUME NEW array \in Seq(Case), NEW kinds
  PROVE  /\ Indices(array, kinds) \subseteq Nat \ {0}
         /\ IsFiniteSet(Indices(array, kinds))
<1>1. DOMAIN array = 1..Len(array) /\ Len(array) \in Nat
  OBVIOUS
<1>2. Indices(array, kinds) \subseteq 1..Len(array)
  BY <1>1 DEF Indices
<1>3. IsFiniteSet(1..Len(array))
  BY <1>1, FS_Interval
<1>4. QED
  BY <1>1, <1>2, <1>3, FS_Subset

\* A random order of the active cases leaves none of them out.
LEMMA OrderIsComplete ==
  ASSUME NEW array \in Seq(Case), NEW o \in SetToSeqs(Active(array))
  PROVE  o \in Seq(Nat) /\ Range(o) = Active(array)
<1> DEFINE A == Active(array)
           n == Cardinality(A)
<1>1. IsFiniteSet(A) /\ A \subseteq Nat
  BY ActiveFinite DEF Active
<1>2. n \in Nat
  BY <1>1, FS_CardinalityType
<1>3. o \in [1..n -> A] /\ \A i, j \in 1..n : i # j => o[i] # o[j]
  BY DEF SetToSeqs
<1> HIDE DEF A, n
<1>4. o \in Injection(1..n, A)
  BY <1>3 DEF Injection, IsInjective
<1>5. Cardinality(1..n) = n
  BY <1>2, FS_Interval
<1>6. o \in Surjection(1..n, A)
  <2>1. Cardinality(1..n) = Cardinality(A)
    BY <1>5 DEF n
  <2>2. QED
    BY <1>1, <1>4, <2>1, FS_Injection
<1>7. \A i \in A : \E j \in 1..n : o[j] = i
  BY <1>6 DEF Surjection
<1>8. Range(o) = A /\ o \in Seq(Nat)
  <2>1. DOMAIN o = 1..n /\ \A j \in 1..n : o[j] \in A
    BY <1>3
  <2>2. Range(o) = A
    BY <1>7, <2>1 DEF Range
  <2>3. o \in [1..n -> Nat]
    BY <1>1, <1>3
  <2>4. QED
    BY <1>2, <2>2, <2>3
<1>9. QED
  BY <1>8 DEF A

-----------------------------------------------------------------------------
(***************************************************************************)
(* Every step keeps the invariant.                                         *)
(***************************************************************************)

\* What others do to the channels leaves a call's pass sound.
LEMMA Undisturbed ==
  ASSUME NEW h \in Goroutines, PassOf(h),
         /\ pc'[h] = pc[h] /\ cases'[h] = cases[h] /\ order'[h] = order[h]
         /\ giveUp'[h] = giveUp[h] /\ done'[h] = done[h],
         steady'[h] = StillReady(h) \/ (steady'[h] = steady[h] /\ UNCHANGED channels)
  PROVE  PassOf(h)'
<1>1. CASE steady'[h] = StillReady(h)
  BY <1>1 DEF PassOf, StillReady, Ready
<1>2. CASE steady'[h] = steady[h] /\ UNCHANGED channels
  BY <1>2 DEF PassOf, Ready, channels
<1>3. QED
  BY <1>1, <1>2

\* Watch keeps the history of the other calls, and their types.
LEMMA WatchFacts ==
  ASSUME CallsTyped, NEW g \in Goroutines, NEW new \in SUBSET Nat, Watch(g, new)
  PROVE  /\ steady' \in [Goroutines -> SUBSET Nat] /\ steady'[g] = new
         /\ \A h \in Goroutines \ {g} : steady'[h] = StillReady(h)
<1>1. \A h \in Goroutines : StillReady(h) \subseteq Nat
  BY DEF CallsTyped, StillReady
<1>2. QED
  BY <1>1 DEF Watch

\* A new pass has all the active cases to try.
LEMMA NewPassFacts ==
  ASSUME CallsTyped, NEW g \in Goroutines, NEW array \in Seq(Case), NewPass(g, array),
         UNCHANGED channels
  PROVE  /\ order' \in [Goroutines -> Seq(Nat)]
         /\ Range(order'[g]) = Active(array)
         /\ \A h \in Goroutines \ {g} : order'[h] = order[h]
         /\ steady' \in [Goroutines -> SUBSET Nat]
         /\ steady'[g] = {i \in Active(array) : Ready(array[i])}
         /\ \A h \in Goroutines \ {g} : steady'[h] = StillReady(h)
<1>1. PICK o \in SetToSeqs(Active(array)) : order' = [order EXCEPT ![g] = o]
  BY DEF NewPass, Becomes
<1>2. o \in Seq(Nat) /\ Range(o) = Active(array)
  BY OrderIsComplete
<1>3. order \in [Goroutines -> Seq(Nat)]
  BY DEF CallsTyped
<1>4. {i \in Active(array) : Ready(array[i])} \subseteq Nat
  BY ActiveFinite DEF Active
<1>5. QED
  BY <1>1, <1>2, <1>3, <1>4, WatchFacts DEF NewPass

LEMMA StartKeeps ==
  ASSUME IInv, NEW g \in Goroutines, NEW array \in CaseArrays, Start(g, array)
  PROVE  IInv'
<1>1. /\ CallsTyped /\ \A h \in Goroutines : PassOf(h)
      /\ UNCHANGED channels /\ array \in Seq(Case) /\ pc[g] = "idle"
      /\ done' = [done EXCEPT ![g] = <<>>] /\ result' = [result EXCEPT ![g] = 0]
  BY SelectorAssumption DEF SelectorAssumption, IInv, Start, Becomes
<1>2. /\ done' \in [Goroutines -> Seq(Nat)] /\ result' \in [Goroutines -> Nat]
      /\ done'[g] = <<>> /\ \A h \in Goroutines \ {g} : done'[h] = done[h]
  BY <1>1 DEF CallsTyped
<1>3. CASE UNCHANGED <<pc, cases, order, giveUp, expired, steady>>
  <2>1. CallsTyped'
    BY <1>1, <1>2, <1>3 DEF CallsTyped
  <2>2. \A h \in Goroutines \ {g} : PassOf(h)'
    BY <1>1, <1>2, <1>3, Undisturbed
  <2>3. PassOf(g)'
    BY <1>1, <1>3 DEF PassOf
  <2>4. QED
    BY <2>1, <2>2, <2>3 DEF IInv
<1>4. CASE Valid(array)
  <2>1. PICK t \in (IF Indices(array, {"timeout"}) = {} THEN {0} ELSE TimeoutIndices(array)) :
          giveUp' = [giveUp EXCEPT ![g] = t]
    BY <1>4 DEF Start, Becomes
  <2>2. t \in {0} \cup Indices(array, {"timeout"}) /\ t \in Nat
    BY <1>1, <2>1, ActiveFinite DEF TimeoutIndices
  <2>3. /\ pc' = [pc EXCEPT ![g] = "trying"] /\ cases' = [cases EXCEPT ![g] = array]
        /\ NewPass(g, array)
    BY <1>4 DEF Start, Becomes
  <2>4. /\ order' \in [Goroutines -> Seq(Nat)]
        /\ Range(order'[g]) = Active(array)
        /\ \A h \in Goroutines \ {g} : order'[h] = order[h]
        /\ steady' \in [Goroutines -> SUBSET Nat]
        /\ steady'[g] = {i \in Active(array) : Ready(array[i])}
        /\ \A h \in Goroutines \ {g} : steady'[h] = StillReady(h)
    BY <1>1, <2>3, NewPassFacts
  <2>5. CallsTyped'
    BY <1>1, <1>2, <2>1, <2>2, <2>3, <2>4 DEF CallsTyped
  <2>6. ASSUME NEW h \in Goroutines \ {g} PROVE PassOf(h)'
    <3>1. /\ pc'[h] = pc[h] /\ cases'[h] = cases[h] /\ order'[h] = order[h]
          /\ giveUp'[h] = giveUp[h] /\ done'[h] = done[h]
      BY <1>1, <1>2, <2>1, <2>3, <2>4 DEF CallsTyped
    <3>2. QED
      BY <1>1, <2>4, <3>1, Undisturbed
  <2>7. PassOf(g)'
    <3>1. cases'[g] = array /\ giveUp'[g] = t /\ done'[g] = <<>>
      BY <1>1, <1>2, <2>1, <2>3 DEF CallsTyped
    <3>2. \A i \in steady'[g] : Ready(cases[g][i])'
      BY <1>1, <2>4, <3>1 DEF Ready, channels
    <3>3. QED
      BY <2>2, <2>4, <3>1, <3>2 DEF PassOf
  <2>8. QED
    BY <2>5, <2>6, <2>7 DEF IInv
<1>5. QED
  BY <1>3, <1>4 DEF Start

\* Select_One returns or raises.
LEMMA ReturnKeeps ==
  ASSUME IInv, NEW g \in Goroutines, NEW r \in Nat, Returns(g, r),
         done' = done \/ \E i \in Nat : done' = [done EXCEPT ![g] = Append(done[g], i)]
  PROVE  IInv'
<1>1. /\ CallsTyped /\ \A h \in Goroutines : PassOf(h)
      /\ pc' = [pc EXCEPT ![g] = "idle"] /\ result' = [result EXCEPT ![g] = r]
      /\ UNCHANGED <<cases, order, giveUp>> /\ Watch(g, {})
  BY DEF IInv, Returns, Becomes
<1>2. /\ steady' \in [Goroutines -> SUBSET Nat]
      /\ \A h \in Goroutines \ {g} : steady'[h] = StillReady(h)
  BY <1>1, WatchFacts
<1>3. /\ done' \in [Goroutines -> Seq(Nat)]
      /\ \A h \in Goroutines \ {g} : done'[h] = done[h]
  <2>1. done \in [Goroutines -> Seq(Nat)] /\ done[g] \in Seq(Nat)
    BY <1>1 DEF CallsTyped
  <2>2. \A i \in Nat : Append(done[g], i) \in Seq(Nat)
    BY <2>1
  <2>3. CASE \E i \in Nat : done' = [done EXCEPT ![g] = Append(done[g], i)]
    BY <2>1, <2>2, <2>3
  <2>4. QED
    BY <2>1, <2>3
<1>4. CallsTyped'
  BY <1>1, <1>2, <1>3 DEF CallsTyped
<1>5. ASSUME NEW h \in Goroutines \ {g} PROVE PassOf(h)'
  <2>1. pc'[h] = pc[h]
    BY <1>1 DEF CallsTyped
  <2>2. QED
    BY <1>1, <1>2, <1>3, <2>1, Undisturbed
<1>6. PassOf(g)'
  BY <1>1 DEF PassOf, CallsTyped
<1>7. QED
  BY <1>4, <1>5, <1>6 DEF IInv

LEMMA TryKeeps ==
  ASSUME IInv, NEW g \in Goroutines, Try(g)
  PROVE  IInv'
<1> DEFINE i == Head(order[g])
           k == cases[g][i]
<1>1. /\ CallsTyped /\ \A h \in Goroutines : PassOf(h)
      /\ pc[g] = "trying" /\ order[g] # <<>> /\ order[g] \in Seq(Nat)
  BY DEF IInv, Try, CallsTyped
<1>2. /\ i \in Nat /\ Tail(order[g]) \in Seq(Nat)
      /\ Range(order[g]) = Range(Tail(order[g])) \cup {i}
  BY <1>1, RangeTail
<1>3. CASE Returns(g, i) /\ Becomes(done, g, Append(done[g], i))
  BY <1>2, <1>3, ReturnKeeps DEF Becomes
<1>4. CASE Returns(g, 0) /\ UNCHANGED done
  BY <1>4, ReturnKeeps
<1>5. CASE /\ ~Ready(k)
           /\ Becomes(order, g, Tail(order[g]))
           /\ UNCHANGED <<channels, pc, cases, giveUp, expired, result, done, steady>>
  <2>1. /\ order' \in [Goroutines -> Seq(Nat)] /\ order'[g] = Tail(order[g])
        /\ \A h \in Goroutines \ {g} : order'[h] = order[h]
    BY <1>1, <1>2, <1>5 DEF Becomes, CallsTyped
  <2>2. CallsTyped'
    BY <1>1, <1>5, <2>1 DEF CallsTyped
  <2>3. \A h \in Goroutines \ {g} : PassOf(h)'
    BY <1>1, <1>5, <2>1, Undisturbed
  <2>4. i \notin steady[g]
    BY <1>1, <1>5 DEF PassOf
  <2>5. PassOf(g)'
    BY <1>1, <1>2, <1>5, <2>1, <2>4 DEF PassOf, Ready, channels
  <2>6. QED
    BY <2>2, <2>3, <2>5 DEF IInv
<1>6. QED
  BY <1>3, <1>4, <1>5 DEF Try

LEMMA EndOfPassKeeps ==
  ASSUME IInv, NEW g \in Goroutines, EndOfPass(g)
  PROVE  IInv'
<1>1. /\ CallsTyped /\ \A h \in Goroutines : PassOf(h)
      /\ pc[g] = "trying" /\ UNCHANGED <<channels, done>>
      /\ cases[g] \in Seq(Case) /\ giveUp[g] \in Nat
  BY DEF IInv, EndOfPass, CallsTyped
<1>2. CASE \E i \in Indices(cases[g], {"default"}) : Returns(g, i)
  <2>1. Indices(cases[g], {"default"}) \subseteq Nat
    BY <1>1, ActiveFinite
  <2>2. QED
    BY <1>1, <1>2, <2>1, ReturnKeeps
<1>3. CASE Returns(g, giveUp[g])
  <2> PICK r \in Nat : r = giveUp[g]
    BY <1>1
  <2>1. Returns(g, r) /\ done' = done
    BY <1>1, <1>3 DEF Returns, Becomes, Watch
  <2>2. QED
    BY <2>1, ReturnKeeps
<1>4. CASE UNCHANGED <<pc, cases, giveUp, expired, result>> /\ NewPass(g, cases[g])
  <2>1. /\ order' \in [Goroutines -> Seq(Nat)]
        /\ Range(order'[g]) = Active(cases[g])
        /\ \A h \in Goroutines \ {g} : order'[h] = order[h]
        /\ steady' \in [Goroutines -> SUBSET Nat]
        /\ steady'[g] = {i \in Active(cases[g]) : Ready(cases[g][i])}
        /\ \A h \in Goroutines \ {g} : steady'[h] = StillReady(h)
    <3> PICK array \in Seq(Case) : array = cases[g]
      BY <1>1
    <3>1. UNCHANGED channels /\ NewPass(g, array)
      BY <1>1, <1>4 DEF NewPass, Becomes, Watch
    <3>2. /\ order' \in [Goroutines -> Seq(Nat)]
          /\ Range(order'[g]) = Active(array)
          /\ \A h \in Goroutines \ {g} : order'[h] = order[h]
          /\ steady' \in [Goroutines -> SUBSET Nat]
          /\ steady'[g] = {i \in Active(array) : Ready(array[i])}
          /\ \A h \in Goroutines \ {g} : steady'[h] = StillReady(h)
      BY <1>1, <3>1, NewPassFacts
    <3>3. QED
      BY <3>2
  <2>2. CallsTyped'
    BY <1>1, <1>4, <2>1 DEF CallsTyped
  <2>3. \A h \in Goroutines \ {g} : PassOf(h)'
    BY <1>1, <1>4, <2>1, Undisturbed
  <2>4. PassOf(g)'
    <3>1. \A i \in steady'[g] : Ready(cases[g][i])'
      BY <1>1, <1>4, <2>1 DEF Ready, channels
    <3>2. QED
      BY <1>1, <1>4, <2>1, <3>1 DEF PassOf
  <2>5. QED
    BY <2>2, <2>3, <2>4 DEF IInv
<1>5. QED
  BY <1>2, <1>3, <1>4 DEF EndOfPass

LEMMA DeadlineKeeps ==
  ASSUME IInv, NEW g \in Goroutines, Deadline(g)
  PROVE  IInv'
BY DEF Deadline, IInv, CallsTyped, PassOf, Ready, channels

LEMMA OthersKeep ==
  ASSUME IInv, NEW c \in Chans, Others(c)
  PROVE  IInv'
<1>1. /\ CallsTyped /\ \A h \in Goroutines : PassOf(h)
      /\ UNCHANGED <<pc, cases, order, giveUp, result, done>>
      /\ steady' = [h \in Goroutines |-> StillReady(h)]
  BY DEF Others, IInv, call
<1>2. \A h \in Goroutines : StillReady(h) \subseteq Nat
  BY <1>1 DEF CallsTyped, StillReady
<1>3. CallsTyped'
  BY <1>1, <1>2 DEF CallsTyped
<1>4. \A h \in Goroutines : PassOf(h)'
  BY <1>1, Undisturbed
<1>5. QED
  BY <1>3, <1>4 DEF IInv

\* IInv is inductive.
THEOREM Inductive ==
  /\ Init => IInv
  /\ IInv /\ [Next]_vars => IInv'
<1>1. ASSUME Init PROVE IInv
  <2>1. <<>> \in Seq(Nat) /\ <<>> \in Seq(Case)
    OBVIOUS
  <2>2. CallsTyped
    BY <1>1, <2>1 DEF Init, CallsTyped
  <2>3. QED
    BY <1>1, <2>2 DEF Init, IInv, PassOf
<1>2. ASSUME IInv, Next PROVE IInv'
  BY <1>2, StartKeeps, TryKeeps, EndOfPassKeeps, DeadlineKeeps, OthersKeep DEF Next
<1>3. ASSUME IInv, UNCHANGED vars PROVE IInv'
  BY <1>3 DEF vars, call, channels, IInv, CallsTyped, PassOf, Ready
<1>4. QED
  BY <1>1, <1>2, <1>3

THEOREM Invariance == Spec => []IInv
BY Inductive, PTL DEF Spec

-----------------------------------------------------------------------------
(***************************************************************************)
(* The property.                                                           *)
(***************************************************************************)

\* An attempt ends the call only by carrying out its case, or by raising.
LEMMA TryOutcome ==
  ASSUME IInv, NEW g \in Goroutines, Try(g)
  PROVE  Outcome(g)
<1> DEFINE i == Head(order[g])
<1>1. /\ CallsTyped /\ PassOf(g)
      /\ pc[g] = "trying" /\ order[g] # <<>> /\ order[g] \in Seq(Nat)
      /\ cases[g] \in Seq(Case)
  BY DEF IInv, Try, CallsTyped
<1>2. done[g] = <<>> /\ i \in Active(cases[g])
  BY <1>1, RangeTail DEF PassOf
<1>3. CASE Returns(g, i) /\ Becomes(done, g, Append(done[g], i))
  <2>1. result'[g] = i /\ done'[g] = Append(<<>>, i)
    BY <1>1, <1>2, <1>3 DEF Returns, Becomes, CallsTyped
  <2>2. QED
    BY <1>2, <2>1 DEF Outcome
<1>4. CASE Returns(g, 0) /\ UNCHANGED done
  <2>1. result'[g] = 0 /\ done'[g] = <<>>
    BY <1>1, <1>2, <1>4 DEF Returns, Becomes, CallsTyped
  <2>2. 0 \notin Active(cases[g])
    BY <1>1, ActiveFinite DEF Active
  <2>3. QED
    BY <2>1, <2>2 DEF Outcome
<1>5. CASE UNCHANGED pc
  BY <1>5 DEF Outcome
<1>6. QED
  BY <1>3, <1>4, <1>5 DEF Try

\* The default and the timeout are taken when no case is left that was ready all
\* through the pass.
LEMMA EndOfPassOutcome ==
  ASSUME IInv, NEW g \in Goroutines, EndOfPass(g)
  PROVE  Outcome(g)
<1>1. /\ CallsTyped /\ PassOf(g) /\ pc[g] = "trying" /\ order[g] = <<>>
      /\ cases[g] \in Seq(Case) /\ done' = done
  BY DEF IInv, EndOfPass, CallsTyped
<1>2. done'[g] = <<>> /\ steady[g] = {}
  BY <1>1, EmptyQueue DEF PassOf
<1>3. \A kinds : 0 \notin Indices(cases[g], kinds)
  BY <1>1, ActiveFinite
<1>4. CASE pc'[g] # "idle" \/ UNCHANGED pc
  BY <1>1, <1>4 DEF Outcome
<1>5. ASSUME NEW r, Returns(g, r), r \notin Active(cases[g]) PROVE Outcome(g)
  <2>1. result'[g] = r
    BY <1>1, <1>5 DEF Returns, Becomes, CallsTyped
  <2>2. QED
    BY <1>2, <1>5, <2>1 DEF Outcome
<1>6. \A r \in Indices(cases[g], {"default", "timeout"}) : r \notin Active(cases[g])
  BY DEF Indices, Active
<1>7. CASE \E r \in Indices(cases[g], {"default"}) : Returns(g, r)
  BY <1>5, <1>6, <1>7 DEF Indices
<1>8. CASE TimedOut(g) /\ Returns(g, giveUp[g])
  <2>1. giveUp[g] \in Indices(cases[g], {"timeout"})
    BY <1>1, <1>8 DEF PassOf, TimedOut
  <2> PICK r : r = giveUp[g]
    OBVIOUS
  <2>2. r \notin Active(cases[g])
    BY <1>6, <2>1 DEF Indices
  <2>3. Returns(g, r)
    BY <1>8 DEF Returns, Becomes, Watch
  <2>4. QED
    BY <1>5, <2>2, <2>3
<1>9. QED
  BY <1>4, <1>7, <1>8 DEF EndOfPass

\* Select_One returns the index of the case it has carried out, and when it takes
\* the default or gives up it has carried out none and missed none that was ready
\* all through its last pass.
THEOREM ReturnsWhatItDid == Spec => SelectOutcome
<1>1. ASSUME IInv, Next, NEW g \in Goroutines PROVE Outcome(g)
  <2>1. CASE Try(g)
    BY <1>1, <2>1, TryOutcome
  <2>2. CASE EndOfPass(g)
    BY <1>1, <2>2, EndOfPassOutcome
  <2>3. CASE Deadline(g) \/ \E c \in Chans : Others(c)
    BY <2>3 DEF Deadline, Others, call, Outcome
  <2>4. CASE \E array \in CaseArrays : Start(g, array)
    BY <2>4 DEF Start, Outcome
  <2>5. CASE \E h \in Goroutines \ {g} :
               \/ Try(h) \/ EndOfPass(h) \/ Deadline(h)
               \/ \E array \in CaseArrays : Start(h, array)
    <3>1. pc'[g] = pc[g]
      BY <1>1, <2>5 DEF Try, EndOfPass, Deadline, Start, Returns, Becomes, IInv,
                        CallsTyped
    <3>2. QED
      BY <3>1 DEF Outcome
  <2>6. QED
    BY <1>1, <2>1, <2>2, <2>3, <2>4, <2>5 DEF Next
<1>2. IInv /\ [Next]_vars => [\A g \in Goroutines : Outcome(g)]_vars
  BY <1>1
<1>3. QED
  BY <1>2, Invariance, PTL DEF Spec, SelectOutcome

=============================================================================
