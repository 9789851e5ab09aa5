------------------------------- MODULE Selector --------------------------------
(***************************************************************************)
(* Select_One (runtime/src/gada-async-selector.adb): the select statement  *)
(* as a poll.  A pass tries the cases in a random order, each with one     *)
(* protected call of its channel; between any two of them other goroutines *)
(* use the channels.  A pass that got nothing takes the default, gives up  *)
(* at the deadline, or yields and is followed by another pass.             *)
(*                                                                         *)
(* The channels are FifoChannels, as BoundedChannel shows; what is kept of *)
(* each is how many values it holds and whether it is closed.              *)
(***************************************************************************)
EXTENDS Naturals, SequencesExt

CONSTANTS
  Goroutines,  \* those that call Select_One
  Chans, Cap,  \* the bounded channels and their capacity
  CaseArrays,  \* the arguments given to Select_One: sequences of cases
  MaxCases     \* Max_Cases

\* Case_Item, one form for each Op_Kind; a duration is a number of ticks.
SendOp(c)    == [kind |-> "send", chan |-> c]
RecvOp(c)    == [kind |-> "recv", chan |-> c]
DefaultOp    == [kind |-> "default"]
TimeoutOp(d) == [kind |-> "timeout", duration |-> d]

Case ==
  [kind : {"send", "recv"}, chan : Chans] \cup
  [kind : {"timeout"}, duration : Nat] \cup {DefaultOp}

ASSUME SelectorAssumption == \A array \in CaseArrays : array \in Seq(Case)

VARIABLES
  count, closed, \* of each channel
  pc,        \* of each goroutine: "idle" or inside Select_One, "trying"
  cases,     \* its Cases
  order,     \* the active cases that the pass still has to try
  giveUp,    \* Timeout_Index, 0 without a timeout
  expired,   \* Clock >= Earliest_Timeout
  result,    \* the index returned; 0 for an exception, and before
  done,      \* history: the cases whose operation the call has carried out
  steady     \* history: the active cases that were ready ever since the pass began

channels == <<count, closed>>
call     == <<pc, cases, order, giveUp, expired, result, done>>
vars     == <<channels, call, steady>>

Init ==
  /\ count = [c \in Chans |-> 0]
  /\ closed = [c \in Chans |-> FALSE]
  /\ pc = [g \in Goroutines |-> "idle"]
  /\ cases = [g \in Goroutines |-> <<>>]
  /\ order = [g \in Goroutines |-> <<>>]
  /\ giveUp = [g \in Goroutines |-> 0]
  /\ expired = [g \in Goroutines |-> FALSE]
  /\ result = [g \in Goroutines |-> 0]
  /\ done = [g \in Goroutines |-> <<>>]
  /\ steady = [g \in Goroutines |-> {}]

-----------------------------------------------------------------------------
(***************************************************************************)
(* The channels, as FifoChannel lets them change: a value may go straight  *)
(* to a receiver that waits, and a sender that waits may fill the room.    *)
(***************************************************************************)

Put(c) ==
  /\ ~closed[c]
  /\ \/ count[c] < Cap /\ count' = [count EXCEPT ![c] = @ + 1]
     \/ count[c] = 0 /\ UNCHANGED count
  /\ UNCHANGED closed

Take(c) ==
  /\ count[c] > 0
  /\ \/ count' = [count EXCEPT ![c] = @ - 1]
     \/ ~closed[c] /\ UNCHANGED count
  /\ UNCHANGED closed

Close(c) ==
  /\ ~closed[c]
  /\ closed' = [closed EXCEPT ![c] = TRUE]
  /\ UNCHANGED count

\* What Try_Send and Try_Receive would not come back from empty-handed.
Ready(k) ==
  \/ k.kind = "send" /\ (closed[k.chan] \/ count[k.chan] < Cap)
  \/ k.kind = "recv" /\ (closed[k.chan] \/ count[k.chan] > 0)

-----------------------------------------------------------------------------
(***************************************************************************)
(* Select_One.                                                             *)
(***************************************************************************)

Indices(array, kinds) == {i \in DOMAIN array : array[i].kind \in kinds}
Active(array) == Indices(array, {"send", "recv"})

\* Validate_And_Scan, and the bound check after it.
Valid(array) ==
  /\ Len(array) \in 1..MaxCases
  /\ Cardinality(Indices(array, {"default"})) <= 1

\* Timeout_Index: the clock is read again for each deadline and the first of equal
\* ones counts, so a case loses to an earlier one unless its duration is shorter,
\* and to a later one only if the reads are close together.
TimeoutIndices(array) ==
  {t \in Indices(array, {"timeout"}) :
     \A i \in Indices(array, {"timeout"}) :
       i < t => array[t].duration < array[i].duration}

\* How the history goes on when the channels change; that of g is set to new.
StillReady(g) == {i \in steady[g] : Ready(cases[g][i])'}
Watch(g, new) ==
  steady' = [h \in Goroutines |-> IF h = g THEN new ELSE StillReady(h)]

Becomes(f, g, x) == f' = [f EXCEPT ![g] = x]

\* Mutant of NewPass: the scan starts behind the first case of the order.
NewPassOffByOne(g, array) ==
  /\ \E o \in SetToSeqs(Active(array)) : Becomes(order, g, IF o = <<>> THEN o ELSE Tail(o))
  /\ Watch(g, {i \in Active(array) : Ready(array[i])})

\* A pass over array begins: its active cases in any order.
NewPass(g, array) ==
  /\ \E o \in SetToSeqs(Active(array)) : Becomes(order, g, o)
  /\ Watch(g, {i \in Active(array) : Ready(array[i])})

\* Select_One up to the first attempt; Selector_Error leaves it at once.
Start(g, array) ==
  /\ pc[g] = "idle"
  /\ UNCHANGED channels
  /\ Becomes(done, g, <<>>) /\ Becomes(result, g, 0)
  /\ IF Valid(array)
     THEN /\ Becomes(pc, g, "trying")
          /\ Becomes(cases, g, array)
          /\ \E t \in IF Indices(array, {"timeout"}) = {} THEN {0} ELSE TimeoutIndices(array) :
               /\ Becomes(giveUp, g, t)
               /\ Becomes(expired, g, t # 0 /\ array[t].duration = 0)
          /\ NewPass(g, array)
     ELSE UNCHANGED <<pc, cases, order, giveUp, expired, steady>>

Returns(g, r) ==
  /\ Becomes(pc, g, "idle")
  /\ Becomes(result, g, r)
  /\ UNCHANGED <<cases, order, giveUp, expired>>
  /\ Watch(g, {})

\* Try_One_Case finds its channel ready: Sent, or Got with a value or without.
Succeeds(k) ==
  \/ k.kind = "send" /\ Put(k.chan)
  \/ k.kind = "recv" /\ Take(k.chan)
  \/ k.kind = "recv" /\ closed[k.chan] /\ count[k.chan] = 0 /\ UNCHANGED channels

\* A send on a closed channel: Channel_Closed goes through Select_One.
Raises(k) == k.kind = "send" /\ closed[k.chan] /\ UNCHANGED channels

\* One attempt of the pass.
Try(g) ==
  /\ pc[g] = "trying" /\ order[g] # <<>>
  /\ LET i == Head(order[g])
         k == cases[g][i]
     IN  \/ Succeeds(k) /\ Returns(g, i) /\ Becomes(done, g, Append(done[g], i))
         \/ Raises(k) /\ Returns(g, 0) /\ UNCHANGED done
         \/ /\ ~Ready(k)
            /\ Becomes(order, g, Tail(order[g]))
            /\ UNCHANGED <<channels, pc, cases, giveUp, expired, result, done, steady>>

\* Mutant of TimedOut: Timeout_Index is compared with the first index.
TimedOutAtFirst(g) == giveUp[g] = 1 /\ expired[g]

TimedOut(g) == giveUp[g] # 0 /\ expired[g]

\* The end of a pass that got nothing: the default, the deadline, or Yield and a
\* new pass.
EndOfPass(g) ==
  /\ pc[g] = "trying" /\ order[g] = <<>>
  /\ UNCHANGED <<channels, done>>
  /\ LET default == Indices(cases[g], {"default"})
     IN  \/ \E i \in default : Returns(g, i)
         \/ default = {} /\ TimedOut(g) /\ Returns(g, giveUp[g])
         \/ /\ default = {} /\ ~TimedOut(g)
            /\ UNCHANGED <<pc, cases, giveUp, expired, result>>
            /\ NewPass(g, cases[g])

\* The deadline passes.
Deadline(g) ==
  /\ pc[g] = "trying" /\ giveUp[g] # 0 /\ ~expired[g]
  /\ Becomes(expired, g, TRUE)
  /\ UNCHANGED <<channels, pc, cases, order, giveUp, result, done, steady>>

\* Other goroutines use the channels.
Others(c) ==
  /\ Put(c) \/ Take(c) \/ Close(c)
  /\ UNCHANGED call
  /\ steady' = [g \in Goroutines |-> StillReady(g)]

Next ==
  \/ \E c \in Chans : Others(c)
  \/ \E g \in Goroutines :
       \/ Try(g) \/ EndOfPass(g) \/ Deadline(g)
       \/ \E array \in CaseArrays : Start(g, array)

(***************************************************************************)
(* Fairness.  A goroutine that yields goes to the end of its worker's      *)
(* Local list, which is served before anything else, so it polls again;    *)
(* and time passes.  Nothing is assumed of the users of the channels.      *)
(***************************************************************************)
Fairness ==
  \A g \in Goroutines : WF_vars(Try(g) \/ EndOfPass(g)) /\ WF_vars(Deadline(g))

Spec == Init /\ [][Next]_vars /\ Fairness

-----------------------------------------------------------------------------
(***************************************************************************)
(* Properties.                                                             *)
(***************************************************************************)

\* The step that ends g's call leaves it with an outcome that is true.
Outcome(g) ==
  pc[g] = "trying" /\ pc'[g] = "idle" =>
    LET r == result'[g]
    IN  IF r \in Active(cases[g])
        THEN done'[g] = <<r>>
        ELSE done'[g] = <<>> /\ (r # 0 => steady[g] = {})

\* What Select_One returns is what it has done: the operation of the case whose
\* index it returns and no other; nothing when it raises; and when it takes the
\* default or gives up, nothing either, and no case was ready all through the last
\* pass, whatever other goroutines did between the attempts.
SelectOutcome == [][\A g \in Goroutines : Outcome(g)]_vars

\* A call does not poll for ever when it has a default or a timeout, nor when one
\* of its cases stays ready, however the other cases come and go.
SelectReturns ==
  \A g \in Goroutines :
    /\ ~<>[](pc[g] = "trying" /\ (giveUp[g] # 0 \/ Indices(cases[g], {"default"}) # {}))
    /\ \A i \in 1..MaxCases :
         ~<>[](pc[g] = "trying" /\ i \in Active(cases[g]) /\ Ready(cases[g][i]))

=============================================================================
