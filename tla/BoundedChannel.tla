---------------------------- MODULE BoundedChannel ----------------------------
(***************************************************************************)
(* The buffered channel (runtime/src/gada-async-channels-bounded.adb): a   *)
(* protected object with a ring buffer and two FIFO lists of waiting       *)
(* goroutines, and the public operations around it.  A blocking operation  *)
(* is two protected calls with a gap: the attempt, then the registration   *)
(* as a waiter; what other callers do in the gap is what the second call   *)
(* has to check again.                                                     *)
(*                                                                         *)
(* Goroutines are scheduled as GoroutineLifecycle allows.  A waiter blocks *)
(* in the step that registers it (the scheduler tolerates an Unpark that   *)
(* overtakes Park), and every wake-up happens inside a protected call.     *)
(* Callers that are not goroutines may call too but are never parked.      *)
(***************************************************************************)
EXTENDS Naturals, Sequences, FiniteSets, Functions

CONSTANTS
  Goroutines,
  Workers,     \* worker tasks of the scheduler
  Tasks,       \* callers outside the scheduler: the main task, Ada tasks
  Cap,         \* Capacity given to Make
  MaxOps,      \* bound: operations each caller starts
  NoValue      \* Element_Type's default, in the Wait_Slot of a receiver

Callers == Goroutines \cup Tasks
Values  == Callers \X (1..MaxOps)

ASSUME ChannelAssumption ==
  /\ Cap \in Nat \ {0} /\ MaxOps \in Nat
  /\ Goroutines \cap Tasks = {}
  /\ NoValue \notin Values

VARIABLES
  buf, head, tail, count, closed,  \* Channel_State: ring buffer and Closed_F
  senders, receivers,              \* Channel_State: waiting goroutines, FIFO
  slot,      \* the Wait_Slot of each goroutine that waits or was just woken
  pc, ops,   \* where each caller is in its operation, operations it started
  status,    \* GoroutineLifecycle
  sent, received, \* history: values accepted and delivered, in order
  got,       \* history: values each caller's receives returned
  outcome,   \* history: how the send of each value ended
  eof        \* history: some receive has returned OK => False

ring    == <<buf, head, tail, count>>
channel == <<ring, closed, senders, receivers, slot, status, sent, received>>
vars    == <<channel, pc, ops, got, outcome, eof>>

Sched == INSTANCE GoroutineLifecycle

CallerPC == {"idle", "sending", "sendParked", "receiving", "recvParked"}
Outcome  == {"none", "sent", "closed", "refused"}
NoSlot   == [value |-> NoValue, ok |-> TRUE, closedOnWake |-> FALSE]

Init ==
  /\ buf = [i \in 1..Cap |-> NoValue]
  /\ head = 1 /\ tail = 1 /\ count = 0
  /\ closed = FALSE
  /\ senders = <<>> /\ receivers = <<>>
  /\ slot = [g \in Goroutines |-> NoSlot]
  /\ pc = [c \in Callers |-> "idle"]
  /\ ops = [c \in Callers |-> 0]
  /\ status = [g \in Goroutines |-> "runnable"]
  /\ sent = <<>> /\ received = <<>>
  /\ got = [c \in Callers |-> {}]
  /\ outcome = [v \in Values |-> "none"]
  /\ eof = FALSE

-----------------------------------------------------------------------------
(***************************************************************************)
(* Channel_State's protected operations, as the parts of an action that    *)
(* determine channel'.                                                     *)
(***************************************************************************)

\* Mutant of Wrap: the ring wraps one slot late.
WrapLate(i) == IF i > Cap THEN 1 ELSE i + 1

Wrap(i) == IF i = Cap THEN 1 ELSE i + 1

\* Try_Buffered_Send, first branch: v goes to the oldest waiting receiver.
HandOff(v) ==
  /\ ~closed /\ receivers # <<>>
  /\ slot' = [slot EXCEPT ![Head(receivers)].value = v, ![Head(receivers)].ok = TRUE]
  /\ Sched!Wake({Head(receivers)})
  /\ receivers' = Tail(receivers)
  /\ sent' = Append(sent, v)
  /\ received' = Append(received, v)
  /\ UNCHANGED <<ring, closed, senders>>

\* Mutant of Store: Closed_F is not looked at.
StoreWhenClosed(v) ==
  /\ receivers = <<>> /\ count < Cap
  /\ buf' = [buf EXCEPT ![tail] = v]
  /\ tail' = Wrap(tail)
  /\ count' = count + 1
  /\ sent' = Append(sent, v)
  /\ UNCHANGED <<head, closed, senders, receivers, slot, status, received>>

\* Try_Buffered_Send, second branch: v goes into a free slot of the ring.
Store(v) ==
  /\ ~closed /\ receivers = <<>> /\ count < Cap
  /\ buf' = [buf EXCEPT ![tail] = v]
  /\ tail' = Wrap(tail)
  /\ count' = count + 1
  /\ sent' = Append(sent, v)
  /\ UNCHANGED <<head, closed, senders, receivers, slot, status, received>>

\* Try_Buffered_Send's outcome Stored => False, Closed => False.
Full == ~closed /\ receivers = <<>> /\ count >= Cap

\* Mutant of TakeHead: the promoted value goes where the head was.
TakeHeadRefillsHead ==
  /\ count > 0
  /\ head' = Wrap(head)
  /\ received' = Append(received, buf[head])
  /\ IF senders = <<>>
     THEN /\ count' = count - 1
          /\ UNCHANGED <<buf, tail, senders, status, sent>>
     ELSE /\ buf' = [buf EXCEPT ![head] = slot[Head(senders)].value]
          /\ tail' = Wrap(tail)
          /\ senders' = Tail(senders)
          /\ Sched!Wake({Head(senders)})
          /\ sent' = Append(sent, slot[Head(senders)].value)
          /\ UNCHANGED count
  /\ UNCHANGED <<closed, receivers, slot>>

\* Count > 0 in Try_Buffered_Receive and in Park_Receiver: the head leaves the
\* ring and the oldest waiting sender's value enters it.
TakeHead ==
  /\ count > 0
  /\ head' = Wrap(head)
  /\ received' = Append(received, buf[head])
  /\ IF senders = <<>>
     THEN /\ count' = count - 1
          /\ UNCHANGED <<buf, tail, senders, status, sent>>
     ELSE LET s == Head(senders) IN
          /\ buf' = [buf EXCEPT ![tail] = slot[s].value]
          /\ tail' = Wrap(tail)
          /\ senders' = Tail(senders)
          /\ Sched!Wake({s})
          /\ sent' = Append(sent, slot[s].value)
          /\ UNCHANGED count
  /\ UNCHANGED <<closed, receivers, slot>>

-----------------------------------------------------------------------------
(***************************************************************************)
(* The public operations.                                                  *)
(***************************************************************************)

CanStep(c) == c \in Goroutines => status[c] = "running"

Begin(c) ==
  /\ CanStep(c) /\ pc[c] = "idle" /\ ops[c] < MaxOps
  /\ ops' = [ops EXCEPT ![c] = @ + 1]

\* The value of the send that c is starting, and of the one it is inside.
NextValue(c) == <<c, ops[c] + 1>>
OwnValue(c)  == <<c, ops[c]>>

EndsAs(v, how) == outcome' = [outcome EXCEPT ![v] = how]
GoesTo(c, p)   == pc' = [pc EXCEPT ![c] = p]

\* Try_Buffered_Send when it does not have to wait: Channel_Closed or stored.
SendAtOnce(c) ==
  \/ /\ closed /\ EndsAs(NextValue(c), "closed")
     /\ UNCHANGED channel
  \/ /\ HandOff(NextValue(c)) \/ Store(NextValue(c))
     /\ EndsAs(NextValue(c), "sent")

\* Send up to the gap; outside a goroutine a full buffer raises Program_Error.
Send(c) ==
  /\ Begin(c)
  /\ \/ SendAtOnce(c) /\ UNCHANGED pc
     \/ /\ Full /\ c \in Goroutines /\ GoesTo(c, "sending")
        /\ UNCHANGED <<channel, outcome>>
     \/ /\ Full /\ c \notin Goroutines /\ EndsAs(NextValue(c), "refused")
        /\ UNCHANGED <<channel, pc>>
  /\ UNCHANGED <<got, eof>>

\* Mutant of ParkSender: a Close in the gap goes unnoticed.
ParkSenderUnchecked(c) ==
  /\ CanStep(c) /\ pc[c] = "sending"
  /\ slot' = [slot EXCEPT ![c] = [NoSlot EXCEPT !.value = OwnValue(c)]]
  /\ senders' = Append(senders, c)
  /\ Sched!Block(c)
  /\ GoesTo(c, "sendParked")
  /\ UNCHANGED <<ring, closed, receivers, sent, received, outcome, ops, got, eof>>

\* Send after the gap: Park_Sender, then Park unless the channel was closed.
ParkSender(c) ==
  /\ CanStep(c) /\ pc[c] = "sending"
  /\ IF closed
     THEN GoesTo(c, "idle") /\ EndsAs(OwnValue(c), "closed") /\ UNCHANGED channel
     ELSE /\ slot' = [slot EXCEPT ![c] = [NoSlot EXCEPT !.value = OwnValue(c)]]
          /\ senders' = Append(senders, c)
          /\ Sched!Block(c)
          /\ GoesTo(c, "sendParked")
          /\ UNCHANGED <<ring, closed, receivers, sent, received, outcome>>
  /\ UNCHANGED <<ops, got, eof>>

\* Mutant of ResumeSend: Closed_On_Wake is not looked at.
ResumeSendAlwaysSent(c) ==
  /\ CanStep(c) /\ pc[c] = "sendParked"
  /\ EndsAs(OwnValue(c), "sent")
  /\ slot' = [slot EXCEPT ![c] = NoSlot]
  /\ GoesTo(c, "idle")
  /\ UNCHANGED <<ring, closed, senders, receivers, status, sent, received,
                 ops, got, eof>>

\* Send after Park: the slot says whether a Receive or Close woke it.
ResumeSend(c) ==
  /\ CanStep(c) /\ pc[c] = "sendParked"
  /\ EndsAs(OwnValue(c), IF slot[c].closedOnWake THEN "closed" ELSE "sent")
  /\ slot' = [slot EXCEPT ![c] = NoSlot]
  /\ GoesTo(c, "idle")
  /\ UNCHANGED <<ring, closed, senders, receivers, status, sent, received,
                 ops, got, eof>>

TrySend(c) ==
  /\ Begin(c)
  /\ \/ SendAtOnce(c)
     \/ Full /\ EndsAs(NextValue(c), "refused") /\ UNCHANGED channel
  /\ UNCHANGED <<pc, got, eof>>

\* Mutant of ReceiveAtOnce: Closed_F is looked at before Count.
ReceiveAtOnceClosedFirst(c) ==
  \/ /\ ~closed /\ TakeHead
     /\ got' = [got EXCEPT ![c] = @ \cup {buf[head]}]
     /\ UNCHANGED eof
  \/ /\ closed
     /\ eof' = TRUE
     /\ UNCHANGED <<channel, got>>

\* A receive that does not have to wait: a value, or OK => False.
ReceiveAtOnce(c) ==
  \/ /\ TakeHead
     /\ got' = [got EXCEPT ![c] = @ \cup {buf[head]}]
     /\ UNCHANGED eof
  \/ /\ count = 0 /\ closed
     /\ eof' = TRUE
     /\ UNCHANGED <<channel, got>>

\* Receive up to the gap; outside a goroutine an empty buffer raises.
Receive(c) ==
  /\ Begin(c)
  /\ \/ ReceiveAtOnce(c) /\ UNCHANGED pc
     \/ /\ count = 0 /\ ~closed
        /\ IF c \in Goroutines THEN GoesTo(c, "receiving") ELSE UNCHANGED pc
        /\ UNCHANGED <<channel, got, eof>>
  /\ UNCHANGED outcome

\* Mutant of ParkReceiver: nothing is checked again after the gap.
ParkReceiverUnchecked(c) ==
  /\ CanStep(c) /\ pc[c] = "receiving"
  /\ receivers' = Append(receivers, c)
  /\ Sched!Block(c)
  /\ GoesTo(c, "recvParked")
  /\ UNCHANGED <<ring, closed, senders, slot, sent, received, ops, got, outcome, eof>>

\* Receive after the gap: Park_Receiver, then Park unless it found something.
ParkReceiver(c) ==
  /\ CanStep(c) /\ pc[c] = "receiving"
  /\ \/ ReceiveAtOnce(c) /\ GoesTo(c, "idle")
     \/ /\ count = 0 /\ ~closed
        /\ receivers' = Append(receivers, c)
        /\ Sched!Block(c)
        /\ GoesTo(c, "recvParked")
        /\ UNCHANGED <<ring, closed, senders, slot, sent, received, got, eof>>
  /\ UNCHANGED <<ops, outcome>>

\* Mutant of ResumeReceive: the slot's Value is not copied out.
ResumeReceiveDropsValue(c) ==
  /\ CanStep(c) /\ pc[c] = "recvParked"
  /\ eof' = (eof \/ ~slot[c].ok)
  /\ slot' = [slot EXCEPT ![c] = NoSlot]
  /\ GoesTo(c, "idle")
  /\ UNCHANGED <<ring, closed, senders, receivers, status, sent, received,
                 ops, got, outcome>>

\* Receive after Park: V and OK come from the slot.
ResumeReceive(c) ==
  /\ CanStep(c) /\ pc[c] = "recvParked"
  /\ IF slot[c].ok
     THEN got' = [got EXCEPT ![c] = @ \cup {slot[c].value}] /\ UNCHANGED eof
     ELSE eof' = TRUE /\ UNCHANGED got
  /\ slot' = [slot EXCEPT ![c] = NoSlot]
  /\ GoesTo(c, "idle")
  /\ UNCHANGED <<ring, closed, senders, receivers, status, sent, received,
                 ops, outcome>>

TryReceive(c) ==
  /\ Begin(c)
  /\ ReceiveAtOnce(c) \/ (count = 0 /\ ~closed /\ UNCHANGED <<channel, got, eof>>)
  /\ UNCHANGED <<pc, outcome>>

\* Close: Mark_Closed wakes everybody; a second Close raises Channel_Closed.
Close(c) ==
  /\ Begin(c)
  /\ IF closed
     THEN UNCHANGED channel
     ELSE /\ closed' = TRUE
          /\ slot' = [g \in Goroutines |->
               CASE g \in Range(senders)   -> [slot[g] EXCEPT !.closedOnWake = TRUE]
                 [] g \in Range(receivers) -> [slot[g] EXCEPT !.ok = FALSE]
                 [] OTHER                  -> slot[g]]
          /\ Sched!Wake(Range(senders) \cup Range(receivers))
          /\ senders' = <<>> /\ receivers' = <<>>
          /\ UNCHANGED <<ring, sent, received>>
  /\ UNCHANGED <<pc, got, outcome, eof>>

-----------------------------------------------------------------------------
(***************************************************************************)
(* The scheduler dispatches a goroutine; its body returns between          *)
(* operations.                                                             *)
(***************************************************************************)
Dispatch(g) ==
  /\ Sched!Run(g)
  /\ UNCHANGED <<ring, closed, senders, receivers, slot, sent, received,
                 pc, ops, got, outcome, eof>>

Return(g) ==
  /\ pc[g] = "idle"
  /\ Sched!Finish(g)
  /\ UNCHANGED <<ring, closed, senders, receivers, slot, sent, received,
                 pc, ops, got, outcome, eof>>

Operation(c) ==
  \/ Send(c) \/ TrySend(c) \/ Receive(c) \/ TryReceive(c) \/ Close(c)

Waiting(g) ==
  ParkSender(g) \/ ResumeSend(g) \/ ParkReceiver(g) \/ ResumeReceive(g)

Next ==
  \/ \E c \in Callers : Operation(c)
  \/ \E g \in Goroutines : Waiting(g) \/ Dispatch(g) \/ Return(g)

Spec == Init /\ [][Next]_vars

(***************************************************************************)
(* Fairness.  A running goroutine is an OS thread and keeps taking steps;  *)
(* a runnable one is dispatched when a worker is free for it, which is     *)
(* what Scheduler's FreshRuns and UnparkedRuns establish.                  *)
(***************************************************************************)
Fairness ==
  \A g \in Goroutines :
    /\ WF_vars(Waiting(g))
    /\ WF_vars(Operation(g) \/ Return(g))
    /\ SF_vars(Dispatch(g))

FairSpec == Spec /\ Fairness

-----------------------------------------------------------------------------
(***************************************************************************)
(* Properties.                                                             *)
(***************************************************************************)

\* Types of the channel's state; Head, Tail and Count index the ring within its
\* bounds, where the code's range checks would raise Constraint_Error.
TypeOK ==
  /\ buf \in [1..Cap -> Values \cup {NoValue}]
  /\ head \in 1..Cap /\ tail \in 1..Cap /\ count \in 0..Cap
  /\ closed \in BOOLEAN
  /\ senders \in Seq(Goroutines) /\ receivers \in Seq(Goroutines)
  /\ slot \in [Goroutines -> [value : Values \cup {NoValue}, ok : BOOLEAN,
                              closedOnWake : BOOLEAN]]
  /\ pc \in [Callers -> CallerPC]
  /\ ops \in [Callers -> 0..MaxOps]
  /\ status \in [Goroutines -> Sched!Statuses]
  /\ sent \in Seq(Values) /\ received \in Seq(Values)
  /\ got \in [Callers -> SUBSET Values]
  /\ outcome \in [Values -> Outcome]
  /\ eof \in BOOLEAN

\* At(i): the ring position of the i-th value from Head on.
At(i) == IF head + i - 1 > Cap THEN head + i - 1 - Cap ELSE head + i - 1

\* The ring holds exactly the values accepted and not delivered, in order, also
\* when it is full, when it wraps and when a waiting sender is promoted.
RingHoldsBacklog ==
  /\ Len(received) + count = Len(sent)
  /\ \A i \in 1..Len(received) : received[i] = sent[i]
  /\ \A i \in 1..count : buf[At(i)] = sent[Len(received) + i]
  /\ tail = At(IF count = Cap THEN 1 ELSE count + 1)

\* A goroutine is in one waiting list, once, exactly from its registration to
\* its wake-up, so it is woken once: what Unpark requires of its callers.  Receivers
\* wait on an empty buffer only, so a value handed over overtakes none; and nobody
\* waits on a closed channel.
WaitersAreBlocked ==
  /\ IsInjective(senders) /\ IsInjective(receivers)
  /\ \A g \in Goroutines :
       /\ g \in Range(senders) <=> pc[g] = "sendParked" /\ status[g] = "blocked"
       /\ g \in Range(receivers) <=> pc[g] = "recvParked" /\ status[g] = "blocked"
  /\ receivers # <<>> => count = 0
  /\ closed => senders = <<>> /\ receivers = <<>>

\* A Send that returned put its value in the channel once; one that raised (or a
\* Try_Send that was refused) left nothing behind for a receiver to find.
SendOutcome ==
  /\ IsInjective(sent)
  /\ \A v \in Values :
       /\ outcome[v] = "sent" => v \in Range(sent)
       /\ outcome[v] \in {"closed", "refused"} => v \notin Range(sent)

\* Holders(v): who has a delivered value, as a result or in a woken waiter's slot.
Holders(v) ==
  {c \in Callers : v \in got[c]} \cup
  {g \in Goroutines : /\ pc[g] = "recvParked" /\ status[g] # "blocked"
                      /\ slot[g].ok /\ slot[g].value = v}

\* A value that left the channel is with exactly one receiver; none that is still
\* in the channel, or was never accepted, is with any.
DeliveredOnce ==
  \A v \in Values : Cardinality(Holders(v)) = (IF v \in Range(received) THEN 1 ELSE 0)

\* OK => False is final: the channel is closed and every value that was ever
\* accepted has been delivered.
EndOfStream == eof => closed /\ received = sent

\* No sender waits while a receiver waits (spec comment of Bounded, lines 12-19).
NoStrandedPair == ~(senders # <<>> /\ receivers # <<>>)

Fifo == INSTANCE FifoChannel

\* The channel implements a FIFO of capacity Cap that accepts nothing once closed:
\* every operation is one step of FifoChannel or none.
ImplementsFifo == Fifo!Spec

\* Once the channel is closed, nobody stays inside a Send or a Receive.
CloseReleases == \A g \in Goroutines : closed /\ pc[g] # "idle" ~> pc[g] = "idle"

=============================================================================
