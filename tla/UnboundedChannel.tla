--------------------------- MODULE UnboundedChannel ---------------------------
(***************************************************************************)
(* The unbounded channel (runtime/src/gada-async-channels-unbounded.adb):  *)
(* a protected object with a singly linked list of buffer nodes and a FIFO *)
(* list of waiting receivers.  Send never waits.  Receive is, as in the    *)
(* buffered channel, two protected calls with a gap between them.          *)
(*                                                                         *)
(* Nodes are heap addresses: the allocator may return any free one, also   *)
(* one that was a node of this list before, and none when memory is short. *)
(* Goroutines are scheduled as GoroutineLifecycle allows.                  *)
(***************************************************************************)
EXTENDS Naturals, Sequences, FiniteSets, Functions

CONSTANTS
  Goroutines,
  Workers,     \* worker tasks of the scheduler
  Tasks,       \* callers outside the scheduler: the main task, Ada tasks
  Nodes,       \* heap addresses for Node records
  Null,        \* the null Node_Access
  MaxOps,      \* bound: operations each caller starts
  NoValue      \* Element_Type's default, in a fresh Wait_Slot

Callers == Goroutines \cup Tasks
Values  == Callers \X (1..MaxOps)

ASSUME UnboundedAssumption ==
  /\ MaxOps \in Nat
  /\ Goroutines \cap Tasks = {}
  /\ IsFiniteSet(Nodes) /\ Null \notin Nodes
  /\ NoValue \notin Values

VARIABLES
  head, tail, count, closed, \* Channel_State: list, length and Closed_F
  receivers,                 \* Channel_State: waiting goroutines, FIFO
  heap,      \* the allocated nodes
  value, next, \* the fields of each node, stale once it is freed
  slot,      \* the Wait_Slot of each goroutine that waits or was just woken
  pc, ops,   \* where each caller is in its operation, operations it started
  status,    \* GoroutineLifecycle
  sent, received, \* history: values accepted and delivered, in order
  got,       \* history: values each caller's receives returned
  outcome,   \* history: how the send of each value ended
  eof        \* history: has a receive returned OK => False?

list    == <<head, tail, count, heap, value, next>>
channel == <<list, closed, receivers, slot, status, sent, received>>
vars    == <<channel, pc, ops, got, outcome, eof>>

Sched == INSTANCE GoroutineLifecycle

CallerPC == {"idle", "receiving", "recvParked"}
Outcome  == {"none", "sent", "closed", "no storage"}
NoSlot   == [value |-> NoValue, ok |-> TRUE]

Init ==
  /\ head = Null /\ tail = Null /\ count = 0
  /\ closed = FALSE
  /\ receivers = <<>>
  /\ heap = {}
  /\ value = [n \in Nodes |-> NoValue]
  /\ next = [n \in Nodes |-> Null]
  /\ slot = [g \in Goroutines |-> NoSlot]
  /\ pc = [c \in Callers |-> "idle"]
  /\ ops = [c \in Callers |-> 0]
  /\ status = [g \in Goroutines |-> "runnable"]
  /\ sent = <<>> /\ received = <<>>
  /\ got = [c \in Callers |-> {}]
  /\ outcome = [v \in Values |-> "none"]
  /\ eof = FALSE

-----------------------------------------------------------------------------
(***************************************************************************)
(* Channel_State's protected operations, as the parts of an action that    *)
(* determine channel'.                                                     *)
(***************************************************************************)

\* Send_Or_Handoff, first branch: v goes to the oldest waiting receiver.
HandOff(v) ==
  /\ ~closed /\ receivers # <<>>
  /\ slot' = [slot EXCEPT ![Head(receivers)] = [value |-> v, ok |-> TRUE]]
  /\ Sched!Wake({Head(receivers)})
  /\ receivers' = Tail(receivers)
  /\ sent' = Append(sent, v)
  /\ received' = Append(received, v)
  /\ UNCHANGED <<list, closed>>

\* Mutant of AppendNode: Closed_F is not looked at.
AppendNodeWhenClosed(v, n) ==
  /\ receivers = <<>>
  /\ n \in Nodes \ heap
  /\ heap' = heap \cup {n}
  /\ value' = [value EXCEPT ![n] = v]
  /\ next' = [m \in Nodes |-> CASE m = n -> Null [] m = tail -> n [] OTHER -> next[m]]
  /\ head' = IF tail = Null THEN n ELSE head
  /\ tail' = n
  /\ count' = count + 1
  /\ sent' = Append(sent, v)
  /\ UNCHANGED <<closed, receivers, slot, status, received>>

\* Send_Or_Handoff, second branch: a new node at the tail of the list.
AppendNode(v, n) ==
  /\ ~closed /\ receivers = <<>>
  /\ n \in Nodes \ heap
  /\ heap' = heap \cup {n}
  /\ value' = [value EXCEPT ![n] = v]
  /\ next' = [m \in Nodes |-> CASE m = n -> Null [] m = tail -> n [] OTHER -> next[m]]
  /\ head' = IF tail = Null THEN n ELSE head
  /\ tail' = n
  /\ count' = count + 1
  /\ sent' = Append(sent, v)
  /\ UNCHANGED <<closed, receivers, slot, status, received>>

\* Mutant of TakeHead: Tail is left on the node that is freed.
TakeHeadKeepsTail ==
  /\ head # Null
  /\ head' = next[head]
  /\ count' = count - 1
  /\ heap' = heap \ {head}
  /\ received' = Append(received, value[head])
  /\ UNCHANGED <<tail, value, next, closed, receivers, slot, status, sent>>

\* Head /= null in Try_Receive and in Park_Receiver: the head leaves the list
\* and is freed.
TakeHead ==
  /\ head # Null
  /\ head' = next[head]
  /\ tail' = IF next[head] = Null THEN Null ELSE tail
  /\ count' = count - 1
  /\ heap' = heap \ {head}
  /\ received' = Append(received, value[head])
  /\ UNCHANGED <<value, next, closed, receivers, slot, status, sent>>

-----------------------------------------------------------------------------
(***************************************************************************)
(* The public operations.                                                  *)
(***************************************************************************)

CanStep(c) == c \in Goroutines => status[c] = "running"

Begin(c) ==
  /\ CanStep(c) /\ pc[c] = "idle" /\ ops[c] < MaxOps
  /\ ops' = [ops EXCEPT ![c] = @ + 1]

NextValue(c)   == <<c, ops[c] + 1>>
EndsAs(v, how) == outcome' = [outcome EXCEPT ![v] = how]
GoesTo(c, p)   == pc' = [pc EXCEPT ![c] = p]

\* Send: Channel_Closed, a hand-off, a new node, or Storage_Error before any
\* field has changed.
Send(c) ==
  LET v == NextValue(c) IN
  /\ Begin(c)
  /\ \/ closed /\ EndsAs(v, "closed") /\ UNCHANGED channel
     \/ (HandOff(v) \/ \E n \in Nodes : AppendNode(v, n)) /\ EndsAs(v, "sent")
     \/ /\ ~closed /\ receivers = <<>> /\ heap = Nodes
        /\ EndsAs(v, "no storage")
        /\ UNCHANGED channel
  /\ UNCHANGED <<pc, got, eof>>

\* Mutant of ReceiveAtOnce: Closed_F is looked at before Head.
ReceiveAtOnceClosedFirst(c) ==
  \/ /\ ~closed /\ TakeHead
     /\ got' = [got EXCEPT ![c] = @ \cup {value[head]}]
     /\ UNCHANGED eof
  \/ /\ closed
     /\ eof' = TRUE
     /\ UNCHANGED <<channel, got>>

\* A receive that does not have to wait: a value, or OK => False.
ReceiveAtOnce(c) ==
  \/ /\ TakeHead
     /\ got' = [got EXCEPT ![c] = @ \cup {value[head]}]
     /\ UNCHANGED eof
  \/ /\ head = Null /\ closed
     /\ eof' = TRUE
     /\ UNCHANGED <<channel, got>>

\* Receive up to the gap; outside a goroutine an empty buffer raises.
Receive(c) ==
  /\ Begin(c)
  /\ \/ ReceiveAtOnce(c) /\ UNCHANGED pc
     \/ /\ head = Null /\ ~closed
        /\ IF c \in Goroutines THEN GoesTo(c, "receiving") ELSE UNCHANGED pc
        /\ UNCHANGED <<channel, got, eof>>
  /\ UNCHANGED outcome

\* Mutant of ParkReceiver: nothing is checked again after the gap.
ParkReceiverUnchecked(c) ==
  /\ CanStep(c) /\ pc[c] = "receiving"
  /\ receivers' = Append(receivers, c)
  /\ Sched!Block(c)
  /\ GoesTo(c, "recvParked")
  /\ UNCHANGED <<list, closed, slot, sent, received, got, eof, ops, outcome>>

\* Receive after the gap: Park_Receiver, then Park unless it found something.
ParkReceiver(c) ==
  /\ CanStep(c) /\ pc[c] = "receiving"
  /\ \/ ReceiveAtOnce(c) /\ GoesTo(c, "idle")
     \/ /\ head = Null /\ ~closed
        /\ receivers' = Append(receivers, c)
        /\ Sched!Block(c)
        /\ GoesTo(c, "recvParked")
        /\ UNCHANGED <<list, closed, slot, sent, received, got, eof>>
  /\ UNCHANGED <<ops, outcome>>

\* Mutant of ResumeReceive: the slot's Value is not copied out.
ResumeReceiveDropsValue(c) ==
  /\ CanStep(c) /\ pc[c] = "recvParked"
  /\ eof' = (eof \/ ~slot[c].ok)
  /\ slot' = [slot EXCEPT ![c] = NoSlot]
  /\ GoesTo(c, "idle")
  /\ UNCHANGED <<list, closed, receivers, status, sent, received, ops, got, outcome>>

\* Receive after Park: V and OK are both assigned from the slot, and the slot is
\* freed.
ResumeReceive(c) ==
  /\ CanStep(c) /\ pc[c] = "recvParked"
  /\ IF slot[c].ok
     THEN got' = [got EXCEPT ![c] = @ \cup {slot[c].value}] /\ UNCHANGED eof
     ELSE eof' = TRUE /\ UNCHANGED got
  /\ slot' = [slot EXCEPT ![c] = NoSlot]
  /\ GoesTo(c, "idle")
  /\ UNCHANGED <<list, closed, receivers, status, sent, received, ops, outcome>>

\* Mutant of Close: waiting receivers are left alone.
CloseWakesNobody(c) ==
  /\ Begin(c)
  /\ closed' = TRUE
  /\ UNCHANGED <<list, receivers, slot, status, sent, received, pc, got, outcome, eof>>

\* Close: Mark_Closed wakes every receiver; a second Close raises Channel_Closed.
Close(c) ==
  /\ Begin(c)
  /\ IF closed
     THEN UNCHANGED channel
     ELSE /\ closed' = TRUE
          /\ slot' = [g \in Goroutines |->
               IF g \in Range(receivers) THEN [slot[g] EXCEPT !.ok = FALSE] ELSE slot[g]]
          /\ Sched!Wake(Range(receivers))
          /\ receivers' = <<>>
          /\ UNCHANGED <<list, sent, received>>
  /\ UNCHANGED <<pc, got, outcome, eof>>

-----------------------------------------------------------------------------
(***************************************************************************)
(* The scheduler dispatches a goroutine; its body returns between          *)
(* operations.                                                             *)
(***************************************************************************)
Dispatch(g) ==
  /\ Sched!Run(g)
  /\ UNCHANGED <<list, closed, receivers, slot, sent, received,
                 pc, ops, got, outcome, eof>>

Return(g) ==
  /\ pc[g] = "idle"
  /\ Sched!Finish(g)
  /\ UNCHANGED <<list, closed, receivers, slot, sent, received,
                 pc, ops, got, outcome, eof>>

Operation(c) == Send(c) \/ Receive(c) \/ Close(c)

Waiting(g) == ParkReceiver(g) \/ ResumeReceive(g)

Next ==
  \/ \E c \in Callers : Operation(c)
  \/ \E g \in Goroutines : Waiting(g) \/ Dispatch(g) \/ Return(g)

Spec == Init /\ [][Next]_vars

(***************************************************************************)
(* Fairness, as for the buffered channel.                                  *)
(***************************************************************************)
Fairness ==
  \A g \in Goroutines :
    /\ WF_vars(Waiting(g))
    /\ WF_vars(Operation(g) \/ Return(g))
    /\ SF_vars(Dispatch(g))

FairSpec == Spec /\ Fairness

-----------------------------------------------------------------------------
(***************************************************************************)
(* Properties.                                                             *)
(***************************************************************************)

\* Types of the channel's state; Head and Tail are null or allocated nodes, and
\* Count is Natural, so one TakeHead too many would raise Constraint_Error.
TypeOK ==
  /\ head \in heap \cup {Null} /\ tail \in heap \cup {Null}
  /\ count \in Nat
  /\ closed \in BOOLEAN
  /\ receivers \in Seq(Goroutines)
  /\ heap \in SUBSET Nodes
  /\ value \in [Nodes -> Values \cup {NoValue}]
  /\ next \in [Nodes -> Nodes \cup {Null}]
  /\ slot \in [Goroutines -> [value : Values \cup {NoValue}, ok : BOOLEAN]]
  /\ pc \in [Callers -> CallerPC]
  /\ ops \in [Callers -> 0..MaxOps]
  /\ status \in [Goroutines -> Sched!Statuses]
  /\ sent \in Seq(Values) /\ received \in Seq(Values)
  /\ got \in [Callers -> SUBSET Values]
  /\ outcome \in [Values -> Outcome]
  /\ eof \in BOOLEAN

\* s lists the nodes from Head on: following Next visits them in this order and
\* ends at Tail.
Lists(s) ==
  /\ IsInjective(s)
  /\ head = IF s = <<>> THEN Null ELSE s[1]
  /\ tail = IF s = <<>> THEN Null ELSE s[Len(s)]
  /\ \A i \in DOMAIN s : next[s[i]] = IF i = Len(s) THEN Null ELSE s[i + 1]

\* The list holds exactly the values accepted and not delivered, in order; every
\* node on it is allocated, none is on it twice and none leaks.
ListHoldsBacklog ==
  /\ Len(received) + count = Len(sent)
  /\ \A i \in 1..Len(received) : received[i] = sent[i]
  /\ \E s \in [1..count -> heap] :
       /\ Lists(s)
       /\ \A i \in 1..count : value[s[i]] = sent[Len(received) + i]
       /\ heap = {s[i] : i \in 1..count}

\* A goroutine is in the waiting list, once, exactly from its registration to its
\* wake-up; it waits only while there is nothing to receive and the channel is open.
WaitersAreBlocked ==
  /\ IsInjective(receivers)
  /\ \A g \in Goroutines :
       g \in Range(receivers) <=> pc[g] = "recvParked" /\ status[g] = "blocked"
  /\ receivers # <<>> => head = Null /\ ~closed

\* Holders(v): who has a delivered value, as a result or in a woken waiter's slot.
Holders(v) ==
  {c \in Callers : v \in got[c]} \cup
  {g \in Goroutines : /\ pc[g] = "recvParked" /\ status[g] # "blocked"
                      /\ slot[g].ok /\ slot[g].value = v}

\* The values of the Sends that returned, and no others, entered the channel; a
\* value that left it is with exactly one receiver.
DeliveredOnce ==
  \A v \in Values :
    /\ outcome[v] = "sent" <=> v \in Range(sent)
    /\ Cardinality(Holders(v)) = (IF v \in Range(received) THEN 1 ELSE 0)

\* OK => False is final: the channel is closed and every value that was ever
\* accepted has been delivered.
EndOfStream == eof => closed /\ received = sent

Fifo == INSTANCE FifoChannel WITH Cap <- Cardinality(Nodes)

\* The channel implements a FIFO that accepts nothing once closed and is bounded
\* by the heap alone: a node that leaves the list is free for the next value.
ImplementsFifo == Fifo!Spec

\* Once the channel is closed, nobody stays inside a Receive.
CloseReleases == \A g \in Goroutines : closed /\ pc[g] # "idle" ~> pc[g] = "idle"

=============================================================================
