----------------------- MODULE BoundedChannelInvariant -----------------------
(***************************************************************************)
(* The inductive invariant of BoundedChannel: besides the properties that  *)
(* are inductive themselves, what is known of the value of each send and   *)
(* of the slot of each waiter at each point of an operation.               *)
(***************************************************************************)
EXTENDS BoundedChannel

\* Only goroutines pass the gap between an attempt and a registration.
TasksIdle == \A c \in Callers : pc[c] # "idle" => c \in Goroutines

\* A send that is under way has not ended, and one not yet started has no outcome.
OutcomesPending ==
  \A c \in Callers :
    /\ pc[c] \in {"sending", "sendParked"} =>
         ops[c] >= 1 /\ outcome[OwnValue(c)] = "none"
    /\ \A n \in (ops[c] + 1)..MaxOps : outcome[<<c, n>>] = "none"

\* A receive has moved the value of c's waiting send into the ring.
Promoted(c) ==
  pc[c] = "sendParked" /\ status[c] # "blocked" /\ ~slot[c].closedOnWake

\* The values in the channel or through it are those of the sends that returned
\* and of the promoted ones, each once.
SentOnce ==
  /\ IsInjective(sent)
  /\ \A c \in Callers, n \in 1..MaxOps :
       <<c, n>> \in Range(sent) <=>
         outcome[<<c, n>>] = "sent" \/ (Promoted(c) /\ n = ops[c])

\* The slot of a waiting sender holds its value.
SenderSlots ==
  \A g \in Range(senders) :
    slot[g].value = OwnValue(g) /\ ~slot[g].closedOnWake

\* The slot of a receiver that was woken holds a value, or says that Close woke
\* it, and then nothing was left to receive.
ReceiverSlots ==
  \A g \in Goroutines :
    pc[g] = "recvParked" /\ status[g] # "blocked" =>
      IF slot[g].ok THEN slot[g].value \in Values ELSE closed /\ count = 0

\* DeliveredOnce without counting.
OneHolder ==
  \A v \in Values :
    IF v \in Range(received) THEN \E c \in Callers : Holders(v) = {c}
                             ELSE Holders(v) = {}

IInv ==
  /\ TypeOK /\ RingHoldsBacklog /\ WaitersAreBlocked
  /\ TasksIdle /\ OutcomesPending /\ SentOnce
  /\ SenderSlots /\ ReceiverSlots /\ OneHolder /\ EndOfStream

=============================================================================
