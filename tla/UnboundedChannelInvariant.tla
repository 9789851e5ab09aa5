---------------------- MODULE UnboundedChannelInvariant ----------------------
(***************************************************************************)
(* The inductive invariant of UnboundedChannel: besides the properties     *)
(* that are inductive themselves, what is known of the value of each send  *)
(* and of the slot of each receiver that was woken.                        *)
(***************************************************************************)
EXTENDS UnboundedChannel

\* Only goroutines pass the gap between an attempt and a registration.
TasksIdle == \A c \in Callers : pc[c] # "idle" => c \in Goroutines

\* A send not yet started has no outcome.
OutcomesPending ==
  \A c \in Callers : \A n \in (ops[c] + 1)..MaxOps : outcome[<<c, n>>] = "none"

\* The values in the channel or through it are those of the sends that returned,
\* each once.
SentOnce ==
  /\ IsInjective(sent)
  /\ \A v \in Values : outcome[v] = "sent" <=> v \in Range(sent)

\* The slot of a receiver that was woken holds a value, or says that Close woke
\* it, and then nothing was left to receive.
ReceiverSlots ==
  \A g \in Goroutines :
    pc[g] = "recvParked" /\ status[g] # "blocked" =>
      IF slot[g].ok THEN slot[g].value \in Values ELSE closed /\ head = Null

\* DeliveredOnce's second part without counting.
OneHolder ==
  \A v \in Values :
    IF v \in Range(received) THEN \E c \in Callers : Holders(v) = {c}
                             ELSE Holders(v) = {}

IInv ==
  /\ TypeOK /\ ListHoldsBacklog /\ WaitersAreBlocked
  /\ TasksIdle /\ OutcomesPending /\ SentOnce
  /\ ReceiverSlots /\ OneHolder /\ EndOfStream

=============================================================================
