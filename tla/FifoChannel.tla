----------------------------- MODULE FifoChannel -----------------------------
(***************************************************************************)
(* What a buffered channel promises: at most Cap values are accepted and   *)
(* not yet delivered, values are delivered in the order in which they were *)
(* accepted, each once, and none is accepted after Close.  Who waits, and  *)
(* where a value is kept meanwhile, is not visible here.                   *)
(***************************************************************************)
EXTENDS Naturals, Sequences

CONSTANTS Values, Cap

VARIABLES
  sent,      \* the values accepted, in order
  received,  \* the values delivered, in order
  closed

vars == <<sent, received, closed>>

Backlog == Len(sent) - Len(received)
Oldest  == sent[Len(received) + 1]

Init == sent = <<>> /\ received = <<>> /\ closed = FALSE

\* A value is accepted into the buffer.
Accept(v) ==
  /\ ~closed /\ Backlog < Cap
  /\ sent' = Append(sent, v)
  /\ UNCHANGED <<received, closed>>

\* The oldest value is delivered.
Deliver ==
  /\ Backlog > 0
  /\ received' = Append(received, Oldest)
  /\ UNCHANGED <<sent, closed>>

\* The oldest value is delivered, and one that waited outside is accepted.
DeliverAndAccept(v) ==
  /\ ~closed /\ Backlog > 0
  /\ received' = Append(received, Oldest)
  /\ sent' = Append(sent, v)
  /\ UNCHANGED closed

\* A value goes straight to a waiting receiver.
HandOver(v) ==
  /\ ~closed /\ Backlog = 0
  /\ sent' = Append(sent, v)
  /\ received' = Append(received, v)
  /\ UNCHANGED closed

Close ==
  /\ ~closed
  /\ closed' = TRUE
  /\ UNCHANGED <<sent, received>>

Next ==
  \/ \E v \in Values : Accept(v) \/ DeliverAndAccept(v) \/ HandOver(v)
  \/ Deliver \/ Close

Spec == Init /\ [][Next]_vars

=============================================================================
