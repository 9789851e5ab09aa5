-------------------------- MODULE GoroutineLifecycle --------------------------
(***************************************************************************)
(* What the scheduler promises the packages built on it, channels above    *)
(* all: a goroutine is spawned once, running goroutines fit on distinct    *)
(* workers, a running one may yield, block or finish, and a blocked one runs  *)
(* again after exactly one wake-up -- even one that overtakes its          *)
(* suspension.  Queues, workers and the State field are not visible here.  *)
(***************************************************************************)
CONSTANTS
  Goroutines,   \* the goroutines that may be spawned
  Workers       \* the worker tasks of the pool

VARIABLE status

Statuses == {"absent", "runnable", "running", "blocked", "done"}

Init == status = [g \in Goroutines |-> "absent"]

Running == {g \in Goroutines : status[g] = "running"}

\* There is a worker of its own for each goroutine of G.
Fit(G) == \E on \in [G -> Workers] : \A g, h \in G : on[g] = on[h] => g = h

\* Spawn (Body_Proc) has injected the goroutine.
Start(g) ==
  /\ status[g] = "absent"
  /\ status' = [status EXCEPT ![g] = "runnable"]

\* A worker switches into the goroutine.
Run(g) ==
  /\ status[g] = "runnable"
  /\ Fit(Running \cup {g})
  /\ status' = [status EXCEPT ![g] = "running"]

Yield(g) ==
  /\ status[g] = "running"
  /\ status' = [status EXCEPT ![g] = "runnable"]

\* The goroutine gives its handle away and parks.
Block(g) ==
  /\ status[g] = "running"
  /\ status' = [status EXCEPT ![g] = "blocked"]

\* Unpark, of one goroutine or (a closing channel) of several.
Wake(G) ==
  /\ \A g \in G : status[g] = "blocked"
  /\ status' = [g \in Goroutines |-> IF g \in G THEN "runnable" ELSE status[g]]

Finish(g) ==
  /\ status[g] = "running"
  /\ status' = [status EXCEPT ![g] = "done"]

Next ==
  \/ \E g \in Goroutines : Start(g) \/ Run(g) \/ Yield(g) \/ Block(g) \/ Finish(g)
  \/ \E G \in SUBSET Goroutines : Wake(G)

Spec == Init /\ [][Next]_status

=============================================================================
