------------------------- MODULE SchedulerRefinement -------------------------
(***************************************************************************)
(* Scheduler implements GoroutineLifecycle.  A goroutine counts as blocked  *)
(* from the publication of its handle (before Park!) until its Unpark has  *)
(* put it into an Inbox, and as runnable from there, even while its worker *)
(* is still switching it out.                                              *)
(***************************************************************************)
EXTENDS SchedulerInvariant

Status == [g \in Goroutines |->
  CASE gpc[g] \in {"none", "made"}                      -> "absent"
    [] gpc[g] \in {"entry", "yieldswitch", "yielded"}   -> "runnable"
    [] gpc[g] = "body"                                  -> "running"
    [] gpc[g] \in ParkPC -> IF HasToken(g) THEN "blocked" ELSE "runnable"
    [] gpc[g] \in {"doneswitch", "finished"}            -> "done"
    [] gpc[g] = "freed" -> IF bound[g] = Unbound THEN "absent" ELSE "done"]

Lifecycle == INSTANCE GoroutineLifecycle WITH status <- Status

\* Every behaviour of the scheduler is one the lifecycle allows: in particular a
\* parked goroutine is not resumed without an Unpark, a finished one never, and
\* no worker runs two goroutines at once.
ImplementsLifecycle == Lifecycle!Spec

=============================================================================
