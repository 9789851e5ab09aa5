---------------------------- MODULE MCScheduler ----------------------------
(***************************************************************************)
(* TLC instances of Scheduler.  Goroutines and workers are interchangeable *)
(* model values, except a goroutine named in Pollers.                      *)
(***************************************************************************)
EXTENDS SchedulerRefinement, TLC

CONSTANTS g1, g2, g3, w1, w2, h1, main

Symmetry == Permutations(Goroutines \ Pollers) \cup Permutations(Workers)

=============================================================================
