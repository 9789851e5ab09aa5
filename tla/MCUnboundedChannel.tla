-------------------------- MODULE MCUnboundedChannel --------------------------
(***************************************************************************)
(* TLC instances of UnboundedChannel; goroutines, workers and heap         *)
(* addresses are interchangeable.                                          *)
(***************************************************************************)
EXTENDS UnboundedChannel, TLC

CONSTANTS g1, g2, g3, w1, w2, t1, n1, n2

Symmetry ==
  Permutations(Goroutines) \cup Permutations(Workers) \cup Permutations(Nodes)

=============================================================================
