-------------------------- MODULE MCBoundedChannel --------------------------
(***************************************************************************)
(* TLC instances of BoundedChannel; goroutines are interchangeable.        *)
(***************************************************************************)
EXTENDS BoundedChannel, TLC

CONSTANTS g1, g2, g3, w1, w2, t1

Symmetry == Permutations(Goroutines) \cup Permutations(Workers)

=============================================================================
