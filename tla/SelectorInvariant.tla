-------------------------- MODULE SelectorInvariant --------------------------
(***************************************************************************)
(* The inductive invariant of Selector: what is known, between two         *)
(* attempts of a pass, of the cases it still has to try.                   *)
(***************************************************************************)
EXTENDS Selector

CallsTyped ==
  /\ pc \in [Goroutines -> {"idle", "trying"}]
  /\ cases \in [Goroutines -> Seq(Case)]
  /\ order \in [Goroutines -> Seq(Nat)]
  /\ giveUp \in [Goroutines -> Nat]
  /\ result \in [Goroutines -> Nat]
  /\ done \in [Goroutines -> Seq(Nat)]
  /\ steady \in [Goroutines -> SUBSET Nat]

\* A call that polls has done nothing yet; only active cases are left to try, and
\* those that were ready ever since the pass began are ready and among them.
PassOf(g) ==
  pc[g] = "trying" =>
    /\ done[g] = <<>>
    /\ Range(order[g]) \subseteq Active(cases[g])
    /\ steady[g] \subseteq Range(order[g])
    /\ \A i \in steady[g] : Ready(cases[g][i])
    /\ giveUp[g] \in {0} \cup Indices(cases[g], {"timeout"})

IInv == CallsTyped /\ \A g \in Goroutines : PassOf(g)

=============================================================================
