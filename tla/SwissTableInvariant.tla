------------------------- MODULE SwissTableInvariant --------------------------
(***************************************************************************)
(* What holds of every table that SwissTable's operations make.            *)
(***************************************************************************)
EXTENDS SwissTable

Slots(t)     == 0..(t.cap - 1)
LiveSlots(t) == {i \in Slots(t) : Live(t, i)}
TombSlots(t) == {i \in Slots(t) : t.slot[i] = Tomb}

Typed(t) ==
  /\ t = [slot |-> t.slot, cap |-> t.cap, size |-> t.size, tombs |-> t.tombs]
  /\ t.cap = 0 \/ (PowerOfTwo(t.cap) /\ t.cap >= InitialCap)
  /\ t.slot \in [Slots(t) -> {Empty, Tomb} \cup Entry]

Counted(t) ==
  /\ t.size = Cardinality(LiveSlots(t))
  /\ t.tombs = Cardinality(TombSlots(t))

\* A table keeps within the load factor, so it has an empty slot.
Roomy(t) == t.size + t.tombs <= Threshold(t.cap)

\* The n-th probe for k looks at slot i, and none before it ends the search with
\* an empty slot.
Reaches(t, k, n, i) ==
  /\ i \in GroupSlots(Probe(t, k, n))
  /\ \A m \in 0..(n - 1) : \A j \in GroupSlots(Probe(t, k, m)) : t.slot[j] # Empty

\* Each entry is where a probe for its key comes by.
EntriesReached(t) ==
  \A i \in LiveSlots(t) :
    \E n \in 0..(Period(t) - 1) : Reaches(t, t.slot[i].key, n, i)

KeysOnce(t) ==
  \A i, j \in LiveSlots(t) : t.slot[i].key = t.slot[j].key => i = j

\* What the table holds, wherever it holds it.
Entries(t) == {t.slot[i] : i \in LiveSlots(t)}

Sound(t) ==
  /\ Typed(t) /\ Counted(t) /\ Roomy(t)
  /\ EntriesReached(t) /\ KeysOnce(t)

=============================================================================
