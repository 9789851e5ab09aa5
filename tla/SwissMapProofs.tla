---------------------------- MODULE SwissMapProofs ----------------------------
(***************************************************************************)
(* A map variable is a function from keys to values, its probes end, and a *)
(* range loop over it visits each entry once, proved for any keys, any     *)
(* hash function, any group size and any initial capacity.  The argument   *)
(* is the invariant IInv of SwissMapInvariant.                             *)
(***************************************************************************)
EXTENDS SwissMapInvariant, SwissTableProofs

-----------------------------------------------------------------------------
(***************************************************************************)
(* The table.                                                              *)
(***************************************************************************)

\* Make_Map returns an empty table.
LEMMA MakeMapSound ==
  ASSUME NEW hint \in Nat, NEW u, u = MakeMap(hint)
  PROVE  Sound(u) /\ u.cap \in Nat /\ u.size = 0 /\ LiveSlots(u) = {}
<1>1. PICK c : c = IF hint = 0 THEN 0 ELSE RoundUpPow2(hint)
  OBVIOUS
<1>2. c \in Nat /\ (c = 0 \/ (PowerOfTwo(c) /\ c >= InitialCap))
  BY <1>1, RoundedUp
<1>3. u = Fresh(c)
  BY <1>1 DEF MakeMap
<1>4. QED
  BY <1>2, <1>3, FreshSound

\* Clear returns an empty table of the same capacity.
LEMMA ClearedSound ==
  ASSUME NEW t, Sound(t), NEW u, u = Cleared(t)
  PROVE  Sound(u) /\ u.cap = t.cap /\ u.size = 0 /\ LiveSlots(u) = {}
<1>1. t.cap \in Nat /\ (t.cap = 0 \/ (PowerOfTwo(t.cap) /\ t.cap >= InitialCap))
  BY SizeInCapacity DEF Sound, Typed
<1>2. QED
  BY <1>1, FreshSound DEF Cleared

\* A table without live slots has no contents.
LEMMA NoContents ==
  ASSUME NEW t, Sound(t), LiveSlots(t) = {}
  PROVE  Contents(t) = <<>>
<1>1. PICK c : c = Contents(t)
  OBVIOUS
<1>2. DOMAIN c = {} /\ c = [k \in DOMAIN c |-> c[k]]
  BY <1>1, ContentsFacts
<1>3. QED
  BY <1>1, <1>2

\* Insert maps k to v.
LEMMA InsertFacts ==
  ASSUME NEW t, Sound(t), NEW k \in Keys, NEW v \in Values,
         NEW u, u = Put(Grown(t), k, v), NEW old, old = Contents(t)
  PROVE  /\ Sound(u) /\ u.cap >= t.cap
         /\ Contents(u) = [j \in DOMAIN old \cup {k} |-> IF j = k THEN v ELSE old[j]]
         /\ u.size = IF k \in DOMAIN old THEN t.size ELSE t.size + 1
<1>1. PICK g : g = Grown(t)
  OBVIOUS
<1>2. /\ Sound(g) /\ g.cap # 0 /\ g.size = t.size /\ g.cap >= t.cap
      /\ Entries(g) = Entries(t)
      /\ g.size + g.tombs + 1 <= Threshold(g.cap)
  BY <1>1, GrownSound
<1>3. old = Contents(g)
  BY <1>2, SameContents
<1>4. /\ Sound(u) /\ u.cap = g.cap
      /\ Contents(u) = [j \in DOMAIN old \cup {k} |-> IF j = k THEN v ELSE old[j]]
      /\ u.size = IF k \in DOMAIN old THEN g.size ELSE g.size + 1
  BY <1>1, <1>2, <1>3, PutContents
<1>5. QED
  BY <1>2, <1>4

\* Insert moves no entry unless Maybe_Grow rehashes.
LEMMA InsertPlaces ==
  ASSUME NEW t, Sound(t), NEW k \in Keys, NEW v \in Values,
         NEW u, u = Put(Grown(t), k, v), ~MustGrow(t), NEW j \in LiveSlots(t)
  PROVE  j \in LiveSlots(u) /\ u.slot[j].key = t.slot[j].key
<1>1. PICK g : g = Grown(t)
  OBVIOUS
<1>2. /\ g = t /\ Sound(g) /\ g.cap # 0
      /\ g.size + g.tombs + 1 <= Threshold(g.cap)
  BY <1>1, GrownSound
<1>3. QED
  BY <1>1, <1>2, PutPlaces

\* Delete takes k out, if it is in.
LEMMA DeleteFacts ==
  ASSUME NEW t, Sound(t), NEW k \in Keys, NEW u, u = Erase(t, k),
         NEW old, old = Contents(t)
  PROVE  /\ Sound(u) /\ u.cap = t.cap
         /\ \/ u = t /\ k \notin DOMAIN old
            \/ /\ k \in DOMAIN old /\ u.size = t.size - 1
               /\ Contents(u) = [j \in DOMAIN old \ {k} |-> old[j]]
<1>1. DOMAIN old = {t.slot[i].key : i \in LiveSlots(t)}
  BY ContentsFacts
<1>2. CASE k \in DOMAIN old
  <2>1. PICK i \in LiveSlots(t) : t.slot[i].key = k
    BY <1>1, <1>2
  <2>2. Sound(u) /\ u.cap = t.cap /\ u.size = t.size - 1
    BY <2>1, ErasePresent
  <2>3. Contents(u) = [j \in DOMAIN old \ {k} |-> old[j]]
    BY <2>1, EraseContents
  <2>4. QED
    BY <1>2, <2>2, <2>3
<1>3. CASE k \notin DOMAIN old
  <2>1. \A i \in LiveSlots(t) : t.slot[i].key # k
    BY <1>1, <1>3
  <2>2. u = t
    BY <2>1, EraseAbsent
  <2>3. QED
    BY <1>3, <2>2
<1>4. QED
  BY <1>2, <1>3

-----------------------------------------------------------------------------
(***************************************************************************)
(* The loop.                                                               *)
(***************************************************************************)

\* First goes to the first live slot.
LEMMA FirstIsLiveFrom ==
  ASSUME NEW t, Sound(t)
  PROVE  CursorFirst(t) = LiveFrom(t, 0)
<1>1. CASE t.cap = 0 \/ t.size = 0
  <2>1. IsFiniteSet(LiveSlots(t)) /\ t.size = Cardinality(LiveSlots(t)) /\ t.cap \in Nat
    BY SlotsFinite, SizeInCapacity DEF Sound, Counted
  <2>2. LiveSlots(t) = {}
    BY <1>1, <2>1, FS_EmptySet DEF LiveSlots, Slots
  <2>3. {j \in 0..(t.cap - 1) : Live(t, j)} = {}
    BY <2>2 DEF LiveSlots, Slots
  <2>4. QED
    BY <1>1, <2>3 DEF CursorFirst, LiveFrom
<1>2. QED
  BY <1>1 DEF CursorFirst

\* A step of the cursor from at counts the entry it comes to.
LEMMA VisitCounts ==
  ASSUME NEW t, Sound(t), NEW from \in -1..(t.cap - 1), NEW counts,
         CountsUpTo(t, counts, from),
         NEW c, c = LiveFrom(t, from + 1), NEW new,
         new = [k \in DOMAIN counts |->
                  IF c >= 0 /\ Hit(t, k, c) THEN counts[k] + 1 ELSE counts[k]]
  PROVE  /\ c \in -1..(t.cap - 1) /\ DOMAIN new = DOMAIN counts
         /\ c < 0 => \A k \in DOMAIN new : new[k] = 1
         /\ c >= 0 => CountsUpTo(t, new, c)
<1>1. t.cap \in Nat /\ LiveSlots(t) \subseteq 0..(t.cap - 1)
  BY SizeInCapacity DEF LiveSlots, Slots
<1>2. \/ c = -1 /\ \A j \in LiveSlots(t) : j < from + 1
      \/ /\ c \in LiveSlots(t) /\ c >= from + 1
         /\ \A j \in LiveSlots(t) : j < from + 1 \/ j >= c
  BY <1>1, LiveFromFacts
<1>3. c \in -1..(t.cap - 1)
  BY <1>1, <1>2
<1>4. /\ DOMAIN new = DOMAIN counts
      /\ \A k \in DOMAIN counts :
           new[k] = IF c >= 0 /\ Hit(t, k, c) THEN counts[k] + 1 ELSE counts[k]
  OBVIOUS
<1>5. ASSUME NEW k \in DOMAIN counts
      PROVE  /\ c < 0 => new[k] = 1
             /\ c >= 0 => \E i \in LiveSlots(t) :
                            t.slot[i].key = k /\ new[k] = IF i <= c THEN 1 ELSE 0
  <2>1. PICK i \in LiveSlots(t) :
          t.slot[i].key = k /\ counts[k] = IF i <= from THEN 1 ELSE 0
    BY <1>5 DEF CountsUpTo
  <2>2. i \in Int /\ from \in Int /\ c \in Int
    BY <1>1, <1>3
  <2>3. CASE c < 0
    BY <1>2, <1>4, <2>1, <2>2, <2>3, <1>1
  <2>4. CASE c >= 0
    <3>1. Hit(t, k, c) <=> i = c
      BY <1>2, <2>1, <2>4 DEF Hit, Sound, KeysOnce, LiveSlots
    <3>2. new[k] = IF i = c THEN counts[k] + 1 ELSE counts[k]
      BY <1>4, <2>4, <3>1
    <3>3. i < from + 1 \/ i >= c
      BY <1>2, <2>2, <2>4
    <3>4. c >= from + 1
      BY <1>2, <2>2, <2>4
    <3>5. new[k] = IF i <= c THEN 1 ELSE 0
      BY <2>1, <2>2, <3>2, <3>3, <3>4
    <3>6. QED
      BY <2>1, <2>2, <2>4, <3>5
  <2>5. QED
    BY <2>2, <2>3, <2>4
<1>6. QED
  BY <1>3, <1>4, <1>5 DEF CountsUpTo

-----------------------------------------------------------------------------
(***************************************************************************)
(* The invariant is inductive: one lemma per action.                       *)
(***************************************************************************)

\* An operation on a sound table that leaves the entries of kept where they are,
\* and forgets the visits of the others, keeps the invariant.
LEMMA KeepsKeeps ==
  ASSUME IInv, NEW kept, Keeps(kept), Sound(table'), table'.cap >= table.cap,
         \A j \in LiveSlots(table) : table.slot[j].key \in kept =>
           j \in LiveSlots(table') /\ table'.slot[j].key = table.slot[j].key
  PROVE  IInv'
<1>1. /\ cursor' = cursor /\ cursor \in -1..(table.cap - 1)
      /\ DOMAIN visits \subseteq Keys /\ Sound(table)
      /\ InLoop => CountsUpTo(table, visits, cursor)
  BY DEF Keeps, IInv, LoopInv
<1>2. table.cap \in Nat /\ table'.cap \in Nat
  BY <1>1, SizeInCapacity
<1>3. cursor' \in -1..(table'.cap - 1)
  BY <1>1, <1>2
<1>4. /\ DOMAIN visits' = IF InLoop THEN kept \cap DOMAIN visits ELSE {}
      /\ \A k \in DOMAIN visits' : visits'[k] = visits[k]
  BY DEF Keeps, Restrict
<1>5. ASSUME InLoop PROVE CountsUpTo(table', visits', cursor')
  BY <1>1, <1>4, <1>5 DEF CountsUpTo
<1>6. (InLoop)' <=> InLoop
  BY <1>1 DEF InLoop
<1>7. LoopInv'
  BY <1>1, <1>3, <1>4, <1>5, <1>6 DEF LoopInv
<1>8. QED
  BY <1>7 DEF IInv

LEMMA InsertStep ==
  ASSUME IInv, NEW k \in Keys, NEW v \in Values, Insert(k, v)
  PROVE  IInv'
<1>1. table' = Put(Grown(table), k, v) /\ Sound(table)
  BY DEF IInv, Insert
<1>2. PICK old : old = Contents(table)
  OBVIOUS
<1>3. Sound(table') /\ table'.cap >= table.cap
  BY <1>1, <1>2, InsertFacts
<1>4. CASE MustGrow(table)
  <2>1. Keeps({})
    BY <1>4 DEF Insert
  <2>2. QED
    BY <1>3, <2>1, KeepsKeeps
<1>5. CASE ~MustGrow(table)
  <2>1. Keeps(Keys)
    BY <1>5 DEF Insert
  <2>2. ASSUME NEW j \in LiveSlots(table)
        PROVE  j \in LiveSlots(table') /\ table'.slot[j].key = table.slot[j].key
    BY <1>1, <1>5, InsertPlaces
  <2>3. QED
    BY <1>3, <2>1, <2>2, KeepsKeeps
<1>6. QED
  BY <1>4, <1>5

LEMMA DeleteStep ==
  ASSUME IInv, NEW k \in Keys, Delete(k)
  PROVE  IInv'
<1>1. table' = Erase(table, k) /\ Sound(table) /\ Keeps(Keys \ {k})
  BY DEF IInv, Delete
<1>2. PICK old : old = Contents(table)
  OBVIOUS
<1>3. Sound(table') /\ table'.cap = table.cap /\ table.cap \in Nat
  BY <1>1, <1>2, DeleteFacts, SizeInCapacity
<1>4. table'.cap >= table.cap
  BY <1>3
<1>5. ASSUME NEW j \in LiveSlots(table), table.slot[j].key \in Keys \ {k}
      PROVE  j \in LiveSlots(table') /\ table'.slot[j].key = table.slot[j].key
  BY <1>1, <1>5, ErasePlaces
<1>6. QED
  BY <1>1, <1>3, <1>4, <1>5, KeepsKeeps

LEMMA ClearStep ==
  ASSUME IInv, Clear
  PROVE  IInv'
<1>1. Sound(table') /\ table'.cap = table.cap /\ table.cap \in Nat
  BY ClearedSound, SizeInCapacity DEF IInv, Clear
<1>2. Keeps({})
  BY DEF Clear
<1>3. table'.cap >= table.cap
  BY <1>1
<1>4. QED
  BY <1>1, <1>2, <1>3, KeepsKeeps

\* A visit after the entries up to from.
LEMMA VisitStep ==
  ASSUME IInv, NEW from \in -1..(table.cap - 1), NEW counts,
         DOMAIN counts \subseteq Keys, CountsUpTo(table, counts, from),
         Visit(LiveFrom(table, from + 1), counts)
  PROVE  IInv'
<1>1. table' = table /\ Sound(table')
  BY DEF Visit, IInv
<1>2. /\ cursor' \in -1..(table.cap - 1) /\ DOMAIN visits' = DOMAIN counts
      /\ cursor' < 0 => \A k \in DOMAIN visits' : visits'[k] = 1
      /\ cursor' >= 0 => CountsUpTo(table, visits', cursor')
  BY VisitCounts DEF Visit, IInv
<1>3. table.cap \in Nat
  BY SizeInCapacity DEF IInv
<1>4. LoopInv'
  BY <1>1, <1>2, <1>3 DEF LoopInv, InLoop
<1>5. QED
  BY <1>1, <1>4 DEF IInv

LEMMA RangeBeginStep ==
  ASSUME IInv, RangeBegin
  PROVE  IInv'
<1>1. Sound(table) /\ table.cap \in Nat /\ LiveSlots(table) \subseteq Nat
  BY SizeInCapacity DEF IInv, LiveSlots, Slots
<1>2. PICK counts : counts = [k \in DOMAIN Contents(table) |-> 0]
  OBVIOUS
<1>3. /\ DOMAIN counts = {table.slot[i].key : i \in LiveSlots(table)}
      /\ DOMAIN counts \subseteq Keys
      /\ \A k \in DOMAIN counts : counts[k] = 0
  BY <1>1, <1>2, ContentsFacts
<1>4. CountsUpTo(table, counts, -1)
  BY <1>1, <1>3 DEF CountsUpTo
<1>5. Visit(LiveFrom(table, -1 + 1), counts)
  BY <1>1, <1>2, FirstIsLiveFrom DEF RangeBegin
<1>6. -1 \in -1..(table.cap - 1)
  BY <1>1
<1>7. QED
  BY <1>3, <1>4, <1>5, <1>6, VisitStep

LEMMA RangeNextStep ==
  ASSUME IInv, RangeNext
  PROVE  IInv'
<1>1. /\ cursor \in -1..(table.cap - 1) /\ cursor >= 0 /\ table.cap \in Nat
      /\ DOMAIN visits \subseteq Keys /\ CountsUpTo(table, visits, cursor)
  BY SizeInCapacity DEF IInv, LoopInv, RangeNext, InLoop
<1>2. CursorNext(table, cursor) = LiveFrom(table, cursor + 1)
  BY <1>1 DEF CursorNext
<1>3. Visit(LiveFrom(table, cursor + 1), visits)
  BY <1>2 DEF RangeNext
<1>4. QED
  BY <1>1, <1>3, VisitStep

\* The invariant holds at first and every step keeps it.
THEOREM Inductive ==
  /\ Init => IInv
  /\ IInv /\ [Next]_vars => IInv'
<1>1. ASSUME Init PROVE IInv
  <2>1. PICK hint \in 0..MaxHint : table = MakeMap(hint)
    BY <1>1 DEF Init
  <2>2. Sound(table) /\ table.cap \in Nat
    BY <2>1, HintAssumption, MakeMapSound
  <2>3. cursor = -1 /\ DOMAIN visits = {}
    BY <1>1 DEF Init
  <2>4. LoopInv
    BY <2>2, <2>3 DEF LoopInv, InLoop
  <2>5. QED
    BY <2>2, <2>4 DEF IInv
<1>2. ASSUME IInv, [Next]_vars PROVE IInv'
  <2>1. CASE UNCHANGED vars
    BY <1>2, <2>1 DEF vars, IInv, LoopInv, InLoop
  <2>2. CASE Next
    BY <1>2, <2>2, InsertStep, DeleteStep, ClearStep, RangeBeginStep, RangeNextStep
       DEF Next
  <2>3. QED
    BY <1>2, <2>1, <2>2
<1>3. QED
  BY <1>1, <1>2

THEOREM Invariance == Spec => []IInv
  BY Inductive, PTL DEF Spec

-----------------------------------------------------------------------------
(***************************************************************************)
(* What follows from the invariant.                                        *)
(***************************************************************************)

\* The capacity, the two counts, the slots, the cursor and the visits keep their
\* types; no decrement of Size or Tombstones goes below zero.
THEOREM TypeCorrect == Spec => []TypeOK
<1>1. ASSUME IInv PROVE TypeOK
  <2>1. Sound(table) /\ LoopInv
    BY <1>1 DEF IInv
  <2>2. table.cap \in Nat /\ table.size \in Nat /\ table.tombs \in Nat
    BY <2>1, SizeInCapacity
  <2>3. \A k \in DOMAIN visits : visits[k] \in Nat
    BY <2>1 DEF LoopInv, CountsUpTo
  <2>4. QED
    BY <2>1, <2>2, <2>3 DEF TypeOK, LoopInv, Sound, Typed, Slots
<1>2. QED
  BY <1>1, Invariance, PTL

\* Size and Tombstones count the live slots and the tombstones exactly.
THEOREM CountersExact == Spec => []CountsExact
<1>1. IInv => CountsExact
  BY DEF IInv, Sound, Typed, Counted, CountsExact, LiveSlots, TombSlots
<1>2. QED
  BY <1>1, Invariance, PTL

\* The unconditional probe loops of Probe_For_Lookup and Probe_For_Insert return
\* for every key, present or absent.
THEOREM ProbesTerminate == Spec => []ProbesEnd
<1>1. IInv => ProbesEnd
  BY ProbesReturn DEF IInv, Sound, ProbesEnd
<1>2. QED
  BY <1>1, Invariance, PTL

\* A key is in one slot at most, and a lookup finds it there.
THEOREM EntryUnique == Spec => []OneEntryPerKey
<1>1. ASSUME IInv, NEW i \in DOMAIN table.slot, Live(table, i)
      PROVE  Lookup(table, table.slot[i].key) = i
  <2>1. Sound(table) /\ i \in LiveSlots(table)
    BY <1>1 DEF IInv, Sound, Typed, LiveSlots
  <2>2. PICK k \in Keys : k = table.slot[i].key
    BY <2>1, EntryFacts DEF Sound
  <2>3. QED
    BY <2>1, <2>2, LookupFinds
<1>2. IInv => OneEntryPerKey
  BY <1>1 DEF OneEntryPerKey
<1>3. QED
  BY <1>2, Invariance, PTL

\* Unless the table is rehashed under it, a range loop visits no entry twice and
\* none that stays is left out.
THEOREM VisitedOnce == Spec => []VisitsOnceUnlessRehashed
<1>1. IInv => VisitsOnceUnlessRehashed
  BY DEF IInv, LoopInv, CountsUpTo, VisitsOnceUnlessRehashed
<1>2. QED
  BY <1>1, Invariance, PTL

\* The map implements a function from keys to values: Insert adds or replaces one
\* entry, Delete removes one, Clear all, and a rehash changes none.
THEOREM IsMap == Spec => ImplementsMap
<1>1. ASSUME Init PROVE Map!Init
  <2>1. PICK hint \in 0..MaxHint : table = MakeMap(hint)
    BY <1>1 DEF Init
  <2>2. Sound(table) /\ table.size = 0 /\ LiveSlots(table) = {}
    BY <2>1, HintAssumption, MakeMapSound
  <2>3. QED
    BY <2>2, NoContents DEF Map!Init
<1>2. ASSUME IInv, [Next]_vars PROVE [Map!Next]_(Map!vars)
  <2>1. Sound(table)
    BY <1>2 DEF IInv
  <2>2. PICK old : old = Contents(table)
    OBVIOUS
  <2>3. CASE table' = table
    BY <2>3 DEF Map!vars
  <2>4. ASSUME NEW k \in Keys, NEW v \in Values, Insert(k, v)
        PROVE  Map!Insert(k, v)
    <3>1. table' = Put(Grown(table), k, v)
      BY <2>4 DEF Insert
    <3>2. PICK t, u : t = table /\ u = table'
      OBVIOUS
    <3>3. /\ Sound(t) /\ u = Put(Grown(t), k, v) /\ old = Contents(t)
          /\ k \in Keys /\ v \in Values
      BY <2>1, <2>2, <3>1, <3>2
    <3>4. /\ Contents(u) = [j \in DOMAIN old \cup {k} |-> IF j = k THEN v ELSE old[j]]
          /\ u.size = IF k \in DOMAIN old THEN t.size ELSE t.size + 1
      BY ONLY <3>3, InsertFacts
    <3>5. QED
      BY <2>2, <3>2, <3>4 DEF Map!Insert, Map!Present
  <2>5. ASSUME NEW k \in Keys, Delete(k)
        PROVE  Map!Delete(k) \/ table' = table
    <3>1. \/ table' = table
          \/ /\ k \in DOMAIN old /\ table'.size = table.size - 1
             /\ Contents(table') = [j \in DOMAIN old \ {k} |-> old[j]]
      BY <2>1, <2>2, <2>5, DeleteFacts DEF Delete
    <3>2. QED
      BY <2>2, <3>1 DEF Map!Delete, Map!Present
  <2>6. ASSUME Clear PROVE Map!Clear
    <3>1. /\ table' = Cleared(table)
          /\ Sound(table') /\ table'.size = 0 /\ LiveSlots(table') = {}
      BY <2>1, <2>6, ClearedSound DEF Clear
    <3>2. QED
      BY <3>1, NoContents DEF Map!Clear
  <2>7. CASE RangeBegin \/ RangeNext \/ UNCHANGED vars
    BY <2>3, <2>7 DEF RangeBegin, RangeNext, Visit, vars
  <2>8. QED
    BY <1>2, <2>3, <2>4, <2>5, <2>6, <2>7 DEF Next, Map!Next
<1>3. QED
  BY <1>1, <1>2, Inductive, PTL DEF Spec, ImplementsMap, Map!Spec

=============================================================================
