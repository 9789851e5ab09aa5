--------------------------- MODULE SwissTableProofs ---------------------------
(***************************************************************************)
(* Every operation of SwissTable keeps a table sound, for tables of any    *)
(* capacity, and does to its contents what a map's operation should do.    *)
(***************************************************************************)
EXTENDS SwissTableInvariant, DataLemmas

-----------------------------------------------------------------------------
(***************************************************************************)
(* Arithmetic: least elements, powers of two, triangular numbers.          *)
(***************************************************************************)

\* Min is the least element of a set of numbers.
LEMMA MinIsLeast ==
  ASSUME NEW S \in SUBSET Nat, S # {}
  PROVE  Min(S) \in S /\ \A i \in S : Min(S) <= i
BY LeastElement DEF Min

\* The product of odd numbers is odd.
LEMMA OddProduct ==
  ASSUME NEW a \in Nat, NEW b \in Nat, a % 2 = 1, b % 2 = 1
  PROVE  (a * b) % 2 = 1
<1>1. PICK i \in Nat : a = 2 * i + 1
  BY a = 2 * (a \div 2) + 1, a \div 2 \in Nat
<1>2. PICK j \in Nat : b = 2 * j + 1
  BY b = 2 * (b \div 2) + 1, b \div 2 \in Nat
<1>3. a * b = 2 * (2 * (i * j) + i + j) + 1
  BY <1>1, <1>2
<1>4. i * j \in Nat
  OBVIOUS
<1>5. QED
  BY <1>3, <1>4

\* Doubling leaves a power of two one.
LEMMA PowerDoubled ==
  ASSUME NEW n \in Nat, PowerOfTwo(n)
  PROVE  PowerOfTwo(2 * n)
<1> SUFFICES ASSUME NEW d \in 1..(2 * n), NEW q \in 1..(2 * n), d * q = 2 * n, d # 1,
                    d % 2 # 0
             PROVE  FALSE
  BY DEF PowerOfTwo
<1>1. d % 2 = 1
  OBVIOUS
<1>2. q % 2 = 0
  <2>1. (d * q) % 2 = 0
    OBVIOUS
  <2>2. QED
    BY <1>1, <2>1, OddProduct
<1>3. PICK r \in Nat : q = 2 * r
  BY <1>2, q = 2 * (q \div 2), q \div 2 \in Nat
<1>4. d * r = n
  <2>1. d * q = 2 * (d * r)
    BY <1>3
  <2>2. d * r \in Nat
    OBVIOUS
  <2>3. QED
    BY <2>1, <2>2
<1>5. d \in 1..n /\ r \in 1..n
  BY <1>3, <1>4 DEF PowerOfTwo
<1>6. QED
  BY <1>1, <1>4, <1>5 DEF PowerOfTwo

\* A power of two but 1 is the double of one.
LEMMA PowerHalved ==
  ASSUME NEW n \in Nat, PowerOfTwo(n), n # 1
  PROVE  \E h \in Nat : n = 2 * h /\ PowerOfTwo(h) /\ h < n
<1>1. n \in 1..n /\ 1 \in 1..n /\ n * 1 = n
  BY DEF PowerOfTwo
<1>2. n % 2 = 0
  BY <1>1 DEF PowerOfTwo
<1>3. PICK h \in Nat : n = 2 * h
  BY <1>2, n = 2 * (n \div 2), n \div 2 \in Nat
<1>4. h \in Nat \ {0} /\ h < n
  BY <1>1, <1>3
<1>5. ASSUME NEW d \in 1..h, NEW q \in 1..h, d * q = h, d # 1
      PROVE  d % 2 = 0
  <2>1. d * (2 * q) = 2 * (d * q)
    OBVIOUS
  <2>2. d \in 1..n /\ 2 * q \in 1..n /\ d * (2 * q) = n
    BY <1>3, <1>4, <1>5, <2>1
  <2>3. QED
    BY <1>5, <2>2 DEF PowerOfTwo
<1>6. QED
  BY <1>3, <1>4, <1>5 DEF PowerOfTwo

\* Of two powers of two the greater is a multiple of the other, by a power of two.
LEMMA PowersDivide ==
  ASSUME NEW a \in Nat, NEW b \in Nat, PowerOfTwo(a), PowerOfTwo(b), a <= b
  PROVE  \E q \in Nat : PowerOfTwo(q) /\ b = q * a
<1> DEFINE Multiple(x, y) == \E q \in Nat : PowerOfTwo(q) /\ y = q * x
           Wrong == {y \in Nat : \E x \in Nat : /\ PowerOfTwo(x) /\ PowerOfTwo(y)
                                               /\ x <= y /\ ~Multiple(x, y)}
<1>1. SUFFICES ASSUME Wrong # {} PROVE FALSE
  OBVIOUS
<1>2. PICK y \in Wrong : \A z \in Wrong : y <= z
  BY <1>1, LeastElement
<1>3. PICK x \in Nat : PowerOfTwo(x) /\ PowerOfTwo(y) /\ x <= y /\ ~Multiple(x, y)
  OBVIOUS
<1>4. x # 1
  BY <1>3, y = y * 1
<1>5. PICK u \in Nat : x = 2 * u /\ PowerOfTwo(u) /\ u < x
  BY <1>3, <1>4, PowerHalved
<1>6. PICK v \in Nat : y = 2 * v /\ PowerOfTwo(v) /\ v < y
  <2>1. y # 1
    BY <1>3, <1>5 DEF PowerOfTwo
  <2>2. QED
    BY <1>3, <2>1, PowerHalved
<1>7. v \notin Wrong
  BY <1>2, <1>6
<1>8. PICK q \in Nat : PowerOfTwo(q) /\ v = q * u
  BY <1>3, <1>5, <1>6, <1>7
<1>9. y = q * x
  BY <1>5, <1>6, <1>8
<1>10. QED
  BY <1>3, <1>8, <1>9

\* Whatever the hint, there is a capacity between it and twice of it.
LEMMA CapacityExists ==
  ASSUME NEW n \in Nat
  PROVE  \E c \in InitialCap..(InitialCap + 2 * n) : PowerOfTwo(c) /\ c >= n
<1> DEFINE Fits(m) == \E c \in InitialCap..(InitialCap + 2 * m) : PowerOfTwo(c) /\ c >= m
           Wrong == {m \in Nat : ~Fits(m)}
<1>0. InitialCap \in Nat /\ InitialCap >= 4 /\ PowerOfTwo(InitialCap)
  BY TableAssumption DEF TableAssumption, PowerOfTwo
<1>1. SUFFICES ASSUME Wrong # {} PROVE FALSE
  OBVIOUS
<1>2. PICK m \in Wrong : \A l \in Wrong : m <= l
  BY <1>1, LeastElement
<1>3. m # 0
  BY <1>0
<1>4. PICK c \in InitialCap..(InitialCap + 2 * (m - 1)) : PowerOfTwo(c) /\ c >= m - 1
  <2>1. m - 1 \in Nat /\ m - 1 \notin Wrong
    BY <1>2, <1>3
  <2>2. QED
    BY <2>1
<1>5. c \in Nat /\ PowerOfTwo(2 * c)
  BY <1>0, <1>4, PowerDoubled
<1>6. CASE c >= m
  <2>1. c \in InitialCap..(InitialCap + 2 * m)
    BY <1>0, <1>4
  <2>2. QED
    BY <1>4, <1>6, <2>1
<1>7. CASE c = m - 1
  <2>1. 2 * c \in InitialCap..(InitialCap + 2 * m) /\ 2 * c >= m
    BY <1>0, <1>4, <1>7
  <2>2. QED
    BY <1>5, <2>1
<1>8. QED
  BY <1>4, <1>6, <1>7

\* Round_Up_Pow2 returns a capacity.
LEMMA RoundedUp ==
  ASSUME NEW n \in Nat
  PROVE  /\ RoundUpPow2(n) \in Nat /\ PowerOfTwo(RoundUpPow2(n))
         /\ RoundUpPow2(n) >= n /\ RoundUpPow2(n) >= InitialCap
<1> DEFINE S == {c \in InitialCap..(InitialCap + 2 * n) : PowerOfTwo(c) /\ c >= n}
<1>0. InitialCap \in Nat
  BY TableAssumption DEF TableAssumption, PowerOfTwo
<1>1. S # {} /\ S \subseteq Nat
  BY <1>0, CapacityExists
<1>2. Min(S) \in S
  <2> HIDE DEF S
  <2> QED  BY <1>1, MinIsLeast
<1>3. QED
  BY <1>0, <1>2 DEF RoundUpPow2

\* The triangular numbers meet every residue of a power of two within its double.
LEMMA TrianglesCover ==
  ASSUME NEW n \in Nat, PowerOfTwo(n), NEW c \in Int
  PROVE  \E i \in 0..(2 * n - 1), k \in Int : i * (i + 1) = 2 * (c + k * n)
<1> DEFINE Meets(m, r) == \E i \in 0..(2 * m - 1), k \in Int : i * (i + 1) = 2 * (r + k * m)
           Wrong == {m \in Nat : PowerOfTwo(m) /\ \E r \in Int : ~Meets(m, r)}
<1>1. SUFFICES ASSUME Wrong # {} PROVE FALSE
  OBVIOUS
<1>2. PICK m \in Wrong : \A l \in Wrong : m <= l
  BY <1>1, LeastElement
<1>3. PICK r \in Int : ~Meets(m, r)
  OBVIOUS
<1>4. m # 1
  <2>1. 0 * (0 + 1) = 2 * (r + (-r) * 1) /\ 0 \in 0..(2 * 1 - 1) /\ -r \in Int
    OBVIOUS
  <2>2. QED
    BY <1>3, <2>1
<1>5. PICK h \in Nat : m = 2 * h /\ PowerOfTwo(h) /\ h < m
  BY <1>4, PowerHalved
<1>6. h \notin Wrong
  <2>1. m \in Nat
    OBVIOUS
  <2> HIDE DEF Wrong
  <2>2. QED
    BY <1>2, <1>5, <2>1
<1>7. PICK i \in 0..(2 * h - 1), k \in Int : i * (i + 1) = 2 * (r + k * h)
  <2>1. Meets(h, r)
    BY <1>5, <1>6
  <2>2. QED
    BY <2>1
<1>8. CASE k % 2 = 0
  <2>1. PICK j \in Int : k = 2 * j
    BY <1>8, k = 2 * (k \div 2), k \div 2 \in Int
  <2>2. k * h = j * m
    BY <1>5, <2>1
  <2>3. i \in 0..(2 * m - 1)
    BY <1>5
  <2>4. QED
    BY <1>3, <1>7, <2>2, <2>3
<1>9. CASE k % 2 = 1
  <2>1. PICK j \in Int : k = 2 * j + 1
    BY <1>9, k = 2 * (k \div 2) + 1, k \div 2 \in Int
  <2>2. i + 2 * h \in 0..(2 * m - 1)
    BY <1>5
  <2>3. (i + 2 * h) * (i + 2 * h + 1) = i * (i + 1) + 2 * h * (2 * i + 2 * h + 1)
    OBVIOUS
  <2>4. k * h + h * (2 * i + 2 * h + 1) = (j + i + h + 1) * m
    BY <1>5, <2>1
  <2>5. (i + 2 * h) * (i + 2 * h + 1) = 2 * (r + (j + i + h + 1) * m)
    BY <1>7, <2>3, <2>4
  <2>6. j + i + h + 1 \in Int
    OBVIOUS
  <2>7. QED
    BY <1>3, <2>2, <2>5, <2>6
<1>10. QED
  BY <1>8, <1>9

\* Division, from the interval its argument lies in.
LEMMA QuotientOf ==
  ASSUME NEW d \in Nat \ {0}, NEW q \in Nat, NEW i \in Int, q * d <= i, i <= q * d + d - 1
  PROVE  i \div d = q /\ i % d = i - q * d
<1> DEFINE p == i \div d
<1>1. p \in Int /\ i = d * p + (i % d) /\ i % d \in 0..(d - 1)
  OBVIOUS
<1>2. p * d <= i /\ i <= p * d + d - 1
  BY <1>1
<1> HIDE DEF p
<1>3. ASSUME p < q PROVE FALSE
  <2>1. (p + 1) * d <= q * d
    BY <1>1, <1>3
  <2>2. (p + 1) * d = p * d + d
    BY <1>1
  <2>3. QED
    BY <1>1, <1>2, <2>1, <2>2
<1>4. ASSUME q < p PROVE FALSE
  <2>1. (q + 1) * d <= p * d
    BY <1>1, <1>4
  <2>2. (q + 1) * d = q * d + d
    OBVIOUS
  <2>3. QED
    BY <1>1, <1>2, <2>1, <2>2
<1>5. p = q
  BY <1>1, <1>3, <1>4
<1>6. QED
  BY <1>1, <1>5 DEF p

-----------------------------------------------------------------------------
(***************************************************************************)
(* Probing.                                                                *)
(***************************************************************************)

\* The constants of the table.
LEMMA TableConstants ==
  /\ Hash \in [Keys -> Nat]
  /\ GroupSize \in Nat \ {0} /\ PowerOfTwo(GroupSize)
  /\ InitialCap \in Nat /\ PowerOfTwo(InitialCap)
  /\ InitialCap >= GroupSize /\ InitialCap >= 4
  /\ Empty # Tomb /\ Empty \notin Entry /\ Tomb \notin Entry
BY TableAssumption, ControlAssumption DEF TableAssumption, ControlAssumption, PowerOfTwo

\* A table is divided into groups, whose number is a power of two.
LEMMA TableGroups ==
  ASSUME NEW t, Typed(t), t.cap # 0
  PROVE  /\ t.cap \in Nat /\ t.cap >= 4
         /\ Groups(t) \in Nat \ {0} /\ PowerOfTwo(Groups(t))
         /\ t.cap = Groups(t) * GroupSize
<1>1. t.cap \in Nat /\ PowerOfTwo(t.cap) /\ t.cap >= GroupSize /\ t.cap >= 4
  BY TableConstants DEF Typed, PowerOfTwo
<1>2. PICK q \in Nat : PowerOfTwo(q) /\ t.cap = q * GroupSize
  BY <1>1, TableConstants, PowersDivide
<1>3. t.cap \div GroupSize = q
  BY <1>1, <1>2, TableConstants, QuotientOf
<1>4. q # 0
  BY <1>2 DEF PowerOfTwo
<1>5. QED
  BY <1>1, <1>2, <1>3, <1>4 DEF Groups

\* A group's slots are slots of the table, and each slot is in its own group only.
LEMMA SlotsOfGroup ==
  ASSUME NEW t, Typed(t), t.cap # 0, NEW g \in 0..(Groups(t) - 1), NEW i \in GroupSlots(g)
  PROVE  i \in Slots(t) /\ i \in Nat /\ i \div GroupSize = g
<1>1. GroupSize \in Nat \ {0} /\ Groups(t) \in Nat \ {0} /\ t.cap = Groups(t) * GroupSize
  BY TableConstants, TableGroups
<1>2. i \in Int /\ g * GroupSize <= i /\ i <= g * GroupSize + GroupSize - 1
  BY <1>1 DEF GroupSlots
<1>3. (g + 1) * GroupSize <= Groups(t) * GroupSize
  BY <1>1
<1>4. (g + 1) * GroupSize = g * GroupSize + GroupSize /\ g * GroupSize \in Nat
  BY <1>1
<1>5. i \in Nat /\ i <= t.cap - 1
  BY <1>1, <1>2, <1>3, <1>4
<1>6. i \div GroupSize = g
  <2>1. g \in Nat
    BY <1>1
  <2>2. QED
    BY ONLY <1>1, <1>2, <2>1, QuotientOf
<1>7. t.cap \in Nat
  BY TableGroups
<1>8. QED
  BY <1>5, <1>6, <1>7 DEF Slots

LEMMA GroupOfSlot ==
  ASSUME NEW t, Typed(t), t.cap # 0, NEW i \in Slots(t)
  PROVE  /\ i \div GroupSize \in 0..(Groups(t) - 1)
         /\ i \in GroupSlots(i \div GroupSize)
<1> DEFINE g == i \div GroupSize
<1>1. GroupSize \in Nat \ {0} /\ Groups(t) \in Nat \ {0} /\ t.cap = Groups(t) * GroupSize
  BY TableConstants, TableGroups
<1>2. i \in Nat /\ i < Groups(t) * GroupSize
  BY <1>1 DEF Slots
<1>3. g \in Int /\ i = GroupSize * g + (i % GroupSize) /\ i % GroupSize \in 0..(GroupSize - 1)
  BY <1>1, <1>2
<1>8. i \in GroupSlots(g)
  BY <1>1, <1>2, <1>3 DEF GroupSlots
<1> HIDE DEF g
<1>4. g >= 0
  <2>1. CASE g < 0
    <3>1. GroupSize * (-1 - g) >= 0
      BY <1>1, <1>3, <2>1
    <3>2. QED
      BY <1>1, <1>2, <1>3, <3>1
  <2>2. QED
    BY <1>3, <2>1
<1>5. g < Groups(t)
  <2>1. CASE g >= Groups(t)
    <3>1. GroupSize * g >= GroupSize * Groups(t)
      BY <1>1, <1>3, <2>1
    <3>2. QED
      BY <1>1, <1>2, <1>3, <3>1
  <2>2. QED
    BY <1>1, <1>3, <2>1
<1>6. QED
  BY <1>1, <1>3, <1>4, <1>5, <1>8 DEF g

\* The sequence of probes for a key comes by every group.
LEMMA ProbesReachAll ==
  ASSUME NEW t, Typed(t), t.cap # 0, NEW k \in Keys
  PROVE  /\ \A n \in Nat : Probe(t, k, n) \in 0..(Groups(t) - 1)
         /\ \A g \in 0..(Groups(t) - 1) : \E n \in 0..(Period(t) - 1) : Probe(t, k, n) = g
<1> DEFINE h == H1(Hash[k])
           G == Groups(t)
<1>1. h \in Nat
  <2>1. Hash[k] \in Nat
    BY TableConstants
  <2>2. QED
    BY <2>1 DEF H1
<1>2. G \in Nat \ {0} /\ PowerOfTwo(G)
  BY TableGroups
<1> HIDE DEF h, G
<1>3. ASSUME NEW n \in Nat PROVE (h + (n * (n + 1)) \div 2) % G \in 0..(G - 1)
  <2>1. n * (n + 1) \in Nat
    OBVIOUS
  <2>2. h + (n * (n + 1)) \div 2 \in Nat
    BY <1>1, <2>1
  <2>3. QED
    BY <1>2, <2>2
<1>4. ASSUME NEW g \in 0..(G - 1)
      PROVE  \E n \in 0..(2 * G - 1) : (h + (n * (n + 1)) \div 2) % G = g
  <2>1. g - h \in Int
    BY <1>1, <1>2
  <2>2. PICK n \in 0..(2 * G - 1), j \in Int : n * (n + 1) = 2 * ((g - h) + j * G)
    BY <1>2, <2>1, TrianglesCover
  <2>3. n * (n + 1) \in Nat /\ j * G \in Int
    BY <1>2
  <2>4. h + (n * (n + 1)) \div 2 = g + j * G
    BY <1>1, <1>2, <2>2, <2>3
  <2>5. g + j * G >= 0
    BY <1>1, <2>3, <2>4
  <2>6. j >= 0
    <3>1. CASE j < 0
      <4>1. j * G <= -G
        BY <1>2, <3>1
      <4>2. QED
        BY <1>2, <2>3, <2>5, <4>1
    <3>2. QED
      BY <3>1
  <2>7. (g + j * G) % G = g
    BY <1>2, <2>3, <2>6, QuotientOf
  <2>8. QED
    BY <2>4, <2>7
<1>5. QED
  BY <1>3, <1>4 DEF Probe, Period, h, G

\* The slots of a table can be counted.
LEMMA SlotsFinite ==
  ASSUME NEW t, Typed(t)
  PROVE  /\ t.cap \in Nat
         /\ IsFiniteSet(Slots(t)) /\ Cardinality(Slots(t)) = t.cap
         /\ IsFiniteSet(LiveSlots(t)) /\ IsFiniteSet(TombSlots(t))
         /\ Cardinality(LiveSlots(t)) \in Nat /\ Cardinality(TombSlots(t)) \in Nat
<1>1. t.cap \in Nat
  BY TableConstants DEF Typed, PowerOfTwo
<1>2. IsFiniteSet(Slots(t)) /\ Cardinality(Slots(t)) = t.cap
  <2>1. 0 \in Int /\ t.cap - 1 \in Int
    BY <1>1
  <2>2. /\ IsFiniteSet(0..(t.cap - 1))
        /\ Cardinality(0..(t.cap - 1)) = IF 0 > t.cap - 1 THEN 0 ELSE (t.cap - 1) - 0 + 1
    BY ONLY <2>1, FS_Interval
  <2>3. QED
    BY <1>1, <2>2 DEF Slots
<1>3. LiveSlots(t) \subseteq Slots(t) /\ TombSlots(t) \subseteq Slots(t)
  BY DEF LiveSlots, TombSlots
<1>4. IsFiniteSet(LiveSlots(t)) /\ IsFiniteSet(TombSlots(t))
  BY <1>2, <1>3, FS_Subset
<1>5. QED
  BY <1>1, <1>2, <1>4, FS_CardinalityType

\* The load factor leaves an empty slot.
LEMMA EmptySlotLeft ==
  ASSUME NEW t, Typed(t), Counted(t), Roomy(t), t.cap # 0
  PROVE  \E i \in Slots(t) : t.slot[i] = Empty
<1>1. SUFFICES ASSUME \A i \in Slots(t) : t.slot[i] # Empty PROVE FALSE
  OBVIOUS
<1>2. Slots(t) = LiveSlots(t) \cup TombSlots(t)
  BY <1>1 DEF LiveSlots, TombSlots, Live
<1>3. LiveSlots(t) \cap TombSlots(t) = {}
  BY DEF LiveSlots, TombSlots, Live
<1>4. t.cap = t.size + t.tombs
  <2>1. Cardinality(Slots(t)) =
          Cardinality(LiveSlots(t)) + Cardinality(TombSlots(t))
            - Cardinality(LiveSlots(t) \cap TombSlots(t))
    BY <1>2, SlotsFinite, FS_Union
  <2>2. Cardinality(LiveSlots(t) \cap TombSlots(t)) = 0
    BY <1>3, FS_EmptySet
  <2>3. QED
    BY <2>1, <2>2, SlotsFinite DEF Counted
<1>5. t.cap \in Nat /\ t.cap >= 4
  BY TableGroups
<1>6. (t.cap * 7) \div 8 < t.cap
  BY <1>5
<1>7. QED
  BY <1>4, <1>5, <1>6 DEF Roomy, Threshold

\* The probe loops end: every sequence of probes meets an empty slot.
LEMMA ProbesReturn ==
  ASSUME NEW t, Typed(t), Counted(t), Roomy(t), NEW k \in Keys
  PROVE  ProbeEnds(t, k)
<1>1. SUFFICES ASSUME t.cap # 0 PROVE \E n \in 0..(Period(t) - 1) : Decides(t, k, n)
  BY DEF ProbeEnds
<1>2. PICK i \in Slots(t) : t.slot[i] = Empty
  BY <1>1, EmptySlotLeft
<1>3. /\ i \div GroupSize \in 0..(Groups(t) - 1)
      /\ i \in GroupSlots(i \div GroupSize)
  BY <1>1, GroupOfSlot
<1>4. PICK n \in 0..(Period(t) - 1) : Probe(t, k, n) = i \div GroupSize
  BY <1>1, <1>3, ProbesReachAll
<1>5. QED
  BY <1>2, <1>3, <1>4 DEF Decides

\* Facts about the probe that decides.
LEMMA LastProbeFacts ==
  ASSUME NEW t, Typed(t), Counted(t), Roomy(t), NEW k \in Keys, t.cap # 0
  PROVE  /\ LastProbe(t, k) \in 0..(Period(t) - 1) /\ LastProbe(t, k) \in Nat
         /\ Decides(t, k, LastProbe(t, k))
         /\ \A n \in 0..(LastProbe(t, k) - 1) : ~Decides(t, k, n)
<1> DEFINE S == {n \in 0..(Period(t) - 1) : Decides(t, k, n)}
<1>1. Period(t) \in Nat
  BY TableGroups DEF Period
<1>2. S \subseteq Nat /\ S # {}
  <2>1. t.cap > 0
    BY TableGroups
  <2>2. QED
    BY <2>1, ProbesReturn DEF ProbeEnds
<1> HIDE DEF S
<1>3. Min(S) \in S /\ \A n \in S : Min(S) <= n
  BY <1>2, MinIsLeast
<1>4. Min(S) = LastProbe(t, k)
  BY DEF LastProbe, S
<1>5. LastProbe(t, k) \in 0..(Period(t) - 1) /\ Decides(t, k, LastProbe(t, k))
  BY <1>3, <1>4 DEF S
<1>6. ASSUME NEW n \in 0..(LastProbe(t, k) - 1), Decides(t, k, n) PROVE FALSE
  <2>1. n \in S /\ n < LastProbe(t, k)
    BY <1>1, <1>5, <1>6 DEF S
  <2>2. QED
    BY <1>1, <1>3, <1>4, <1>5, <2>1
<1>7. QED
  BY <1>1, <1>5, <1>6

\* Every slot a probe looks at is one of the table's.
LEMMA ProbedSlots ==
  ASSUME NEW t, Typed(t), t.cap # 0, NEW k \in Keys, NEW n \in Nat
  PROVE  GroupSlots(Probe(t, k, n)) \subseteq Slots(t)
BY ProbesReachAll, SlotsOfGroup

\* A lookup of a key that is present returns its slot.
LEMMA LookupFinds ==
  ASSUME NEW t, Sound(t), NEW i \in LiveSlots(t)
  PROVE  Lookup(t, t.slot[i].key) = i /\ i >= 0
<1> DEFINE k == t.slot[i].key
           last == LastProbe(t, k)
           hits == {j \in GroupSlots(Probe(t, k, last)) : Hit(t, k, j)}
<1>1. i \in Slots(t) /\ Live(t, i) /\ t.cap \in Nat /\ t.cap # 0 /\ i \in Nat
  <2>1. i \in Slots(t) /\ Live(t, i)
    BY DEF LiveSlots
  <2>2. t.cap \in Nat
    BY SlotsFinite DEF Sound
  <2>3. QED
    BY <2>1, <2>2 DEF Slots
<1>2. k \in Keys
  BY <1>1 DEF Sound, Typed, Live, Entry
<1> HIDE DEF k
<1>3. Typed(t) /\ Counted(t) /\ Roomy(t)
  BY DEF Sound
<1>4. PICK n \in 0..(Period(t) - 1) : Reaches(t, k, n, i)
  BY DEF Sound, EntriesReached, k
<1>5. Period(t) \in Nat /\ n \in Nat
  BY <1>1, <1>3, TableGroups DEF Period
<1>6. /\ last \in Nat /\ Decides(t, k, last)
      /\ \A m \in 0..(last - 1) : ~Decides(t, k, m)
  BY <1>1, <1>2, <1>3, LastProbeFacts
<1> HIDE DEF last
<1>7. Decides(t, k, n)
  BY <1>1, <1>4 DEF Decides, Reaches, Hit, k
<1>8. \A j : Hit(t, k, j) /\ j \in Slots(t) => j = i
  BY DEF Hit, Sound, KeysOnce, LiveSlots, k
<1>9. i \in GroupSlots(Probe(t, k, last))
  <2>1. last <= n
    BY <1>5, <1>6, <1>7
  <2>2. CASE last = n
    BY <1>4, <2>2 DEF Reaches
  <2>3. CASE last < n
    <3>1. last \in 0..(n - 1)
      BY <1>5, <1>6, <2>3
    <3>2. PICK j \in GroupSlots(Probe(t, k, last)) : Hit(t, k, j)
      BY <1>4, <1>6, <3>1 DEF Decides, Reaches
    <3>3. j = i
      BY <1>1, <1>2, <1>3, <1>6, <1>8, <3>2, ProbedSlots
    <3>4. QED
      BY <3>2, <3>3
  <2>4. QED
    BY <1>5, <1>6, <2>1, <2>2, <2>3
<1>10. hits = {i}
  <2>1. Hit(t, k, i)
    BY <1>1 DEF Hit, k
  <2>2. GroupSlots(Probe(t, k, last)) \subseteq Slots(t)
    BY <1>1, <1>2, <1>3, <1>6, ProbedSlots
  <2>3. QED
    BY <1>8, <1>9, <2>1, <2>2
<1>11. Min({i}) = i
  BY <1>1, MinIsLeast
<1>12. QED
  BY <1>1, <1>10, <1>11 DEF Lookup, k, last

\* A lookup of a key that is absent returns -1.
LEMMA LookupMisses ==
  ASSUME NEW t, Sound(t), NEW k \in Keys, \A i \in LiveSlots(t) : t.slot[i].key # k
  PROVE  Lookup(t, k) = -1
<1>1. CASE t.cap = 0
  BY <1>1 DEF Lookup
<1>2. CASE t.cap # 0
  <2>1. LastProbe(t, k) \in Nat
    BY <1>2, LastProbeFacts DEF Sound
  <2>2. GroupSlots(Probe(t, k, LastProbe(t, k))) \subseteq Slots(t)
    BY <1>2, <2>1, ProbedSlots DEF Sound
  <2>3. {i \in GroupSlots(Probe(t, k, LastProbe(t, k))) : Hit(t, k, i)} = {}
    BY <2>2 DEF Hit, LiveSlots
  <2>4. QED
    BY <1>2, <2>3 DEF Lookup
<1>3. QED
  BY <1>1, <1>2

\* So a lookup returns the one slot that holds the key, if any does.
LEMMA LookupFacts ==
  ASSUME NEW t, Sound(t), NEW k \in Keys
  PROVE  \/ Lookup(t, k) = -1 /\ \A i \in LiveSlots(t) : t.slot[i].key # k
         \/ /\ Lookup(t, k) \in LiveSlots(t) /\ Lookup(t, k) >= 0
            /\ t.slot[Lookup(t, k)].key = k
            /\ \A i \in LiveSlots(t) : t.slot[i].key = k => i = Lookup(t, k)
<1>1. CASE \A i \in LiveSlots(t) : t.slot[i].key # k
  BY <1>1, LookupMisses
<1>2. ASSUME NEW i \in LiveSlots(t), t.slot[i].key = k
      PROVE  /\ Lookup(t, k) \in LiveSlots(t) /\ Lookup(t, k) >= 0
             /\ t.slot[Lookup(t, k)].key = k
             /\ \A j \in LiveSlots(t) : t.slot[j].key = k => j = Lookup(t, k)
  <2>1. Lookup(t, k) = i /\ i >= 0
    BY <1>2, LookupFinds
  <2>2. QED
    BY <1>2, <2>1 DEF Sound, KeysOnce
<1>3. QED
  BY <1>1, <1>2

\* The first free slot is reached before any empty slot was passed.
LEMMA FirstFreeFacts ==
  ASSUME NEW t, Typed(t), Counted(t), Roomy(t), NEW k \in Keys, t.cap # 0
  PROVE  /\ FirstFree(t, k) \in Slots(t) \ LiveSlots(t)
         /\ \E n \in 0..(Period(t) - 1) : Reaches(t, k, n, FirstFree(t, k))
<1> DEFINE spare(n) == {i \in GroupSlots(Probe(t, k, n)) : ~Live(t, i)}
           S == {n \in 0..(Period(t) - 1) : spare(n) # {}}
<1>1. Period(t) \in Nat
  BY TableGroups DEF Period
<1>2. S \subseteq Nat /\ S # {}
  <2>1. PICK i \in Slots(t) : t.slot[i] = Empty
    BY EmptySlotLeft
  <2>2. PICK n \in 0..(Period(t) - 1) : Probe(t, k, n) = i \div GroupSize
    BY GroupOfSlot, ProbesReachAll
  <2>3. i \in spare(n)
    BY <2>1, <2>2, GroupOfSlot DEF Live
  <2>4. QED
    BY <1>1, <2>3
<1> HIDE DEF S
<1>3. PICK n \in S : n = Min(S) /\ \A m \in S : n <= m
  BY <1>2, MinIsLeast
<1>4. n \in 0..(Period(t) - 1) /\ n \in Nat /\ spare(n) # {}
  BY <1>1, <1>3 DEF S
<1>5. spare(n) \subseteq Slots(t) /\ Slots(t) \subseteq Nat
  BY <1>4, ProbedSlots, SlotsFinite DEF Slots
<1>6. PICK i \in spare(n) : i = Min(spare(n))
  <2> HIDE DEF spare
  <2>1. QED
    BY <1>4, <1>5, MinIsLeast
<1>7. FirstFree(t, k) = i
  BY <1>3, <1>6 DEF FirstFree, S
<1>8. i \in Slots(t) \ LiveSlots(t)
  BY <1>5, <1>6 DEF LiveSlots
<1>9. ASSUME NEW m \in 0..(n - 1), NEW j \in GroupSlots(Probe(t, k, m))
      PROVE  t.slot[j] # Empty
  <2>1. m \in 0..(Period(t) - 1) /\ m < n
    BY <1>1, <1>4, <1>9
  <2>2. m \notin S
    BY <1>1, <1>3, <1>4, <2>1
  <2>3. spare(m) = {}
    BY <2>1, <2>2 DEF S
  <2>4. QED
    BY <2>3 DEF Live
<1>10. Reaches(t, k, n, i)
  BY <1>6, <1>9 DEF Reaches
<1>11. QED
  BY <1>4, <1>7, <1>8, <1>10

-----------------------------------------------------------------------------
(***************************************************************************)
(* Writing one slot.                                                       *)
(***************************************************************************)

\* A table after a write of one slot.
LEMMA WrittenTable ==
  ASSUME NEW t, Typed(t), t.cap # 0, NEW i \in Slots(t),
         NEW e \in {Empty, Tomb} \cup Entry, NEW s, NEW b,
         NEW u, u = [slot |-> [t.slot EXCEPT ![i] = e], cap |-> t.cap, size |-> s, tombs |-> b]
  PROVE  /\ Typed(u) /\ u.cap = t.cap /\ u.size = s /\ u.tombs = b
         /\ Slots(u) = Slots(t)
         /\ u.slot[i] = e /\ \A j \in Slots(t) \ {i} : u.slot[j] = t.slot[j]
<1>1. u.slot = [t.slot EXCEPT ![i] = e] /\ u.cap = t.cap /\ u.size = s /\ u.tombs = b
  OBVIOUS
<1>2. Slots(u) = Slots(t)
  BY <1>1 DEF Slots
<1>3. t.slot \in [Slots(t) -> {Empty, Tomb} \cup Entry]
  BY DEF Typed
<1>4. /\ u.slot \in [Slots(t) -> {Empty, Tomb} \cup Entry]
      /\ u.slot[i] = e /\ \A j \in Slots(t) \ {i} : u.slot[j] = t.slot[j]
  BY <1>1, <1>3
<1>5. t.cap = 0 \/ (PowerOfTwo(t.cap) /\ t.cap >= InitialCap)
  BY DEF Typed
<1>6. u = [slot |-> u.slot, cap |-> u.cap, size |-> u.size, tombs |-> u.tombs]
  BY <1>1
<1>7. QED
  BY <1>1, <1>2, <1>4, <1>5, <1>6 DEF Typed

\* Slots reached stay so if no group gets its first empty slot.
LEMMA ReachesKept ==
  ASSUME NEW t, NEW u, Typed(t), t.cap # 0, u.cap = t.cap,
         \A g \in 0..(Groups(t) - 1) :
           (\A j \in GroupSlots(g) : t.slot[j] # Empty) =>
             \A j \in GroupSlots(g) : u.slot[j] # Empty,
         NEW k \in Keys, NEW n \in 0..(Period(t) - 1), NEW i, Reaches(t, k, n, i)
  PROVE  n \in 0..(Period(u) - 1) /\ Reaches(u, k, n, i)
<1>1. Groups(u) = Groups(t) /\ Period(u) = Period(t)
  BY DEF Groups, Period
<1>2. \A m : Probe(u, k, m) = Probe(t, k, m)
  BY <1>1 DEF Probe
<1>3. n \in Nat /\ \A m \in 0..(n - 1) : m \in Nat
  BY TableGroups DEF Period
<1>4. \A m \in 0..(n - 1) : Probe(t, k, m) \in 0..(Groups(t) - 1)
  BY <1>3, ProbesReachAll
<1>5. QED
  BY <1>1, <1>2, <1>4 DEF Reaches

\* What Put returns, by where it writes.
LEMMA PutValue ==
  ASSUME NEW t, Typed(t), NEW k, NEW v,
         NEW f, f = Lookup(t, k),
         NEW i, i = IF f >= 0 THEN f ELSE FirstFree(t, k),
         NEW e, e = [key |-> k, val |-> v],
         NEW s, s = (IF f >= 0 THEN t.size ELSE t.size + 1),
         NEW b, b = (IF f < 0 /\ t.slot[i] = Tomb THEN t.tombs - 1 ELSE t.tombs)
  PROVE  Put(t, k, v) =
           [slot |-> [t.slot EXCEPT ![i] = e], cap |-> t.cap, size |-> s, tombs |-> b]
<1>1. PICK a, c, z, y : t = [slot |-> a, cap |-> c, size |-> z, tombs |-> y]
  BY DEF Typed
<1>2. t.slot = a /\ t.cap = c /\ t.size = z /\ t.tombs = y
  BY <1>1
<1>3. Put(t, k, v) = [t EXCEPT !.slot[i] = [key |-> k, val |-> v],
                             !.size  = IF f >= 0 THEN @ ELSE @ + 1,
                             !.tombs = IF f < 0 /\ t.slot[i] = Tomb THEN @ - 1 ELSE @]
  BY DEF Put
<1>4. Put(t, k, v) = [t EXCEPT !.slot[i] = e, !.size = s, !.tombs = b]
  BY <1>2, <1>3
<1>5. Put(t, k, v) = [slot |-> [a EXCEPT ![i] = e], cap |-> c, size |-> s, tombs |-> b]
  BY ONLY <1>1, <1>4
<1>6. QED
  BY <1>2, <1>5

\* Put writes over the value of a key that is present.
LEMMA PutPresent ==
  ASSUME NEW t, Sound(t), NEW k \in Keys, NEW v \in Values, t.cap # 0,
         NEW i \in LiveSlots(t), t.slot[i].key = k,
         NEW u, u = Put(t, k, v)
  PROVE  /\ Sound(u) /\ u.cap = t.cap /\ u.size = t.size /\ u.tombs = t.tombs
         /\ LiveSlots(u) = LiveSlots(t)
         /\ u.slot[i] = [key |-> k, val |-> v]
         /\ \A j \in Slots(t) \ {i} : u.slot[j] = t.slot[j]
<1> DEFINE e == [key |-> k, val |-> v]
<1>1. Typed(t) /\ i \in Slots(t)
  BY DEF Sound, LiveSlots
<1>2. Lookup(t, k) = i /\ i >= 0 /\ i \in Nat
  BY <1>1, LookupFinds, SlotsFinite DEF Slots
<1>3. u = [slot |-> [t.slot EXCEPT ![i] = e], cap |-> t.cap, size |-> t.size, tombs |-> t.tombs]
  <2>1. PICK f, z, b : f = i /\ z = t.size /\ b = t.tombs
    OBVIOUS
  <2>2. /\ f = Lookup(t, k) /\ i = (IF f >= 0 THEN f ELSE FirstFree(t, k))
        /\ z = (IF f >= 0 THEN t.size ELSE t.size + 1)
        /\ b = (IF f < 0 /\ t.slot[i] = Tomb THEN t.tombs - 1 ELSE t.tombs)
    BY <1>2, <2>1
  <2>3. u = [slot |-> [t.slot EXCEPT ![i] = e], cap |-> t.cap, size |-> z, tombs |-> b]
    BY <1>1, <2>2, PutValue
  <2>4. QED
    BY <2>1, <2>3
<1>4. e \in Entry /\ e \notin {Empty, Tomb} /\ e.key = k
  BY TableConstants DEF Entry
<1> HIDE DEF e
<1>5. /\ Typed(u) /\ u.cap = t.cap /\ u.size = t.size /\ u.tombs = t.tombs
      /\ Slots(u) = Slots(t)
      /\ u.slot[i] = e /\ \A j \in Slots(t) \ {i} : u.slot[j] = t.slot[j]
  BY <1>1, <1>3, <1>4, WrittenTable
<1>6. LiveSlots(u) = LiveSlots(t) /\ TombSlots(u) = TombSlots(t)
  BY <1>4, <1>5, TableConstants DEF LiveSlots, TombSlots, Live
<1>7. \A j \in LiveSlots(t) : u.slot[j].key = t.slot[j].key
  BY <1>4, <1>5 DEF LiveSlots
<1>8. \A g \in 0..(Groups(t) - 1) :
        (\A j \in GroupSlots(g) : t.slot[j] # Empty) =>
          \A j \in GroupSlots(g) : u.slot[j] # Empty
  BY <1>1, <1>4, <1>5, SlotsOfGroup
<1>9. ASSUME NEW j \in LiveSlots(u)
      PROVE  \E n \in 0..(Period(u) - 1) : Reaches(u, u.slot[j].key, n, j)
  <2>1. j \in LiveSlots(t) /\ t.slot[j].key \in Keys
    BY <1>1, <1>6 DEF LiveSlots, Live, Typed, Entry
  <2>2. PICK n \in 0..(Period(t) - 1) : Reaches(t, t.slot[j].key, n, j)
    BY <2>1 DEF Sound, EntriesReached
  <2>3. QED
    BY <1>1, <1>5, <1>7, <1>8, <2>1, <2>2, ReachesKept
<1>10. KeysOnce(u)
  BY <1>6, <1>7 DEF Sound, KeysOnce
<1>11. Counted(u) /\ Roomy(u)
  BY <1>5, <1>6 DEF Sound, Counted, Roomy
<1>12. QED
  BY <1>5, <1>6, <1>9, <1>10, <1>11 DEF Sound, EntriesReached, e

\* Put gives a key that is absent a slot of its own.
LEMMA PutAbsent ==
  ASSUME NEW t, Sound(t), NEW k \in Keys, NEW v \in Values, t.cap # 0,
         \A j \in LiveSlots(t) : t.slot[j].key # k,
         t.size + t.tombs + 1 <= Threshold(t.cap),
         NEW u, u = Put(t, k, v)
  PROVE  /\ Sound(u) /\ u.cap = t.cap /\ u.size = t.size + 1
         /\ TombSlots(u) \subseteq TombSlots(t)
         /\ \E i \in Slots(t) \ LiveSlots(t) :
              /\ LiveSlots(u) = LiveSlots(t) \cup {i}
              /\ u.slot[i] = [key |-> k, val |-> v]
              /\ \A j \in Slots(t) \ {i} : u.slot[j] = t.slot[j]
<1> DEFINE e == [key |-> k, val |-> v]
<1>1. Typed(t) /\ Counted(t) /\ Roomy(t)
  BY DEF Sound
<1>2. Lookup(t, k) = -1
  BY LookupMisses
<1>3. PICK i : i = FirstFree(t, k)
  OBVIOUS
<1>4. i \in Slots(t) /\ i \notin LiveSlots(t)
  BY <1>1, <1>3, FirstFreeFacts
<1>5. PICK b : /\ u = [slot |-> [t.slot EXCEPT ![i] = e], cap |-> t.cap,
                        size |-> t.size + 1, tombs |-> b]
               /\ b = IF t.slot[i] = Tomb THEN t.tombs - 1 ELSE t.tombs
  <2>1. PICK f, z, b : /\ f = -1 /\ z = t.size + 1
                       /\ b = IF t.slot[i] = Tomb THEN t.tombs - 1 ELSE t.tombs
    OBVIOUS
  <2>2. /\ f = Lookup(t, k) /\ i = (IF f >= 0 THEN f ELSE FirstFree(t, k))
        /\ z = (IF f >= 0 THEN t.size ELSE t.size + 1)
        /\ b = (IF f < 0 /\ t.slot[i] = Tomb THEN t.tombs - 1 ELSE t.tombs)
    BY <1>2, <1>3, <2>1
  <2>3. u = [slot |-> [t.slot EXCEPT ![i] = e], cap |-> t.cap, size |-> z, tombs |-> b]
    BY <1>1, <2>2, PutValue
  <2>4. QED
    BY <2>1, <2>3
<1>6. e \in Entry /\ e \notin {Empty, Tomb} /\ e.key = k
  BY TableConstants DEF Entry
<1> HIDE DEF e
<1>7. /\ Typed(u) /\ u.cap = t.cap /\ u.size = t.size + 1 /\ u.tombs = b
      /\ Slots(u) = Slots(t)
      /\ u.slot[i] = e /\ \A j \in Slots(t) \ {i} : u.slot[j] = t.slot[j]
  BY <1>1, <1>4, <1>5, <1>6, WrittenTable
<1>8. LiveSlots(u) = LiveSlots(t) \cup {i} /\ TombSlots(u) = TombSlots(t) \ {i}
  BY <1>4, <1>6, <1>7, TableConstants DEF LiveSlots, TombSlots, Live
<1>9. \A g \in 0..(Groups(t) - 1) :
        (\A j \in GroupSlots(g) : t.slot[j] # Empty) =>
          \A j \in GroupSlots(g) : u.slot[j] # Empty
  BY <1>1, <1>6, <1>7, SlotsOfGroup
<1>10. ASSUME NEW j \in LiveSlots(u)
       PROVE  \E n \in 0..(Period(u) - 1) : Reaches(u, u.slot[j].key, n, j)
  <2>1. CASE j = i
    <3>1. PICK n \in 0..(Period(t) - 1) : Reaches(t, k, n, i)
      BY <1>1, <1>3, FirstFreeFacts
    <3>2. n \in 0..(Period(u) - 1) /\ Reaches(u, k, n, i)
      BY <1>1, <1>7, <1>9, <3>1, ReachesKept
    <3>3. QED
      BY <1>6, <1>7, <2>1, <3>2
  <2>2. CASE j # i
    <3>1. /\ j \in LiveSlots(t) /\ t.slot[j].key \in Keys
          /\ u.slot[j] = t.slot[j]
      BY <1>1, <1>7, <1>8, <2>2 DEF LiveSlots, Live, Typed, Entry
    <3>2. PICK n \in 0..(Period(t) - 1) : Reaches(t, t.slot[j].key, n, j)
      BY <3>1 DEF Sound, EntriesReached
    <3>3. QED
      BY <1>1, <1>7, <1>9, <3>1, <3>2, ReachesKept
  <2>3. QED
    BY <2>1, <2>2
<1>11. KeysOnce(u)
  BY <1>4, <1>6, <1>7, <1>8 DEF Sound, KeysOnce, LiveSlots
<1>12. /\ Cardinality(LiveSlots(u)) = t.size + 1
       /\ Cardinality(TombSlots(u)) = b /\ b <= t.tombs
       /\ t.size \in Nat /\ t.tombs \in Nat /\ b \in Nat
  <2>1. /\ IsFiniteSet(LiveSlots(t)) /\ IsFiniteSet(TombSlots(t))
        /\ t.size = Cardinality(LiveSlots(t)) /\ t.tombs = Cardinality(TombSlots(t))
        /\ t.size \in Nat /\ t.tombs \in Nat
    BY <1>1, SlotsFinite DEF Counted
  <2>2. Cardinality(LiveSlots(t) \cup {i}) = t.size + 1
    BY <1>4, <2>1, FS_AddElement
  <2>3. Cardinality(TombSlots(t) \ {i}) = IF i \in TombSlots(t) THEN t.tombs - 1 ELSE t.tombs
    BY <2>1, FS_RemoveElement
  <2>4. i \in TombSlots(t) <=> t.slot[i] = Tomb
    BY <1>4 DEF TombSlots
  <2>5. Cardinality(TombSlots(u)) \in Nat
    BY <1>7, SlotsFinite
  <2>6. b = IF i \in TombSlots(t) THEN t.tombs - 1 ELSE t.tombs
    BY <1>5, <2>4
  <2>7. Cardinality(TombSlots(u)) = b
    BY <1>8, <2>3, <2>6
  <2>8. b <= t.tombs
    BY ONLY <2>1, <2>6
  <2>9. QED
    BY <1>8, <2>1, <2>2, <2>5, <2>7, <2>8
<1>13. Counted(u) /\ Roomy(u)
  <2>1. Threshold(u.cap) = Threshold(t.cap)
    BY <1>7
  <2>2. Threshold(t.cap) \in Int
    BY <1>1, SlotsFinite DEF Threshold
  <2>3. QED
    BY <1>7, <1>12, <2>1, <2>2 DEF Counted, Roomy
<1>14. EntriesReached(u)
  BY <1>10 DEF EntriesReached
<1>15. QED
  BY <1>4, <1>7, <1>8, <1>11, <1>13, <1>14 DEF Sound, e

\* What Erase returns when the key is present.
LEMMA EraseValue ==
  ASSUME NEW t, Typed(t), NEW k, NEW i \in Nat, i = Lookup(t, k),
         NEW hollow \in BOOLEAN,
         hollow <=> \E j \in GroupSlots(i \div GroupSize) : t.slot[j] = Empty,
         NEW e, e = (IF hollow THEN Empty ELSE Tomb),
         NEW s, s = t.size - 1,
         NEW b, b = (IF hollow THEN t.tombs ELSE t.tombs + 1)
  PROVE  Erase(t, k) =
           [slot |-> [t.slot EXCEPT ![i] = e], cap |-> t.cap, size |-> s, tombs |-> b]
<1>1. PICK a, c, z, y : t = [slot |-> a, cap |-> c, size |-> z, tombs |-> y]
  BY DEF Typed
<1>2. t.slot = a /\ t.cap = c /\ t.size = z /\ t.tombs = y
  BY <1>1
<1>3. ~(i < 0)
  OBVIOUS
<1>4. Erase(t, k) = [t EXCEPT !.slot[i] = IF hollow THEN Empty ELSE Tomb,
                            !.tombs   = IF hollow THEN @ ELSE @ + 1,
                            !.size    = @ - 1]
  BY <1>3 DEF Erase
<1>5. Erase(t, k) = [t EXCEPT !.slot[i] = e, !.tombs = b, !.size = s]
  BY <1>2, <1>4
<1>6. Erase(t, k) = [slot |-> [a EXCEPT ![i] = e], cap |-> c, size |-> s, tombs |-> b]
  BY ONLY <1>1, <1>5
<1>7. QED
  BY <1>2, <1>6

\* Erase removes the entry of a key that is present, and no other.
LEMMA ErasePresent ==
  ASSUME NEW t, Sound(t), NEW k \in Keys,
         NEW i \in LiveSlots(t), t.slot[i].key = k,
         NEW u, u = Erase(t, k)
  PROVE  /\ Sound(u) /\ u.cap = t.cap /\ u.size = t.size - 1
         /\ LiveSlots(u) = LiveSlots(t) \ {i}
         /\ \A j \in Slots(t) \ {i} : u.slot[j] = t.slot[j]
<1>1. Typed(t) /\ Counted(t) /\ Roomy(t) /\ i \in Slots(t) /\ Live(t, i)
  BY DEF Sound, LiveSlots
<1>2. Lookup(t, k) = i /\ i >= 0 /\ i \in Nat /\ t.cap # 0
  BY <1>1, LookupFinds, SlotsFinite DEF Slots
<1>3. PICK hollow \in BOOLEAN :
        hollow <=> \E j \in GroupSlots(i \div GroupSize) : t.slot[j] = Empty
  OBVIOUS
<1>4. PICK e, s, b : /\ e = (IF hollow THEN Empty ELSE Tomb)
                     /\ s = t.size - 1
                     /\ b = (IF hollow THEN t.tombs ELSE t.tombs + 1)
  OBVIOUS
<1>5. u = [slot |-> [t.slot EXCEPT ![i] = e], cap |-> t.cap, size |-> s, tombs |-> b]
  BY <1>1, <1>2, <1>3, <1>4, EraseValue
<1>6. /\ Typed(u) /\ u.cap = t.cap /\ u.size = s /\ u.tombs = b
      /\ Slots(u) = Slots(t)
      /\ u.slot[i] = e /\ \A j \in Slots(t) \ {i} : u.slot[j] = t.slot[j]
  <2>1. e \in {Empty, Tomb} \cup Entry
    BY <1>4
  <2>2. t.cap # 0
    BY <1>2
  <2>3. /\ Typed(u) /\ u.cap = t.cap /\ u.size = s /\ u.tombs = b
        /\ Slots(u) = Slots(t)
        /\ \A j \in Slots(t) \ {i} : u.slot[j] = t.slot[j]
    BY <1>1, <1>5, <2>1, <2>2, WrittenTable
  <2>4. i \in DOMAIN t.slot /\ u.slot = [t.slot EXCEPT ![i] = e]
    BY <1>1, <1>5 DEF Typed
  <2>5. QED
    BY <2>3, <2>4
<1>7. /\ LiveSlots(u) = LiveSlots(t) \ {i}
      /\ TombSlots(u) = IF hollow THEN TombSlots(t) ELSE TombSlots(t) \cup {i}
      /\ i \notin TombSlots(t)
  BY <1>1, <1>4, <1>6, TableConstants DEF LiveSlots, TombSlots, Live
<1>8. ASSUME NEW g \in 0..(Groups(t) - 1), \A j \in GroupSlots(g) : t.slot[j] # Empty,
             NEW j \in GroupSlots(g)
      PROVE  u.slot[j] # Empty
  <2>1. j \in Slots(t) /\ j \div GroupSize = g
    BY <1>1, <1>2, SlotsOfGroup
  <2>2. CASE j = i
    <3>1. ~hollow
      BY <1>3, <1>8, <2>1, <2>2
    <3>2. QED
      BY <1>4, <1>6, <2>2, <3>1, TableConstants
  <2>3. CASE j # i
    BY <1>6, <1>8, <2>1, <2>3
  <2>4. QED
    BY <2>2, <2>3
<1>9. ASSUME NEW j \in LiveSlots(u)
      PROVE  \E n \in 0..(Period(u) - 1) : Reaches(u, u.slot[j].key, n, j)
  <2>1. /\ j \in LiveSlots(t) /\ t.slot[j].key \in Keys
        /\ u.slot[j] = t.slot[j]
    BY <1>1, <1>6, <1>7 DEF LiveSlots, Live, Typed, Entry
  <2>2. PICK n \in 0..(Period(t) - 1) : Reaches(t, t.slot[j].key, n, j)
    BY <2>1 DEF Sound, EntriesReached
  <2>3. QED
    BY <1>1, <1>2, <1>6, <1>8, <2>1, <2>2, ReachesKept
<1>10. KeysOnce(u)
  BY <1>6, <1>7 DEF Sound, KeysOnce, LiveSlots
<1>11. /\ IsFiniteSet(LiveSlots(t)) /\ IsFiniteSet(TombSlots(t))
       /\ t.size = Cardinality(LiveSlots(t)) /\ t.tombs = Cardinality(TombSlots(t))
       /\ t.size \in Nat /\ t.tombs \in Nat
  BY <1>1, SlotsFinite DEF Counted
<1>12. Counted(u)
  <2>1. Cardinality(LiveSlots(t) \ {i}) = s
    BY <1>4, <1>11, FS_RemoveElement
  <2>2. Cardinality(TombSlots(t) \cup {i}) = t.tombs + 1
    BY <1>7, <1>11, FS_AddElement
  <2>3. Cardinality(TombSlots(u)) = b
    BY <1>4, <1>7, <1>11, <2>2
  <2>4. QED
    BY <1>6, <1>7, <2>1, <2>3 DEF Counted
<1>13. Roomy(u)
  <2>1. b <= t.tombs + 1 /\ b \in Nat /\ s + b <= t.size + t.tombs
    BY ONLY <1>4, <1>11
  <2>2. Threshold(t.cap) \in Int
    BY <1>1, SlotsFinite DEF Threshold
  <2>3. s \in Int
    BY <1>4, <1>11
  <2>4. QED
    BY <1>1, <1>6, <1>11, <2>1, <2>2, <2>3 DEF Roomy
<1>14. QED
  BY <1>4, <1>6, <1>7, <1>9, <1>10, <1>12, <1>13 DEF Sound, EntriesReached

\* Erase leaves the table alone when the key is absent.
LEMMA EraseAbsent ==
  ASSUME NEW t, Sound(t), NEW k \in Keys, \A i \in LiveSlots(t) : t.slot[i].key # k
  PROVE  Erase(t, k) = t
BY LookupMisses DEF Erase

-----------------------------------------------------------------------------
(***************************************************************************)
(* Growth.                                                                 *)
(***************************************************************************)

\* An empty table is sound.
LEMMA FreshSound ==
  ASSUME NEW c \in Nat, c = 0 \/ (PowerOfTwo(c) /\ c >= InitialCap),
         NEW u, u = Fresh(c)
  PROVE  /\ Sound(u) /\ u.cap = c /\ u.size = 0 /\ u.tombs = 0
         /\ LiveSlots(u) = {} /\ TombSlots(u) = {}
<1>1. /\ u = [slot |-> u.slot, cap |-> u.cap, size |-> u.size, tombs |-> u.tombs]
      /\ u.slot = [i \in 0..(c - 1) |-> Empty] /\ u.cap = c /\ u.size = 0 /\ u.tombs = 0
  BY DEF Fresh
<1>2. Typed(u)
  BY <1>1 DEF Typed, Slots
<1>3. \A i \in Slots(u) : u.slot[i] = Empty
  BY <1>1 DEF Slots
<1>4. LiveSlots(u) = {} /\ TombSlots(u) = {}
  BY <1>3, TableConstants DEF LiveSlots, TombSlots, Live
<1>5. Counted(u)
  BY <1>1, <1>4, FS_EmptySet DEF Counted
<1>6. Roomy(u)
  BY <1>1 DEF Roomy, Threshold
<1>7. EntriesReached(u) /\ KeysOnce(u)
  BY <1>4 DEF EntriesReached, KeysOnce
<1>8. QED
  BY <1>1, <1>2, <1>4, <1>5, <1>6, <1>7 DEF Sound

\* A sound table counts no more entries than it has slots.
LEMMA SizeInCapacity ==
  ASSUME NEW t, Sound(t)
  PROVE  t.cap \in Nat /\ t.size \in 0..t.cap /\ t.tombs \in Nat
<1>1. LiveSlots(t) \subseteq Slots(t)
  BY DEF LiveSlots
<1>2. Cardinality(LiveSlots(t)) <= t.cap
  BY <1>1, SlotsFinite, FS_Subset DEF Sound
<1>3. QED
  BY <1>2, SlotsFinite DEF Sound, Counted

\* The capacity Pick_New_Cap chooses has room under the load factor for all the
\* entries and the one about to be inserted.  Hence the inserts of Rehash_Into
\* do not grow the table they fill, and Maybe_Grow need not look twice.
THEOREM RehashFits ==
  ASSUME NEW t, t.cap \in Nat, t.cap >= InitialCap,
         t.size \in 0..t.cap
  PROVE  t.size + 1 <= Threshold(PickNewCap(t))
<1>1. t.cap >= 4
  BY TableConstants
<1>2. CASE t.size <= t.cap \div 2
  <2>1. t.cap \div 2 + 1 <= (t.cap * 7) \div 8
    BY <1>1
  <2> QED
    BY <1>2, <2>1 DEF PickNewCap, Threshold
<1>3. CASE ~(t.size <= t.cap \div 2)
  <2>1. t.cap + 1 <= ((t.cap * 2) * 7) \div 8
    BY <1>1
  <2> QED
    BY <1>3, <2>1 DEF PickNewCap, Threshold
<1> QED
  BY <1>2, <1>3

\* It is a capacity, and not less than the old one.
LEMMA NewCapFacts ==
  ASSUME NEW t, Sound(t), t.cap # 0
  PROVE  /\ PickNewCap(t) \in Nat /\ PowerOfTwo(PickNewCap(t))
         /\ PickNewCap(t) >= InitialCap /\ PickNewCap(t) >= t.cap
         /\ t.size + 1 <= Threshold(PickNewCap(t))
<1>1. t.cap \in Nat /\ PowerOfTwo(t.cap) /\ t.cap >= InitialCap /\ InitialCap \in Nat
  BY SizeInCapacity, TableConstants DEF Sound, Typed
<1>2. PowerOfTwo(2 * t.cap) /\ 2 * t.cap = t.cap * 2
  BY <1>1, PowerDoubled
<1>3. t.size + 1 <= Threshold(PickNewCap(t))
  BY <1>1, SizeInCapacity, RehashFits
<1>4. QED
  BY <1>1, <1>2, <1>3 DEF PickNewCap

\* f is how Rehash_Into fills its target: f[n] has been offered the first n slots.
Fills(t, f, m) ==
  f = [n \in 0..m |-> IF n = 0 THEN Fresh(PickNewCap(t)) ELSE Reinsert(t, f[n - 1], n - 1)]

\* There is such a function, for any number of slots.
LEMMA FillsExists ==
  ASSUME NEW t, NEW m \in Nat
  PROVE  \E f : Fills(t, f, m)
<1> DEFINE Wrong == {n \in Nat : ~\E f : Fills(t, f, n)}
<1>1. SUFFICES ASSUME Wrong # {} PROVE FALSE
  OBVIOUS
<1>2. PICK n \in Wrong : \A l \in Wrong : n <= l
  BY <1>1, LeastElement
<1>3. ~\E f : Fills(t, f, n)
  OBVIOUS
<1>4. n # 0
  <2> DEFINE f == [l \in 0..0 |-> Fresh(PickNewCap(t))]
  <2>1. Fills(t, f, 0)
    BY DEF Fills
  <2>2. QED
    BY <1>3, <2>1
<1>5. n - 1 \in Nat /\ n - 1 \notin Wrong
  BY <1>2, <1>4
<1>6. PICK g : Fills(t, g, n - 1)
  BY <1>5
<1> DEFINE f == [l \in 0..n |-> IF l = n THEN Reinsert(t, g[n - 1], n - 1) ELSE g[l]]
<1>7. \A l \in 0..(n - 1) : f[l] = g[l]
  BY <1>5
<1>8. \A l \in 0..(n - 1) :
        g[l] = IF l = 0 THEN Fresh(PickNewCap(t)) ELSE Reinsert(t, g[l - 1], l - 1)
  BY <1>6 DEF Fills
<1>9. ASSUME NEW l \in 0..n
      PROVE  f[l] = IF l = 0 THEN Fresh(PickNewCap(t)) ELSE Reinsert(t, f[l - 1], l - 1)
  <2>1. CASE l = n
    BY <1>4, <1>5, <1>7, <2>1
  <2>2. CASE l # n
    <3>1. l \in 0..(n - 1) /\ (l # 0 => l - 1 \in 0..(n - 1))
      BY <1>5, <2>2
    <3>2. QED
      BY <1>7, <1>8, <3>1
  <2>3. QED
    BY <2>1, <2>2
<1>10. Fills(t, f, n)
  BY <1>9 DEF Fills
<1>11. QED
  BY <1>3, <1>10

\* Rehash returns the last table of such a function.
LEMMA RehashValue ==
  ASSUME NEW t, t.cap \in Nat
  PROVE  \E f : Fills(t, f, t.cap) /\ Rehash(t) = f[t.cap]
<1> DEFINE into == CHOOSE f : Fills(t, f, t.cap)
<1>1. Fills(t, into, t.cap)
  BY FillsExists
<1>2. Rehash(t) = into[t.cap]
  BY DEF Rehash, Fills
<1>3. QED
  BY <1>1, <1>2

\* The live slots of t among the first n.
Before(t, n) == {i \in LiveSlots(t) : i < n}

\* u holds what the first n slots of t hold.
Filled(t, u, n) ==
  /\ Sound(u) /\ u.cap = PickNewCap(t) /\ TombSlots(u) = {}
  /\ u.size = Cardinality(Before(t, n))
  /\ Entries(u) = {t.slot[i] : i \in Before(t, n)}

\* An entry is made of its key and its value.
LEMMA EntryFacts ==
  ASSUME NEW t, Typed(t), NEW i \in LiveSlots(t)
  PROVE  /\ t.slot[i] \in Entry /\ t.slot[i].key \in Keys /\ t.slot[i].val \in Values
         /\ t.slot[i] = [key |-> t.slot[i].key, val |-> t.slot[i].val]
<1>1. t.slot[i] \in Entry
  BY DEF Typed, LiveSlots, Live
<1>2. QED
  BY <1>1 DEF Entry

\* The target of a rehash has room for one more entry at any moment of it.
LEMMA TargetHasRoom ==
  ASSUME NEW t, Sound(t), t.cap # 0, NEW n \in 0..t.cap, NEW u, Filled(t, u, n)
  PROVE  /\ u.cap \in Nat /\ u.cap # 0 /\ Threshold(u.cap) \in Int
         /\ u.size \in Nat /\ u.tombs = 0
         /\ u.size + u.tombs + 1 <= Threshold(u.cap)
<1>1. /\ t.cap \in Nat /\ IsFiniteSet(LiveSlots(t))
      /\ t.size = Cardinality(LiveSlots(t)) /\ t.size \in Nat
  BY SlotsFinite DEF Sound, Counted
<1>2. /\ Sound(u) /\ u.cap = PickNewCap(t) /\ TombSlots(u) = {}
      /\ u.size = Cardinality(Before(t, n))
  BY DEF Filled
<1>3. IsFiniteSet(Before(t, n)) /\ Cardinality(Before(t, n)) <= t.size
  BY <1>1, FS_Subset DEF Before
<1>4. u.tombs = 0
  BY <1>2, FS_EmptySet DEF Sound, Counted
<1>5. u.cap \in Nat /\ u.cap >= t.cap /\ t.size + 1 <= Threshold(u.cap)
  BY <1>2, NewCapFacts
<1>6. u.size \in Nat /\ u.size <= t.size
  BY <1>2, <1>3, FS_CardinalityType
<1>7. Threshold(u.cap) \in Int
  BY <1>5 DEF Threshold
<1>8. u.cap # 0
  BY <1>1, <1>5
<1>9. QED
  BY <1>1, <1>4, <1>5, <1>6, <1>7, <1>8

\* So Maybe_Grow, which each Insert of Rehash_Into calls, leaves the target alone,
\* and Reinsert may do without it.
THEOREM RehashNeverGrows ==
  ASSUME NEW t, Sound(t), t.cap # 0, NEW n \in 0..t.cap, NEW u, Filled(t, u, n)
  PROVE  Grown(u) = u
<1>1. /\ u.cap \in Nat /\ u.cap # 0 /\ Threshold(u.cap) \in Int
      /\ u.size \in Nat /\ u.tombs = 0
      /\ u.size + u.tombs + 1 <= Threshold(u.cap)
  BY TargetHasRoom
<1>2. ~MustGrow(u)
  BY <1>1 DEF MustGrow
<1>3. QED
  BY <1>1, <1>2 DEF Grown

\* One more slot of t.
LEMMA ReinsertFills ==
  ASSUME NEW t, Sound(t), t.cap # 0, NEW n \in 0..(t.cap - 1), NEW m, m = n + 1,
         NEW u, Filled(t, u, n), NEW w, w = Reinsert(t, u, n)
  PROVE  Filled(t, w, m)
<1>1. /\ t.cap \in Nat /\ n \in Slots(t) /\ LiveSlots(t) \subseteq Nat
      /\ IsFiniteSet(LiveSlots(t)) /\ t.size = Cardinality(LiveSlots(t)) /\ t.size \in Nat
  BY SlotsFinite DEF Sound, Counted, Slots, LiveSlots
<1>2. Before(t, n) \subseteq LiveSlots(t) /\ n \notin Before(t, n)
  BY <1>1 DEF Before
<1>3. IsFiniteSet(Before(t, n)) /\ Cardinality(Before(t, n)) <= t.size
  BY <1>1, <1>2, FS_Subset
<1>4. CASE ~Live(t, n)
  <2>1. w = u
    BY <1>4 DEF Reinsert
  <2>2. Before(t, m) = Before(t, n)
    <3>1. \A i \in LiveSlots(t) : i < m <=> i < n \/ i = n
      BY <1>1
    <3>2. n \notin LiveSlots(t)
      BY <1>4 DEF LiveSlots
    <3>3. QED
      BY <3>1, <3>2 DEF Before
  <2>3. QED
    BY <2>1, <2>2 DEF Filled
<1>5. CASE Live(t, n)
  <2>1. PICK k, v : k = t.slot[n].key /\ v = t.slot[n].val
    OBVIOUS
  <2>2. n \in LiveSlots(t)
    BY <1>1, <1>5 DEF LiveSlots
  <2>3. k \in Keys /\ v \in Values /\ t.slot[n] = [key |-> k, val |-> v]
    BY <2>1, <2>2, EntryFacts DEF Sound
  <2>4. w = Put(u, k, v)
    BY <1>5, <2>1 DEF Reinsert
  <2>5. Before(t, m) = Before(t, n) \cup {n}
    <3>1. \A i \in LiveSlots(t) : i < m <=> i < n \/ i = n
      BY <1>1
    <3>2. QED
      BY <2>2, <3>1 DEF Before
  <2>6. ASSUME NEW j \in LiveSlots(u), u.slot[j].key = k PROVE FALSE
    <3>1. u.slot[j] \in Entries(u)
      BY DEF Entries
    <3>2. PICK i \in Before(t, n) : u.slot[j] = t.slot[i]
      BY <3>1 DEF Filled
    <3>3. i = n
      BY <1>2, <2>1, <2>2, <2>6, <3>2 DEF Sound, KeysOnce
    <3>4. QED
      BY <1>2, <3>2, <3>3
  <2>7. /\ Sound(u) /\ u.cap = PickNewCap(t) /\ u.cap # 0 /\ TombSlots(u) = {}
        /\ u.size + u.tombs + 1 <= Threshold(u.cap)
    BY <1>1, TargetHasRoom DEF Filled
  <2>8. /\ Sound(w) /\ w.cap = u.cap /\ w.size = u.size + 1
        /\ TombSlots(w) \subseteq TombSlots(u)
        /\ \E i \in Slots(u) \ LiveSlots(u) :
             /\ LiveSlots(w) = LiveSlots(u) \cup {i}
             /\ w.slot[i] = [key |-> k, val |-> v]
             /\ \A j \in Slots(u) \ {i} : w.slot[j] = u.slot[j]
    BY <2>3, <2>4, <2>6, <2>7, PutAbsent
  <2>9. Entries(w) = Entries(u) \cup {t.slot[n]}
    <3>1. PICK i \in Slots(u) \ LiveSlots(u) :
            /\ LiveSlots(w) = LiveSlots(u) \cup {i}
            /\ w.slot[i] = t.slot[n]
            /\ \A j \in Slots(u) \ {i} : w.slot[j] = u.slot[j]
      BY <2>3, <2>8
    <3>2. \A j \in LiveSlots(u) : j \in Slots(u) /\ j # i
      BY DEF LiveSlots
    <3>3. \A j \in LiveSlots(u) : w.slot[j] = u.slot[j]
      BY <3>1, <3>2
    <3>4. QED
      BY <3>1, <3>3 DEF Entries
  <2>10. w.size = Cardinality(Before(t, m))
    <3>1. Cardinality(Before(t, n) \cup {n}) = Cardinality(Before(t, n)) + 1
      BY <1>2, <1>3, FS_AddElement
    <3>2. QED
      BY <2>5, <2>8, <3>1 DEF Filled
  <2>11. Entries(w) = {t.slot[i] : i \in Before(t, m)}
    BY <2>5, <2>9 DEF Filled
  <2>12. QED
    BY <2>7, <2>8, <2>10, <2>11 DEF Filled
<1>6. QED
  BY <1>4, <1>5

\* Rehash_Into leaves a sound table with the same entries and no tombstones.
LEMMA RehashSound ==
  ASSUME NEW t, Sound(t), t.cap # 0, NEW u, u = Rehash(t)
  PROVE  /\ Sound(u) /\ u.cap = PickNewCap(t) /\ u.size = t.size /\ u.tombs = 0
         /\ Entries(u) = Entries(t)
<1>1. t.cap \in Nat
  BY SizeInCapacity
<1>2. PICK f : Fills(t, f, t.cap) /\ u = f[t.cap]
  BY <1>1, RehashValue
<1>3. f[0] = Fresh(PickNewCap(t))
  BY <1>1, <1>2 DEF Fills
<1>4. ASSUME NEW n \in 0..(t.cap - 1), NEW m, m = n + 1
      PROVE  f[m] = Reinsert(t, f[n], n)
  <2>1. m \in 0..t.cap /\ m # 0 /\ m - 1 = n
    BY <1>1, <1>4
  <2>2. QED
    BY <1>2, <2>1 DEF Fills
<1> DEFINE Wrong == {n \in 0..t.cap : ~Filled(t, f[n], n)}
<1>5. Wrong = {}
  <2>1. SUFFICES ASSUME Wrong # {} PROVE FALSE
    OBVIOUS
  <2>2. Wrong \subseteq Nat
    BY <1>1
  <2>3. PICK n \in Wrong : \A l \in Wrong : n <= l
    BY <2>1, <2>2, LeastElement
  <2>4. n \in 0..t.cap /\ ~Filled(t, f[n], n)
    OBVIOUS
  <2>5. Filled(t, f[0], 0)
    <3>1. PickNewCap(t) \in Nat /\ PowerOfTwo(PickNewCap(t)) /\ PickNewCap(t) >= InitialCap
      BY NewCapFacts
    <3>2. /\ Sound(f[0]) /\ f[0].cap = PickNewCap(t) /\ f[0].size = 0
          /\ LiveSlots(f[0]) = {} /\ TombSlots(f[0]) = {}
      BY <1>3, <3>1, FreshSound
    <3>3. Before(t, 0) = {}
      BY <1>1 DEF Before, LiveSlots, Slots
    <3>4. QED
      BY <3>2, <3>3, FS_EmptySet DEF Filled, Entries
  <2>6. n # 0
    BY <2>4, <2>5
  <2>7. PICK l \in 0..(t.cap - 1) : n = l + 1
    <3>1. n - 1 \in 0..(t.cap - 1) /\ n = (n - 1) + 1
      BY <1>1, <2>4, <2>6
    <3>2. QED
      BY <3>1
  <2>8. l \in 0..t.cap /\ l < n
    BY <1>1, <2>7
  <2>9. Filled(t, f[l], l)
    BY <2>2, <2>3, <2>8
  <2>10. QED
    BY <1>4, <2>4, <2>7, <2>9, ReinsertFills
<1>6. Filled(t, u, t.cap)
  BY <1>1, <1>2, <1>5
<1>7. Before(t, t.cap) = LiveSlots(t)
  BY <1>1 DEF Before, LiveSlots, Slots
<1>8. u.size = t.size /\ u.tombs = 0
  BY <1>6, <1>7, FS_EmptySet DEF Filled, Sound, Counted
<1>9. QED
  BY <1>6, <1>7, <1>8 DEF Filled, Entries

\* Maybe_Grow makes room for one more entry and changes none.
LEMMA GrownSound ==
  ASSUME NEW t, Sound(t), NEW u, u = Grown(t)
  PROVE  /\ Sound(u) /\ u.cap # 0 /\ u.size = t.size /\ u.cap >= t.cap
         /\ Entries(u) = Entries(t)
         /\ u.size + u.tombs + 1 <= Threshold(u.cap)
         /\ ~MustGrow(t) => u = t
<1>1. t.cap \in Nat /\ t.size \in 0..t.cap /\ t.tombs \in Nat
  BY SizeInCapacity
<1>2. CASE t.cap = 0
  <2>1. u = Fresh(InitialCap)
    BY <1>2 DEF Grown
  <2>2. /\ Sound(u) /\ u.cap = InitialCap /\ u.size = 0 /\ u.tombs = 0 /\ LiveSlots(u) = {}
    BY <2>1, FreshSound, TableConstants
  <2>3. LiveSlots(t) = {} /\ t.size = 0
    BY <1>1, <1>2 DEF LiveSlots, Slots
  <2>4. 1 <= (InitialCap * 7) \div 8
    BY TableConstants
  <2>5. MustGrow(t)
    BY <1>1, <1>2 DEF MustGrow, Threshold
  <2>6. QED
    BY <1>2, <2>2, <2>3, <2>4, <2>5, TableConstants DEF Entries, Threshold
<1>3. CASE t.cap > 0 /\ MustGrow(t)
  <2>1. u = Rehash(t) /\ t.cap # 0
    BY <1>1, <1>3 DEF Grown
  <2>2. /\ Sound(u) /\ u.cap = PickNewCap(t) /\ u.size = t.size /\ u.tombs = 0
        /\ Entries(u) = Entries(t)
    BY <2>1, RehashSound
  <2>3. /\ u.cap \in Nat /\ u.cap >= t.cap /\ t.size + 1 <= Threshold(u.cap)
    BY <2>1, <2>2, NewCapFacts
  <2>4. QED
    BY <1>1, <1>3, <2>1, <2>2, <2>3
<1>4. CASE t.cap > 0 /\ ~MustGrow(t)
  <2>1. u = t
    BY <1>1, <1>4 DEF Grown
  <2>2. Threshold(t.cap) \in Int
    BY <1>1 DEF Threshold
  <2>3. QED
    BY <1>1, <1>4, <2>1, <2>2 DEF MustGrow
<1>5. QED
  BY <1>1, <1>2, <1>3, <1>4

-----------------------------------------------------------------------------
(***************************************************************************)
(* Contents, and the cursor.                                               *)
(***************************************************************************)

\* The contents of a sound table are the function its entries make up.
LEMMA ContentsFacts ==
  ASSUME NEW t, Sound(t)
  PROVE  /\ Contents(t) = [k \in DOMAIN Contents(t) |-> Contents(t)[k]]
         /\ DOMAIN Contents(t) = {e.key : e \in Entries(t)}
         /\ DOMAIN Contents(t) = {t.slot[i].key : i \in LiveSlots(t)}
         /\ DOMAIN Contents(t) \subseteq Keys
         /\ \A i \in LiveSlots(t) : Contents(t)[t.slot[i].key] = t.slot[i].val
         /\ \A e \in Entries(t) : Contents(t)[e.key] = e.val
<1> DEFINE D == {t.slot[i].key : i \in LiveSlots(t)}
           c == Contents(t)
<1>1. \A i : i \in LiveSlots(t) <=> i \in DOMAIN t.slot /\ Live(t, i)
  BY DEF Sound, Typed, LiveSlots
<1>2. \A i \in LiveSlots(t) : t.slot[i].key \in Keys
  BY EntryFacts DEF Sound
<1>3. /\ DOMAIN c = {k \in Keys : \E i \in DOMAIN t.slot : Hit(t, k, i)}
      /\ c = [k \in DOMAIN c |-> c[k]]
      /\ \A k \in DOMAIN c : c[k] = t.slot[CHOOSE i \in DOMAIN t.slot : Hit(t, k, i)].val
  BY DEF Contents
<1> HIDE DEF c
<1>4. DOMAIN c = D
  BY <1>1, <1>2, <1>3 DEF Hit
<1>5. ASSUME NEW i \in LiveSlots(t) PROVE c[t.slot[i].key] = t.slot[i].val
  <2>1. PICK k : k = t.slot[i].key
    OBVIOUS
  <2>2. i \in DOMAIN t.slot /\ Hit(t, k, i)
    BY <1>1, <2>1 DEF Hit
  <2>3. PICK j : j = CHOOSE h \in DOMAIN t.slot : Hit(t, k, h)
    OBVIOUS
  <2>4. j \in DOMAIN t.slot /\ Hit(t, k, j)
    BY <2>2, <2>3
  <2>5. j = i
    BY <1>1, <2>1, <2>4 DEF Hit, Sound, KeysOnce
  <2>6. c[k] = t.slot[j].val
    BY <1>3, <1>4, <2>1, <2>3
  <2>7. QED
    BY <2>1, <2>5, <2>6
<1>6. D = {e.key : e \in Entries(t)} /\ D \subseteq Keys
  BY <1>2 DEF Entries
<1>7. \A e \in Entries(t) : c[e.key] = e.val
  BY <1>5 DEF Entries
<1>8. QED
  BY <1>3, <1>4, <1>5, <1>6, <1>7 DEF c

\* A function that agrees with all the entries is the contents.
LEMMA ContentsUnique ==
  ASSUME NEW t, Sound(t), NEW D, NEW f, DOMAIN f = D, f = [k \in D |-> f[k]],
         D = {e.key : e \in Entries(t)}, \A e \in Entries(t) : f[e.key] = e.val
  PROVE  Contents(t) = f
<1> DEFINE c == Contents(t)
<1>1. /\ c = [k \in DOMAIN c |-> c[k]] /\ DOMAIN c = D
      /\ \A e \in Entries(t) : c[e.key] = e.val
  BY ContentsFacts
<1> HIDE DEF c
<1>2. \A k \in D : c[k] = f[k]
  BY <1>1
<1>3. c = [k \in D |-> f[k]]
  BY <1>1, <1>2
<1>4. QED
  BY <1>3 DEF c

\* Tables with the same entries have the same contents.
LEMMA SameContents ==
  ASSUME NEW t, NEW u, Sound(t), Sound(u), Entries(u) = Entries(t)
  PROVE  Contents(u) = Contents(t)
<1>1. /\ Contents(t) = [k \in DOMAIN Contents(t) |-> Contents(t)[k]]
      /\ DOMAIN Contents(t) = {e.key : e \in Entries(u)}
      /\ \A e \in Entries(u) : Contents(t)[e.key] = e.val
  BY ContentsFacts
<1>2. PICK f, D : f = Contents(t) /\ D = DOMAIN f
  OBVIOUS
<1>3. QED
  BY <1>1, <1>2, ContentsUnique

\* Put maps k to v and leaves the other keys as they are.
LEMMA PutContents ==
  ASSUME NEW t, Sound(t), t.cap # 0, t.size + t.tombs + 1 <= Threshold(t.cap),
         NEW k \in Keys, NEW v \in Values, NEW u, u = Put(t, k, v),
         NEW old, old = Contents(t)
  PROVE  /\ Sound(u) /\ u.cap = t.cap
         /\ Contents(u) = [j \in DOMAIN old \cup {k} |-> IF j = k THEN v ELSE old[j]]
         /\ u.size = IF k \in DOMAIN old THEN t.size ELSE t.size + 1
<1> DEFINE new == [key |-> k, val |-> v]
           f == [j \in DOMAIN old \cup {k} |-> IF j = k THEN v ELSE old[j]]
<1>1. /\ DOMAIN old = {t.slot[j].key : j \in LiveSlots(t)}
      /\ DOMAIN old = {e.key : e \in Entries(t)}
      /\ \A e \in Entries(t) : old[e.key] = e.val
  BY ContentsFacts
<1>2. ASSUME Sound(u), Entries(u) = {e \in Entries(t) : e.key # k} \cup {new}
      PROVE  Contents(u) = f
  <2>1. new.key = k /\ new.val = v
    OBVIOUS
  <2> HIDE DEF new
  <2>2. DOMAIN f = {e.key : e \in Entries(u)}
    BY <1>1, <1>2, <2>1
  <2>3. \A e \in Entries(u) : f[e.key] = e.val
    BY <1>1, <1>2, <2>1, <2>2
  <2>4. f = [j \in DOMAIN f |-> f[j]]
    OBVIOUS
  <2> HIDE DEF f
  <2>5. QED
    BY <1>2, <2>2, <2>3, <2>4, ContentsUnique
<1>3. \A j \in LiveSlots(t) : j \in Slots(t)
  BY DEF LiveSlots
<1>4. CASE k \in DOMAIN old
  <2>1. PICK i \in LiveSlots(t) : t.slot[i].key = k
    BY <1>1, <1>4
  <2>2. /\ Sound(u) /\ u.cap = t.cap /\ u.size = t.size
        /\ LiveSlots(u) = LiveSlots(t) /\ u.slot[i] = new
        /\ \A j \in Slots(t) \ {i} : u.slot[j] = t.slot[j]
    BY <2>1, PutPresent
  <2>3. new.key = k
    OBVIOUS
  <2> HIDE DEF new
  <2>4. \A j \in LiveSlots(t) : t.slot[j].key = k <=> j = i
    BY <2>1 DEF Sound, KeysOnce
  <2>5. Entries(u) = {e \in Entries(t) : e.key # k} \cup {new}
    BY <1>3, <2>2, <2>3, <2>4 DEF Entries
  <2>6. QED
    BY <1>2, <1>4, <2>2, <2>5
<1>5. CASE k \notin DOMAIN old
  <2>1. \A j \in LiveSlots(t) : t.slot[j].key # k
    BY <1>1, <1>5
  <2>2. /\ Sound(u) /\ u.cap = t.cap /\ u.size = t.size + 1
        /\ \E i \in Slots(t) \ LiveSlots(t) :
             /\ LiveSlots(u) = LiveSlots(t) \cup {i}
             /\ u.slot[i] = [key |-> k, val |-> v]
             /\ \A j \in Slots(t) \ {i} : u.slot[j] = t.slot[j]
    BY <2>1, PutAbsent
  <2>3. PICK i \in Slots(t) \ LiveSlots(t) :
          /\ LiveSlots(u) = LiveSlots(t) \cup {i} /\ u.slot[i] = new
          /\ \A j \in Slots(t) \ {i} : u.slot[j] = t.slot[j]
    BY <2>2
  <2>4. new.key = k
    OBVIOUS
  <2> HIDE DEF new
  <2>5. \A j \in LiveSlots(t) : u.slot[j] = t.slot[j]
    BY <1>3, <2>3
  <2>6. Entries(u) = {e \in Entries(t) : e.key # k} \cup {new}
    BY <2>1, <2>3, <2>4, <2>5 DEF Entries
  <2>7. QED
    BY <1>2, <1>5, <2>2, <2>6
<1>6. QED
  BY <1>4, <1>5

\* Put leaves every entry where it is.
LEMMA PutPlaces ==
  ASSUME NEW t, Sound(t), t.cap # 0, t.size + t.tombs + 1 <= Threshold(t.cap),
         NEW k \in Keys, NEW v \in Values, NEW u, u = Put(t, k, v),
         NEW j \in LiveSlots(t)
  PROVE  j \in LiveSlots(u) /\ u.slot[j].key = t.slot[j].key
<1>1. j \in Slots(t)
  BY DEF LiveSlots
<1>2. CASE \A i \in LiveSlots(t) : t.slot[i].key # k
  <2>1. \E i \in Slots(t) \ LiveSlots(t) :
          /\ LiveSlots(u) = LiveSlots(t) \cup {i}
          /\ u.slot[i] = [key |-> k, val |-> v]
          /\ \A h \in Slots(t) \ {i} : u.slot[h] = t.slot[h]
    BY <1>2, PutAbsent
  <2>2. QED
    BY <1>1, <2>1
<1>3. ASSUME NEW i \in LiveSlots(t), t.slot[i].key = k
      PROVE  j \in LiveSlots(u) /\ u.slot[j].key = t.slot[j].key
  <2>1. /\ LiveSlots(u) = LiveSlots(t) /\ u.slot[i] = [key |-> k, val |-> v]
        /\ \A h \in Slots(t) \ {i} : u.slot[h] = t.slot[h]
    BY <1>3, PutPresent
  <2>2. QED
    BY <1>1, <1>3, <2>1
<1>4. QED
  BY <1>2, <1>3

\* Erase takes k out of the contents.
LEMMA EraseContents ==
  ASSUME NEW t, Sound(t), NEW k \in Keys, NEW u, u = Erase(t, k),
         NEW i \in LiveSlots(t), t.slot[i].key = k,
         NEW old, old = Contents(t)
  PROVE  Contents(u) = [j \in DOMAIN old \ {k} |-> old[j]]
<1> DEFINE f == [j \in DOMAIN old \ {k} |-> old[j]]
<1>1. /\ DOMAIN old = {t.slot[j].key : j \in LiveSlots(t)}
      /\ DOMAIN old = {e.key : e \in Entries(t)}
      /\ \A e \in Entries(t) : old[e.key] = e.val
  BY ContentsFacts
<1>2. /\ Sound(u) /\ LiveSlots(u) = LiveSlots(t) \ {i}
      /\ \A j \in Slots(t) \ {i} : u.slot[j] = t.slot[j]
  BY ErasePresent
<1>3. \A j \in LiveSlots(t) : t.slot[j].key = k <=> j = i
  BY DEF Sound, KeysOnce
<1>4. \A j \in LiveSlots(t) \ {i} : j \in Slots(t) \ {i}
  BY DEF LiveSlots
<1>5. Entries(u) = {e \in Entries(t) : e.key # k}
  BY <1>2, <1>3, <1>4 DEF Entries
<1>6. DOMAIN f = {e.key : e \in Entries(u)}
  BY <1>1, <1>5
<1>7. \A e \in Entries(u) : f[e.key] = e.val
  BY <1>1, <1>5
<1>8. f = [j \in DOMAIN f |-> f[j]]
  OBVIOUS
<1> HIDE DEF f
<1>9. Contents(u) = f
  BY <1>2, <1>6, <1>7, <1>8, ContentsUnique
<1>10. QED
  BY <1>9 DEF f

\* Erase leaves every other entry where it is.
LEMMA ErasePlaces ==
  ASSUME NEW t, Sound(t), NEW k \in Keys, NEW u, u = Erase(t, k),
         NEW j \in LiveSlots(t), t.slot[j].key # k
  PROVE  j \in LiveSlots(u) /\ u.slot[j].key = t.slot[j].key
<1>1. j \in Slots(t)
  BY DEF LiveSlots
<1>2. CASE \A i \in LiveSlots(t) : t.slot[i].key # k
  BY <1>2, EraseAbsent
<1>3. ASSUME NEW i \in LiveSlots(t), t.slot[i].key = k
      PROVE  j \in LiveSlots(u) /\ u.slot[j].key = t.slot[j].key
  <2>1. /\ LiveSlots(u) = LiveSlots(t) \ {i}
        /\ \A h \in Slots(t) \ {i} : u.slot[h] = t.slot[h]
    BY <1>3, ErasePresent
  <2>2. QED
    BY <1>1, <1>3, <2>1
<1>4. QED
  BY <1>2, <1>3

\* The cursor's search stops at the first live slot from i on.
LEMMA LiveFromFacts ==
  ASSUME NEW t, Sound(t), NEW i \in Nat, NEW c, c = LiveFrom(t, i)
  PROVE  \/ c = -1 /\ \A j \in LiveSlots(t) : j < i
         \/ c \in LiveSlots(t) /\ c >= i /\ \A j \in LiveSlots(t) : j < i \/ j >= c
<1> DEFINE live == {j \in i..(t.cap - 1) : Live(t, j)}
<1>1. t.cap \in Nat
  BY SizeInCapacity
<1>2. live = {j \in LiveSlots(t) : j >= i} /\ LiveSlots(t) \subseteq Nat
  BY <1>1 DEF LiveSlots, Slots
<1>3. CASE live = {}
  BY <1>2, <1>3 DEF LiveFrom
<1>4. CASE live # {}
  <2>1. c = Min(live)
    BY <1>4 DEF LiveFrom
  <2> HIDE DEF live
  <2>2. c \in live /\ \A j \in live : c <= j
    BY <1>2, <1>4, <2>1, MinIsLeast
  <2>3. QED
    BY <1>2, <2>2
<1>5. QED
  BY <1>3, <1>4

=============================================================================
