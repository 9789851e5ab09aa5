------------------------ MODULE UnboundedChannelProofs ------------------------
(***************************************************************************)
(* UnboundedChannel's safety properties and its refinement of FifoChannel, *)
(* for any sets of goroutines, workers and tasks, any finite heap and any  *)
(* number of operations.  The argument is the invariant IInv of            *)
(* UnboundedChannelInvariant, laid out as for the buffered channel.        *)
(***************************************************************************)
EXTENDS UnboundedChannelInvariant, DataLemmas

-----------------------------------------------------------------------------
(***************************************************************************)
(* The list.                                                               *)
(***************************************************************************)

\* Lists(l) and ListHoldsBacklog as operators without variables: the facts below
\* are about the data only.  l has n elements, H is the set of its nodes.
Chain(l, n, h, t, nx, H) ==
  /\ l \in [1..n -> H]
  /\ \A i, j \in 1..n : l[i] = l[j] => i = j
  /\ h = IF n = 0 THEN Null ELSE l[1]
  /\ t = IF n = 0 THEN Null ELSE l[n]
  /\ \A i \in 1..n : nx[l[i]] = IF i = n THEN Null ELSE l[i + 1]
  /\ H = {l[i] : i \in 1..n}

Backlog(h, t, n, H, val, nx, s, r) ==
  /\ Len(r) + n = Len(s)
  /\ \A i \in 1..Len(r) : r[i] = s[i]
  /\ \E l \in [1..n -> H] :
       /\ Chain(l, n, h, t, nx, H)
       /\ \A i \in 1..n : val[l[i]] = s[Len(r) + i]

\* m was linked behind the tail t of the nodes in H, of which h is the first.
Linked(nx, nn, H, h, hh, t, m) ==
  /\ hh = IF t = Null THEN m ELSE h
  /\ nn[m] = Null
  /\ t # Null => nn[t] = m
  /\ \A a \in H : a # t => nn[a] = nx[a]

\* ll is l with one more element, m, at the end.
Longer(l, n, ll, k, m) ==
  /\ k = n + 1
  /\ ll[k] = m
  /\ \A i \in 1..n : ll[i] = l[i]

LEMMA ListIsChain ==
  ASSUME NEW n \in Nat, NEW H, NEW l \in [1..n -> H]
  PROVE  /\ DOMAIN l = 1..n /\ Len(l) = n /\ (l = <<>> <=> n = 0)
<1>1. l \in Seq(H) /\ DOMAIN l = 1..n
  OBVIOUS
<1>2. Len(l) = n
  BY <1>1
<1>3. QED
  BY <1>1, <1>2

LEMMA BacklogIsList ==
  /\ count \in Nat =>
       (ListHoldsBacklog <=>
          Backlog(head, tail, count, heap, value, next, sent, received))
  /\ count' \in Nat =>
       (ListHoldsBacklog' <=>
          Backlog(head', tail', count', heap', value', next', sent', received'))
<1>1. ASSUME count \in Nat, NEW l \in [1..count -> heap]
      PROVE  Lists(l) /\ heap = {l[i] : i \in 1..count} <=>
               Chain(l, count, head, tail, next, heap)
  BY <1>1, ListIsChain DEF Lists, Chain, IsInjective
<1>2. ASSUME count' \in Nat, NEW l \in [1..count' -> heap']
      PROVE  Lists(l)' /\ heap' = {l[i] : i \in 1..count'} <=>
               Chain(l, count', head', tail', next', heap')
  BY <1>2, ListIsChain DEF Lists, Chain, IsInjective
<1>3. QED
  BY <1>1, <1>2 DEF ListHoldsBacklog, Backlog

\* A node that was free joins the list at its tail.
LEMMA ChainAppend ==
  ASSUME NEW n \in Nat, NEW H \in SUBSET Nodes, NEW l, NEW h, NEW t,
         NEW nx \in [Nodes -> Nodes \cup {Null}], Chain(l, n, h, t, nx, H),
         NEW m \in Nodes \ H, NEW nn, NEW hh, Linked(nx, nn, H, h, hh, t, m),
         NEW G, G = H \cup {m},
         NEW k, NEW ll, ll \in [1..k -> G], Longer(l, n, ll, k, m)
  PROVE  Chain(ll, k, hh, m, nn, G)
<1>0. /\ hh = IF t = Null THEN m ELSE h
      /\ nn[m] = Null /\ (t # Null => nn[t] = m)
      /\ \A a \in H : a # t => nn[a] = nx[a]
      /\ k = n + 1 /\ ll[k] = m /\ \A i \in 1..n : ll[i] = l[i]
  BY DEF Linked, Longer
<1>1. /\ l \in [1..n -> H] /\ Null \notin Nodes
      /\ \A i, j \in 1..n : l[i] = l[j] => i = j
      /\ \A i \in 1..n : l[i] \in H /\ l[i] # m
  BY UnboundedAssumption DEF UnboundedAssumption, Chain
<1>2. /\ ll[n + 1] = m /\ \A i \in 1..n : ll[i] = l[i]
      /\ \A i \in 1..(n + 1) : i = n + 1 \/ i \in 1..n
  BY <1>0
<1>4. n # 0 => nn[t] = m
  <2>1. n # 0 => n \in 1..n
    OBVIOUS
  <2>2. n # 0 => t # Null
    BY <1>1, <2>1 DEF Chain
  <2>3. QED
    BY <1>0, <2>2
<1>5. \A i, j \in 1..(n + 1) : ll[i] = ll[j] => i = j
  BY <1>1, <1>2
<1>6. hh = ll[1]
  <2>1. CASE n = 0
    BY <1>0, <1>2, <2>1 DEF Chain
  <2>2. CASE n # 0
    <3>1. 1 \in 1..n /\ n \in 1..n
      BY <2>2
    <3>2. t = l[n] /\ h = l[1] /\ t # Null
      BY <1>1, <2>2, <3>1 DEF Chain
    <3>3. QED
      BY <1>0, <1>2, <3>1, <3>2
  <2>3. QED
    BY <2>1, <2>2
<1>7. ASSUME NEW i \in 1..(n + 1)
      PROVE  nn[ll[i]] = IF i = n + 1 THEN Null ELSE ll[i + 1]
  <2>1. CASE i = n + 1
    BY <1>0, <1>2, <1>4, <2>1
  <2>2. CASE i = n /\ n # 0
    <3>1. ll[i] = t /\ ll[i + 1] = m
      BY <1>2, <2>2 DEF Chain
    <3>2. QED
      BY <1>4, <2>2, <3>1
  <2>3. CASE i \in 1..(n - 1)
    <3>1. i \in 1..n /\ i + 1 \in 1..n /\ n \in 1..n /\ n # 0 /\ i # n /\ i # n + 1
      BY <2>3
    <3>2. l[i] # t /\ nx[l[i]] = l[i + 1]
      BY <1>1, <3>1 DEF Chain
    <3>3. QED
      BY <1>0, <1>1, <1>2, <1>4, <3>1, <3>2
  <2>4. QED
    BY <2>1, <2>2, <2>3
<1>8. H \cup {m} = {ll[i] : i \in 1..(n + 1)}
  <2>1. H = {l[i] : i \in 1..n}
    BY DEF Chain
  <2>2. QED
    BY <1>2, <2>1
<1>9. k = n + 1 /\ n + 1 # 0 /\ ll \in [1..k -> G] /\ G = H \cup {m}
  BY <1>0
<1>10. QED
  BY <1>2, <1>5, <1>6, <1>7, <1>8, <1>9 DEF Chain

\* The head leaves the list; Next of it is the new head, and no other node moves.
LEMMA ChainTail ==
  ASSUME NEW n \in Nat, n # 0, NEW H \in SUBSET Nodes, NEW l, NEW h, NEW t, NEW nx,
         Chain(l, n, h, t, nx, H)
  PROVE  /\ h = l[1] /\ h \in H
         /\ Chain([i \in 1..(n - 1) |-> l[i + 1]], n - 1, nx[h],
                  IF nx[h] = Null THEN Null ELSE t, nx, H \ {h})
<1> DEFINE ll == [i \in 1..(n - 1) |-> l[i + 1]]
<1>1. /\ l \in [1..n -> H] /\ Null \notin Nodes
      /\ \A i, j \in 1..n : l[i] = l[j] => i = j
      /\ \A i \in 1..n : l[i] \in H /\ l[i] # Null
  BY UnboundedAssumption DEF UnboundedAssumption, Chain
<1>2. /\ 1 \in 1..n /\ n \in 1..n /\ n - 1 \in Nat
      /\ \A i \in 1..(n - 1) : i \in 1..n /\ i + 1 \in 1..n /\ i + 1 # 1
      /\ \A i \in 1..n : i = 1 \/ (i - 1 \in 1..(n - 1) /\ (i - 1) + 1 = i)
  OBVIOUS
<1>3. h = l[1] /\ h \in H /\ t = l[n]
  BY <1>1, <1>2 DEF Chain
<1>4. \A i \in 1..(n - 1) : ll[i] = l[i + 1]
  OBVIOUS
<1>5. ll \in [1..(n - 1) -> H \ {h}]
  BY <1>1, <1>2, <1>3
<1> HIDE DEF ll
<1>6. \A i, j \in 1..(n - 1) : ll[i] = ll[j] => i = j
  BY <1>1, <1>2, <1>4
<1>7. nx[h] = IF n - 1 = 0 THEN Null ELSE ll[1]
  <2>1. nx[l[1]] = IF 1 = n THEN Null ELSE l[1 + 1]
    BY <1>2 DEF Chain
  <2>2. n - 1 # 0 => ll[1] = l[1 + 1]
    BY <1>2, <1>4
  <2>3. QED
    BY <1>3, <2>1, <2>2
<1>8. (IF nx[h] = Null THEN Null ELSE t) = IF n - 1 = 0 THEN Null ELSE ll[n - 1]
  <2>1. CASE n = 1
    BY <1>7, <2>1
  <2>2. CASE n # 1
    <3>1. 1 \in 1..(n - 1) /\ n - 1 \in 1..(n - 1) /\ (n - 1) + 1 = n
      BY <2>2
    <3>2. ll[1] # Null /\ ll[n - 1] = l[n]
      BY <1>1, <1>2, <1>4, <3>1
    <3>3. QED
      BY <1>3, <1>7, <2>2, <3>2
  <2>3. QED
    BY <2>1, <2>2
<1>9. ASSUME NEW i \in 1..(n - 1)
      PROVE  nx[ll[i]] = IF i = n - 1 THEN Null ELSE ll[i + 1]
  <2>1. nx[l[i + 1]] = IF i + 1 = n THEN Null ELSE l[(i + 1) + 1]
    BY <1>2 DEF Chain
  <2>2. i # n - 1 => ll[i + 1] = l[(i + 1) + 1]
    BY <1>4
  <2>3. i + 1 = n <=> i = n - 1
    OBVIOUS
  <2>4. QED
    BY <1>4, <2>1, <2>2, <2>3
<1>10. H \ {h} = {ll[i] : i \in 1..(n - 1)}
  <2>1. H = {l[i] : i \in 1..n}
    BY DEF Chain
  <2>2. ASSUME NEW k \in H \ {h} PROVE \E i \in 1..(n - 1) : k = ll[i]
    <3>1. PICK i \in 1..n : k = l[i]
      BY <2>1
    <3>2. i - 1 \in 1..(n - 1) /\ k = ll[i - 1]
      BY <1>2, <1>3, <1>4, <3>1
    <3>3. QED
      BY <3>2
  <2>3. QED
    BY <1>5, <2>2
<1>11. Chain(ll, n - 1, nx[h], IF nx[h] = Null THEN Null ELSE t, nx, H \ {h})
  BY <1>5, <1>6, <1>7, <1>8, <1>9, <1>10 DEF Chain
<1>12. QED
  BY <1>3, <1>11 DEF ll

\* A value in a new node comes after all the others.
LEMMA BacklogAppend ==
  ASSUME NEW n \in Nat, NEW H \in SUBSET Nodes, NEW h, NEW t, NEW V,
         NEW val \in [Nodes -> V], NEW nx \in [Nodes -> Nodes \cup {Null}],
         NEW S, NEW s \in Seq(S), NEW r \in Seq(S),
         Backlog(h, t, n, H, val, nx, s, r), NEW m \in Nodes \ H, NEW v \in S,
         NEW nn, NEW hh, Linked(nx, nn, H, h, hh, t, m),
         NEW k, k = n + 1, NEW G, G = H \cup {m},
         NEW vv, vv = [val EXCEPT ![m] = v]
  PROVE  Backlog(hh, m, k, G, vv, nn, Append(s, v), r)
<1> DEFINE ss == Append(s, v)
<1>1. PICK l \in [1..n -> H] : /\ Chain(l, n, h, t, nx, H)
                               /\ \A i \in 1..n : val[l[i]] = s[Len(r) + i]
  BY DEF Backlog
<1> DEFINE ll == [i \in 1..(n + 1) |-> IF i = n + 1 THEN m ELSE l[i]]
<1>2. /\ ll \in [1..k -> G] /\ ll[n + 1] = m /\ \A i \in 1..n : ll[i] = l[i]
      /\ Chain(ll, k, hh, m, nn, G)
  <2>1. /\ ll \in [1..k -> G] /\ ll[n + 1] = m /\ \A i \in 1..n : ll[i] = l[i]
        /\ Longer(l, n, ll, k, m)
    BY DEF Longer
  <2> HIDE DEF ll
  <2>2. Chain(ll, k, hh, m, nn, G)
    BY <1>1, <2>1, ChainAppend
  <2>3. QED
    BY <2>1, <2>2
<1> HIDE DEF ll
<1>3. \A i \in 1..n : ll[i] # m /\ ll[i] \in Nodes
  <2>1. \A i \in 1..n : l[i] \in H
    OBVIOUS
  <2>2. \A i \in 1..n : ll[i] \in H
    BY <1>2, <2>1
  <2>3. QED
    BY <2>2
<1>4. /\ Len(ss) = Len(s) + 1 /\ ss[Len(s) + 1] = v
      /\ \A i \in 1..Len(s) : ss[i] = s[i]
  OBVIOUS
<1>5. vv[m] = v /\ \A x \in Nodes : x # m => vv[x] = val[x]
  OBVIOUS
<1> HIDE DEF ss
<1>6. Len(r) + n = Len(s) /\ Len(r) \in Nat /\ Len(s) \in Nat /\ n \in Nat
  BY DEF Backlog
<1>7. \A i \in 1..(n + 1) : vv[ll[i]] = ss[Len(r) + i]
  <2>1. vv[ll[n + 1]] = ss[Len(r) + (n + 1)]
    <3>1. Len(r) + (n + 1) = Len(s) + 1
      BY ONLY <1>6
    <3>2. QED
      <4>1. ss[Len(r) + (n + 1)] = v
        BY <1>4, <3>1
      <4>2. vv[ll[n + 1]] = v
        BY <1>2, <1>5
      <4>3. QED
        BY <4>1, <4>2
  <2>2. ASSUME NEW i \in 1..n PROVE vv[ll[i]] = ss[Len(r) + i]
    <3>1. Len(r) + i \in 1..Len(s)
      BY <1>6
    <3>2. vv[ll[i]] = val[l[i]] /\ val[l[i]] = s[Len(r) + i]
      BY <1>1, <1>2, <1>3, <1>5
    <3>3. QED
      BY <1>4, <3>1, <3>2
  <2>3. \A i \in 1..(n + 1) : i \in 1..n \/ i = n + 1
    OBVIOUS
  <2>4. QED
    BY <2>1, <2>2, <2>3
<1>8. \A i \in 1..Len(r) : r[i] = ss[i]
  <2>1. \A i \in 1..Len(r) : r[i] = s[i] /\ i \in 1..Len(s)
    BY <1>6 DEF Backlog
  <2>2. QED
    BY <1>4, <2>1
<1>9. Len(r) + k = Len(ss) /\ k = n + 1
  <2>1. k = n + 1
    OBVIOUS
  <2>2. Len(ss) = Len(s) + 1
    BY ONLY <1>4
  <2>3. QED
    BY ONLY <1>6, <2>1, <2>2
<1>10. Backlog(hh, m, k, G, vv, nn, ss, r)
  BY ONLY <1>2, <1>7, <1>8, <1>9 DEF Backlog
<1>11. QED
  BY <1>10 DEF ss

\* A value is handed over while the list is empty, so it overtakes none.
LEMMA BacklogHandOff ==
  ASSUME NEW h, NEW t, NEW H, NEW val, NEW nx, NEW S, NEW s \in Seq(S),
         NEW r \in Seq(S), NEW v \in S, Backlog(h, t, 0, H, val, nx, s, r)
  PROVE  Backlog(h, t, 0, H, val, nx, Append(s, v), Append(r, v))
<1> DEFINE ss == Append(s, v)
           rr == Append(r, v)
<1>1. /\ Len(r) = Len(s) /\ Len(r) \in Nat
      /\ \A i \in 1..Len(r) : r[i] = s[i]
  BY DEF Backlog
<1>2. PICK l \in [1..0 -> H] : Chain(l, 0, h, t, nx, H)
  BY DEF Backlog
<1>3. /\ Len(ss) = Len(s) + 1 /\ ss[Len(s) + 1] = v
      /\ \A i \in 1..Len(s) : ss[i] = s[i]
      /\ Len(rr) = Len(r) + 1 /\ rr[Len(r) + 1] = v
      /\ \A i \in 1..Len(r) : rr[i] = r[i]
  OBVIOUS
<1> HIDE DEF ss, rr
<1>4. Len(rr) + 0 = Len(ss) /\ \A i \in 1..Len(rr) : rr[i] = ss[i]
  BY <1>1, <1>3
<1>5. \A i \in 1..0 : val[l[i]] = ss[Len(rr) + i]
  OBVIOUS
<1>6. Backlog(h, t, 0, H, val, nx, ss, rr)
  BY <1>2, <1>4, <1>5 DEF Backlog
<1>7. QED
  BY <1>6 DEF ss, rr

\* The head of the list holds the oldest value not yet delivered.
LEMMA BacklogTake ==
  ASSUME NEW n \in Nat, NEW H \in SUBSET Nodes, NEW h, NEW t, NEW val, NEW nx,
         NEW S, NEW s \in Seq(S), NEW r \in Seq(S),
         Backlog(h, t, n, H, val, nx, s, r), h # Null
  PROVE  /\ n # 0 /\ h \in H
         /\ val[h] = s[Len(r) + 1] /\ val[h] \in S
         /\ Len(r) + 1 \in 1..Len(s)
         /\ Backlog(nx[h], IF nx[h] = Null THEN Null ELSE t, n - 1, H \ {h}, val, nx,
                    s, Append(r, val[h]))
<1> DEFINE rr == Append(r, val[h])
           tt == IF nx[h] = Null THEN Null ELSE t
<1>1. PICK l \in [1..n -> H] : /\ Chain(l, n, h, t, nx, H)
                               /\ \A i \in 1..n : val[l[i]] = s[Len(r) + i]
  BY DEF Backlog
<1> DEFINE ll == [i \in 1..(n - 1) |-> l[i + 1]]
<1>2. n # 0
  BY <1>1 DEF Chain
<1>3. h = l[1] /\ h \in H /\ Chain(ll, n - 1, nx[h], tt, nx, H \ {h})
  BY <1>1, <1>2, ChainTail
<1>4. Len(r) + n = Len(s) /\ Len(r) \in Nat /\ Len(s) \in Nat
  BY DEF Backlog
<1>5. val[h] = s[Len(r) + 1] /\ Len(r) + 1 \in 1..Len(s) /\ val[h] \in S
  <2>1. 1 \in 1..n /\ Len(r) + 1 \in 1..Len(s)
    BY <1>2, <1>4
  <2>2. s[Len(r) + 1] \in S
    BY <2>1
  <2>3. QED
    BY <1>1, <1>3, <2>1, <2>2
<1>6. /\ Len(rr) = Len(r) + 1 /\ rr[Len(r) + 1] = val[h]
      /\ \A i \in 1..Len(r) : rr[i] = r[i]
  BY <1>5
<1>7. \A i \in 1..(n - 1) : ll[i] = l[i + 1] /\ i + 1 \in 1..n
  OBVIOUS
<1> HIDE DEF rr, tt, ll
<1>8. \A i \in 1..Len(rr) : rr[i] = s[i]
  <2>1. \A i \in 1..Len(r) : r[i] = s[i]
    BY DEF Backlog
  <2>2. \A i \in 1..Len(rr) : i \in 1..Len(r) \/ i = Len(r) + 1
    BY <1>4, <1>6
  <2>3. QED
    BY <1>5, <1>6, <2>1, <2>2
<1>9. ASSUME NEW i \in 1..(n - 1) PROVE val[ll[i]] = s[Len(rr) + i]
  <2>1. Len(rr) + i = Len(r) + (i + 1)
    BY <1>4, <1>6
  <2>2. val[l[i + 1]] = s[Len(r) + (i + 1)]
    BY <1>1, <1>7
  <2>3. QED
    BY <1>7, <2>1, <2>2
<1>10. Len(rr) + (n - 1) = Len(s)
  BY <1>4, <1>6
<1>11. ll \in [1..(n - 1) -> H \ {h}]
  BY <1>3 DEF Chain
<1>12. Backlog(nx[h], tt, n - 1, H \ {h}, val, nx, s, rr)
  BY <1>3, <1>8, <1>9, <1>10, <1>11 DEF Backlog
<1>13. QED
  BY <1>2, <1>3, <1>5, <1>12 DEF rr, tt

\* The list is empty exactly if Head is null.
LEMMA EmptyList ==
  ASSUME NEW n \in Nat, NEW H \in SUBSET Nodes, NEW h, NEW t, NEW val, NEW nx,
         NEW s, NEW r, Backlog(h, t, n, H, val, nx, s, r)
  PROVE  h = Null <=> n = 0
<1>1. PICK l \in [1..n -> H] : Chain(l, n, h, t, nx, H)
  BY DEF Backlog
<1>2. n # 0 => 1 \in 1..n /\ l[1] \in Nodes
  OBVIOUS
<1>3. QED
  BY <1>1, <1>2, UnboundedAssumption DEF UnboundedAssumption, Chain

\* As many nodes are allocated as the list is long.
LEMMA HeapOfList ==
  ASSUME NEW n \in Nat, NEW H \in SUBSET Nodes, NEW h, NEW t, NEW val, NEW nx,
         NEW s, NEW r, Backlog(h, t, n, H, val, nx, s, r)
  PROVE  IsFiniteSet(H) /\ Cardinality(H) = n
<1>1. PICK l \in [1..n -> H] : Chain(l, n, h, t, nx, H)
  BY DEF Backlog
<1>2. l \in Bijection(1..n, H)
  BY <1>1 DEF Chain, Bijection, Injection, Surjection, IsInjective
<1>3. ExistsBijection(1..n, H)
  BY <1>2 DEF ExistsBijection
<1>4. IsFiniteSet(1..n) /\ Cardinality(1..n) = n
  BY FS_Interval
<1>5. QED
  BY <1>3, <1>4, FS_Bijection

-----------------------------------------------------------------------------
(***************************************************************************)
(* Parts of the invariant that several kinds of step keep alike.           *)
(***************************************************************************)

\* The list and the history of a state that satisfies the invariant.
LEMMA ListFacts ==
  ASSUME IInv
  PROVE  /\ count \in Nat /\ heap \in SUBSET Nodes
         /\ sent \in Seq(Values) /\ received \in Seq(Values)
         /\ Backlog(head, tail, count, heap, value, next, sent, received)
         /\ head = Null <=> count = 0
         /\ Range(received) \subseteq Range(sent)
         /\ head = Null <=> received = sent
<1>1. /\ count \in Nat /\ heap \in SUBSET Nodes
      /\ sent \in Seq(Values) /\ received \in Seq(Values)
  BY DEF IInv, TypeOK
<1>2. Backlog(head, tail, count, heap, value, next, sent, received)
  BY <1>1, BacklogIsList DEF IInv
<1>3. head = Null <=> count = 0
  BY <1>1, <1>2, EmptyList
<1>4. /\ Len(received) + count = Len(sent)
      /\ \A i \in 1..Len(received) : received[i] = sent[i]
  BY DEF IInv, ListHoldsBacklog
<1>5. \A i \in 1..Len(received) : i \in 1..Len(sent)
  BY <1>1, <1>4
<1>6. Range(received) \subseteq Range(sent)
  BY <1>1, <1>4, <1>5 DEF Range
<1>7. count = 0 <=> received = sent
  BY <1>1, <1>4
<1>8. QED
  BY <1>1, <1>2, <1>3, <1>6, <1>7

\* The value at the head was accepted and is still with nobody.
LEMMA HeadOfList ==
  ASSUME IInv, head # Null
  PROVE  /\ head \in heap /\ count # 0
         /\ value[head] = sent[Len(received) + 1]
         /\ value[head] \in Values /\ value[head] \in Range(sent)
         /\ value[head] \notin Range(received)
         /\ Backlog(next[head], IF next[head] = Null THEN Null ELSE tail, count - 1,
                    heap \ {head}, value, next, sent, Append(received, value[head]))
<1>1. /\ count \in Nat /\ heap \in SUBSET Nodes
      /\ sent \in Seq(Values) /\ received \in Seq(Values)
      /\ Backlog(head, tail, count, heap, value, next, sent, received)
  BY ListFacts
<1>2. /\ count # 0 /\ head \in heap
      /\ value[head] = sent[Len(received) + 1] /\ value[head] \in Values
      /\ Len(received) + 1 \in 1..Len(sent)
      /\ Backlog(next[head], IF next[head] = Null THEN Null ELSE tail, count - 1,
                 heap \ {head}, value, next, sent, Append(received, value[head]))
  BY <1>1, BacklogTake
<1>3. value[head] \in Range(sent)
  BY <1>1, <1>2 DEF Range
<1>4. value[head] \notin Range(received)
  <2>1. ASSUME NEW i \in 1..Len(received) PROVE received[i] # value[head]
    <3>1. received[i] = sent[i]
      BY <1>1 DEF Backlog
    <3>2. /\ i \in DOMAIN sent /\ Len(received) + 1 \in DOMAIN sent
          /\ i # Len(received) + 1
      BY <1>1, <1>2
    <3>3. sent[i] # sent[Len(received) + 1]
      BY <3>2 DEF IInv, SentOnce, IsInjective
    <3>4. QED
      BY <1>2, <3>1, <3>3
  <2>2. QED
    BY <1>1, <2>1 DEF Range
<1>5. QED
  BY <1>2, <1>3, <1>4

\* What the invariant says of the value of a send that is starting.
LEMMA NextValueFacts ==
  ASSUME IInv, NEW c \in Callers, Begin(c)
  PROVE  /\ NextValue(c) \in Values /\ NextValue(c) \notin Range(sent)
         /\ outcome[NextValue(c)] = "none"
         /\ ops[c] + 1 \in 1..MaxOps
<1>1. ops[c] \in 0..MaxOps /\ ops[c] < MaxOps /\ MaxOps \in Nat
  BY UnboundedAssumption DEF UnboundedAssumption, IInv, TypeOK, Begin
<1>2. ops[c] + 1 \in 1..MaxOps /\ ops[c] + 1 \in (ops[c] + 1)..MaxOps
  BY <1>1
<1>3. outcome[NextValue(c)] = "none"
  BY <1>2 DEF IInv, OutcomesPending, NextValue
<1>4. NextValue(c) \in Values
  BY <1>2 DEF NextValue, Values
<1>5. QED
  BY <1>2, <1>3, <1>4 DEF IInv, SentOnce

\* An operation that starts counts itself and decides on no value but its own.
LEMMA BeginKeeps ==
  ASSUME IInv, NEW c \in Callers, Begin(c),
         \/ pc' = pc /\ outcome' = outcome
         \/ pc' = pc /\ \E how \in Outcome : EndsAs(NextValue(c), how)
         \/ c \in Goroutines /\ outcome' = outcome /\ GoesTo(c, "receiving")
  PROVE  /\ ops' \in [Callers -> 0..MaxOps] /\ outcome' \in [Values -> Outcome]
         /\ pc' \in [Callers -> CallerPC]
         /\ TasksIdle' /\ OutcomesPending'
<1>1. /\ NextValue(c) \in Values /\ outcome[NextValue(c)] = "none"
      /\ ops[c] + 1 \in 1..MaxOps /\ MaxOps \in Nat
  BY NextValueFacts, UnboundedAssumption DEF UnboundedAssumption
<1>2. /\ ops \in [Callers -> 0..MaxOps] /\ outcome \in [Values -> Outcome]
      /\ pc \in [Callers -> CallerPC]
      /\ ops' = [ops EXCEPT ![c] = @ + 1] /\ pc[c] = "idle"
  BY DEF IInv, TypeOK, Begin
<1>3. ops' \in [Callers -> 0..MaxOps]
  BY <1>1, <1>2
<1>4. outcome' \in [Values -> Outcome]
  BY <1>1, <1>2 DEF EndsAs
<1>5. pc' \in [Callers -> CallerPC] /\ TasksIdle'
  BY <1>2 DEF IInv, TasksIdle, GoesTo, CallerPC
<1>6. ASSUME NEW d \in Callers, NEW n \in (ops'[d] + 1)..MaxOps
      PROVE  outcome'[<<d, n>>] = "none"
  <2>1. n \in (ops[d] + 1)..MaxOps /\ n \in 1..MaxOps /\ (d = c => n # ops[c] + 1)
    BY <1>1, <1>2
  <2>2. <<d, n>> \in Values /\ <<d, n>> # NextValue(c) /\ outcome[<<d, n>>] = "none"
    BY <2>1 DEF Values, NextValue, IInv, OutcomesPending
  <2>3. QED
    BY <1>2, <2>2 DEF EndsAs
<1>7. QED
  BY <1>3, <1>4, <1>5, <1>6 DEF OutcomesPending

\* A send that succeeds at once puts a new value in the channel.
LEMMA SentAtOnce ==
  ASSUME IInv, NEW c \in Callers, Begin(c), EndsAs(NextValue(c), "sent"),
         sent' = Append(sent, NextValue(c))
  PROVE  SentOnce'
<1>1. /\ NextValue(c) \in Values /\ NextValue(c) \notin Range(sent)
      /\ outcome \in [Values -> Outcome] /\ sent \in Seq(Values)
  BY NextValueFacts DEF IInv, TypeOK
<1>2. IsInjective(sent') /\ Range(sent') = Range(sent) \cup {NextValue(c)}
  BY <1>1, InjectiveAppend, RangeAppend DEF IInv, SentOnce
<1>3. ASSUME NEW v \in Values
      PROVE  outcome'[v] = "sent" <=> v \in Range(sent')
  BY <1>1, <1>2 DEF EndsAs, IInv, SentOnce
<1>4. QED
  BY <1>2, <1>3 DEF SentOnce

\* One more value is delivered, to one caller, and nobody's others change.
LEMMA HolderGains ==
  ASSUME IInv, NEW v \in Values, Range(received') = Range(received) \cup {v},
         \E c \in Callers : Holders(v)' = {c},
         \A u \in Values \ {v} : Holders(u)' = Holders(u)
  PROVE  OneHolder'
<1>1. ASSUME NEW u \in Values
      PROVE  IF u \in Range(received') THEN \E c \in Callers : Holders(u)' = {c}
                                       ELSE Holders(u)' = {}
  <2>1. CASE u = v
    BY <2>1
  <2>2. CASE u # v
    BY <2>2 DEF IInv, OneHolder
  <2>3. QED
    BY <2>1, <2>2
<1>2. QED
  BY <1>1 DEF OneHolder

LEMMA HoldersStay ==
  ASSUME IInv, received' = received, \A u \in Values : Holders(u)' = Holders(u)
  PROVE  OneHolder'
BY DEF IInv, OneHolder

-----------------------------------------------------------------------------
(***************************************************************************)
(* One lemma per way in which a step changes the state.                    *)
(***************************************************************************)

Slots == [value : Values \cup {NoValue}, ok : BOOLEAN]

\* A send hands its value to the oldest waiting receiver.
LEMMA HandOffKeeps ==
  ASSUME IInv, NEW c \in Callers, Begin(c), NEW v, v = NextValue(c),
         HandOff(v), EndsAs(v, "sent"), UNCHANGED <<pc, got, eof>>
  PROVE  IInv'
<1> DEFINE g == Head(receivers)
<1>1. /\ v \in Values /\ v \notin Range(sent) /\ ops[c] + 1 \in 1..MaxOps
  BY NextValueFacts
<1>2. /\ ~closed /\ receivers # <<>> /\ head = Null /\ receivers \in Seq(Goroutines)
      /\ UNCHANGED <<head, tail, count, heap, value, next, closed, pc, got, eof>>
      /\ ops' = [ops EXCEPT ![c] = @ + 1] /\ pc[c] = "idle"
      /\ receivers' = Tail(receivers)
      /\ slot' = [slot EXCEPT ![g] = [value |-> v, ok |-> TRUE]]
      /\ status' = [h \in Goroutines |-> IF h \in {g} THEN "runnable" ELSE status[h]]
      /\ status[g] = "blocked"
      /\ sent' = Append(sent, v) /\ received' = Append(received, v)
  BY DEF IInv, TypeOK, WaitersAreBlocked, Begin, HandOff, Sched!Wake, list
<1>3. /\ g \in Goroutines /\ receivers' \in Seq(Goroutines)
      /\ Range(receivers) = Range(receivers') \cup {g}
      /\ g \notin Range(receivers') /\ IsInjective(receivers')
      /\ pc[g] = "recvParked"
  BY <1>2, RangeTail, InjectiveTail DEF IInv, WaitersAreBlocked
<1>4. /\ sent' \in Seq(Values) /\ Range(sent') = Range(sent) \cup {v}
      /\ received' \in Seq(Values) /\ Range(received') = Range(received) \cup {v}
  BY <1>1, <1>2, RangeAppend DEF IInv, TypeOK
<1>5. /\ ops' \in [Callers -> 0..MaxOps] /\ outcome' \in [Values -> Outcome]
      /\ TasksIdle' /\ OutcomesPending'
  BY <1>2, BeginKeeps DEF Outcome
<1> HIDE DEF g
<1>6. /\ slot' \in [Goroutines -> Slots]
      /\ slot'[g].value = v /\ slot'[g].ok = TRUE
      /\ \A h \in Goroutines : h # g => slot'[h] = slot[h]
  BY <1>1, <1>2, <1>3 DEF IInv, TypeOK, Slots
<1>7. /\ status' \in [Goroutines -> Sched!Statuses] /\ status'[g] = "runnable"
      /\ \A h \in Goroutines : h # g => status'[h] = status[h]
  BY <1>2, <1>3 DEF IInv, TypeOK, Sched!Statuses
<1>8. TypeOK'
  BY <1>2, <1>3, <1>4, <1>5, <1>6, <1>7 DEF IInv, TypeOK, Slots
<1>9. ListHoldsBacklog'
  <2>1. /\ count = 0 /\ sent \in Seq(Values) /\ received \in Seq(Values)
        /\ Backlog(head, tail, 0, heap, value, next, sent, received)
    BY <1>2, ListFacts
  <2>2. Backlog(head, tail, 0, heap, value, next, sent', received')
    BY <1>1, <1>2, <2>1, BacklogHandOff
  <2>3. QED
    BY <1>2, <2>1, <2>2, BacklogIsList
<1>10. WaitersAreBlocked'
  BY <1>2, <1>3, <1>7 DEF IInv, WaitersAreBlocked
<1>11. SentOnce'
  BY <1>2, SentAtOnce
<1>12. ReceiverSlots'
  BY <1>1, <1>2, <1>3, <1>6, <1>7 DEF IInv, ReceiverSlots
<1>13. OneHolder'
  <2>1. v \notin Range(received)
    BY <1>1, ListFacts
  <2>2. Holders(v) = {}
    BY <1>1, <2>1 DEF IInv, OneHolder
  <2>3. Holders(v)' = {g} /\ g \in Callers
    <3>1. /\ g \in Callers /\ \A d \in Callers : v \notin got'[d]
          /\ \A h \in Goroutines \ {g} :
               ~(pc'[h] = "recvParked" /\ status'[h] # "blocked" /\ slot'[h].ok
                 /\ slot'[h].value = v)
      BY <1>2, <1>3, <1>6, <1>7, <2>2 DEF Holders, Callers
    <3>2. /\ pc'[g] = "recvParked" /\ status'[g] # "blocked" /\ slot'[g].ok
          /\ slot'[g].value = v
      BY <1>2, <1>3, <1>6, <1>7
    <3>3. QED
      BY <1>3, <3>1, <3>2 DEF Holders
  <2>4. \A u \in Values \ {v} : Holders(u)' = Holders(u)
    BY <1>2, <1>3, <1>6, <1>7 DEF Holders
  <2>5. QED
    BY <1>1, <1>4, <2>3, <2>4, HolderGains
<1>14. EndOfStream'
  BY <1>2 DEF IInv, EndOfStream
<1>15. QED
  BY <1>5, <1>8, <1>9, <1>10, <1>11, <1>12, <1>13, <1>14 DEF IInv

\* A send puts its value in a new node.
LEMMA AppendKeeps ==
  ASSUME IInv, NEW c \in Callers, Begin(c), NEW v, v = NextValue(c),
         NEW n \in Nodes, AppendNode(v, n), EndsAs(v, "sent"),
         UNCHANGED <<pc, got, eof>>
  PROVE  IInv'
<1>1. v \in Values /\ v \notin Range(sent)
  BY NextValueFacts
<1>2. /\ ~closed /\ receivers = <<>> /\ n \in Nodes \ heap
      /\ UNCHANGED <<closed, receivers, slot, status, received, pc, got, eof>>
      /\ ops' = [ops EXCEPT ![c] = @ + 1] /\ pc[c] = "idle"
      /\ heap' = heap \cup {n} /\ value' = [value EXCEPT ![n] = v]
      /\ head' = (IF tail = Null THEN n ELSE head) /\ tail' = n
      /\ count' = count + 1 /\ sent' = Append(sent, v)
  BY DEF Begin, AppendNode
<1>3. /\ next' = [m \in Nodes |-> CASE m = n -> Null [] m = tail -> n [] OTHER -> next[m]]
      /\ count \in Nat /\ heap \in SUBSET Nodes /\ tail \in heap \cup {Null}
      /\ head \in heap \cup {Null} /\ next \in [Nodes -> Nodes \cup {Null}]
      /\ value \in [Nodes -> Values \cup {NoValue}]
      /\ sent \in Seq(Values) /\ received \in Seq(Values)
  BY DEF AppendNode, IInv, TypeOK
<1>4. sent' \in Seq(Values) /\ Range(sent') = Range(sent) \cup {v}
  BY <1>1, <1>2, <1>3, RangeAppend
<1>5. /\ ops' \in [Callers -> 0..MaxOps] /\ outcome' \in [Values -> Outcome]
      /\ TasksIdle' /\ OutcomesPending'
  BY <1>2, BeginKeeps DEF Outcome
<1>6. /\ next'[n] = Null /\ (tail # Null => next'[tail] = n)
      /\ \A a \in heap : a # tail => next'[a] = next[a]
      /\ \A a \in Nodes : next'[a] \in {Null, n, next[a]}
  <2>1. \A a \in heap : a \in Nodes /\ a # n
    BY <1>2, <1>3
  <2>2. tail # Null => tail \in heap
    BY <1>3
  <2>3. QED
    BY <1>2, <1>3, <2>1, <2>2
<1>7. next' \in [Nodes -> Nodes \cup {Null}]
  <2>1. \A a \in Nodes : next'[a] \in Nodes \cup {Null}
    BY <1>3, <1>6
  <2>2. DOMAIN next' = Nodes /\ next' = [m \in DOMAIN next' |-> next'[m]]
    BY <1>3
  <2>3. QED
    BY <2>1, <2>2
<1>8. TypeOK'
  <2>1. /\ head' \in heap' \cup {Null} /\ tail' \in heap' \cup {Null}
        /\ count' \in Nat /\ heap' \in SUBSET Nodes
        /\ value' \in [Nodes -> Values \cup {NoValue}]
    BY <1>1, <1>2, <1>3
  <2>2. QED
    BY <1>2, <1>4, <1>5, <1>7, <2>1 DEF IInv, TypeOK
<1>9. ListHoldsBacklog'
  <2>1. Backlog(head, tail, count, heap, value, next, sent, received)
    BY ListFacts
  <2>2. Linked(next, next', heap, head, head', tail, n)
    BY <1>2, <1>6 DEF Linked
  <2>3. Backlog(head', n, count', heap', value', next', sent', received)
    <3>1. Backlog(head', n, count', heap', value', next', Append(sent, v), received)
      BY <1>1, <1>2, <1>3, <2>1, <2>2, BacklogAppend
    <3>2. QED
      BY <1>2, <3>1
  <2>4. QED
    BY <1>2, <1>3, <2>3, BacklogIsList
<1>10. WaitersAreBlocked'
  BY <1>2 DEF IInv, WaitersAreBlocked
<1>11. SentOnce'
  BY <1>2, SentAtOnce
<1>12. ReceiverSlots'
  BY <1>2 DEF IInv, ReceiverSlots
<1>13. OneHolder'
  <2>1. \A u \in Values : Holders(u)' = Holders(u)
    BY <1>2 DEF Holders
  <2>2. QED
    BY <1>2, <2>1, HoldersStay
<1>14. EndOfStream'
  BY <1>2 DEF IInv, EndOfStream
<1>15. QED
  BY <1>5, <1>8, <1>9, <1>10, <1>11, <1>12, <1>13, <1>14 DEF IInv

\* An operation starts and leaves the channel as it is: it ends without effect, it
\* finds the end of the stream, or it has to wait and is in the gap.
LEMMA QuietBeginKeeps ==
  ASSUME IInv, NEW c \in Callers, Begin(c), UNCHANGED <<channel, got>>,
         \/ pc' = pc /\ outcome' = outcome
         \/ pc' = pc /\ \E how \in {"closed", "no storage"} : EndsAs(NextValue(c), how)
         \/ c \in Goroutines /\ outcome' = outcome /\ GoesTo(c, "receiving"),
         eof' = eof \/ (eof' = TRUE /\ head = Null /\ closed)
  PROVE  IInv'
<1>1. /\ NextValue(c) \in Values /\ NextValue(c) \notin Range(sent)
      /\ outcome[NextValue(c)] = "none"
  BY NextValueFacts
<1>2. /\ UNCHANGED <<head, tail, count, heap, value, next, closed, receivers, slot,
                     status, sent, received, got>>
      /\ ops' = [ops EXCEPT ![c] = @ + 1] /\ pc[c] = "idle"
      /\ pc \in [Callers -> CallerPC]
  BY DEF IInv, TypeOK, Begin, channel, list
<1>3. /\ ops' \in [Callers -> 0..MaxOps] /\ outcome' \in [Values -> Outcome]
      /\ pc' \in [Callers -> CallerPC] /\ TasksIdle' /\ OutcomesPending'
  BY BeginKeeps DEF Outcome
<1>4. /\ pc'[c] # "recvParked"
      /\ \A d \in Callers : d # c => pc'[d] = pc[d]
  BY <1>2 DEF GoesTo
<1>5. TypeOK'
  BY <1>2, <1>3 DEF IInv, TypeOK
<1>6. ListHoldsBacklog'
  BY <1>2, BacklogIsList DEF IInv, TypeOK
<1>7. WaitersAreBlocked'
  BY <1>2, <1>4 DEF IInv, WaitersAreBlocked, Callers
<1>8. SentOnce'
  <2>1. \A u \in Values : outcome'[u] = "sent" <=> outcome[u] = "sent"
    BY <1>1 DEF IInv, TypeOK, EndsAs
  <2>2. QED
    BY <1>2, <2>1 DEF IInv, SentOnce
<1>9. ReceiverSlots'
  BY <1>2, <1>4 DEF IInv, ReceiverSlots, Callers
<1>10. OneHolder'
  <2>1. \A u \in Values : Holders(u)' = Holders(u)
    BY <1>2, <1>4 DEF Holders, Callers
  <2>2. QED
    BY <1>2, <2>1, HoldersStay
<1>11. EndOfStream'
  BY <1>2, ListFacts DEF IInv, EndOfStream
<1>12. QED
  BY <1>3, <1>5, <1>6, <1>7, <1>8, <1>9, <1>10, <1>11 DEF IInv

\* What a receive that does not wait does to the operation it belongs to.
EndsOperation(c) ==
  \/ Begin(c) /\ pc' = pc
  \/ CanStep(c) /\ pc[c] = "receiving" /\ GoesTo(c, "idle") /\ UNCHANGED ops

LEMMA EndFacts ==
  ASSUME IInv, NEW c \in Callers, EndsOperation(c), outcome' = outcome
  PROVE  /\ ops' \in [Callers -> 0..MaxOps] /\ pc' \in [Callers -> CallerPC]
         /\ TasksIdle' /\ OutcomesPending'
         /\ pc[c] # "recvParked" /\ pc'[c] = "idle"
         /\ \A d \in Callers : d # c => pc'[d] = pc[d]
         /\ c \in Goroutines => status[c] = "running"
<1>1. ops \in [Callers -> 0..MaxOps] /\ pc \in [Callers -> CallerPC]
  BY DEF IInv, TypeOK
<1>2. c \in Goroutines => status[c] = "running"
  BY DEF EndsOperation, Begin, CanStep
<1>3. CASE Begin(c) /\ pc' = pc
  <2>1. pc[c] = "idle"
    BY <1>3 DEF Begin
  <2>2. QED
    BY <1>1, <1>2, <1>3, <2>1, BeginKeeps
<1>4. CASE pc[c] = "receiving" /\ GoesTo(c, "idle") /\ UNCHANGED ops
  <2>1. /\ pc' \in [Callers -> CallerPC] /\ pc'[c] = "idle"
        /\ \A d \in Callers : d # c => pc'[d] = pc[d]
    BY <1>1, <1>4 DEF GoesTo, CallerPC
  <2>2. TasksIdle' /\ OutcomesPending'
    BY <1>4, <2>1 DEF IInv, TasksIdle, OutcomesPending
  <2>3. QED
    BY <1>1, <1>2, <1>4, <2>1, <2>2
<1>5. QED
  BY <1>3, <1>4 DEF EndsOperation

\* A receive finds the end of the stream.
LEMMA QuietEndKeeps ==
  ASSUME IInv, NEW c \in Callers, EndsOperation(c),
         UNCHANGED <<channel, got, outcome>>, eof' = TRUE, head = Null, closed
  PROVE  IInv'
<1>1. UNCHANGED <<head, tail, count, heap, value, next, closed, receivers, slot,
                  status, sent, received, got, outcome>>
  BY DEF channel, list
<1>2. /\ ops' \in [Callers -> 0..MaxOps] /\ pc' \in [Callers -> CallerPC]
      /\ TasksIdle' /\ OutcomesPending'
      /\ pc[c] # "recvParked" /\ pc'[c] = "idle"
      /\ \A d \in Callers : d # c => pc'[d] = pc[d]
  BY <1>1, EndFacts
<1>3. TypeOK'
  BY <1>1, <1>2 DEF IInv, TypeOK
<1>4. ListHoldsBacklog'
  BY <1>1, BacklogIsList DEF IInv, TypeOK
<1>5. WaitersAreBlocked'
  BY <1>1, <1>2 DEF IInv, WaitersAreBlocked, Callers
<1>6. SentOnce'
  BY <1>1 DEF IInv, SentOnce
<1>7. ReceiverSlots'
  BY <1>1, <1>2 DEF IInv, ReceiverSlots, Callers
<1>8. OneHolder'
  <2>1. \A u \in Values : Holders(u)' = Holders(u)
    BY <1>1, <1>2 DEF Holders, Callers
  <2>2. QED
    BY <1>1, <2>1, HoldersStay
<1>9. EndOfStream'
  BY <1>1, ListFacts DEF EndOfStream
<1>10. QED
  BY <1>2, <1>3, <1>4, <1>5, <1>6, <1>7, <1>8, <1>9 DEF IInv

\* A receiver registers after the gap; the channel is empty, so it overtakes none.
LEMMA ParkReceiverKeeps ==
  ASSUME IInv, NEW c \in Goroutines, CanStep(c), pc[c] = "receiving",
         head = Null, ~closed, receivers' = Append(receivers, c),
         Sched!Block(c), GoesTo(c, "recvParked"),
         UNCHANGED <<list, closed, slot, sent, received, got, eof, ops, outcome>>
  PROVE  IInv'
<1>1. /\ c \in Callers /\ status[c] = "running"
      /\ pc \in [Callers -> CallerPC] /\ status \in [Goroutines -> Sched!Statuses]
      /\ UNCHANGED <<head, tail, count, heap, value, next, closed, slot, sent,
                     received, got, eof, ops, outcome>>
  BY DEF list, CanStep, Callers, IInv, TypeOK
<1>2. /\ pc' \in [Callers -> CallerPC] /\ pc'[c] = "recvParked"
      /\ \A d \in Callers : d # c => pc'[d] = pc[d]
  BY <1>1 DEF GoesTo, CallerPC
<1>3. /\ status' \in [Goroutines -> Sched!Statuses] /\ status'[c] = "blocked"
      /\ \A h \in Goroutines : h # c => status'[h] = status[h]
  BY <1>1 DEF Sched!Block, Sched!Statuses
<1>4. c \notin Range(receivers)
  BY <1>1 DEF IInv, WaitersAreBlocked
<1>5. /\ receivers' \in Seq(Goroutines)
      /\ Range(receivers') = Range(receivers) \cup {c}
      /\ IsInjective(receivers')
  BY <1>4, RangeAppend, InjectiveAppend DEF IInv, TypeOK, WaitersAreBlocked
<1>6. TypeOK'
  BY <1>1, <1>2, <1>3, <1>5 DEF IInv, TypeOK
<1>7. ListHoldsBacklog'
  BY <1>1, BacklogIsList DEF IInv, TypeOK
<1>8. WaitersAreBlocked'
  BY <1>1, <1>2, <1>3, <1>5 DEF IInv, WaitersAreBlocked, Callers
<1>9. TasksIdle' /\ OutcomesPending' /\ SentOnce'
  BY <1>1, <1>2 DEF IInv, TasksIdle, OutcomesPending, SentOnce
<1>10. ReceiverSlots'
  BY <1>1, <1>2, <1>3 DEF IInv, ReceiverSlots, Callers
<1>11. OneHolder'
  <2>1. \A u \in Values : Holders(u)' = Holders(u)
    BY <1>1, <1>2, <1>3 DEF Holders, Callers
  <2>2. QED
    BY <1>1, <2>1, HoldersStay
<1>12. EndOfStream'
  BY <1>1 DEF IInv, EndOfStream
<1>13. QED
  BY <1>6, <1>7, <1>8, <1>9, <1>10, <1>11, <1>12 DEF IInv

\* A receiver that was woken takes what is in its slot, or learns of the end.
LEMMA ResumeReceiveKeeps ==
  ASSUME IInv, NEW c \in Goroutines, ResumeReceive(c)
  PROVE  IInv'
<1>1. /\ c \in Callers /\ pc[c] = "recvParked" /\ status[c] = "running"
      /\ IF slot[c].ok
         THEN got' = [got EXCEPT ![c] = @ \cup {slot[c].value}] /\ eof' = eof
         ELSE eof' = TRUE /\ got' = got
      /\ slot' = [slot EXCEPT ![c] = NoSlot]
      /\ pc' = [pc EXCEPT ![c] = "idle"]
      /\ UNCHANGED <<head, tail, count, heap, value, next, closed, receivers, status,
                     sent, received, ops, outcome>>
  BY DEF ResumeReceive, CanStep, Callers, list, GoesTo
<1>2. IF slot[c].ok THEN slot[c].value \in Values ELSE closed /\ head = Null
  BY <1>1 DEF IInv, ReceiverSlots
<1>3. /\ pc' \in [Callers -> CallerPC] /\ pc'[c] = "idle"
      /\ \A d \in Callers : d # c => pc'[d] = pc[d]
  BY <1>1 DEF IInv, TypeOK, CallerPC
<1>4. /\ slot' \in [Goroutines -> Slots]
      /\ \A h \in Goroutines : h # c => slot'[h] = slot[h]
  BY <1>1 DEF IInv, TypeOK, NoSlot, Slots
<1>5. /\ got' \in [Callers -> SUBSET Values] /\ eof' \in BOOLEAN
      /\ \A d \in Callers : d # c => got'[d] = got[d]
      /\ got'[c] = IF slot[c].ok THEN got[c] \cup {slot[c].value} ELSE got[c]
  <2>1. got \in [Callers -> SUBSET Values] /\ eof \in BOOLEAN
    BY DEF IInv, TypeOK
  <2>2. CASE slot[c].ok
    BY <1>1, <1>2, <2>1, <2>2
  <2>3. CASE ~slot[c].ok
    BY <1>1, <2>1, <2>3
  <2>4. QED
    BY <2>2, <2>3
<1>6. TypeOK'
  BY <1>1, <1>3, <1>4, <1>5 DEF IInv, TypeOK, Slots
<1>7. ListHoldsBacklog'
  BY <1>1, BacklogIsList DEF IInv, TypeOK
<1>8. WaitersAreBlocked'
  BY <1>1, <1>3 DEF IInv, WaitersAreBlocked, Callers
<1>9. TasksIdle' /\ OutcomesPending' /\ SentOnce'
  BY <1>1, <1>3 DEF IInv, TasksIdle, OutcomesPending, SentOnce
<1>10. ReceiverSlots'
  BY <1>1, <1>3, <1>4 DEF IInv, ReceiverSlots, Callers
<1>11. OneHolder'
  <2>1. ASSUME NEW u \in Values PROVE Holders(u)' = Holders(u)
    <3>1. \A d \in Callers : d \in Holders(u)' <=> d \in Holders(u)
      BY <1>1, <1>3, <1>4, <1>5 DEF Holders, Callers
    <3>2. Holders(u) \subseteq Callers /\ Holders(u)' \subseteq Callers
      BY DEF Holders, Callers
    <3>3. QED
      BY <3>1, <3>2
  <2>2. QED
    BY <1>1, <2>1, HoldersStay
<1>12. EndOfStream'
  <2>1. head = Null => received = sent
    BY ListFacts
  <2>2. QED
    BY <1>1, <1>2, <2>1 DEF IInv, EndOfStream
<1>13. QED
  BY <1>6, <1>7, <1>8, <1>9, <1>10, <1>11, <1>12 DEF IInv

\* A receive takes the value at the head, and the node is freed.
LEMMA TakeKeeps ==
  ASSUME IInv, NEW c \in Callers, EndsOperation(c), TakeHead,
         NEW v, v = value[head], got' = [got EXCEPT ![c] = @ \cup {v}],
         UNCHANGED <<outcome, eof>>
  PROVE  IInv'
<1>1. /\ head # Null /\ head' = next[head] /\ count' = count - 1
      /\ tail' = (IF next[head] = Null THEN Null ELSE tail)
      /\ heap' = heap \ {head} /\ received' = Append(received, v)
      /\ UNCHANGED <<value, next, closed, receivers, slot, status, sent>>
      /\ receivers = <<>>
  BY DEF TakeHead, IInv, WaitersAreBlocked
<1>2. /\ ops' \in [Callers -> 0..MaxOps] /\ pc' \in [Callers -> CallerPC]
      /\ TasksIdle' /\ OutcomesPending'
      /\ pc[c] # "recvParked" /\ pc'[c] = "idle"
      /\ \A d \in Callers : d # c => pc'[d] = pc[d]
      /\ c \in Goroutines => status[c] = "running"
  BY EndFacts
<1>3. /\ head \in heap /\ count # 0
      /\ v \in Values /\ v \in Range(sent) /\ v \notin Range(received)
  BY <1>1, HeadOfList
<1>4. Backlog(head', tail', count', heap', value, next, sent, received')
  BY <1>1, HeadOfList
<1>5. /\ received' \in Seq(Values) /\ Range(received') = Range(received) \cup {v}
  BY <1>1, <1>3, RangeAppend DEF IInv, TypeOK
<1>6. /\ got' \in [Callers -> SUBSET Values]
      /\ \A d \in Callers : d # c => got'[d] = got[d]
      /\ got'[c] = got[c] \cup {v}
  BY <1>3 DEF IInv, TypeOK
<1>7. count' \in Nat /\ heap' \in SUBSET Nodes
  BY <1>1, <1>3 DEF IInv, TypeOK
<1>8. head' \in heap' \cup {Null} /\ tail' \in heap' \cup {Null}
  <2>1. PICK l \in [1..count' -> heap'] : Chain(l, count', head', tail', next, heap')
    BY <1>4 DEF Backlog
  <2>2. count' # 0 => l[1] \in heap' /\ l[count'] \in heap'
    BY <1>7
  <2>3. QED
    BY <2>1, <2>2 DEF Chain
<1>9. TypeOK'
  BY <1>1, <1>2, <1>5, <1>6, <1>7, <1>8 DEF IInv, TypeOK
<1>10. ListHoldsBacklog'
  BY <1>1, <1>4, <1>7, BacklogIsList
<1>11. WaitersAreBlocked'
  BY <1>1, <1>2 DEF IInv, WaitersAreBlocked, Callers
<1>12. SentOnce'
  BY <1>1 DEF IInv, SentOnce
<1>13. ReceiverSlots'
  BY <1>1, <1>2 DEF IInv, ReceiverSlots, Callers
<1>14. OneHolder'
  <2>1. Holders(v) = {}
    BY <1>3 DEF IInv, OneHolder
  <2>2. Holders(v)' = {c}
    <3>1. /\ \A d \in Callers : v \in got'[d] <=> d = c
          /\ \A h \in Goroutines :
               ~(pc'[h] = "recvParked" /\ status'[h] # "blocked" /\ slot'[h].ok
                 /\ slot'[h].value = v)
      BY <1>1, <1>2, <1>6, <2>1 DEF Holders, Callers
    <3>2. QED
      BY <3>1 DEF Holders
  <2>3. ASSUME NEW u \in Values \ {v} PROVE Holders(u)' = Holders(u)
    <3>1. \A d \in Callers : u \in got'[d] <=> u \in got[d]
      BY <1>6
    <3>2. \A h \in Goroutines : pc'[h] = "recvParked" <=> pc[h] = "recvParked"
      BY <1>2 DEF Callers
    <3>3. QED
      BY <1>1, <3>1, <3>2 DEF Holders
  <2>4. QED
    BY <1>3, <1>5, <2>2, <2>3, HolderGains
<1>15. EndOfStream'
  <2>1. received # sent
    BY <1>3
  <2>2. QED
    BY <1>1, <2>1 DEF IInv, EndOfStream
<1>16. QED
  BY <1>2, <1>9, <1>10, <1>11, <1>12, <1>13, <1>14, <1>15 DEF IInv

\* Close wakes every waiting receiver and tells it so; none had anything to take.
LEMMA CloseKeeps ==
  ASSUME IInv, NEW c \in Callers, Close(c), ~closed
  PROVE  IInv'
<1>1. /\ Begin(c) /\ pc[c] = "idle" /\ closed' = TRUE
      /\ slot' = [g \in Goroutines |->
           IF g \in Range(receivers) THEN [slot[g] EXCEPT !.ok = FALSE] ELSE slot[g]]
      /\ status' = [g \in Goroutines |->
           IF g \in Range(receivers) THEN "runnable" ELSE status[g]]
      /\ receivers' = <<>>
      /\ UNCHANGED <<head, tail, count, heap, value, next, sent, received, pc, got,
                     outcome, eof>>
  BY DEF Close, Begin, Sched!Wake, list
<1>2. /\ ops' \in [Callers -> 0..MaxOps] /\ TasksIdle' /\ OutcomesPending'
  BY <1>1, BeginKeeps
<1>3. \A h \in Range(receivers) : h \in Goroutines /\ pc[h] = "recvParked"
                                  /\ status[h] = "blocked"
  BY RangeOfSeq DEF IInv, TypeOK, WaitersAreBlocked
<1>4. /\ slot \in [Goroutines -> Slots]
      /\ status \in [Goroutines -> Sched!Statuses]
  BY DEF IInv, TypeOK, Slots
<1>5. /\ \A h \in Range(receivers) :
           ~slot'[h].ok /\ slot'[h] \in Slots /\ status'[h] = "runnable"
      /\ \A h \in Goroutines :
           h \notin Range(receivers) => slot'[h] = slot[h] /\ status'[h] = status[h]
  <2>1. ASSUME NEW h \in Range(receivers)
        PROVE  ~slot'[h].ok /\ slot'[h] \in Slots /\ status'[h] = "runnable"
    <3>1. h \in Goroutines /\ slot[h] \in Slots
      BY <1>3, <1>4
    <3>2. slot'[h] = [slot[h] EXCEPT !.ok = FALSE] /\ status'[h] = "runnable"
      BY <1>1, <3>1
    <3>3. QED
      BY <3>1, <3>2 DEF Slots
  <2>2. QED
    BY <1>1, <2>1
<1>6. slot' \in [Goroutines -> Slots] /\ status' \in [Goroutines -> Sched!Statuses]
  <2>1. \A h \in Goroutines : slot'[h] \in Slots /\ status'[h] \in Sched!Statuses
    BY <1>4, <1>5 DEF Sched!Statuses
  <2>2. QED
    BY <1>1, <2>1
<1>7. TypeOK'
  <2>1. receivers' \in Seq(Goroutines)
    BY <1>1
  <2>2. QED
    BY <1>1, <1>2, <1>6, <2>1 DEF IInv, TypeOK, Slots
<1>8. ListHoldsBacklog'
  BY <1>1, BacklogIsList DEF IInv, TypeOK
<1>9. WaitersAreBlocked'
  <2>1. \A h \in Goroutines : ~(pc'[h] = "recvParked" /\ status'[h] = "blocked")
    BY <1>1, <1>5 DEF IInv, WaitersAreBlocked
  <2>2. QED
    BY <1>1, <2>1, EmptyQueue DEF WaitersAreBlocked
<1>10. SentOnce'
  BY <1>1 DEF IInv, SentOnce
<1>11. ReceiverSlots'
  <2>1. ASSUME NEW h \in Goroutines, pc[h] = "recvParked"
        PROVE  IF slot'[h].ok THEN slot'[h].value \in Values
                              ELSE closed' /\ head' = Null
    <3>1. CASE h \in Range(receivers)
      <4>1. receivers # <<>>
        BY <3>1, EmptyQueue
      <4>2. head = Null
        BY <4>1 DEF IInv, WaitersAreBlocked
      <4>3. QED
        BY <1>1, <1>5, <3>1, <4>2
    <3>2. CASE h \notin Range(receivers)
      <4>1. status[h] # "blocked" /\ slot'[h] = slot[h]
        BY <1>5, <2>1, <3>2 DEF IInv, WaitersAreBlocked
      <4>2. QED
        BY <1>1, <2>1, <4>1 DEF IInv, ReceiverSlots
    <3>3. QED
      BY <3>1, <3>2
  <2>2. QED
    BY <1>1, <2>1 DEF ReceiverSlots
<1>12. OneHolder'
  <2>1. ASSUME NEW h \in Goroutines, NEW u
        PROVE  (/\ pc'[h] = "recvParked" /\ status'[h] # "blocked"
                /\ slot'[h].ok /\ slot'[h].value = u) <=>
               (/\ pc[h] = "recvParked" /\ status[h] # "blocked"
                /\ slot[h].ok /\ slot[h].value = u)
    BY <1>1, <1>3, <1>5
  <2>2. \A u \in Values : Holders(u)' = Holders(u)
    BY <1>1, <2>1 DEF Holders
  <2>3. QED
    BY <1>1, <2>2, HoldersStay
<1>13. EndOfStream'
  BY <1>1 DEF IInv, EndOfStream
<1>14. QED
  BY <1>2, <1>7, <1>8, <1>9, <1>10, <1>11, <1>12, <1>13 DEF IInv

\* The scheduler dispatches a goroutine, or one returns: nobody blocks or wakes.
LEMMA StatusKeeps ==
  ASSUME IInv, NEW g \in Goroutines, Dispatch(g) \/ Return(g)
  PROVE  IInv'
<1>1. /\ UNCHANGED <<head, tail, count, heap, value, next, closed, receivers, slot,
                     sent, received, pc, ops, got, outcome, eof>>
      /\ status[g] \in {"runnable", "running"}
      /\ \E s \in {"running", "done"} : status' = [status EXCEPT ![g] = s]
  BY DEF Dispatch, Return, Sched!Run, Sched!Finish, list
<1>2. /\ status' \in [Goroutines -> Sched!Statuses]
      /\ \A h \in Goroutines : status'[h] = "blocked" <=> status[h] = "blocked"
  BY <1>1 DEF IInv, TypeOK, Sched!Statuses
<1>3. TypeOK'
  BY <1>1, <1>2 DEF IInv, TypeOK
<1>4. ListHoldsBacklog'
  BY <1>1, BacklogIsList DEF IInv, TypeOK
<1>5. WaitersAreBlocked'
  BY <1>1, <1>2 DEF IInv, WaitersAreBlocked
<1>6. TasksIdle' /\ OutcomesPending' /\ SentOnce'
  BY <1>1 DEF IInv, TasksIdle, OutcomesPending, SentOnce
<1>7. ReceiverSlots'
  BY <1>1, <1>2 DEF IInv, ReceiverSlots
<1>8. OneHolder'
  <2>1. \A u \in Values : Holders(u)' = Holders(u)
    BY <1>1, <1>2 DEF Holders
  <2>2. QED
    BY <1>1, <2>1, HoldersStay
<1>9. EndOfStream'
  BY <1>1 DEF IInv, EndOfStream
<1>10. QED
  BY <1>3, <1>4, <1>5, <1>6, <1>7, <1>8, <1>9 DEF IInv

-----------------------------------------------------------------------------
(***************************************************************************)
(* Every step keeps the invariant.                                         *)
(***************************************************************************)

LEMMA InitInvariant == Init => IInv
<1> SUFFICES ASSUME Init PROVE IInv
  OBVIOUS
<1>1. TypeOK
  <2>1. /\ head \in heap \cup {Null} /\ tail \in heap \cup {Null} /\ count \in Nat
        /\ heap \in SUBSET Nodes /\ value \in [Nodes -> Values \cup {NoValue}]
        /\ next \in [Nodes -> Nodes \cup {Null}]
    BY DEF Init
  <2>2. /\ ops \in [Callers -> 0..MaxOps] /\ pc \in [Callers -> CallerPC]
        /\ status \in [Goroutines -> Sched!Statuses]
        /\ got \in [Callers -> SUBSET Values] /\ outcome \in [Values -> Outcome]
    BY UnboundedAssumption
       DEF UnboundedAssumption, Init, CallerPC, Outcome, Sched!Statuses
  <2>3. slot \in [Goroutines -> [value : Values \cup {NoValue}, ok : BOOLEAN]]
    BY DEF Init, NoSlot
  <2>4. /\ closed \in BOOLEAN /\ eof \in BOOLEAN
        /\ receivers \in Seq(Goroutines)
        /\ sent \in Seq(Values) /\ received \in Seq(Values)
    <3>1. \A S : <<>> \in Seq(S)
      OBVIOUS
    <3>2. QED
      BY <3>1 DEF Init
  <2>5. QED
    BY <2>1, <2>2, <2>3, <2>4 DEF TypeOK
<1>2. ListHoldsBacklog
  <2> DEFINE l == [i \in 1..0 |-> Null]
  <2>1. l \in [1..0 -> {}]
    OBVIOUS
  <2> HIDE DEF l
  <2>2. Chain(l, 0, Null, Null, next, {})
    BY <2>1 DEF Chain
  <2>3. Backlog(Null, Null, 0, {}, value, next, <<>>, <<>>)
    <3> PICK s : s = <<>>
      OBVIOUS
    <3>1. Len(s) = 0 /\ Len(s) + 0 = Len(s) /\ \A i \in 1..Len(s) : s[i] = s[i]
      OBVIOUS
    <3>2. \A i \in 1..0 : value[l[i]] = s[Len(s) + i]
      OBVIOUS
    <3>3. Backlog(Null, Null, 0, {}, value, next, s, s)
      BY ONLY <2>1, <2>2, <3>1, <3>2 DEF Backlog
    <3>4. QED
      BY <3>3
  <2>4. Backlog(head, tail, count, heap, value, next, sent, received) /\ count \in Nat
    <3>1. /\ head = Null /\ tail = Null /\ count = 0 /\ heap = {}
          /\ sent = <<>> /\ received = <<>>
      BY DEF Init
    <3>2. QED
      BY ONLY <2>3, <3>1
  <2>5. QED
    BY <2>4, BacklogIsList
<1>3. WaitersAreBlocked
  BY EmptyQueue DEF Init, WaitersAreBlocked, Callers
<1>4. TasksIdle /\ OutcomesPending
  BY UnboundedAssumption
     DEF UnboundedAssumption, Init, TasksIdle, OutcomesPending, Values
<1>5. SentOnce
  BY EmptyQueue DEF Init, SentOnce
<1>6. ReceiverSlots /\ EndOfStream
  BY DEF Init, ReceiverSlots, EndOfStream, Callers
<1>7. OneHolder
  <2>1. \A u \in Values : Holders(u) = {}
    BY DEF Init, Holders, Callers
  <2>2. QED
    BY <2>1, EmptyQueue DEF Init, OneHolder
<1>8. QED
  BY <1>1, <1>2, <1>3, <1>4, <1>5, <1>6, <1>7 DEF IInv

LEMMA StutterInvariant == IInv /\ UNCHANGED vars => IInv'
<1> SUFFICES ASSUME IInv, UNCHANGED vars PROVE IInv'
  OBVIOUS
<1>1. UNCHANGED <<head, tail, count, heap, value, next, closed, receivers, slot, pc,
                  ops, status, sent, received, got, outcome, eof>>
  BY DEF vars, channel, list
<1>2. /\ TypeOK' /\ WaitersAreBlocked' /\ TasksIdle' /\ OutcomesPending'
      /\ SentOnce' /\ ReceiverSlots' /\ EndOfStream'
  BY <1>1 DEF IInv, TypeOK, WaitersAreBlocked, TasksIdle, OutcomesPending, SentOnce,
              ReceiverSlots, EndOfStream
<1>3. ListHoldsBacklog'
  BY <1>1, BacklogIsList DEF IInv, TypeOK
<1>4. OneHolder'
  <2>1. \A u \in Values : Holders(u)' = Holders(u)
    BY <1>1 DEF Holders
  <2>2. QED
    BY <1>1, <2>1, HoldersStay
<1>5. QED
  BY <1>2, <1>3, <1>4 DEF IInv

LEMMA ReceiveAtOnceKeeps ==
  ASSUME IInv, NEW c \in Callers, EndsOperation(c), ReceiveAtOnce(c),
         outcome' = outcome
  PROVE  IInv'
<1>1. CASE /\ TakeHead /\ got' = [got EXCEPT ![c] = @ \cup {value[head]}]
           /\ UNCHANGED eof
  BY <1>1, TakeKeeps
<1>2. CASE head = Null /\ closed /\ eof' = TRUE /\ UNCHANGED <<channel, got>>
  BY <1>2, QuietEndKeeps
<1>3. QED
  BY <1>1, <1>2 DEF ReceiveAtOnce

LEMMA OperationKeeps ==
  ASSUME IInv, NEW c \in Callers, Operation(c)
  PROVE  IInv'
<1>1. CASE Send(c)
  <2>1. CASE closed /\ EndsAs(NextValue(c), "closed") /\ UNCHANGED channel
    BY <1>1, <2>1, QuietBeginKeeps DEF Send
  <2>2. CASE /\ HandOff(NextValue(c)) \/ \E n \in Nodes : AppendNode(NextValue(c), n)
             /\ EndsAs(NextValue(c), "sent")
    BY <1>1, <2>2, HandOffKeeps, AppendKeeps DEF Send
  <2>3. CASE EndsAs(NextValue(c), "no storage") /\ UNCHANGED channel
    BY <1>1, <2>3, QuietBeginKeeps DEF Send
  <2>4. QED
    BY <1>1, <2>1, <2>2, <2>3 DEF Send
<1>2. CASE Receive(c)
  <2>1. CASE ReceiveAtOnce(c) /\ UNCHANGED pc
    BY <1>2, <2>1, ReceiveAtOnceKeeps DEF Receive, Begin, EndsOperation
  <2>2. CASE /\ IF c \in Goroutines THEN GoesTo(c, "receiving") ELSE UNCHANGED pc
             /\ UNCHANGED <<channel, got, eof>>
    BY <1>2, <2>2, QuietBeginKeeps DEF Receive
  <2>3. QED
    BY <1>2, <2>1, <2>2 DEF Receive
<1>3. CASE Close(c)
  <2>1. CASE closed
    BY <1>3, <2>1, QuietBeginKeeps DEF Close
  <2>2. CASE ~closed
    BY <1>3, <2>2, CloseKeeps
  <2>3. QED
    BY <2>1, <2>2
<1>4. QED
  BY <1>1, <1>2, <1>3 DEF Operation

LEMMA WaitingKeeps ==
  ASSUME IInv, NEW g \in Goroutines, Waiting(g)
  PROVE  IInv'
<1> g \in Callers
  BY DEF Callers
<1>1. CASE ParkReceiver(g)
  <2>1. CASE ReceiveAtOnce(g) /\ GoesTo(g, "idle")
    BY <1>1, <2>1, ReceiveAtOnceKeeps DEF ParkReceiver, EndsOperation
  <2>2. CASE ~ReceiveAtOnce(g) \/ ~GoesTo(g, "idle")
    BY <1>1, <2>2, ParkReceiverKeeps DEF ParkReceiver
  <2>3. QED
    BY <2>1, <2>2
<1>2. QED
  BY <1>1, ResumeReceiveKeeps DEF Waiting

\* IInv is inductive.
THEOREM Inductive ==
  /\ Init => IInv
  /\ IInv /\ [Next]_vars => IInv'
<1>1. ASSUME IInv, Next PROVE IInv'
  BY <1>1, OperationKeeps, WaitingKeeps, StatusKeeps DEF Next
<1>2. QED
  BY <1>1, InitInvariant, StutterInvariant

THEOREM Invariance == Spec => []IInv
BY Inductive, PTL DEF Spec

-----------------------------------------------------------------------------
(***************************************************************************)
(* The properties.                                                         *)
(***************************************************************************)

\* Head and Tail are null or allocated nodes, and Count never goes below zero.
THEOREM TypeCorrect == Spec => []TypeOK
<1>1. IInv => TypeOK
  BY DEF IInv
<1>2. QED
  BY <1>1, Invariance, PTL

\* The list holds what was accepted and not yet delivered, in order, and no node
\* leaks or is on it twice, whichever free address the allocator returns.
THEOREM ListIsBacklog == Spec => []ListHoldsBacklog
<1>1. IInv => ListHoldsBacklog
  BY DEF IInv
<1>2. QED
  BY <1>1, Invariance, PTL

\* A goroutine waits once, from its registration to its wake-up.
THEOREM WaitersBlocked == Spec => []WaitersAreBlocked
<1>1. IInv => WaitersAreBlocked
  BY DEF IInv
<1>2. QED
  BY <1>1, Invariance, PTL

\* The values of the Sends that returned entered the channel, and one that was
\* delivered is with exactly one receiver.
THEOREM DeliveredToOne == Spec => []DeliveredOnce
<1>1. IInv => DeliveredOnce
  <2> SUFFICES ASSUME IInv, NEW v \in Values
               PROVE  Cardinality(Holders(v)) = (IF v \in Range(received) THEN 1 ELSE 0)
    BY DEF DeliveredOnce, IInv, SentOnce
  <2>1. CASE v \in Range(received)
    <3>1. PICK c \in Callers : Holders(v) = {c}
      BY <2>1 DEF IInv, OneHolder
    <3>2. QED
      BY <2>1, <3>1, FS_Singleton
  <2>2. CASE v \notin Range(received)
    BY <2>2, FS_EmptySet DEF IInv, OneHolder
  <2>3. QED
    BY <2>1, <2>2
<1>2. QED
  BY <1>1, Invariance, PTL

\* A receive that returned OK => False found the channel closed and drained.
THEOREM EndIsFinal == Spec => []EndOfStream
<1>1. IInv => EndOfStream
  BY DEF IInv
<1>2. QED
  BY <1>1, Invariance, PTL

-----------------------------------------------------------------------------
(***************************************************************************)
(* The channel implements FifoChannel with the heap for its capacity: a    *)
(* hand-off is HandOver, a new node is Accept, a take is Deliver, and      *)
(* every other step leaves the FIFO alone or closes it.                    *)
(***************************************************************************)

LEMMA BacklogIsCount ==
  ASSUME IInv
  PROVE  Fifo!Backlog = count /\ count = Cardinality(heap)
<1>1. /\ count \in Nat /\ heap \in SUBSET Nodes
      /\ sent \in Seq(Values) /\ received \in Seq(Values)
      /\ Backlog(head, tail, count, heap, value, next, sent, received)
  BY ListFacts
<1>2. count = Cardinality(heap)
  BY <1>1, HeapOfList
<1>3. Len(received) + count = Len(sent)
  BY <1>1 DEF Backlog
<1>4. QED
  BY <1>1, <1>2, <1>3 DEF Fifo!Backlog

LEMMA TakeRefines ==
  ASSUME IInv, TakeHead
  PROVE  Fifo!Next
<1>1. /\ count \in Nat /\ heap \in SUBSET Nodes
      /\ sent \in Seq(Values) /\ received \in Seq(Values)
      /\ Backlog(head, tail, count, heap, value, next, sent, received)
  BY ListFacts
<1>2. count # 0 /\ value[head] = sent[Len(received) + 1]
  BY HeadOfList DEF TakeHead
<1>3. Fifo!Deliver
  BY <1>1, <1>2, BacklogIsCount DEF TakeHead, Fifo!Deliver, Fifo!Oldest
<1>4. QED
  BY <1>3 DEF Fifo!Next

LEMMA HandOffRefines ==
  ASSUME IInv, NEW v \in Values, HandOff(v)
  PROVE  Fifo!Next
<1>1. Fifo!Backlog = 0
  BY BacklogIsCount, ListFacts DEF HandOff, IInv, WaitersAreBlocked
<1>2. QED
  BY <1>1 DEF HandOff, Fifo!Next, Fifo!HandOver

LEMMA AppendRefines ==
  ASSUME IInv, NEW v \in Values, NEW n \in Nodes, AppendNode(v, n)
  PROVE  Fifo!Next
<1>1. Fifo!Backlog < Cardinality(Nodes)
  <2>1. IsFiniteSet(Nodes) /\ heap \in SUBSET Nodes /\ heap # Nodes
    BY UnboundedAssumption DEF UnboundedAssumption, IInv, TypeOK, AppendNode
  <2>2. Cardinality(heap) < Cardinality(Nodes)
    <3>1. /\ IsFiniteSet(heap) /\ Cardinality(heap) <= Cardinality(Nodes)
          /\ (Cardinality(heap) = Cardinality(Nodes) => heap = Nodes)
      BY <2>1, FS_Subset
    <3>2. Cardinality(heap) \in Nat /\ Cardinality(Nodes) \in Nat
      BY <2>1, <3>1, FS_CardinalityType
    <3>3. QED
      BY <2>1, <3>1, <3>2
  <2>3. QED
    BY <2>2, BacklogIsCount
<1>2. QED
  BY <1>1 DEF AppendNode, Fifo!Next, Fifo!Accept

\* A step that moves no value and closes nothing is invisible.
LEMMA StepRefines ==
  ASSUME IInv, Next
  PROVE  Fifo!Next \/ UNCHANGED Fifo!vars
<1> DEFINE Quiet == UNCHANGED <<sent, received, closed>>
           Moves == \/ TakeHead
                    \/ \E v \in Values : HandOff(v) \/ \E n \in Nodes : AppendNode(v, n)
                    \/ ~closed /\ closed' = TRUE /\ UNCHANGED <<sent, received>>
<1>1. ASSUME NEW c \in Callers, Operation(c) PROVE Moves \/ Quiet
  <2>1. CASE Send(c)
    <3>1. NextValue(c) \in Values
      BY <2>1, NextValueFacts DEF Send
    <3>2. QED
      BY <2>1, <3>1 DEF Send, channel
  <2>2. CASE Receive(c)
    BY <2>2 DEF Receive, ReceiveAtOnce, channel
  <2>3. CASE Close(c)
    BY <2>3 DEF Close, channel
  <2>4. QED
    BY <1>1, <2>1, <2>2, <2>3 DEF Operation
<1>2. ASSUME NEW g \in Goroutines, Waiting(g) \/ Dispatch(g) \/ Return(g)
      PROVE  Moves \/ Quiet
  BY <1>2 DEF Waiting, ParkReceiver, ResumeReceive, ReceiveAtOnce, Dispatch, Return,
              channel
<1>3. Moves \/ Quiet
  BY <1>1, <1>2 DEF Next
<1>4. Moves => Fifo!Next
  BY TakeRefines, HandOffRefines, AppendRefines DEF Fifo!Next, Fifo!Close
<1>5. Quiet => UNCHANGED Fifo!vars
  BY DEF Fifo!vars
<1>6. QED
  BY <1>3, <1>4, <1>5

\* The channel is a FIFO that only the heap bounds and that accepts nothing once
\* it is closed.
THEOREM IsFifo == Spec => ImplementsFifo
<1>1. Init => Fifo!Init
  BY DEF Init, Fifo!Init
<1>2. IInv /\ [Next]_vars => [Fifo!Next]_(Fifo!vars)
  <2>1. ASSUME IInv, Next PROVE [Fifo!Next]_(Fifo!vars)
    BY <2>1, StepRefines
  <2>2. ASSUME UNCHANGED vars PROVE UNCHANGED Fifo!vars
    BY <2>2 DEF vars, channel, Fifo!vars
  <2>3. QED
    BY <2>1, <2>2
<1>3. QED
  BY <1>1, <1>2, Invariance, PTL DEF Spec, ImplementsFifo, Fifo!Spec

=============================================================================
