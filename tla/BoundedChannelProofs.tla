------------------------- MODULE BoundedChannelProofs -------------------------
(***************************************************************************)
(* BoundedChannel's safety properties and its refinement of FifoChannel,   *)
(* for any sets of goroutines, workers and tasks, any capacity and any     *)
(* number of operations.  The argument is the invariant IInv of            *)
(* BoundedChannelInvariant: one lemma per way in which a step changes the  *)
(* channel shows that it is kept, and every property follows from it.      *)
(***************************************************************************)
EXTENDS BoundedChannelInvariant, DataLemmas

-----------------------------------------------------------------------------
(***************************************************************************)
(* The ring.                                                               *)
(***************************************************************************)

\* The ring position of the i-th value from h on, and RingHoldsBacklog, as operators
\* without variables: the facts below are about the data only.
Pos(h, i) == IF h + i - 1 > Cap THEN h + i - 1 - Cap ELSE h + i - 1

Backlog(b, h, t, n, s, r) ==
  /\ Len(r) + n = Len(s)
  /\ \A i \in 1..Len(r) : r[i] = s[i]
  /\ \A i \in 1..n : b[Pos(h, i)] = s[Len(r) + i]
  /\ t = Pos(h, IF n = Cap THEN 1 ELSE n + 1)

LEMMA BacklogIsRing ==
  /\ RingHoldsBacklog <=> Backlog(buf, head, tail, count, sent, received)
  /\ RingHoldsBacklog' <=> Backlog(buf', head', tail', count', sent', received')
BY DEF RingHoldsBacklog, Backlog, At, Pos

LEMMA CapPositive == Cap \in Nat /\ Cap >= 1
BY ChannelAssumption DEF ChannelAssumption

\* Pos numbers the slots of the ring from h on, and Wrap goes to the next.
LEMMA PosFacts ==
  ASSUME NEW h \in 1..Cap
  PROVE  /\ \A i \in 1..Cap : Pos(h, i) \in 1..Cap
         /\ \A i, j \in 1..Cap : Pos(h, i) = Pos(h, j) => i = j
         /\ Pos(h, 1) = h
         /\ \A i \in 1..(Cap - 1) : Wrap(Pos(h, i)) = Pos(h, i + 1)
         /\ Wrap(Pos(h, Cap)) = h
         /\ Wrap(h) \in 1..Cap
BY CapPositive DEF Pos, Wrap

\* When the head moves on, every position moves up by one.
LEMMA PosMoves ==
  ASSUME NEW h \in 1..Cap
  PROVE  /\ \A i \in 1..(Cap - 1) : Pos(Wrap(h), i) = Pos(h, i + 1)
         /\ Pos(Wrap(h), Cap) = h
BY CapPositive DEF Pos, Wrap

\* A value that is stored comes after all the others in the ring.
LEMMA BacklogStore ==
  ASSUME NEW V, NEW b \in [1..Cap -> V], NEW h \in 1..Cap, NEW t \in 1..Cap,
         NEW n \in 0..(Cap - 1), NEW S, NEW s \in Seq(S), NEW r \in Seq(S),
         NEW v \in V \cap S, Backlog(b, h, t, n, s, r)
  PROVE  Backlog([b EXCEPT ![t] = v], h, Wrap(t), n + 1, Append(s, v), r)
<1> DEFINE bb == [b EXCEPT ![t] = v]
           ss == Append(s, v)
<1>1. /\ Len(r) + n = Len(s) /\ Len(r) \in Nat /\ Len(s) \in Nat /\ Cap \in Nat
      /\ n \in Nat /\ n < Cap
  BY CapPositive DEF Backlog
<1>2. t = Pos(h, n + 1)
  BY <1>1 DEF Backlog
<1>3. /\ Len(ss) = Len(s) + 1 /\ ss[Len(s) + 1] = v
      /\ \A i \in 1..Len(s) : ss[i] = s[i]
  OBVIOUS
<1>4. bb[t] = v /\ \A j \in 1..Cap : j # t => bb[j] = b[j]
  OBVIOUS
<1> HIDE DEF bb, ss
<1>5. \A i \in 1..(n + 1) : bb[Pos(h, i)] = ss[Len(r) + i]
  <2>1. bb[Pos(h, n + 1)] = ss[Len(r) + (n + 1)]
    <3>1. Len(r) + (n + 1) = Len(s) + 1
      BY <1>1
    <3>2. QED
      BY <1>2, <1>3, <1>4, <3>1
  <2>2. ASSUME NEW i \in 1..n PROVE bb[Pos(h, i)] = ss[Len(r) + i]
    <3>1. i \in 1..Cap /\ n + 1 \in 1..Cap /\ i # n + 1 /\ Len(r) + i \in 1..Len(s)
      BY <1>1
    <3>2. Pos(h, i) # t /\ Pos(h, i) \in 1..Cap
      BY <1>2, <3>1, PosFacts
    <3>3. b[Pos(h, i)] = s[Len(r) + i]
      BY DEF Backlog
    <3>4. QED
      BY <1>3, <1>4, <3>1, <3>2, <3>3
  <2>3. \A i \in 1..(n + 1) : i \in 1..n \/ i = n + 1
    BY <1>1
  <2>4. QED
    BY <2>1, <2>2, <2>3
<1>6. Wrap(t) = Pos(h, IF n + 1 = Cap THEN 1 ELSE (n + 1) + 1)
  <2>1. CASE n + 1 = Cap
    BY <1>2, <2>1, PosFacts
  <2>2. CASE n + 1 # Cap
    <3>1. n + 1 \in 1..(Cap - 1)
      BY <1>1, <2>2
    <3>2. QED
      BY <1>2, <2>2, <3>1, PosFacts
  <2>3. QED
    BY <2>1, <2>2
<1>7. \A i \in 1..Len(r) : r[i] = ss[i]
  <2>1. \A i \in 1..Len(r) : r[i] = s[i] /\ i \in 1..Len(s)
    BY <1>1 DEF Backlog
  <2>2. QED
    BY <1>3, <2>1
<1>8. Len(r) + (n + 1) = Len(ss)
  BY <1>1, <1>3
<1>9. QED
  BY <1>5, <1>6, <1>7, <1>8 DEF Backlog, bb, ss

\* A value is handed over while the ring is empty, so it overtakes none.
LEMMA BacklogHandOff ==
  ASSUME NEW b, NEW h, NEW t, NEW S, NEW s \in Seq(S), NEW r \in Seq(S),
         NEW v \in S, Backlog(b, h, t, 0, s, r)
  PROVE  Backlog(b, h, t, 0, Append(s, v), Append(r, v))
<1> DEFINE ss == Append(s, v)
           rr == Append(r, v)
<1>1. /\ Len(r) = Len(s) /\ Len(r) \in Nat
      /\ \A i \in 1..Len(r) : r[i] = s[i]
  BY DEF Backlog
<1>2. t = Pos(h, IF 0 = Cap THEN 1 ELSE 0 + 1)
  BY DEF Backlog
<1>3. /\ Len(ss) = Len(s) + 1 /\ ss[Len(s) + 1] = v
      /\ \A i \in 1..Len(s) : ss[i] = s[i]
      /\ Len(rr) = Len(r) + 1 /\ rr[Len(r) + 1] = v
      /\ \A i \in 1..Len(r) : rr[i] = r[i]
  OBVIOUS
<1> HIDE DEF ss, rr
<1>4. Len(rr) + 0 = Len(ss) /\ \A i \in 1..Len(rr) : rr[i] = ss[i]
  BY <1>1, <1>3
<1>5. \A i \in 1..0 : b[Pos(h, i)] = ss[Len(rr) + i]
  OBVIOUS
<1>6. Backlog(b, h, t, 0, ss, rr)
  BY <1>2, <1>4, <1>5 DEF Backlog
<1>7. QED
  BY <1>6 DEF ss, rr

\* The head of the ring is the oldest value not yet delivered; the next one is at
\* the head when it leaves.
LEMMA BacklogTake ==
  ASSUME NEW b, NEW h \in 1..Cap, NEW t,
         NEW n \in 1..Cap, NEW S, NEW s \in Seq(S), NEW r \in Seq(S),
         Backlog(b, h, t, n, s, r)
  PROVE  /\ b[h] = s[Len(r) + 1] /\ b[h] \in S
         /\ Len(r) + 1 \in 1..Len(s)
         /\ Backlog(b, Wrap(h), t, n - 1, s, Append(r, b[h]))
<1> DEFINE rr == Append(r, b[h])
<1>1. /\ Len(r) + n = Len(s) /\ Len(r) \in Nat /\ Len(s) \in Nat /\ Cap \in Nat
      /\ n \in Nat /\ n >= 1 /\ n <= Cap
  BY CapPositive DEF Backlog
<1>2. t = Pos(h, IF n = Cap THEN 1 ELSE n + 1)
  BY DEF Backlog
<1>3. b[h] = s[Len(r) + 1] /\ Len(r) + 1 \in 1..Len(s) /\ b[h] \in S
  <2>1. 1 \in 1..n /\ Len(r) + 1 \in 1..Len(s)
    BY <1>1
  <2>2. b[Pos(h, 1)] = s[Len(r) + 1]
    BY <2>1 DEF Backlog
  <2>3. s[Len(r) + 1] \in S
    BY <2>1
  <2>4. QED
    BY <2>1, <2>2, <2>3, PosFacts
<1>4. /\ Len(rr) = Len(r) + 1 /\ rr[Len(r) + 1] = b[h]
      /\ \A i \in 1..Len(r) : rr[i] = r[i]
  BY <1>3
<1> HIDE DEF rr
<1>5. \A i \in 1..Len(rr) : rr[i] = s[i]
  <2>1. \A i \in 1..Len(r) : r[i] = s[i]
    BY DEF Backlog
  <2>2. \A i \in 1..Len(rr) : i \in 1..Len(r) \/ i = Len(r) + 1
    BY <1>1, <1>4
  <2>3. QED
    BY <1>3, <1>4, <2>1, <2>2
<1>6. ASSUME NEW i \in 1..(n - 1) PROVE b[Pos(Wrap(h), i)] = s[Len(rr) + i]
  <2>1. i \in 1..(Cap - 1) /\ i + 1 \in 1..n /\ Len(rr) + i = Len(r) + (i + 1)
    BY <1>1, <1>4
  <2>2. b[Pos(h, i + 1)] = s[Len(r) + (i + 1)]
    BY <2>1 DEF Backlog
  <2>3. QED
    BY <2>1, <2>2, PosMoves
<1>7. t = Pos(Wrap(h), IF n - 1 = Cap THEN 1 ELSE (n - 1) + 1)
  <2>1. n - 1 # Cap /\ (n - 1) + 1 = n
    BY <1>1
  <2>2. CASE n = Cap
    BY <1>2, <2>1, <2>2, PosMoves, PosFacts
  <2>3. CASE n # Cap
    <3>1. n \in 1..(Cap - 1)
      BY <1>1, <2>3
    <3>2. QED
      BY <1>2, <2>1, <2>3, <3>1, PosMoves
  <2>4. QED
    BY <2>2, <2>3
<1>8. Len(rr) + (n - 1) = Len(s)
  BY <1>1, <1>4
<1>9. Backlog(b, Wrap(h), t, n - 1, s, rr)
  BY <1>5, <1>6, <1>7, <1>8 DEF Backlog
<1>10. QED
  BY <1>3, <1>9 DEF rr

\* What the invariant says of the value of a send that is starting, and of the
\* one a goroutine is inside.
LEMMA NextValueFacts ==
  ASSUME IInv, NEW c \in Callers, Begin(c)
  PROVE  /\ NextValue(c) \in Values /\ NextValue(c) \notin Range(sent)
         /\ outcome[NextValue(c)] = "none"
         /\ ops[c] + 1 \in 1..MaxOps
<1>1. ops[c] \in 0..MaxOps /\ ops[c] < MaxOps /\ MaxOps \in Nat
  BY ChannelAssumption DEF ChannelAssumption, IInv, TypeOK, Begin
<1>2. ops[c] + 1 \in 1..MaxOps /\ ops[c] + 1 \in (ops[c] + 1)..MaxOps
  BY <1>1
<1>3. outcome[NextValue(c)] = "none"
  BY <1>2 DEF IInv, OutcomesPending, NextValue
<1>4. NextValue(c) \notin Range(sent)
  BY <1>2, <1>3 DEF IInv, SentOnce, Promoted, Begin, NextValue
<1>5. QED
  BY <1>2, <1>3, <1>4 DEF NextValue, Values

LEMMA OwnValueFacts ==
  ASSUME IInv, NEW c \in Callers, pc[c] \in {"sending", "sendParked"}
  PROVE  /\ c \in Goroutines /\ OwnValue(c) \in Values /\ ops[c] \in 1..MaxOps
         /\ outcome[OwnValue(c)] = "none"
         /\ OwnValue(c) \in Range(sent) <=> Promoted(c)
<1>1. ops[c] \in 1..MaxOps /\ outcome[OwnValue(c)] = "none"
  BY ChannelAssumption DEF ChannelAssumption, IInv, TypeOK, OutcomesPending
<1>2. c \in Goroutines
  BY DEF IInv, TasksIdle
<1>3. QED
  BY <1>1, <1>2 DEF IInv, SentOnce, OwnValue, Values

\* The ring of a state that satisfies the invariant, with the facts of BacklogTake.
LEMMA HeadOfRing ==
  ASSUME IInv, count > 0
  PROVE  /\ buf[head] \in Values /\ buf[head] \in Range(sent)
         /\ buf[head] \notin Range(received)
         /\ Backlog(buf, Wrap(head), tail, count - 1, sent, Append(received, buf[head]))
<1>1. /\ head \in 1..Cap /\ count \in 1..Cap
      /\ sent \in Seq(Values) /\ received \in Seq(Values)
  BY DEF IInv, TypeOK
<1>2. Backlog(buf, head, tail, count, sent, received)
  BY BacklogIsRing DEF IInv
<1>3. /\ buf[head] = sent[Len(received) + 1] /\ buf[head] \in Values
      /\ Len(received) + 1 \in 1..Len(sent)
      /\ Backlog(buf, Wrap(head), tail, count - 1, sent, Append(received, buf[head]))
  BY <1>1, <1>2, BacklogTake
<1>4. buf[head] \in Range(sent)
  BY <1>1, <1>3 DEF Range
<1>5. buf[head] \notin Range(received)
  <2>1. ASSUME NEW i \in 1..Len(received) PROVE received[i] # buf[head]
    <3>1. received[i] = sent[i]
      BY <1>2 DEF Backlog
    <3>2. /\ i \in DOMAIN sent /\ Len(received) + 1 \in DOMAIN sent
          /\ i # Len(received) + 1
      BY <1>1, <1>3
    <3>3. sent[i] # sent[Len(received) + 1]
      BY <3>2 DEF IInv, SentOnce, IsInjective
    <3>4. QED
      BY <1>3, <3>1, <3>3
  <2>2. QED
    BY <1>1, <2>1 DEF Range
<1>6. QED
  BY <1>3, <1>4, <1>5

\* What was delivered was accepted; an empty ring means that all of it was.
LEMMA ReceivedOfSent ==
  ASSUME TypeOK, RingHoldsBacklog
  PROVE  /\ Range(received) \subseteq Range(sent)
         /\ count = 0 => received = sent
         /\ received = sent => count = 0
<1>1. /\ sent \in Seq(Values) /\ received \in Seq(Values) /\ count \in Nat
      /\ Len(received) + count = Len(sent)
      /\ \A i \in 1..Len(received) : received[i] = sent[i]
      /\ Len(received) \in Nat /\ Len(sent) \in Nat
  BY CapPositive DEF TypeOK, RingHoldsBacklog
<1>2. \A i \in 1..Len(received) : i \in 1..Len(sent)
  BY <1>1
<1>3. Range(received) \subseteq Range(sent)
  BY <1>1, <1>2 DEF Range
<1>4. count = 0 => received = sent
  BY <1>1
<1>5. received = sent => count = 0
  BY <1>1
<1>6. QED
  BY <1>3, <1>4, <1>5

-----------------------------------------------------------------------------
(***************************************************************************)
(* Parts of the invariant that several kinds of step keep alike.           *)
(***************************************************************************)

\* An operation that starts counts itself and decides on no value but its own.
LEMMA BeginKeeps ==
  ASSUME IInv, NEW c \in Callers, Begin(c),
         \/ pc' = pc /\ outcome' = outcome
         \/ pc' = pc /\ \E how \in Outcome : EndsAs(NextValue(c), how)
         \/ /\ c \in Goroutines /\ outcome' = outcome
            /\ \E p \in {"sending", "receiving"} : GoesTo(c, p)
  PROVE  /\ ops' \in [Callers -> 0..MaxOps] /\ outcome' \in [Values -> Outcome]
         /\ pc' \in [Callers -> CallerPC]
         /\ TasksIdle' /\ OutcomesPending'
<1>1. /\ NextValue(c) \in Values /\ outcome[NextValue(c)] = "none"
      /\ ops[c] + 1 \in 1..MaxOps /\ MaxOps \in Nat
  BY NextValueFacts, ChannelAssumption DEF ChannelAssumption
<1>2. /\ ops \in [Callers -> 0..MaxOps] /\ outcome \in [Values -> Outcome]
      /\ pc \in [Callers -> CallerPC]
      /\ ops' = [ops EXCEPT ![c] = @ + 1] /\ pc[c] = "idle"
  BY DEF IInv, TypeOK, Begin
<1>3. ops' \in [Callers -> 0..MaxOps]
  BY <1>1, <1>2
<1>4. outcome' \in [Values -> Outcome]
  BY <1>1, <1>2 DEF EndsAs
<1>5. pc' \in [Callers -> CallerPC] /\ TasksIdle'
  BY <1>2 DEF IInv, TasksIdle, GoesTo, CallerPC
<1>6. ASSUME NEW d \in Callers, NEW n \in (ops'[d] + 1)..MaxOps
      PROVE  outcome'[<<d, n>>] = "none"
  <2>1. n \in (ops[d] + 1)..MaxOps /\ n \in 1..MaxOps /\ (d = c => n # ops[c] + 1)
    BY <1>1, <1>2
  <2>2. <<d, n>> \in Values /\ <<d, n>> # NextValue(c) /\ outcome[<<d, n>>] = "none"
    BY <2>1 DEF Values, NextValue, IInv, OutcomesPending
  <2>3. QED
    BY <1>2, <2>2 DEF EndsAs
<1>7. ASSUME NEW d \in Callers, pc'[d] \in {"sending", "sendParked"}
      PROVE  ops'[d] >= 1 /\ outcome'[<<d, ops'[d]>>] = "none"
  <2>1. CASE d = c
    <3>1. outcome' = outcome /\ ops'[d] = ops[c] + 1
      BY <1>2, <1>7, <2>1
    <3>2. QED
      BY <1>1, <2>1, <3>1 DEF NextValue
  <2>2. CASE d # c
    <3>1. pc'[d] = pc[d] /\ ops'[d] = ops[d]
      BY <1>2, <2>2 DEF GoesTo
    <3>2. /\ ops[d] >= 1 /\ ops[d] \in 1..MaxOps /\ outcome[<<d, ops[d]>>] = "none"
      BY <1>1, <1>2, <1>7, <3>1 DEF IInv, OutcomesPending, OwnValue
    <3>3. <<d, ops[d]>> \in Values /\ <<d, ops[d]>> # NextValue(c)
      BY <2>2, <3>2 DEF Values, NextValue
    <3>4. QED
      BY <1>2, <3>1, <3>2, <3>3 DEF EndsAs
  <2>3. QED
    BY <2>1, <2>2
<1>8. OutcomesPending'
  BY <1>6, <1>7 DEF OutcomesPending, OwnValue
<1>9. QED
  BY <1>3, <1>4, <1>5, <1>8

\* Who waits in a list is not the one whose operation starts.
LEMMA WaitersNotBegun ==
  ASSUME IInv, NEW c \in Callers, Begin(c)
  PROVE  \A h \in Range(senders) : ops'[h] = ops[h]
<1>1. ASSUME NEW h \in Range(senders) PROVE ops'[h] = ops[h]
  <2>1. h \in Goroutines /\ pc[h] = "sendParked"
    BY DEF IInv, TypeOK, Range, WaitersAreBlocked
  <2>2. QED
    BY <2>1 DEF IInv, TypeOK, Begin, Callers
<1>2. QED
  BY <1>1

\* A send that succeeds at once puts a new value in the channel.
LEMMA SentAtOnce ==
  ASSUME IInv, NEW c \in Callers, Begin(c), EndsAs(NextValue(c), "sent"),
         sent' = Append(sent, NextValue(c)),
         \A d \in Callers : Promoted(d)' <=> Promoted(d)
  PROVE  SentOnce'
<1>1. /\ NextValue(c) \in Values /\ NextValue(c) \notin Range(sent)
      /\ outcome \in [Values -> Outcome] /\ sent \in Seq(Values)
      /\ ops \in [Callers -> 0..MaxOps]
  BY NextValueFacts DEF IInv, TypeOK
<1>2. /\ outcome' = [outcome EXCEPT ![NextValue(c)] = "sent"]
      /\ ops' = [ops EXCEPT ![c] = @ + 1] /\ pc[c] = "idle"
  BY DEF EndsAs, Begin
<1>3. IsInjective(sent') /\ Range(sent') = Range(sent) \cup {NextValue(c)}
  BY <1>1, InjectiveAppend, RangeAppend DEF IInv, SentOnce
<1>4. ASSUME NEW d \in Callers, NEW n \in 1..MaxOps
      PROVE  <<d, n>> \in Range(sent') <=>
               outcome'[<<d, n>>] = "sent" \/ (Promoted(d)' /\ n = ops'[d])
  <2>1. /\ <<d, n>> \in Values
        /\ <<d, n>> \in Range(sent) <=>
             outcome[<<d, n>>] = "sent" \/ (Promoted(d) /\ n = ops[d])
    BY DEF Values, IInv, SentOnce
  <2>2. d = c => ~Promoted(d)
    BY <1>2 DEF Promoted
  <2>3. d # c => ops'[d] = ops[d]
    BY <1>1, <1>2
  <2>4. CASE <<d, n>> = NextValue(c)
    BY <1>1, <1>2, <1>3, <2>4
  <2>5. CASE <<d, n>> # NextValue(c)
    BY <1>1, <1>2, <1>3, <2>1, <2>2, <2>3, <2>5
  <2>6. QED
    BY <2>4, <2>5
<1>5. QED
  BY <1>3, <1>4 DEF SentOnce

\* One more value is delivered, to one caller, and nobody's others change.
LEMMA HolderGains ==
  ASSUME IInv, NEW v \in Values, Range(received') = Range(received) \cup {v},
         \E c \in Callers : Holders(v)' = {c},
         \A u \in Values \ {v} : Holders(u)' = Holders(u)
  PROVE  OneHolder'
<1>1. ASSUME NEW u \in Values
      PROVE  IF u \in Range(received') THEN \E c \in Callers : Holders(u)' = {c}
                                       ELSE Holders(u)' = {}
  <2>1. CASE u = v
    BY <2>1
  <2>2. CASE u # v
    BY <2>2 DEF IInv, OneHolder
  <2>3. QED
    BY <2>1, <2>2
<1>2. QED
  BY <1>1 DEF OneHolder

LEMMA HoldersStay ==
  ASSUME IInv, received' = received, \A u \in Values : Holders(u)' = Holders(u)
  PROVE  OneHolder'
BY DEF IInv, OneHolder

-----------------------------------------------------------------------------
(***************************************************************************)
(* One lemma per way in which a step changes the state.                    *)
(***************************************************************************)

\* A send hands its value to the oldest waiting receiver.
LEMMA HandOffKeeps ==
  ASSUME IInv, NEW c \in Callers, Begin(c), NEW v, v = NextValue(c),
         HandOff(v), EndsAs(v, "sent"), UNCHANGED <<pc, got, eof>>
  PROVE  IInv'
<1> DEFINE g == Head(receivers)
<1>1. /\ v \in Values /\ v \notin Range(sent) /\ ops[c] + 1 \in 1..MaxOps
  BY NextValueFacts
<1>2. /\ ~closed /\ receivers # <<>> /\ count = 0 /\ receivers \in Seq(Goroutines)
      /\ UNCHANGED <<ring, closed, senders, pc, got, eof>>
      /\ ops' = [ops EXCEPT ![c] = @ + 1] /\ pc[c] = "idle"
      /\ receivers' = Tail(receivers)
      /\ slot' = [slot EXCEPT ![g].value = v, ![g].ok = TRUE]
      /\ status' = [h \in Goroutines |-> IF h \in {g} THEN "runnable" ELSE status[h]]
      /\ status[g] = "blocked"
      /\ sent' = Append(sent, v) /\ received' = Append(received, v)
  BY DEF IInv, TypeOK, WaitersAreBlocked, Begin, HandOff, Sched!Wake
<1>3. /\ g \in Goroutines /\ receivers' \in Seq(Goroutines)
      /\ Range(receivers) = Range(receivers') \cup {g}
      /\ g \notin Range(receivers') /\ IsInjective(receivers')
      /\ pc[g] = "recvParked"
  BY <1>2, RangeTail, InjectiveTail DEF IInv, WaitersAreBlocked
<1>4. /\ sent' \in Seq(Values) /\ Range(sent') = Range(sent) \cup {v}
      /\ received' \in Seq(Values) /\ Range(received') = Range(received) \cup {v}
  BY <1>1, <1>2, RangeAppend DEF IInv, TypeOK
<1>5. /\ ops' \in [Callers -> 0..MaxOps] /\ outcome' \in [Values -> Outcome]
      /\ TasksIdle' /\ OutcomesPending'
  BY BeginKeeps DEF Outcome
<1> HIDE DEF g
<1>6. /\ slot' \in [Goroutines -> [value : Values \cup {NoValue}, ok : BOOLEAN,
                                   closedOnWake : BOOLEAN]]
      /\ slot'[g].value = v /\ slot'[g].ok = TRUE
      /\ \A h \in Goroutines : h # g => slot'[h] = slot[h]
  BY <1>1, <1>2, <1>3 DEF IInv, TypeOK
<1>7. /\ status' \in [Goroutines -> Sched!Statuses] /\ status'[g] = "runnable"
      /\ \A h \in Goroutines : h # g => status'[h] = status[h]
  BY <1>2, <1>3 DEF IInv, TypeOK, Sched!Statuses
<1>8. TypeOK'
  BY <1>2, <1>3, <1>4, <1>5, <1>6, <1>7 DEF IInv, TypeOK, ring
<1>9. RingHoldsBacklog'
  BY <1>1, <1>2, BacklogIsRing, BacklogHandOff DEF IInv, TypeOK, ring
<1>10. WaitersAreBlocked'
  BY <1>2, <1>3, <1>7 DEF IInv, WaitersAreBlocked, ring
<1>11. SentOnce'
  <2>1. \A d \in Callers : Promoted(d)' <=> Promoted(d)
    BY <1>2, <1>3, <1>6, <1>7 DEF Promoted, IInv, TasksIdle
  <2>2. QED
    BY <1>2, <2>1, SentAtOnce
<1>12. SenderSlots'
  <2>1. ASSUME NEW h \in Range(senders) PROVE slot'[h] = slot[h]
    <3>1. h \in Goroutines /\ pc[h] = "sendParked"
      BY DEF IInv, TypeOK, Range, WaitersAreBlocked
    <3>2. QED
      BY <1>3, <1>6, <3>1
  <2>2. QED
    BY <1>2, <2>1, WaitersNotBegun DEF IInv, SenderSlots, OwnValue
<1>13. ReceiverSlots'
  BY <1>1, <1>2, <1>3, <1>6, <1>7 DEF IInv, ReceiverSlots, ring
<1>14. OneHolder'
  <2>1. v \notin Range(received)
    BY <1>1, ReceivedOfSent DEF IInv
  <2>2. Holders(v) = {}
    BY <1>1, <2>1 DEF IInv, OneHolder
  <2>3. Holders(v)' = {g} /\ g \in Callers
    <3>1. /\ g \in Callers /\ \A d \in Callers : v \notin got'[d]
          /\ \A h \in Goroutines \ {g} :
               ~(pc'[h] = "recvParked" /\ status'[h] # "blocked" /\ slot'[h].ok
                 /\ slot'[h].value = v)
      BY <1>2, <1>3, <1>6, <1>7, <2>2 DEF Holders, Callers
    <3>2. /\ pc'[g] = "recvParked" /\ status'[g] # "blocked" /\ slot'[g].ok
          /\ slot'[g].value = v
      BY <1>2, <1>3, <1>6, <1>7
    <3>3. QED
      BY <1>3, <3>1, <3>2 DEF Holders
  <2>4. \A u \in Values \ {v} : Holders(u)' = Holders(u)
    BY <1>2, <1>3, <1>6, <1>7 DEF Holders
  <2>5. QED
    BY <1>1, <1>4, <2>3, <2>4, HolderGains
<1>15. EndOfStream'
  BY <1>2 DEF IInv, EndOfStream
<1>16. QED
  BY <1>5, <1>8, <1>9, <1>10, <1>11, <1>12, <1>13, <1>14, <1>15 DEF IInv

\* A send stores its value in the ring.
LEMMA StoreKeeps ==
  ASSUME IInv, NEW c \in Callers, Begin(c), NEW v, v = NextValue(c),
         Store(v), EndsAs(v, "sent"), UNCHANGED <<pc, got, eof>>
  PROVE  IInv'
<1>1. v \in Values /\ v \notin Range(sent)
  BY NextValueFacts
<1>2. /\ ~closed /\ receivers = <<>> /\ count \in 0..(Cap - 1)
      /\ head \in 1..Cap /\ tail \in 1..Cap
      /\ UNCHANGED <<head, closed, senders, receivers, slot, status, received,
                     pc, got, eof>>
      /\ ops' = [ops EXCEPT ![c] = @ + 1] /\ pc[c] = "idle"
      /\ buf' = [buf EXCEPT ![tail] = v] /\ tail' = Wrap(tail)
      /\ count' = count + 1 /\ sent' = Append(sent, v)
  BY CapPositive DEF IInv, TypeOK, Begin, Store
<1>3. sent' \in Seq(Values) /\ Range(sent') = Range(sent) \cup {v}
  BY <1>1, <1>2, RangeAppend DEF IInv, TypeOK
<1>4. /\ ops' \in [Callers -> 0..MaxOps] /\ outcome' \in [Values -> Outcome]
      /\ TasksIdle' /\ OutcomesPending'
  BY <1>2, BeginKeeps DEF Outcome
<1>5. TypeOK'
  <2>1. /\ buf' \in [1..Cap -> Values \cup {NoValue}]
        /\ tail' \in 1..Cap /\ count' \in 0..Cap
    BY <1>1, <1>2, PosFacts, CapPositive DEF IInv, TypeOK
  <2>2. QED
    BY <1>2, <1>3, <1>4, <2>1 DEF IInv, TypeOK
<1>6. RingHoldsBacklog'
  <2>1. Backlog(buf', head, tail', count', sent', received)
    <3>1. /\ buf \in [1..Cap -> Values \cup {NoValue}]
          /\ sent \in Seq(Values) /\ received \in Seq(Values)
          /\ v \in (Values \cup {NoValue}) \cap Values
      BY <1>1 DEF IInv, TypeOK
    <3>2. Backlog(buf, head, tail, count, sent, received)
      BY BacklogIsRing DEF IInv
    <3>3. Backlog([buf EXCEPT ![tail] = v], head, Wrap(tail), count + 1,
                  Append(sent, v), received)
      BY <1>2, <3>1, <3>2, BacklogStore
    <3>4. QED
      BY <1>2, <3>3
  <2>2. QED
    BY <1>2, <2>1, BacklogIsRing
<1>7. WaitersAreBlocked'
  BY <1>2 DEF IInv, WaitersAreBlocked
<1>8. SentOnce'
  <2>1. \A d \in Callers : Promoted(d)' <=> Promoted(d)
    BY <1>2 DEF Promoted
  <2>2. QED
    BY <1>2, <2>1, SentAtOnce
<1>9. SenderSlots'
  BY <1>2, WaitersNotBegun DEF IInv, SenderSlots, OwnValue
<1>10. ReceiverSlots'
  BY <1>2 DEF IInv, ReceiverSlots
<1>11. OneHolder'
  <2>1. \A u \in Values : Holders(u)' = Holders(u)
    BY <1>2 DEF Holders
  <2>2. QED
    BY <1>2, <2>1, HoldersStay
<1>12. EndOfStream'
  BY <1>2 DEF IInv, EndOfStream
<1>13. QED
  BY <1>4, <1>5, <1>6, <1>7, <1>8, <1>9, <1>10, <1>11, <1>12 DEF IInv

\* An operation starts and leaves the channel as it is: it ends without effect, it
\* finds the end of the stream, or it has to wait and is in the gap.
LEMMA QuietBeginKeeps ==
  ASSUME IInv, NEW c \in Callers, Begin(c), UNCHANGED <<channel, got>>,
         \/ pc' = pc /\ outcome' = outcome
         \/ pc' = pc /\ \E how \in {"closed", "refused"} : EndsAs(NextValue(c), how)
         \/ /\ c \in Goroutines /\ outcome' = outcome
            /\ \E p \in {"sending", "receiving"} : GoesTo(c, p),
         eof' = eof \/ (eof' = TRUE /\ count = 0 /\ closed)
  PROVE  IInv'
<1>1. /\ NextValue(c) \in Values /\ NextValue(c) \notin Range(sent)
      /\ outcome[NextValue(c)] = "none"
  BY NextValueFacts
<1>2. /\ UNCHANGED <<buf, head, tail, count, closed, senders, receivers, slot,
                     status, sent, received, got>>
      /\ ops' = [ops EXCEPT ![c] = @ + 1] /\ pc[c] = "idle"
      /\ pc \in [Callers -> CallerPC]
  BY DEF IInv, TypeOK, Begin, channel, ring
<1>3. /\ ops' \in [Callers -> 0..MaxOps] /\ outcome' \in [Values -> Outcome]
      /\ pc' \in [Callers -> CallerPC] /\ TasksIdle' /\ OutcomesPending'
  BY BeginKeeps DEF Outcome
<1>4. /\ pc'[c] \notin {"sendParked", "recvParked"}
      /\ \A d \in Callers : d # c => pc'[d] = pc[d]
  BY <1>2 DEF GoesTo
<1>5. TypeOK'
  BY <1>2, <1>3 DEF IInv, TypeOK
<1>6. RingHoldsBacklog'
  BY <1>2, BacklogIsRing DEF IInv
<1>7. WaitersAreBlocked'
  BY <1>2, <1>4 DEF IInv, WaitersAreBlocked, Callers
<1>8. SentOnce'
  <2>1. \A d \in Callers : Promoted(d)' <=> Promoted(d)
    BY <1>2, <1>4 DEF Promoted
  <2>2. \A d \in Callers : Promoted(d) => ops'[d] = ops[d]
    BY <1>2 DEF Promoted, IInv, TypeOK
  <2>3. \A u \in Values : outcome'[u] = "sent" <=> outcome[u] = "sent"
    BY <1>1 DEF IInv, TypeOK, EndsAs
  <2>4. ASSUME NEW d \in Callers, NEW n \in 1..MaxOps
        PROVE  <<d, n>> \in Range(sent') <=>
                 outcome'[<<d, n>>] = "sent" \/ (Promoted(d)' /\ n = ops'[d])
    BY <1>2, <2>1, <2>2, <2>3 DEF IInv, SentOnce, Values
  <2>5. QED
    BY <1>2, <2>4 DEF IInv, SentOnce
<1>9. SenderSlots'
  BY <1>2, WaitersNotBegun DEF IInv, SenderSlots, OwnValue
<1>10. ReceiverSlots'
  BY <1>2, <1>4 DEF IInv, ReceiverSlots, Callers
<1>11. OneHolder'
  <2>1. \A u \in Values : Holders(u)' = Holders(u)
    BY <1>2, <1>4 DEF Holders, Callers
  <2>2. QED
    BY <1>2, <2>1, HoldersStay
<1>12. EndOfStream'
  BY <1>2, ReceivedOfSent DEF IInv, EndOfStream
<1>13. QED
  BY <1>3, <1>5, <1>6, <1>7, <1>8, <1>9, <1>10, <1>11, <1>12 DEF IInv

\* What a receive that does not wait, or a registration that finds the channel
\* closed, does to the operation it belongs to.
EndsOperation(c) ==
  \/ Begin(c) /\ pc' = pc
  \/ /\ CanStep(c) /\ pc[c] \in {"sending", "receiving"} /\ GoesTo(c, "idle")
     /\ UNCHANGED ops

LEMMA EndFacts ==
  ASSUME IInv, NEW c \in Callers, EndsOperation(c),
         \/ outcome' = outcome /\ pc[c] # "sending"
         \/ pc[c] = "sending" /\ EndsAs(OwnValue(c), "closed")
  PROVE  /\ ops' \in [Callers -> 0..MaxOps] /\ outcome' \in [Values -> Outcome]
         /\ pc' \in [Callers -> CallerPC]
         /\ TasksIdle' /\ OutcomesPending'
         /\ pc[c] \notin {"sendParked", "recvParked"} /\ pc'[c] = "idle"
         /\ \A d \in Callers : d # c => pc'[d] = pc[d] /\ ops'[d] = ops[d]
         /\ \A u \in Values : outcome'[u] = "sent" <=> outcome[u] = "sent"
         /\ c \in Goroutines => status[c] = "running"
<1>1. /\ ops \in [Callers -> 0..MaxOps] /\ outcome \in [Values -> Outcome]
      /\ pc \in [Callers -> CallerPC] /\ MaxOps \in Nat
  BY ChannelAssumption DEF ChannelAssumption, IInv, TypeOK
<1>2. c \in Goroutines => status[c] = "running"
  BY DEF EndsOperation, Begin, CanStep
<1>3. CASE Begin(c) /\ pc' = pc
  <2>1. pc[c] = "idle" /\ ops' = [ops EXCEPT ![c] = @ + 1] /\ outcome' = outcome
    BY <1>3 DEF Begin
  <2>2. QED
    BY <1>1, <1>2, <1>3, <2>1, BeginKeeps
<1>4. CASE /\ pc[c] \in {"sending", "receiving"} /\ GoesTo(c, "idle")
           /\ UNCHANGED ops
  <2>1. /\ pc' \in [Callers -> CallerPC] /\ pc'[c] = "idle"
        /\ \A d \in Callers : d # c => pc'[d] = pc[d]
    BY <1>1, <1>4 DEF GoesTo, CallerPC
  <2>2. TasksIdle'
    BY <2>1 DEF IInv, TasksIdle
  <2>3. /\ outcome' \in [Values -> Outcome]
        /\ \A u \in Values : u # OwnValue(c) => outcome'[u] = outcome[u]
        /\ \A u \in Values : outcome'[u] = "sent" <=> outcome[u] = "sent"
    BY <1>1, <1>4, OwnValueFacts DEF EndsAs, Outcome
  <2>4. ASSUME NEW d \in Callers, NEW n \in (ops[d] + 1)..MaxOps
        PROVE  outcome'[<<d, n>>] = "none"
    <3>1. n \in 1..MaxOps /\ n # ops[d]
      BY <1>1
    <3>2. <<d, n>> \in Values /\ <<d, n>> # OwnValue(c)
      BY <3>1 DEF Values, OwnValue
    <3>3. QED
      BY <2>3, <3>2 DEF IInv, OutcomesPending
  <2>5. ASSUME NEW d \in Callers, pc'[d] \in {"sending", "sendParked"}
        PROVE  ops[d] >= 1 /\ outcome'[<<d, ops[d]>>] = "none"
    <3>1. d # c /\ pc[d] \in {"sending", "sendParked"}
      BY <2>1, <2>5
    <3>2. /\ ops[d] >= 1 /\ <<d, ops[d]>> \in Values
          /\ outcome[<<d, ops[d]>>] = "none"
      BY <1>1, <3>1, OwnValueFacts DEF OwnValue
    <3>3. <<d, ops[d]>> # OwnValue(c)
      BY <3>1 DEF OwnValue
    <3>4. QED
      BY <2>3, <3>2, <3>3
  <2>6. OutcomesPending'
    BY <1>4, <2>4, <2>5 DEF OutcomesPending, OwnValue
  <2>7. QED
    BY <1>1, <1>2, <1>4, <2>1, <2>2, <2>3, <2>6
<1>5. QED
  BY <1>3, <1>4 DEF EndsOperation

\* An operation ends after the gap without touching the channel: Close came
\* between, or nothing is left to receive.
LEMMA QuietEndKeeps ==
  ASSUME IInv, NEW c \in Callers, EndsOperation(c), UNCHANGED <<channel, got>>,
         \/ outcome' = outcome /\ pc[c] # "sending"
         \/ pc[c] = "sending" /\ EndsAs(OwnValue(c), "closed"),
         eof' = eof \/ (eof' = TRUE /\ count = 0 /\ closed)
  PROVE  IInv'
<1>1. UNCHANGED <<buf, head, tail, count, closed, senders, receivers, slot,
                  status, sent, received, got>>
  BY DEF channel, ring
<1>2. /\ ops' \in [Callers -> 0..MaxOps] /\ outcome' \in [Values -> Outcome]
      /\ pc' \in [Callers -> CallerPC]
      /\ TasksIdle' /\ OutcomesPending'
      /\ pc[c] \notin {"sendParked", "recvParked"} /\ pc'[c] = "idle"
      /\ \A d \in Callers : d # c => pc'[d] = pc[d] /\ ops'[d] = ops[d]
      /\ \A u \in Values : outcome'[u] = "sent" <=> outcome[u] = "sent"
  BY EndFacts
<1>3. TypeOK'
  BY <1>1, <1>2 DEF IInv, TypeOK
<1>4. RingHoldsBacklog'
  BY <1>1, BacklogIsRing DEF IInv
<1>5. WaitersAreBlocked'
  BY <1>1, <1>2 DEF IInv, WaitersAreBlocked, Callers
<1>6. SentOnce'
  <2>1. \A d \in Callers : Promoted(d)' <=> Promoted(d)
    BY <1>1, <1>2 DEF Promoted
  <2>2. ASSUME NEW d \in Callers, NEW n \in 1..MaxOps
        PROVE  <<d, n>> \in Range(sent') <=>
                 outcome'[<<d, n>>] = "sent" \/ (Promoted(d)' /\ n = ops'[d])
    <3>1. Promoted(d) => ops'[d] = ops[d]
      BY <1>2 DEF Promoted
    <3>2. QED
      BY <1>1, <1>2, <2>1, <3>1 DEF IInv, SentOnce, Values
  <2>3. QED
    BY <1>1, <2>2 DEF IInv, SentOnce
<1>7. SenderSlots'
  <2>1. \A h \in Range(senders) : ops'[h] = ops[h]
    BY <1>2 DEF IInv, TypeOK, Range, WaitersAreBlocked, Callers
  <2>2. QED
    BY <1>1, <2>1 DEF IInv, SenderSlots, OwnValue
<1>8. ReceiverSlots'
  BY <1>1, <1>2 DEF IInv, ReceiverSlots, Callers
<1>9. OneHolder'
  <2>1. \A u \in Values : Holders(u)' = Holders(u)
    BY <1>1, <1>2 DEF Holders, Callers
  <2>2. QED
    BY <1>1, <2>1, HoldersStay
<1>10. EndOfStream'
  BY <1>1, ReceivedOfSent DEF IInv, EndOfStream
<1>11. QED
  BY <1>2, <1>3, <1>4, <1>5, <1>6, <1>7, <1>8, <1>9, <1>10 DEF IInv

\* A goroutine in the gap joins a waiting list and blocks: what the two kinds of
\* registration change alike.
LEMMA ParkFacts ==
  ASSUME IInv, NEW c \in Goroutines, CanStep(c),
         NEW p \in {"sendParked", "recvParked"},
         pc[c] = (IF p = "sendParked" THEN "sending" ELSE "receiving"),
         GoesTo(c, p), Sched!Block(c), UNCHANGED <<ops, outcome>>
  PROVE  /\ c \in Callers
         /\ pc' \in [Callers -> CallerPC] /\ pc'[c] = p
         /\ \A d \in Callers : d # c => pc'[d] = pc[d]
         /\ status' \in [Goroutines -> Sched!Statuses] /\ status'[c] = "blocked"
         /\ \A h \in Goroutines : h # c => status'[h] = status[h]
         /\ TasksIdle' /\ OutcomesPending'
         /\ c \notin Range(senders) /\ c \notin Range(receivers)
<1>1. /\ c \in Callers /\ status[c] = "running"
      /\ pc \in [Callers -> CallerPC] /\ status \in [Goroutines -> Sched!Statuses]
  BY DEF IInv, TypeOK, Callers, CanStep
<1>2. /\ pc' \in [Callers -> CallerPC] /\ pc'[c] = p
      /\ \A d \in Callers : d # c => pc'[d] = pc[d]
  BY <1>1 DEF GoesTo, CallerPC
<1>3. /\ status' \in [Goroutines -> Sched!Statuses] /\ status'[c] = "blocked"
      /\ \A h \in Goroutines : h # c => status'[h] = status[h]
  BY <1>1 DEF Sched!Block, Sched!Statuses
<1>4. TasksIdle'
  BY <1>2 DEF IInv, TasksIdle
<1>5. \A d \in Callers : pc'[d] \in {"sending", "sendParked"} =>
                           pc[d] \in {"sending", "sendParked"}
  BY <1>2
<1>6. OutcomesPending'
  BY <1>5 DEF IInv, OutcomesPending, OwnValue
<1>7. c \notin Range(senders) /\ c \notin Range(receivers)
  BY <1>1 DEF IInv, WaitersAreBlocked
<1>8. QED
  BY <1>1, <1>2, <1>3, <1>4, <1>6, <1>7

\* A sender registers after the gap.
LEMMA ParkSenderKeeps ==
  ASSUME IInv, NEW c \in Goroutines, ParkSender(c), ~closed
  PROVE  IInv'
<1>1. /\ CanStep(c) /\ pc[c] = "sending" /\ status[c] = "running"
      /\ slot' = [slot EXCEPT ![c] = [NoSlot EXCEPT !.value = OwnValue(c)]]
      /\ senders' = Append(senders, c) /\ Sched!Block(c) /\ GoesTo(c, "sendParked")
      /\ UNCHANGED <<buf, head, tail, count, closed, receivers, sent, received,
                     outcome, ops, got, eof>>
  BY DEF ParkSender, ring, CanStep
<1>2. /\ c \in Callers
      /\ pc' \in [Callers -> CallerPC] /\ pc'[c] = "sendParked"
      /\ \A d \in Callers : d # c => pc'[d] = pc[d]
      /\ status' \in [Goroutines -> Sched!Statuses] /\ status'[c] = "blocked"
      /\ \A h \in Goroutines : h # c => status'[h] = status[h]
      /\ TasksIdle' /\ OutcomesPending'
      /\ c \notin Range(senders) /\ c \notin Range(receivers)
  BY <1>1, ParkFacts
<1>3. /\ OwnValue(c) \in Values
      /\ OwnValue(c) \in Range(sent) <=> Promoted(c)
  BY <1>1, <1>2, OwnValueFacts
<1>4. /\ slot' \in [Goroutines -> [value : Values \cup {NoValue}, ok : BOOLEAN,
                                   closedOnWake : BOOLEAN]]
      /\ slot'[c].value = OwnValue(c) /\ ~slot'[c].closedOnWake
      /\ \A h \in Goroutines : h # c => slot'[h] = slot[h]
  BY <1>1, <1>3 DEF IInv, TypeOK, NoSlot
<1>5. /\ senders' \in Seq(Goroutines) /\ Range(senders') = Range(senders) \cup {c}
      /\ IsInjective(senders')
  BY <1>1, <1>2, RangeAppend, InjectiveAppend DEF IInv, TypeOK, WaitersAreBlocked
<1>6. TypeOK'
  BY <1>1, <1>2, <1>4, <1>5 DEF IInv, TypeOK
<1>7. RingHoldsBacklog'
  BY <1>1, BacklogIsRing DEF IInv
<1>8. WaitersAreBlocked'
  BY <1>1, <1>2, <1>5 DEF IInv, WaitersAreBlocked, Callers
<1>9. SentOnce'
  <2>1. \A d \in Callers : Promoted(d)' <=> Promoted(d)
    <3>1. ~Promoted(c)' /\ ~Promoted(c)
      BY <1>1, <1>2 DEF Promoted
    <3>2. ASSUME NEW d \in Callers, d # c PROVE Promoted(d)' <=> Promoted(d)
      BY <1>2, <1>4, <3>2 DEF Promoted, IInv, TasksIdle
    <3>3. QED
      BY <3>1, <3>2
  <2>2. QED
    BY <1>1, <2>1 DEF IInv, SentOnce
<1>10. SenderSlots'
  <2>1. ASSUME NEW h \in Range(senders')
        PROVE  slot'[h].value = <<h, ops'[h]>> /\ ~slot'[h].closedOnWake
    <3>1. CASE h = c
      BY <1>1, <1>4, <3>1 DEF OwnValue
    <3>2. CASE h # c
      <4>1. h \in Range(senders) /\ h \in Goroutines
        BY <1>5, <3>2, RangeOfSeq DEF IInv, TypeOK
      <4>2. QED
        BY <1>1, <1>4, <3>2, <4>1 DEF IInv, SenderSlots, OwnValue
    <3>3. QED
      BY <3>1, <3>2
  <2>2. QED
    BY <2>1 DEF SenderSlots, OwnValue
<1>11. ReceiverSlots'
  BY <1>1, <1>2, <1>4 DEF IInv, ReceiverSlots, Callers
<1>12. OneHolder'
  <2>1. \A u \in Values : Holders(u)' = Holders(u)
    BY <1>1, <1>2, <1>4 DEF Holders, Callers
  <2>2. QED
    BY <1>1, <2>1, HoldersStay
<1>13. EndOfStream'
  BY <1>1 DEF IInv, EndOfStream
<1>14. QED
  BY <1>2, <1>6, <1>7, <1>8, <1>9, <1>10, <1>11, <1>12, <1>13 DEF IInv

\* A receiver registers after the gap; the channel is empty, so it overtakes none.
LEMMA ParkReceiverKeeps ==
  ASSUME IInv, NEW c \in Goroutines, CanStep(c), pc[c] = "receiving",
         count = 0, ~closed, receivers' = Append(receivers, c),
         Sched!Block(c), GoesTo(c, "recvParked"),
         UNCHANGED <<ring, closed, senders, slot, sent, received, got, eof, ops,
                     outcome>>
  PROVE  IInv'
<1>1. /\ status[c] = "running"
      /\ UNCHANGED <<buf, head, tail, count, closed, senders, slot, sent, received,
                     got, eof, ops, outcome>>
  BY DEF ring, CanStep
<1>2. /\ c \in Callers
      /\ pc' \in [Callers -> CallerPC] /\ pc'[c] = "recvParked"
      /\ \A d \in Callers : d # c => pc'[d] = pc[d]
      /\ status' \in [Goroutines -> Sched!Statuses] /\ status'[c] = "blocked"
      /\ \A h \in Goroutines : h # c => status'[h] = status[h]
      /\ TasksIdle' /\ OutcomesPending'
      /\ c \notin Range(senders) /\ c \notin Range(receivers)
  BY <1>1, ParkFacts
<1>3. /\ receivers' \in Seq(Goroutines)
      /\ Range(receivers') = Range(receivers) \cup {c}
      /\ IsInjective(receivers')
  BY <1>2, RangeAppend, InjectiveAppend DEF IInv, TypeOK, WaitersAreBlocked
<1>4. TypeOK'
  BY <1>1, <1>2, <1>3 DEF IInv, TypeOK
<1>5. RingHoldsBacklog'
  BY <1>1, BacklogIsRing DEF IInv
<1>6. WaitersAreBlocked'
  BY <1>1, <1>2, <1>3 DEF IInv, WaitersAreBlocked, Callers
<1>7. SentOnce'
  <2>1. \A d \in Callers : Promoted(d)' <=> Promoted(d)
    BY <1>1, <1>2 DEF Promoted, IInv, TasksIdle
  <2>2. QED
    BY <1>1, <2>1 DEF IInv, SentOnce
<1>8. SenderSlots'
  BY <1>1 DEF IInv, SenderSlots, OwnValue
<1>9. ReceiverSlots'
  BY <1>1, <1>2 DEF IInv, ReceiverSlots, Callers
<1>10. OneHolder'
  <2>1. \A u \in Values : Holders(u)' = Holders(u)
    BY <1>1, <1>2 DEF Holders, Callers
  <2>2. QED
    BY <1>1, <2>1, HoldersStay
<1>11. EndOfStream'
  BY <1>1 DEF IInv, EndOfStream
<1>12. QED
  BY <1>2, <1>4, <1>5, <1>6, <1>7, <1>8, <1>9, <1>10, <1>11 DEF IInv

\* A sender that was woken ends its operation.
LEMMA ResumeSendKeeps ==
  ASSUME IInv, NEW c \in Goroutines, ResumeSend(c)
  PROVE  IInv'
<1> DEFINE how == IF slot[c].closedOnWake THEN "closed" ELSE "sent"
<1>1. /\ c \in Callers /\ pc[c] = "sendParked" /\ status[c] = "running"
      /\ outcome' = [outcome EXCEPT ![OwnValue(c)] = how]
      /\ slot' = [slot EXCEPT ![c] = NoSlot]
      /\ pc' = [pc EXCEPT ![c] = "idle"]
      /\ UNCHANGED <<buf, head, tail, count, closed, senders, receivers, status,
                     sent, received, ops, got, eof>>
  BY DEF ResumeSend, CanStep, Callers, ring, EndsAs, GoesTo
<1>2. /\ OwnValue(c) \in Values /\ outcome[OwnValue(c)] = "none"
      /\ OwnValue(c) \in Range(sent) <=> ~slot[c].closedOnWake
  BY <1>1, OwnValueFacts DEF Promoted
<1>3. /\ pc' \in [Callers -> CallerPC] /\ pc'[c] = "idle"
      /\ \A d \in Callers : d # c => pc'[d] = pc[d]
  BY <1>1 DEF IInv, TypeOK, CallerPC
<1>4. /\ slot' \in [Goroutines -> [value : Values \cup {NoValue}, ok : BOOLEAN,
                                   closedOnWake : BOOLEAN]]
      /\ \A h \in Goroutines : h # c => slot'[h] = slot[h]
  BY <1>1 DEF IInv, TypeOK, NoSlot
<1>5. /\ outcome' \in [Values -> Outcome] /\ outcome'[OwnValue(c)] = how
      /\ \A u \in Values : u # OwnValue(c) => outcome'[u] = outcome[u]
  BY <1>1, <1>2 DEF IInv, TypeOK, Outcome
<1> HIDE DEF how
<1>6. TypeOK'
  BY <1>1, <1>3, <1>4, <1>5 DEF IInv, TypeOK
<1>7. RingHoldsBacklog'
  BY <1>1, BacklogIsRing DEF IInv
<1>8. WaitersAreBlocked'
  BY <1>1, <1>3 DEF IInv, WaitersAreBlocked, Callers
<1>9. TasksIdle'
  BY <1>3 DEF IInv, TasksIdle
<1>10. OutcomesPending'
  <2>1. ASSUME NEW d \in Callers, NEW n \in (ops[d] + 1)..MaxOps
        PROVE  outcome'[<<d, n>>] = "none"
    <3>1. n \in 1..MaxOps /\ n # ops[d]
      BY ChannelAssumption DEF ChannelAssumption, IInv, TypeOK
    <3>2. <<d, n>> \in Values /\ <<d, n>> # OwnValue(c)
      BY <3>1 DEF Values, OwnValue
    <3>3. QED
      BY <1>5, <3>2 DEF IInv, OutcomesPending
  <2>2. ASSUME NEW d \in Callers, pc'[d] \in {"sending", "sendParked"}
        PROVE  ops[d] >= 1 /\ outcome'[<<d, ops[d]>>] = "none"
    <3>1. d # c /\ pc[d] \in {"sending", "sendParked"}
      BY <1>3, <2>2
    <3>2. /\ ops[d] >= 1 /\ <<d, ops[d]>> \in Values
          /\ outcome[<<d, ops[d]>>] = "none"
      BY <3>1, OwnValueFacts DEF OwnValue
    <3>3. <<d, ops[d]>> # OwnValue(c)
      BY <3>1 DEF OwnValue
    <3>4. QED
      BY <1>5, <3>2, <3>3
  <2>3. QED
    BY <1>1, <2>1, <2>2 DEF OutcomesPending, OwnValue
<1>11. SentOnce'
  <2>1. ASSUME NEW d \in Callers, NEW n \in 1..MaxOps
        PROVE  <<d, n>> \in Range(sent') <=>
                 outcome'[<<d, n>>] = "sent" \/ (Promoted(d)' /\ n = ops'[d])
    <3>1. CASE <<d, n>> = OwnValue(c)
      <4>1. ~Promoted(d)'
        BY <1>3, <3>1 DEF Promoted, OwnValue
      <4>2. QED
        BY <1>1, <1>2, <1>5, <3>1, <4>1 DEF how
    <3>2. CASE <<d, n>> # OwnValue(c)
      <4>1. outcome'[<<d, n>>] = outcome[<<d, n>>]
        BY <1>5, <3>2 DEF Values
      <4>2. Promoted(d)' /\ n = ops[d] <=> Promoted(d) /\ n = ops[d]
        <5>1. CASE d = c
          BY <3>2, <5>1 DEF OwnValue
        <5>2. CASE d # c
          BY <1>1, <1>3, <1>4, <5>2 DEF Promoted, IInv, TasksIdle
        <5>3. QED
          BY <5>1, <5>2
      <4>3. QED
        BY <1>1, <4>1, <4>2 DEF IInv, SentOnce
    <3>3. QED
      BY <3>1, <3>2
  <2>2. QED
    BY <1>1, <2>1 DEF IInv, SentOnce
<1>12. SenderSlots'
  <2>1. ASSUME NEW h \in Range(senders) PROVE slot'[h] = slot[h]
    <3>1. h \in Goroutines /\ h # c
      BY <1>1, RangeOfSeq DEF IInv, TypeOK, WaitersAreBlocked
    <3>2. QED
      BY <1>4, <3>1
  <2>2. QED
    BY <1>1, <2>1 DEF IInv, SenderSlots, OwnValue
<1>13. ReceiverSlots'
  BY <1>1, <1>3, <1>4 DEF IInv, ReceiverSlots, Callers
<1>14. OneHolder'
  <2>1. \A u \in Values : Holders(u)' = Holders(u)
    BY <1>1, <1>3, <1>4 DEF Holders, Callers
  <2>2. QED
    BY <1>1, <2>1, HoldersStay
<1>15. EndOfStream'
  BY <1>1 DEF IInv, EndOfStream
<1>16. QED
  BY <1>6, <1>7, <1>8, <1>9, <1>10, <1>11, <1>12, <1>13, <1>14, <1>15 DEF IInv

\* A receiver that was woken takes what is in its slot, or learns of the end.
LEMMA ResumeReceiveKeeps ==
  ASSUME IInv, NEW c \in Goroutines, ResumeReceive(c)
  PROVE  IInv'
<1>1. /\ c \in Callers /\ pc[c] = "recvParked" /\ status[c] = "running"
      /\ IF slot[c].ok
         THEN got' = [got EXCEPT ![c] = @ \cup {slot[c].value}] /\ eof' = eof
         ELSE eof' = TRUE /\ got' = got
      /\ slot' = [slot EXCEPT ![c] = NoSlot]
      /\ pc' = [pc EXCEPT ![c] = "idle"]
      /\ UNCHANGED <<buf, head, tail, count, closed, senders, receivers, status,
                     sent, received, ops, outcome>>
  BY DEF ResumeReceive, CanStep, Callers, ring, GoesTo
<1>2. IF slot[c].ok THEN slot[c].value \in Values ELSE closed /\ count = 0
  BY <1>1 DEF IInv, ReceiverSlots
<1>3. /\ pc' \in [Callers -> CallerPC] /\ pc'[c] = "idle"
      /\ \A d \in Callers : d # c => pc'[d] = pc[d]
  BY <1>1 DEF IInv, TypeOK, CallerPC
<1>4. /\ slot' \in [Goroutines -> [value : Values \cup {NoValue}, ok : BOOLEAN,
                                   closedOnWake : BOOLEAN]]
      /\ \A h \in Goroutines : h # c => slot'[h] = slot[h]
  BY <1>1 DEF IInv, TypeOK, NoSlot
<1>5. /\ got' \in [Callers -> SUBSET Values] /\ eof' \in BOOLEAN
      /\ \A d \in Callers : d # c => got'[d] = got[d]
      /\ got'[c] = IF slot[c].ok THEN got[c] \cup {slot[c].value} ELSE got[c]
  <2>1. got \in [Callers -> SUBSET Values] /\ eof \in BOOLEAN
    BY DEF IInv, TypeOK
  <2>2. CASE slot[c].ok
    BY <1>1, <1>2, <2>1, <2>2
  <2>3. CASE ~slot[c].ok
    BY <1>1, <2>1, <2>3
  <2>4. QED
    BY <2>2, <2>3
<1>6. TypeOK'
  BY <1>1, <1>3, <1>4, <1>5 DEF IInv, TypeOK
<1>7. RingHoldsBacklog'
  BY <1>1, BacklogIsRing DEF IInv
<1>8. WaitersAreBlocked'
  BY <1>1, <1>3 DEF IInv, WaitersAreBlocked, Callers
<1>9. TasksIdle'
  BY <1>3 DEF IInv, TasksIdle
<1>10. OutcomesPending'
  <2>1. \A d \in Callers : pc'[d] \in {"sending", "sendParked"} =>
                             pc[d] \in {"sending", "sendParked"}
    BY <1>3
  <2>2. QED
    BY <1>1, <2>1 DEF IInv, OutcomesPending, OwnValue
<1>11. SentOnce'
  <2>1. \A d \in Callers : Promoted(d)' <=> Promoted(d)
    BY <1>1, <1>3, <1>4 DEF Promoted, IInv, TasksIdle
  <2>2. QED
    BY <1>1, <2>1 DEF IInv, SentOnce
<1>12. SenderSlots'
  <2>1. ASSUME NEW h \in Range(senders) PROVE slot'[h] = slot[h]
    <3>1. h \in Goroutines /\ h # c
      BY <1>1, RangeOfSeq DEF IInv, TypeOK, WaitersAreBlocked
    <3>2. QED
      BY <1>4, <3>1
  <2>2. QED
    BY <1>1, <2>1 DEF IInv, SenderSlots, OwnValue
<1>13. ReceiverSlots'
  BY <1>1, <1>3, <1>4 DEF IInv, ReceiverSlots, Callers
<1>14. OneHolder'
  <2>1. ASSUME NEW u \in Values PROVE Holders(u)' = Holders(u)
    <3>1. \A d \in Callers : d \in Holders(u)' <=> d \in Holders(u)
      BY <1>1, <1>3, <1>4, <1>5 DEF Holders, Callers
    <3>2. Holders(u) \subseteq Callers /\ Holders(u)' \subseteq Callers
      BY DEF Holders, Callers
    <3>3. QED
      BY <3>1, <3>2
  <2>2. QED
    BY <1>1, <2>1, HoldersStay
<1>15. EndOfStream'
  <2>1. count = 0 => received = sent
    BY ReceivedOfSent DEF IInv
  <2>2. QED
    BY <1>1, <1>2, <2>1 DEF IInv, EndOfStream
<1>16. QED
  BY <1>6, <1>7, <1>8, <1>9, <1>10, <1>11, <1>12, <1>13, <1>14, <1>15 DEF IInv

\* A receive takes the head of the ring, and the oldest waiting sender's value
\* moves in behind the others.
LEMMA TakeKeeps ==
  ASSUME IInv, NEW c \in Callers, EndsOperation(c), pc[c] # "sending",
         TakeHead, NEW v, v = buf[head], got' = [got EXCEPT ![c] = @ \cup {v}],
         UNCHANGED <<outcome, eof>>
  PROVE  IInv'
<1> DEFINE Parts == /\ TypeOK' /\ RingHoldsBacklog' /\ WaitersAreBlocked'
                    /\ SentOnce' /\ SenderSlots'
                    /\ \A h \in Goroutines :
                         pc[h] # "sendParked" => status'[h] = status[h]
<1>1. /\ count \in 1..Cap /\ head \in 1..Cap /\ tail \in 1..Cap
      /\ head' = Wrap(head) /\ received' = Append(received, v)
      /\ UNCHANGED <<closed, receivers, slot, outcome, eof>>
      /\ receivers = <<>>
  BY DEF TakeHead, IInv, TypeOK, WaitersAreBlocked
<1>2. /\ ops' \in [Callers -> 0..MaxOps] /\ pc' \in [Callers -> CallerPC]
      /\ TasksIdle' /\ OutcomesPending'
      /\ pc[c] \notin {"sendParked", "recvParked"} /\ pc'[c] = "idle"
      /\ \A d \in Callers : d # c => pc'[d] = pc[d] /\ ops'[d] = ops[d]
      /\ c \in Goroutines => status[c] = "running"
  BY EndFacts
<1>3. /\ v \in Values /\ v \in Range(sent) /\ v \notin Range(received)
      /\ Backlog(buf, Wrap(head), tail, count - 1, sent, received')
  BY <1>1, HeadOfRing
<1>4. /\ received' \in Seq(Values) /\ Range(received') = Range(received) \cup {v}
  BY <1>1, <1>3, RangeAppend DEF IInv, TypeOK
<1>5. /\ got' \in [Callers -> SUBSET Values]
      /\ \A d \in Callers : d # c => got'[d] = got[d]
      /\ got'[c] = got[c] \cup {v}
  BY <1>3 DEF IInv, TypeOK
<1>6. ASSUME senders = <<>> PROVE Parts
  <2>1. count' = count - 1 /\ UNCHANGED <<buf, tail, senders, status, sent>>
    BY <1>6 DEF TakeHead
  <2>2. count' \in 0..Cap /\ head' \in 1..Cap
    BY <1>1, <2>1, PosFacts, CapPositive
  <2>3. TypeOK'
    BY <1>1, <1>2, <1>4, <1>5, <2>1, <2>2 DEF IInv, TypeOK
  <2>4. RingHoldsBacklog'
    BY <1>1, <1>3, <2>1, BacklogIsRing
  <2>5. WaitersAreBlocked'
    BY <1>1, <1>2, <1>6, <2>1 DEF IInv, WaitersAreBlocked, Callers
  <2>6. SentOnce'
    <3>1. \A d \in Callers : Promoted(d)' <=> Promoted(d)
      BY <1>1, <1>2, <2>1 DEF Promoted
    <3>2. \A d \in Callers : Promoted(d) => ops'[d] = ops[d]
      BY <1>2 DEF Promoted
    <3>3. QED
      BY <1>1, <2>1, <3>1, <3>2 DEF IInv, SentOnce
  <2>7. SenderSlots'
    BY <1>6, <2>1, EmptyQueue DEF SenderSlots
  <2>8. status' = status
    BY <2>1
  <2>9. QED
    BY <2>3, <2>4, <2>5, <2>6, <2>7, <2>8
<1>7. ASSUME senders # <<>> PROVE Parts
  <2> PICK g \in Goroutines : g = Head(senders)
    BY <1>7, RangeTail DEF IInv, TypeOK
  <2> PICK w : w = slot[g].value
    OBVIOUS
  <2>1. /\ count' = count /\ buf' = [buf EXCEPT ![tail] = w] /\ tail' = Wrap(tail)
        /\ senders' = Tail(senders) /\ status[g] = "blocked"
        /\ status' = [h \in Goroutines |-> IF h \in {g} THEN "runnable" ELSE status[h]]
        /\ sent' = Append(sent, w) /\ senders \in Seq(Goroutines)
    BY <1>7 DEF TakeHead, Sched!Wake, IInv, TypeOK
  <2>2. /\ senders' \in Seq(Goroutines)
        /\ Range(senders) = Range(senders') \cup {g}
        /\ g \notin Range(senders') /\ IsInjective(senders')
    BY <1>7, <2>1, RangeTail, InjectiveTail DEF IInv, WaitersAreBlocked
  <2>3. /\ g \in Callers /\ pc[g] = "sendParked" /\ w = OwnValue(g)
        /\ ~slot[g].closedOnWake /\ g # c
    BY <1>2, <2>2 DEF IInv, WaitersAreBlocked, SenderSlots, Callers
  <2>4. /\ w \in Values /\ outcome[w] = "none" /\ w \notin Range(sent)
    BY <2>1, <2>3, OwnValueFacts DEF Promoted
  <2>5. w = <<g, ops[g]>>
    BY <2>3 DEF OwnValue
  <2>6. /\ sent' \in Seq(Values) /\ Range(sent') = Range(sent) \cup {w}
        /\ IsInjective(sent')
    BY <2>1, <2>4, RangeAppend, InjectiveAppend DEF IInv, TypeOK, SentOnce
  <2>7. /\ status' \in [Goroutines -> Sched!Statuses] /\ status'[g] = "runnable"
        /\ \A h \in Goroutines : h # g => status'[h] = status[h]
    BY <2>1, <2>2 DEF IInv, TypeOK, Sched!Statuses
  <2>8. TypeOK'
    <3>1. /\ buf' \in [1..Cap -> Values \cup {NoValue}] /\ count' \in 0..Cap
          /\ tail' \in 1..Cap /\ head' \in 1..Cap
      BY <1>1, <2>1, <2>4, PosFacts DEF IInv, TypeOK
    <3>2. QED
      BY <1>1, <1>2, <1>4, <1>5, <2>2, <2>6, <2>7, <3>1 DEF IInv, TypeOK
  <2>9. RingHoldsBacklog'
    <3>1. /\ buf \in [1..Cap -> Values \cup {NoValue}] /\ sent \in Seq(Values)
          /\ w \in (Values \cup {NoValue}) \cap Values /\ head' \in 1..Cap
          /\ count - 1 \in 0..(Cap - 1) /\ (count - 1) + 1 = count
      <4>1. buf \in [1..Cap -> Values \cup {NoValue}] /\ sent \in Seq(Values)
        BY DEF IInv, TypeOK
      <4>2. head' \in 1..Cap
        BY <1>1, PosFacts
      <4>3. count - 1 \in 0..(Cap - 1) /\ (count - 1) + 1 = count
        BY <1>1, CapPositive
      <4>4. QED
        BY <2>4, <4>1, <4>2, <4>3
    <3>2. Backlog([buf EXCEPT ![tail] = w], head', Wrap(tail), (count - 1) + 1,
                  Append(sent, w), received')
      BY <1>1, <1>3, <1>4, <3>1, BacklogStore
    <3>3. QED
      BY <2>1, <3>1, <3>2, BacklogIsRing
  <2>10. WaitersAreBlocked'
    BY <1>1, <1>2, <2>2, <2>3, <2>7 DEF IInv, WaitersAreBlocked, Callers
  <2>11. SentOnce'
    <3>1. Promoted(g)' /\ ~Promoted(g) /\ ops'[g] = ops[g]
      BY <1>1, <1>2, <2>1, <2>3, <2>7 DEF Promoted
    <3>2. \A d \in Callers : d # g => (Promoted(d)' <=> Promoted(d))
      BY <1>1, <1>2, <2>3, <2>7 DEF Promoted, IInv, TasksIdle
    <3>3. \A d \in Callers : Promoted(d) => ops'[d] = ops[d]
      BY <1>2 DEF Promoted
    <3>4. ASSUME NEW d \in Callers, NEW n \in 1..MaxOps
          PROVE  <<d, n>> \in Range(sent') <=>
                   outcome'[<<d, n>>] = "sent" \/ (Promoted(d)' /\ n = ops'[d])
      <4>1. <<d, n>> \in Range(sent) <=>
              outcome[<<d, n>>] = "sent" \/ (Promoted(d) /\ n = ops[d])
        BY DEF IInv, SentOnce
      <4>2. CASE <<d, n>> = w
        BY <2>5, <2>6, <3>1, <4>2
      <4>3. CASE <<d, n>> # w
        BY <1>1, <2>5, <2>6, <3>1, <3>2, <3>3, <4>1, <4>3
      <4>4. QED
        BY <4>2, <4>3
    <3>5. QED
      BY <2>6, <3>4 DEF SentOnce
  <2>12. SenderSlots'
    <3>1. ASSUME NEW h \in Range(senders')
          PROVE  slot'[h].value = <<h, ops'[h]>> /\ ~slot'[h].closedOnWake
      <4>1. h \in Range(senders) /\ h \in Goroutines
        BY <2>2, RangeOfSeq
      <4>2. h \in Callers /\ h # c
        BY <1>2, <4>1 DEF IInv, WaitersAreBlocked, Callers
      <4>3. QED
        BY <1>1, <1>2, <4>1, <4>2 DEF IInv, SenderSlots, OwnValue
    <3>2. QED
      BY <3>1 DEF SenderSlots, OwnValue
  <2>13. \A h \in Goroutines : pc[h] # "sendParked" => status'[h] = status[h]
    BY <2>3, <2>7
  <2>14. QED
    BY <2>8, <2>9, <2>10, <2>11, <2>12, <2>13
<1>8. Parts
  BY <1>6, <1>7
<1>9. ReceiverSlots'
  BY <1>1, <1>2, <1>8 DEF IInv, ReceiverSlots, Callers
<1>10. OneHolder'
  <2>1. Holders(v) = {}
    BY <1>3 DEF IInv, OneHolder
  <2>2. Holders(v)' = {c}
    <3>1. /\ \A d \in Callers : v \in got'[d] <=> d = c
          /\ \A h \in Goroutines :
               ~(pc'[h] = "recvParked" /\ status'[h] # "blocked" /\ slot'[h].ok
                 /\ slot'[h].value = v)
      BY <1>1, <1>2, <1>5, <1>8, <2>1 DEF Holders, Callers
    <3>2. QED
      BY <3>1 DEF Holders
  <2>3. ASSUME NEW u \in Values \ {v} PROVE Holders(u)' = Holders(u)
    <3>1. \A d \in Callers : u \in got'[d] <=> u \in got[d]
      BY <1>5
    <3>2. \A h \in Goroutines :
            pc'[h] = "recvParked" /\ status'[h] # "blocked" <=>
              pc[h] = "recvParked" /\ status[h] # "blocked"
      BY <1>2, <1>8 DEF Callers
    <3>3. QED
      BY <1>1, <3>1, <3>2 DEF Holders
  <2>4. QED
    BY <1>3, <1>4, <2>2, <2>3, HolderGains
<1>11. EndOfStream'
  <2>1. received # sent
    BY <1>3
  <2>2. QED
    BY <1>1, <2>1 DEF IInv, EndOfStream
<1>12. QED
  BY <1>2, <1>8, <1>9, <1>10, <1>11 DEF IInv

\* Close wakes every waiter and tells it so; waiting receivers had nothing to take.
LEMMA CloseKeeps ==
  ASSUME IInv, NEW c \in Callers, Close(c), ~closed
  PROVE  IInv'
<1>1. /\ Begin(c) /\ pc[c] = "idle" /\ closed' = TRUE
      /\ ops' = [ops EXCEPT ![c] = @ + 1]
      /\ slot' = [g \in Goroutines |->
           CASE g \in Range(senders)   -> [slot[g] EXCEPT !.closedOnWake = TRUE]
             [] g \in Range(receivers) -> [slot[g] EXCEPT !.ok = FALSE]
             [] OTHER                  -> slot[g]]
      /\ status' = [g \in Goroutines |->
           IF g \in Range(senders) \cup Range(receivers) THEN "runnable"
                                                         ELSE status[g]]
      /\ senders' = <<>> /\ receivers' = <<>>
      /\ UNCHANGED <<buf, head, tail, count, sent, received, pc, got, outcome, eof>>
  BY DEF Close, Begin, Sched!Wake, ring
<1>2. /\ ops' \in [Callers -> 0..MaxOps] /\ TasksIdle' /\ OutcomesPending'
  BY <1>1, BeginKeeps
<1>3. /\ \A h \in Range(senders) : h \in Goroutines /\ pc[h] = "sendParked"
                                   /\ status[h] = "blocked"
      /\ \A h \in Range(receivers) : h \in Goroutines /\ pc[h] = "recvParked"
                                     /\ status[h] = "blocked"
  BY RangeOfSeq DEF IInv, TypeOK, WaitersAreBlocked
<1>4. /\ \A h \in Range(senders) :
           /\ slot'[h] = [slot[h] EXCEPT !.closedOnWake = TRUE]
           /\ status'[h] = "runnable"
      /\ \A h \in Range(receivers) :
           /\ slot'[h] = [slot[h] EXCEPT !.ok = FALSE]
           /\ status'[h] = "runnable"
      /\ \A h \in Goroutines :
           h \notin Range(senders) /\ h \notin Range(receivers) =>
             slot'[h] = slot[h] /\ status'[h] = status[h]
  BY <1>1, <1>3
<1>5. /\ slot \in [Goroutines -> [value : Values \cup {NoValue}, ok : BOOLEAN,
                                  closedOnWake : BOOLEAN]]
      /\ status \in [Goroutines -> Sched!Statuses]
  BY DEF IInv, TypeOK
<1>6. ASSUME NEW h \in Goroutines
      PROVE  slot'[h] \in [value : Values \cup {NoValue}, ok : BOOLEAN,
                           closedOnWake : BOOLEAN]
  <2>1. slot[h] \in [value : Values \cup {NoValue}, ok : BOOLEAN,
                     closedOnWake : BOOLEAN]
    BY <1>5
  <2>2. \/ slot'[h] = [slot[h] EXCEPT !.closedOnWake = TRUE]
        \/ slot'[h] = [slot[h] EXCEPT !.ok = FALSE]
        \/ slot'[h] = slot[h]
    BY <1>4
  <2>3. QED
    BY <2>1, <2>2
<1>7. slot' \in [Goroutines -> [value : Values \cup {NoValue}, ok : BOOLEAN,
                                closedOnWake : BOOLEAN]]
  BY <1>1, <1>6
<1>8. status' \in [Goroutines -> Sched!Statuses]
  BY <1>1, <1>5 DEF Sched!Statuses
<1>9. TypeOK'
  <2>1. senders' \in Seq(Goroutines) /\ receivers' \in Seq(Goroutines)
    BY <1>1
  <2>2. QED
    BY <1>1, <1>2, <1>7, <1>8, <2>1 DEF IInv, TypeOK
<1>10. RingHoldsBacklog'
  BY <1>1, BacklogIsRing DEF IInv
<1>11. WaitersAreBlocked'
  <2>1. ASSUME NEW h \in Goroutines
        PROVE  /\ ~(pc'[h] = "sendParked" /\ status'[h] = "blocked")
               /\ ~(pc'[h] = "recvParked" /\ status'[h] = "blocked")
    BY <1>1, <1>4 DEF IInv, WaitersAreBlocked
  <2>2. QED
    BY <1>1, <2>1, EmptyQueue DEF WaitersAreBlocked
<1>12. SentOnce'
  <2>1. ASSUME NEW d \in Callers PROVE Promoted(d)' <=> Promoted(d)
    <3>1. CASE pc[d] # "sendParked"
      BY <1>1, <3>1 DEF Promoted
    <3>2. CASE pc[d] = "sendParked"
      <4>1. d \in Goroutines /\ d \notin Range(receivers)
        BY <1>3, <3>2 DEF IInv, TasksIdle
      <4>2. CASE d \in Range(senders)
        <5>1. slot'[d].closedOnWake
          BY <1>4, <1>5, <4>1, <4>2
        <5>2. QED
          BY <1>3, <4>2, <5>1 DEF Promoted
      <4>3. CASE d \notin Range(senders)
        BY <1>1, <1>4, <4>1, <4>3 DEF Promoted
      <4>4. QED
        BY <4>2, <4>3
    <3>3. QED
      BY <3>1, <3>2
  <2>2. \A d \in Callers : Promoted(d) => ops'[d] = ops[d]
    BY <1>1 DEF Promoted, IInv, TypeOK
  <2>3. QED
    BY <1>1, <2>1, <2>2 DEF IInv, SentOnce
<1>13. SenderSlots'
  BY <1>1, EmptyQueue DEF SenderSlots
<1>14. ReceiverSlots'
  <2>1. ASSUME NEW h \in Goroutines, pc[h] = "recvParked"
        PROVE  IF slot'[h].ok THEN slot'[h].value \in Values
                              ELSE closed' /\ count' = 0
    <3>1. h \notin Range(senders)
      BY <1>3, <2>1
    <3>2. CASE h \in Range(receivers)
      <4>1. receivers # <<>>
        BY <3>2, EmptyQueue
      <4>2. count = 0
        BY <4>1 DEF IInv, WaitersAreBlocked
      <4>3. ~slot'[h].ok
        BY <1>4, <1>5, <3>2
      <4>4. QED
        BY <1>1, <4>2, <4>3
    <3>3. CASE h \notin Range(receivers)
      <4>1. status[h] # "blocked" /\ slot'[h] = slot[h]
        BY <1>4, <2>1, <3>1, <3>3 DEF IInv, WaitersAreBlocked
      <4>2. QED
        BY <1>1, <2>1, <4>1 DEF IInv, ReceiverSlots
    <3>4. QED
      BY <3>2, <3>3
  <2>2. QED
    BY <1>1, <2>1 DEF ReceiverSlots
<1>15. OneHolder'
  <2>1. ASSUME NEW h \in Goroutines, NEW u
        PROVE  (/\ pc'[h] = "recvParked" /\ status'[h] # "blocked"
                /\ slot'[h].ok /\ slot'[h].value = u) <=>
               (/\ pc[h] = "recvParked" /\ status[h] # "blocked"
                /\ slot[h].ok /\ slot[h].value = u)
    <3>1. CASE h \in Range(senders)
      BY <1>1, <1>3, <3>1
    <3>2. CASE h \in Range(receivers)
      <4>1. ~slot'[h].ok /\ status[h] = "blocked"
        BY <1>3, <1>4, <1>5, <3>2
      <4>2. QED
        BY <4>1
    <3>3. CASE h \notin Range(senders) /\ h \notin Range(receivers)
      BY <1>1, <1>4, <3>3
    <3>4. QED
      BY <3>1, <3>2, <3>3
  <2>2. \A u \in Values : Holders(u)' = Holders(u)
    BY <1>1, <2>1 DEF Holders
  <2>3. QED
    BY <1>1, <2>2, HoldersStay
<1>16. EndOfStream'
  BY <1>1 DEF IInv, EndOfStream
<1>17. QED
  BY <1>2, <1>9, <1>10, <1>11, <1>12, <1>13, <1>14, <1>15, <1>16 DEF IInv

\* The scheduler dispatches a goroutine, or one returns: nobody blocks or wakes.
LEMMA StatusKeeps ==
  ASSUME IInv, NEW g \in Goroutines, Dispatch(g) \/ Return(g)
  PROVE  IInv'
<1>1. /\ UNCHANGED <<buf, head, tail, count, closed, senders, receivers, slot, sent,
                     received, pc, ops, got, outcome, eof>>
      /\ status[g] \in {"runnable", "running"}
      /\ \E s \in {"running", "done"} : status' = [status EXCEPT ![g] = s]
  BY DEF Dispatch, Return, Sched!Run, Sched!Finish, ring
<1>2. /\ status' \in [Goroutines -> Sched!Statuses]
      /\ \A h \in Goroutines : status'[h] = "blocked" <=> status[h] = "blocked"
  BY <1>1 DEF IInv, TypeOK, Sched!Statuses
<1>3. TypeOK'
  BY <1>1, <1>2 DEF IInv, TypeOK
<1>4. RingHoldsBacklog'
  BY <1>1, BacklogIsRing DEF IInv
<1>5. WaitersAreBlocked'
  BY <1>1, <1>2 DEF IInv, WaitersAreBlocked
<1>6. TasksIdle' /\ OutcomesPending'
  BY <1>1 DEF IInv, TasksIdle, OutcomesPending, OwnValue
<1>7. SentOnce'
  <2>1. \A d \in Callers : Promoted(d)' <=> Promoted(d)
    BY <1>1, <1>2 DEF Promoted, IInv, TasksIdle
  <2>2. QED
    BY <1>1, <2>1 DEF IInv, SentOnce
<1>8. SenderSlots'
  BY <1>1 DEF IInv, SenderSlots, OwnValue
<1>9. ReceiverSlots'
  BY <1>1, <1>2 DEF IInv, ReceiverSlots
<1>10. OneHolder'
  <2>1. \A u \in Values : Holders(u)' = Holders(u)
    BY <1>1, <1>2 DEF Holders
  <2>2. QED
    BY <1>1, <2>1, HoldersStay
<1>11. EndOfStream'
  BY <1>1 DEF IInv, EndOfStream
<1>12. QED
  BY <1>3, <1>4, <1>5, <1>6, <1>7, <1>8, <1>9, <1>10, <1>11 DEF IInv

-----------------------------------------------------------------------------
(***************************************************************************)
(* Every step keeps the invariant.                                         *)
(***************************************************************************)

LEMMA InitInvariant == Init => IInv
<1> SUFFICES ASSUME Init PROVE IInv
  OBVIOUS
<1>1. TypeOK
  <2>1. /\ buf \in [1..Cap -> Values \cup {NoValue}]
        /\ head \in 1..Cap /\ tail \in 1..Cap /\ count \in 0..Cap
    BY CapPositive DEF Init
  <2>2. /\ ops \in [Callers -> 0..MaxOps] /\ pc \in [Callers -> CallerPC]
        /\ status \in [Goroutines -> Sched!Statuses]
        /\ got \in [Callers -> SUBSET Values] /\ outcome \in [Values -> Outcome]
    BY ChannelAssumption
       DEF ChannelAssumption, Init, CallerPC, Outcome, Sched!Statuses
  <2>3. slot \in [Goroutines -> [value : Values \cup {NoValue}, ok : BOOLEAN,
                                closedOnWake : BOOLEAN]]
    BY DEF Init, NoSlot
  <2>4. /\ closed \in BOOLEAN /\ eof \in BOOLEAN
        /\ senders \in Seq(Goroutines) /\ receivers \in Seq(Goroutines)
        /\ sent \in Seq(Values) /\ received \in Seq(Values)
    <3>1. \A S : <<>> \in Seq(S)
      OBVIOUS
    <3>2. QED
      BY <3>1 DEF Init
  <2>5. QED
    BY <2>1, <2>2, <2>3, <2>4 DEF TypeOK
<1>2. RingHoldsBacklog
  BY CapPositive DEF Init, RingHoldsBacklog, At
<1>3. WaitersAreBlocked
  BY EmptyQueue DEF Init, WaitersAreBlocked, Callers
<1>4. TasksIdle /\ OutcomesPending
  BY ChannelAssumption
     DEF ChannelAssumption, Init, TasksIdle, OutcomesPending, OwnValue, Values
<1>5. SentOnce
  BY EmptyQueue DEF Init, SentOnce, Promoted, Values
<1>6. SenderSlots /\ ReceiverSlots /\ EndOfStream
  BY EmptyQueue DEF Init, SenderSlots, ReceiverSlots, EndOfStream, Callers
<1>7. OneHolder
  <2>1. \A u \in Values : Holders(u) = {}
    BY DEF Init, Holders, Callers
  <2>2. QED
    BY <2>1, EmptyQueue DEF Init, OneHolder
<1>8. QED
  BY <1>1, <1>2, <1>3, <1>4, <1>5, <1>6, <1>7 DEF IInv

LEMMA StutterInvariant == IInv /\ UNCHANGED vars => IInv'
<1> SUFFICES ASSUME IInv, UNCHANGED vars PROVE IInv'
  OBVIOUS
<1>1. UNCHANGED <<buf, head, tail, count, closed, senders, receivers, slot, pc, ops,
                  status, sent, received, got, outcome, eof>>
  BY DEF vars, channel, ring
<1>2. /\ TypeOK' /\ WaitersAreBlocked' /\ TasksIdle' /\ OutcomesPending'
      /\ SentOnce' /\ SenderSlots' /\ ReceiverSlots' /\ EndOfStream'
  BY <1>1 DEF IInv, TypeOK, WaitersAreBlocked, TasksIdle, OutcomesPending, SentOnce,
              Promoted, SenderSlots, ReceiverSlots, EndOfStream, OwnValue
<1>3. RingHoldsBacklog'
  BY <1>1, BacklogIsRing DEF IInv
<1>4. OneHolder'
  <2>1. \A u \in Values : Holders(u)' = Holders(u)
    BY <1>1 DEF Holders
  <2>2. QED
    BY <1>1, <2>1, HoldersStay
<1>5. QED
  BY <1>2, <1>3, <1>4 DEF IInv

LEMMA SendAtOnceKeeps ==
  ASSUME IInv, NEW c \in Callers, Begin(c), SendAtOnce(c), UNCHANGED <<pc, got, eof>>
  PROVE  IInv'
<1>1. CASE closed /\ EndsAs(NextValue(c), "closed") /\ UNCHANGED channel
  BY <1>1, QuietBeginKeeps
<1>2. CASE /\ HandOff(NextValue(c)) \/ Store(NextValue(c))
           /\ EndsAs(NextValue(c), "sent")
  BY <1>2, HandOffKeeps, StoreKeeps
<1>3. QED
  BY <1>1, <1>2 DEF SendAtOnce

LEMMA ReceiveAtOnceKeeps ==
  ASSUME IInv, NEW c \in Callers, EndsOperation(c), pc[c] # "sending",
         ReceiveAtOnce(c), outcome' = outcome
  PROVE  IInv'
<1>1. CASE /\ TakeHead /\ got' = [got EXCEPT ![c] = @ \cup {buf[head]}]
           /\ UNCHANGED eof
  BY <1>1, TakeKeeps
<1>2. CASE count = 0 /\ closed /\ eof' = TRUE /\ UNCHANGED <<channel, got>>
  BY <1>2, QuietEndKeeps
<1>3. QED
  BY <1>1, <1>2 DEF ReceiveAtOnce

LEMMA OperationKeeps ==
  ASSUME IInv, NEW c \in Callers, Operation(c)
  PROVE  IInv'
<1>1. CASE Send(c)
  <2>1. CASE SendAtOnce(c) /\ UNCHANGED pc
    BY <1>1, <2>1, SendAtOnceKeeps DEF Send
  <2>2. CASE Full /\ c \in Goroutines /\ GoesTo(c, "sending")
             /\ UNCHANGED <<channel, outcome>>
    BY <1>1, <2>2, QuietBeginKeeps DEF Send
  <2>3. CASE Full /\ EndsAs(NextValue(c), "refused") /\ UNCHANGED <<channel, pc>>
    BY <1>1, <2>3, QuietBeginKeeps DEF Send
  <2>4. QED
    BY <1>1, <2>1, <2>2, <2>3 DEF Send
<1>2. CASE TrySend(c)
  <2>1. CASE SendAtOnce(c)
    BY <1>2, <2>1, SendAtOnceKeeps DEF TrySend
  <2>2. CASE Full /\ EndsAs(NextValue(c), "refused") /\ UNCHANGED channel
    BY <1>2, <2>2, QuietBeginKeeps DEF TrySend
  <2>3. QED
    BY <1>2, <2>1, <2>2 DEF TrySend
<1>3. CASE Receive(c)
  <2>1. CASE ReceiveAtOnce(c) /\ UNCHANGED pc
    BY <1>3, <2>1, ReceiveAtOnceKeeps DEF Receive, Begin, EndsOperation
  <2>2. CASE /\ IF c \in Goroutines THEN GoesTo(c, "receiving") ELSE UNCHANGED pc
             /\ UNCHANGED <<channel, got, eof>>
    BY <1>3, <2>2, QuietBeginKeeps DEF Receive
  <2>3. QED
    BY <1>3, <2>1, <2>2 DEF Receive
<1>4. CASE TryReceive(c)
  <2>1. CASE ReceiveAtOnce(c)
    BY <1>4, <2>1, ReceiveAtOnceKeeps DEF TryReceive, Begin, EndsOperation
  <2>2. CASE UNCHANGED <<channel, got, eof>>
    BY <1>4, <2>2, QuietBeginKeeps DEF TryReceive
  <2>3. QED
    BY <1>4, <2>1, <2>2 DEF TryReceive
<1>5. CASE Close(c)
  <2>1. CASE closed
    BY <1>5, <2>1, QuietBeginKeeps DEF Close
  <2>2. CASE ~closed
    BY <1>5, <2>2, CloseKeeps
  <2>3. QED
    BY <2>1, <2>2
<1>6. QED
  BY <1>1, <1>2, <1>3, <1>4, <1>5 DEF Operation

LEMMA WaitingKeeps ==
  ASSUME IInv, NEW g \in Goroutines, Waiting(g)
  PROVE  IInv'
<1> g \in Callers
  BY DEF Callers
<1>1. CASE ParkSender(g)
  <2>1. CASE closed
    BY <1>1, <2>1, QuietEndKeeps DEF ParkSender, EndsOperation
  <2>2. CASE ~closed
    BY <1>1, <2>2, ParkSenderKeeps
  <2>3. QED
    BY <2>1, <2>2
<1>2. CASE ParkReceiver(g)
  <2>1. CASE ReceiveAtOnce(g) /\ GoesTo(g, "idle")
    BY <1>2, <2>1, ReceiveAtOnceKeeps DEF ParkReceiver, EndsOperation
  <2>2. CASE ~ReceiveAtOnce(g) \/ ~GoesTo(g, "idle")
    BY <1>2, <2>2, ParkReceiverKeeps DEF ParkReceiver
  <2>3. QED
    BY <2>1, <2>2
<1>3. QED
  BY <1>1, <1>2, ResumeSendKeeps, ResumeReceiveKeeps DEF Waiting

\* IInv is inductive.
THEOREM Inductive ==
  /\ Init => IInv
  /\ IInv /\ [Next]_vars => IInv'
<1>1. ASSUME IInv, Next PROVE IInv'
  BY <1>1, OperationKeeps, WaitingKeeps, StatusKeeps DEF Next
<1>2. QED
  BY <1>1, InitInvariant, StutterInvariant

THEOREM Invariance == Spec => []IInv
BY Inductive, PTL DEF Spec

-----------------------------------------------------------------------------
(***************************************************************************)
(* The properties.                                                         *)
(***************************************************************************)

\* Head, Tail and Count stay within the ring, whatever the capacity.
THEOREM TypeCorrect == Spec => []TypeOK
<1>1. IInv => TypeOK
  BY DEF IInv
<1>2. QED
  BY <1>1, Invariance, PTL

\* The ring holds what was accepted and not yet delivered, in order.
THEOREM RingIsBacklog == Spec => []RingHoldsBacklog
<1>1. IInv => RingHoldsBacklog
  BY DEF IInv
<1>2. QED
  BY <1>1, Invariance, PTL

\* A goroutine waits in one list, once, from its registration to its wake-up.
THEOREM WaitersBlocked == Spec => []WaitersAreBlocked
<1>1. IInv => WaitersAreBlocked
  BY DEF IInv
<1>2. QED
  BY <1>1, Invariance, PTL

\* A Send that returned put its value in the channel once, one that raised did not.
THEOREM SendsAreHonest == Spec => []SendOutcome
<1>1. IInv => SendOutcome
  <2> SUFFICES ASSUME IInv, NEW v \in Values
               PROVE  /\ outcome[v] = "sent" => v \in Range(sent)
                      /\ outcome[v] \in {"closed", "refused"} => v \notin Range(sent)
    BY DEF SendOutcome, IInv, SentOnce
  <2>1. PICK c \in Callers, n \in 1..MaxOps : v = <<c, n>>
    BY DEF Values
  <2>2. v \in Range(sent) <=> outcome[v] = "sent" \/ (Promoted(c) /\ n = ops[c])
    BY <2>1 DEF IInv, SentOnce
  <2>3. Promoted(c) => outcome[<<c, ops[c]>>] = "none"
    BY OwnValueFacts DEF Promoted, OwnValue
  <2>4. QED
    BY <2>1, <2>2, <2>3
<1>2. QED
  BY <1>1, Invariance, PTL

\* A value that was delivered is with exactly one receiver.
THEOREM DeliveredToOne == Spec => []DeliveredOnce
<1>1. IInv => DeliveredOnce
  <2> SUFFICES ASSUME IInv, NEW v \in Values
               PROVE  Cardinality(Holders(v)) = (IF v \in Range(received) THEN 1 ELSE 0)
    BY DEF DeliveredOnce
  <2>1. CASE v \in Range(received)
    <3>1. PICK c \in Callers : Holders(v) = {c}
      BY <2>1 DEF IInv, OneHolder
    <3>2. QED
      BY <2>1, <3>1, FS_Singleton
  <2>2. CASE v \notin Range(received)
    BY <2>2, FS_EmptySet DEF IInv, OneHolder
  <2>3. QED
    BY <2>1, <2>2
<1>2. QED
  BY <1>1, Invariance, PTL

\* A receive that returned OK => False found the channel closed and drained.
THEOREM EndIsFinal == Spec => []EndOfStream
<1>1. IInv => EndOfStream
  BY DEF IInv
<1>2. QED
  BY <1>1, Invariance, PTL

-----------------------------------------------------------------------------
(***************************************************************************)
(* The channel implements FifoChannel: a hand-off is HandOver, a store is  *)
(* Accept, a take is Deliver or, with a waiting sender, DeliverAndAccept,  *)
(* and every other step leaves the FIFO alone or closes it.                *)
(***************************************************************************)

LEMMA BacklogIsCount ==
  ASSUME TypeOK, RingHoldsBacklog
  PROVE  Fifo!Backlog = count
BY CapPositive DEF TypeOK, RingHoldsBacklog, Fifo!Backlog

LEMMA TakeRefines ==
  ASSUME IInv, TakeHead
  PROVE  Fifo!Next
<1>1. /\ Fifo!Backlog > 0 /\ received' = Append(received, Fifo!Oldest)
      /\ closed' = closed
  <2>1. /\ head \in 1..Cap /\ count \in 1..Cap
        /\ sent \in Seq(Values) /\ received \in Seq(Values)
        /\ received' = Append(received, buf[head]) /\ closed' = closed
    BY DEF IInv, TypeOK, TakeHead
  <2>2. buf[head] = sent[Len(received) + 1]
    BY <2>1, BacklogIsRing, BacklogTake DEF IInv
  <2>3. QED
    BY <2>1, <2>2, BacklogIsCount DEF IInv, Fifo!Oldest
<1>2. CASE senders = <<>>
  BY <1>1, <1>2 DEF TakeHead, Fifo!Next, Fifo!Deliver
<1>3. CASE senders # <<>>
  <2>1. /\ sent' = Append(sent, slot[Head(senders)].value)
        /\ Head(senders) \in Range(senders) /\ ~closed
    BY <1>3, RangeTail DEF TakeHead, IInv, TypeOK, WaitersAreBlocked
  <2>2. slot[Head(senders)].value \in Values
    <3>1. Head(senders) \in Callers /\ pc[Head(senders)] = "sendParked"
      BY <2>1, RangeOfSeq DEF IInv, TypeOK, WaitersAreBlocked, Callers
    <3>2. QED
      BY <2>1, <3>1, OwnValueFacts DEF IInv, SenderSlots
  <2>3. QED
    BY <1>1, <2>1, <2>2 DEF Fifo!Next, Fifo!DeliverAndAccept
<1>4. QED
  BY <1>2, <1>3

LEMMA SendRefines ==
  ASSUME IInv, NEW v \in Values, HandOff(v) \/ Store(v)
  PROVE  Fifo!Next
<1>1. Fifo!Backlog = count /\ count \in 0..Cap
  BY BacklogIsCount DEF IInv, TypeOK
<1>2. CASE HandOff(v)
  BY <1>1, <1>2 DEF IInv, WaitersAreBlocked, HandOff, Fifo!Next, Fifo!HandOver
<1>3. CASE Store(v)
  BY <1>1, <1>3 DEF Store, Fifo!Next, Fifo!Accept
<1>4. QED
  BY <1>2, <1>3

\* A step that moves no value and closes nothing is invisible.
LEMMA StepRefines ==
  ASSUME IInv, Next
  PROVE  Fifo!Next \/ UNCHANGED Fifo!vars
<1> DEFINE Quiet == UNCHANGED <<sent, received, closed>>
           Moves == \/ TakeHead
                    \/ \E v \in Values : HandOff(v) \/ Store(v)
                    \/ ~closed /\ closed' = TRUE /\ UNCHANGED <<sent, received>>
<1>1. ASSUME NEW c \in Callers, Operation(c) PROVE Moves \/ Quiet
  <2>1. CASE Send(c) \/ TrySend(c)
    <3>1. NextValue(c) \in Values
      BY <2>1, NextValueFacts DEF Send, TrySend
    <3>2. QED
      BY <2>1, <3>1 DEF Send, TrySend, SendAtOnce, channel
  <2>2. CASE Receive(c) \/ TryReceive(c)
    BY <2>2 DEF Receive, TryReceive, ReceiveAtOnce, channel
  <2>3. CASE Close(c)
    BY <2>3 DEF Close, channel
  <2>4. QED
    BY <1>1, <2>1, <2>2, <2>3 DEF Operation
<1>2. ASSUME NEW g \in Goroutines, Waiting(g) \/ Dispatch(g) \/ Return(g)
      PROVE  Moves \/ Quiet
  BY <1>2 DEF Waiting, ParkSender, ResumeSend, ParkReceiver, ResumeReceive,
              ReceiveAtOnce, Dispatch, Return, channel
<1>3. Moves \/ Quiet
  BY <1>1, <1>2 DEF Next
<1>4. Moves => Fifo!Next
  BY TakeRefines, SendRefines DEF Fifo!Next, Fifo!Close
<1>5. Quiet => UNCHANGED Fifo!vars
  BY DEF Fifo!vars
<1>6. QED
  BY <1>3, <1>4, <1>5

\* The channel is a FIFO of capacity Cap that accepts nothing once it is closed.
THEOREM IsFifo == Spec => ImplementsFifo
<1>1. Init => Fifo!Init
  BY DEF Init, Fifo!Init
<1>2. IInv /\ [Next]_vars => [Fifo!Next]_(Fifo!vars)
  <2>1. ASSUME IInv, Next PROVE [Fifo!Next]_(Fifo!vars)
    BY <2>1, StepRefines
  <2>2. ASSUME UNCHANGED vars PROVE UNCHANGED Fifo!vars
    BY <2>2 DEF vars, channel, Fifo!vars
  <2>3. QED
    BY <2>1, <2>2
<1>3. QED
  BY <1>1, <1>2, Invariance, PTL DEF Spec, ImplementsFifo, Fifo!Spec

=============================================================================
