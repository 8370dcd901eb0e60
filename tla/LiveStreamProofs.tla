---------------------------- MODULE LiveStreamProofs -------------------------
(***************************************************************************)
(* The live stream for any publishers, any cursors, any browsers and any   *)
(* buffers.  First the broker: the replay window has no hole, a            *)
(* subscriber's channel has no hole and reaches the latest event until the *)
(* subscriber is cut off, the snapshots are the entries in progress, and   *)
(* Subscribe replays exactly what followed the cursor or asks for a reset. *)
(* Then the stream as a whole: what the dashboard shows is right.          *)
(*                                                                         *)
(* Subscribe's loop and the sorted snapshots are recursion and choice: an  *)
(* induction in terms of sets (AllNumbers) says what they compute.         *)
(***************************************************************************)
EXTENDS LiveStream, SequenceFacts, FiniteSetTheorems, SequenceTheorems, TLAPS

\* ResumeIsExact for one subscription.
Exact(s) ==
    s.state # "none" /\ s.resume # 0 /\ ~s.reset =>
        /\ Follows(s.replay, s.resume)
        /\ s.resume + Len(s.replay) = s.from
        /\ Len(s.replay) <= ReplayLimit

\* The fields of a subscription.
SubOK(s) ==
    /\ DOMAIN s = {"state", "resume", "from", "reset", "replay", "queue", "taken"}
    /\ s.state \in {"none", "open", "detached", "cut"}
    /\ s.resume \in Nat /\ s.from \in Nat /\ s.reset \in BOOLEAN
    /\ s.replay \in Seq(Event)
    /\ s.queue \in Seq(Event)
    /\ s.taken \in Nat
    /\ Exact(s)

TypeInv ==
    /\ nextSeq \in Nat
    /\ events \in Seq(Event)
    /\ Len(events) <= BufferSize
    /\ active \in SUBSET Event /\ IsFiniteSet(active)
    /\ DOMAIN subs = Subs
    /\ \A c \in Subs : SubOK(subs[c])

\* StreamHasNoGap for one subscription.
NoGap(s) ==
    /\ Follows(s.queue, s.taken)
    /\ s.state = "open" => s.taken + Len(s.queue) = nextSeq

\* SnapshotsAreCurrent for one event of the window.
LastDecides(i) ==
    (\A j \in i + 1..Len(events) : events[j].id # events[i].id) =>
        IF events[i].kind \in Terminal
        THEN \A a \in active : a.id # events[i].id
        ELSE events[i] \in active

\* No two events have the same number.
Distinct(S) == \A x, y \in S : x.seq = y.seq => x = y

NumbersInv ==
    /\ nextSeq > 0 => events # <<>>
    /\ \A a \in active : a.seq \in 1..nextSeq
    /\ Distinct(active)

BrokerIInv ==
    TypeInv /\ NumbersInv /\ WindowIsContiguous /\ StreamHasNoGap /\ SnapshotsAreCurrent

NewEvent(id, kind) == [seq |-> nextSeq + 1, kind |-> kind, id |-> id]

-----------------------------------------------------------------------------
(* The loop of replayAfterLocked *)

\* In a window whose first m events are the ones up to the cursor, the loop
\* collects the others, in their order.
LEMMA AfterIsSuffix ==
    ASSUME NEW s \in Seq(Event), NEW m \in 0..Len(s), NEW cursorAt \in Nat,
           \A i \in 1..Len(s) : s[i].seq > cursorAt <=> i > m
    PROVE  /\ After(s, cursorAt) \in Seq(Event)
           /\ Len(After(s, cursorAt)) = Len(s) - m
           /\ \A i \in 1..Len(s) - m : After(s, cursorAt)[i] = s[i + m]
<1> DEFINE N == Len(s)
           Step(g, k) == IF k = 0 THEN <<>>
                         ELSE IF s[k].seq > cursorAt THEN Append(g[k - 1], s[k]) ELSE g[k - 1]
           Loop(g) == g = [k \in 0..N |-> Step(g, k)]
           f == CHOOSE g : Loop(g)
           Part(k) == IF k <= m THEN <<>> ELSE [i \in 1..k - m |-> s[i + m]]
           whole == [k \in 0..N |-> Part(k)]
<1>1. N \in Nat /\ m \in Nat /\ m <= N
  OBVIOUS
<1>2. ASSUME NEW k \in 0..N PROVE Part(k) \in Seq(Event)
  <2>1. CASE k <= m
    BY <2>1
  <2>2. CASE k > m
    <3>1. k - m \in Nat /\ \A i \in 1..k - m : i + m \in 1..N
      BY <1>1, <2>2
    <3>2. \A i \in 1..k - m : s[i + m] \in Event
      BY <3>1, ElementOfSeq
    <3>3. [i \in 1..k - m |-> s[i + m]] \in [1..k - m -> Event]
      BY <3>2
    <3> QED BY <1>1, <2>2, <3>1, <3>3, SeqDef
  <2> QED BY <1>1, <2>1, <2>2
<1>3. ASSUME NEW k \in 1..N
      PROVE  Part(k) = IF s[k].seq > cursorAt THEN Append(Part(k - 1), s[k]) ELSE Part(k - 1)
  <2>1. k \in Nat /\ k - 1 \in 0..N
    BY <1>1
  <2>2. CASE k <= m
    <3>1. ~(s[k].seq > cursorAt)
      BY <1>1, <2>1, <2>2
    <3> QED BY <1>1, <2>1, <2>2, <3>1
  <2>3. CASE k = m + 1
    <3>1. s[k].seq > cursorAt
      BY <1>1, <2>1, <2>3
    <3>2. Part(k - 1) = <<>> /\ Part(k) = [i \in 1..1 |-> s[i + m]]
      <4>1. k - 1 <= m /\ ~(k <= m) /\ k - m = 1
        BY <1>1, <2>1, <2>3
      <4> QED BY <4>1
    <3>3. Append(<<>>, s[k]) = [i \in 1..1 |-> s[i + m]]
      <4>1. Append(<<>>, s[k]) = <<s[k]>>
        OBVIOUS
      <4>2. <<s[k]>> = [i \in 1..1 |-> s[k]]
        OBVIOUS
      <4>3. [i \in 1..1 |-> s[k]] = [i \in 1..1 |-> s[i + m]]
        BY <1>1, <2>3
      <4> QED BY <4>1, <4>2, <4>3
    <3> QED BY <3>1, <3>2, <3>3
  <2>4. CASE k > m + 1
    <3>1. s[k].seq > cursorAt
      BY <1>1, <2>1, <2>4
    <3>2. /\ Part(k - 1) = [i \in 1..k - 1 - m |-> s[i + m]]
          /\ Part(k) = [i \in 1..k - m |-> s[i + m]]
      BY <1>1, <2>1, <2>4
    <3>3. Part(k - 1) \in Seq(Event) /\ Len(Part(k - 1)) = k - 1 - m
      BY <1>1, <1>2, <2>1, <2>4, <3>2
    <3>4. s[k] \in Event
      BY ElementOfSeq
    <3> DEFINE p == Part(k - 1)
    <3>5. p \in Seq(Event) /\ Len(p) = k - 1 - m /\ \A i \in 1..Len(p) : p[i] = s[i + m]
      BY <3>2, <3>3
    <3> HIDE DEF p
    <3>6. /\ Append(p, s[k]) \in Seq(Event) /\ Len(Append(p, s[k])) = k - m
          /\ \A i \in 1..k - m : Append(p, s[k])[i] = s[i + m]
      <4>1. /\ Append(p, s[k]) \in Seq(Event) /\ Len(Append(p, s[k])) = Len(p) + 1
            /\ \A i \in 1..Len(p) : Append(p, s[k])[i] = p[i]
            /\ Append(p, s[k])[Len(p) + 1] = s[k]
        BY <3>4, <3>5
      <4> QED BY <1>1, <2>1, <2>4, <3>5, <4>1
    <3>7. Part(k) \in Seq(Event) /\ Len(Part(k)) = k - m /\ \A i \in 1..k - m : Part(k)[i] = s[i + m]
      BY <1>1, <1>2, <2>1, <2>4, <3>2
    <3>8. Append(p, s[k]) = Part(k)
      BY <3>6, <3>7, SeqEqual
    <3> QED BY <3>1, <3>8 DEF p
  <2> QED BY <1>1, <2>1, <2>2, <2>3, <2>4
<1> HIDE DEF Part
<1>4. Part(0) = <<>>
  BY <1>1 DEF Part
<1>5. Loop(whole)
  <2>1. ASSUME NEW k \in 0..N PROVE Part(k) = Step(whole, k)
    <3>1. CASE k = 0
      BY <1>4, <3>1
    <3>2. CASE k \in 1..N
      <4>1. k - 1 \in 0..N
        BY <1>1, <3>2
      <4>2. whole[k - 1] = Part(k - 1)
        BY <4>1
      <4>3. k # 0
        BY <1>1, <3>2
      <4> HIDE DEF whole
      <4>4. Step(whole, k) = IF s[k].seq > cursorAt THEN Append(Part(k - 1), s[k])
                             ELSE Part(k - 1)
        BY <4>2, <4>3
      <4>5. Part(k) = IF s[k].seq > cursorAt THEN Append(Part(k - 1), s[k]) ELSE Part(k - 1)
        BY <1>3, <3>2
      <4> HIDE DEF Step
      <4> QED BY <4>4, <4>5
    <3>3. k = 0 \/ k \in 1..N
      BY <1>1
    <3> HIDE DEF Step, whole
    <3> QED BY <3>1, <3>2, <3>3
  <2> QED BY <2>1
<1>6. Loop(f)
  BY <1>5
<1>7. After(s, cursorAt) = f[N]
  BY DEF After
<1> HIDE DEF f
<1>8. \A k \in 0..N : f[k] = Part(k)
  <2> DEFINE S == {k \in Nat : k \in 0..N => f[k] = Part(k)}
  <2>1. 0 \in S
    <3>1. 0 \in 0..N
      BY <1>1
    <3>2. f[0] = Step(f, 0)
      BY <1>6, <3>1
    <3> QED BY <1>4, <3>2
  <2>2. ASSUME NEW n \in Nat, n \in S PROVE n + 1 \in S
    <3> SUFFICES ASSUME n + 1 \in 0..N PROVE f[n + 1] = Part(n + 1)
      BY <2>2
    <3>1. n \in 0..N /\ n + 1 \in 1..N /\ (n + 1) - 1 = n /\ n + 1 # 0
      BY <1>1
    <3>2. f[n] = Part(n)
      BY <2>2, <3>1
    <3>3. f[n + 1] = Step(f, n + 1)
      BY <1>6
    <3> QED BY <1>3, <3>1, <3>2, <3>3
  <2> HIDE DEF S
  <2>3. \A n \in Nat : n \in S
    BY <2>1, <2>2, AllNumbers
  <2> QED BY <1>1, <2>3 DEF S
<1>9. After(s, cursorAt) = Part(N)
  BY <1>1, <1>7, <1>8
<1>10. CASE N <= m
  BY <1>1, <1>9, <1>10 DEF Part
<1>11. CASE N > m
  <2>1. Part(N) = [i \in 1..N - m |-> s[i + m]] /\ Part(N) \in Seq(Event)
    BY <1>1, <1>2, <1>11 DEF Part
  <2> QED BY <1>1, <1>9, <1>11, <2>1
<1> QED BY <1>1, <1>10, <1>11

-----------------------------------------------------------------------------
(* The sort of activeSnapshotsLocked *)

Sorted(s, S) ==
    /\ S = {s[i] : i \in DOMAIN s}
    /\ \A i, j \in DOMAIN s : i < j => s[i].seq < s[j].seq

LEMMA First ==
    ASSUME NEW S \in SUBSET Event, S # {}, Distinct(S)
    PROVE  \E x \in S : \A y \in S \ {x} : x.seq < y.seq
<1> DEFINE T == {y.seq : y \in S}
<1>1. T \subseteq Nat /\ T # {}
  BY DEF Event
<1>2. IsWellFoundedOn(OpToRel(<, Nat), Nat)
  BY NatLessThanWellFounded
<1>3. PICK n \in T : \A k \in T : ~(<<k, n>> \in OpToRel(<, Nat))
  BY <1>1, <1>2, WFMin
<1>4. PICK x \in S : n = x.seq
  BY <1>3
<1>5. ASSUME NEW y \in S \ {x} PROVE x.seq < y.seq
  <2>1. x.seq \in Nat /\ y.seq \in Nat /\ y.seq \in T
    BY DEF Event
  <2>2. ~(y.seq < x.seq)
    BY <1>3, <1>4, <2>1 DEF OpToRel
  <2>3. y.seq # x.seq
    BY DEF Distinct
  <2> QED BY <2>1, <2>2, <2>3
<1> QED BY <1>5

\* Events with different numbers can be sorted.
LEMMA SortExists ==
    ASSUME NEW A \in SUBSET Event, IsFiniteSet(A), Distinct(A)
    PROVE  \E s \in [1..Cardinality(A) -> A] : Sorted(s, A)
<1> DEFINE Sortable(S) == \E s \in [1..Cardinality(S) -> S] : Sorted(s, S)
           Small(n) == {S \in SUBSET Event : IsFiniteSet(S) /\ Cardinality(S) = n /\ Distinct(S)}
           Good == {n \in Nat : \A S \in Small(n) : Sortable(S)}
<1>1. 0 \in Good
  <2> SUFFICES ASSUME NEW S \in Small(0) PROVE Sortable(S)
    OBVIOUS
  <2>1. S = {} /\ Cardinality(S) = 0
    BY FS_EmptySet
  <2> DEFINE s == [i \in 1..0 |-> CHOOSE x : x \in S]
  <2>2. s \in [1..0 -> S] /\ DOMAIN s = {}
    OBVIOUS
  <2>3. Sorted(s, S)
    BY <2>1, <2>2 DEF Sorted
  <2> QED BY <2>1, <2>2, <2>3
<1>2. ASSUME NEW n \in Nat, n \in Good PROVE n + 1 \in Good
  <2> SUFFICES ASSUME NEW S \in Small(n + 1) PROVE Sortable(S)
    OBVIOUS
  <2>1. S \in SUBSET Event /\ IsFiniteSet(S) /\ Cardinality(S) = n + 1 /\ Distinct(S)
    OBVIOUS
  <2>2. S # {}
    BY <2>1, FS_EmptySet
  <2>3. PICK x \in S : \A y \in S \ {x} : x.seq < y.seq
    BY <2>1, <2>2, First
  <2> DEFINE R == S \ {x}
  <2>4. IsFiniteSet(R) /\ Cardinality(R) = n
    <3>1. IsFiniteSet(R) /\ Cardinality(R) = Cardinality(S) - 1
      BY <2>1, FS_RemoveElement
    <3> HIDE DEF R
    <3> QED BY <2>1, <3>1
  <2>5. R \in SUBSET Event /\ Distinct(R)
    BY <2>1 DEF Distinct
  <2>6. PICK r \in [1..n -> R] : Sorted(r, R)
    BY <1>2, <2>4, <2>5
  <2>7. DOMAIN r = 1..n /\ R = {r[i] : i \in 1..n}
        /\ \A i, j \in 1..n : i < j => r[i].seq < r[j].seq
    BY <2>6 DEF Sorted
  <2> DEFINE s == [i \in 1..n + 1 |-> IF i = 1 THEN x ELSE r[i - 1]]
  <2>8. ASSUME NEW i \in 1..n + 1, i # 1 PROVE i - 1 \in 1..n /\ s[i] = r[i - 1] /\ s[i] \in R
    <3>1. i - 1 \in 1..n
      BY <2>8
    <3> QED BY <2>6, <3>1
  <2>9. s[1] = x /\ 1 \in 1..n + 1 /\ DOMAIN s = 1..n + 1
    OBVIOUS
  <2>10. s \in [1..n + 1 -> S]
    <3>1. \A i \in 1..n + 1 : s[i] \in S
      BY <2>8, <2>9
    <3> QED BY <3>1
  <2>11. S = {s[i] : i \in DOMAIN s}
    <3>1. ASSUME NEW y \in S PROVE \E i \in 1..n + 1 : s[i] = y
      <4>1. CASE y = x
        BY <2>9, <4>1
      <4>2. CASE y # x
        <5>1. PICK i \in 1..n : y = r[i]
          BY <2>7, <4>2
        <5>2. i + 1 \in 1..n + 1 /\ i + 1 # 1 /\ (i + 1) - 1 = i
          OBVIOUS
        <5>3. s[i + 1] = y
          BY <2>8, <5>1, <5>2
        <5> QED BY <5>2, <5>3
      <4> QED BY <4>1, <4>2
    <3> HIDE DEF s
    <3>2. \A i \in 1..n + 1 : s[i] \in S
      BY <2>10
    <3> QED BY <2>9, <3>1, <3>2
  <2> HIDE DEF s
  <2>12. ASSUME NEW i \in 1..n + 1, NEW j \in 1..n + 1, i < j PROVE s[i].seq < s[j].seq
    <3>1. j # 1
      BY <2>12
    <3>2. CASE i = 1
      BY <2>3, <2>8, <2>9, <3>1, <3>2
    <3>3. CASE i # 1
      <4>1. i - 1 \in 1..n /\ j - 1 \in 1..n /\ i - 1 < j - 1
        BY <2>12, <3>3
      <4> QED BY <2>7, <2>8, <3>1, <3>3, <4>1
    <3> QED BY <3>2, <3>3
  <2>13. Sorted(s, S)
    BY <2>9, <2>11, <2>12 DEF Sorted
  <2> QED BY <2>1, <2>10, <2>13
<1> HIDE DEF Good
<1>3. \A n \in Nat : n \in Good
  BY <1>1, <1>2, AllNumbers
<1>4. Cardinality(A) \in Nat
  BY FS_CardinalityType
<1>5. A \in Small(Cardinality(A))
  OBVIOUS
<1> QED BY <1>3, <1>4, <1>5 DEF Good

\* What Subscribe sends of the entries in progress: each snapshot, once.
LEMMA SnapshotsOK ==
    ASSUME active \in SUBSET Event, IsFiniteSet(active), Distinct(active)
    PROVE  /\ Snapshots \in Seq(Event)
           /\ \A i \in 1..Len(Snapshots) : Snapshots[i] \in active
           /\ \A x \in active : \E i \in 1..Len(Snapshots) : Snapshots[i] = x
           /\ \A i, j \in 1..Len(Snapshots) : i # j => Snapshots[i] # Snapshots[j]
<1> DEFINE N == Cardinality(active)
<1>1. N \in Nat
  BY FS_CardinalityType
<1>2. Snapshots = CHOOSE s \in [1..N -> active] : Sorted(s, active)
  BY DEF Snapshots, Sorted
<1>3. \E s \in [1..N -> active] : Sorted(s, active)
  BY SortExists
<1>4. Snapshots \in [1..N -> active] /\ Sorted(Snapshots, active)
  BY <1>2, <1>3
<1> HIDE DEF N
<1>5. Snapshots \in Seq(active) /\ Len(Snapshots) = N /\ DOMAIN Snapshots = 1..N
  BY <1>1, <1>4
<1>6. Snapshots \in Seq(Event)
  BY <1>1, <1>4, SeqDef
<1>7. \A i \in 1..N : Snapshots[i] \in active
  BY <1>4
<1>8. \A x \in active : \E i \in 1..N : Snapshots[i] = x
  BY <1>4, <1>5 DEF Sorted
<1>9. ASSUME NEW i \in 1..N, NEW j \in 1..N, i # j PROVE Snapshots[i] # Snapshots[j]
  <2>1. Snapshots[i].seq \in Nat /\ Snapshots[j].seq \in Nat
    BY <1>7 DEF Event
  <2>2. i < j \/ j < i
    BY <1>1, <1>9
  <2>3. Snapshots[i].seq < Snapshots[j].seq \/ Snapshots[j].seq < Snapshots[i].seq
    BY <1>4, <1>5, <2>2 DEF Sorted
  <2> QED BY <2>1, <2>3
<1> QED BY <1>5, <1>6, <1>7, <1>8, <1>9

-----------------------------------------------------------------------------
(* Trim *)

\* The window after a publish: the last events, at most BufferSize of them,
\* each the one it was before at a fixed distance, the new one last.
LEMMA TrimAppend ==
    ASSUME NEW s \in Seq(Event), Len(s) <= BufferSize, NEW x \in Event
    PROVE  \E d \in {0, 1} :
             LET t == Trim(Append(s, x))
             IN  /\ t \in Seq(Event)
                 /\ Len(t) = Len(s) + 1 - d
                 /\ Len(t) \in 1..BufferSize
                 /\ \A i \in 1..Len(s) - d : t[i] = s[i + d]
                 /\ t[Len(t)] = x
<1> DEFINE u == Append(s, x)
<1>1. /\ u \in Seq(Event) /\ Len(s) \in Nat /\ Len(u) = Len(s) + 1
      /\ \A i \in 1..Len(s) : u[i] = s[i]
      /\ u[Len(s) + 1] = x
  OBVIOUS
<1>2. BufferSize \in Nat \ {0}
  BY BrokerAssumption
<1> HIDE DEF u
<1>3. CASE Len(u) <= BufferSize
  <2>1. Trim(u) = u
    BY <1>1, <1>2, <1>3 DEF Trim
  <2>2. /\ u \in Seq(Event) /\ Len(u) = Len(s) + 1 - 0
        /\ Len(u) \in 1..BufferSize
        /\ \A i \in 1..Len(s) - 0 : u[i] = s[i + 0]
        /\ u[Len(u)] = x
    BY <1>1, <1>2, <1>3
  <2> QED BY <2>1, <2>2 DEF u
<1>4. CASE Len(u) > BufferSize
  <2> DEFINE t == SubSeq(u, 2, Len(u))
  <2>1. Len(u) = BufferSize + 1 /\ Len(s) = BufferSize
    BY <1>1, <1>2, <1>4
  <2>2. Trim(u) = t
    BY <1>1, <1>2, <1>4, <2>1 DEF Trim
  <2>3. \A i \in 2..Len(u) : u[i] \in Event
    BY <1>1, ElementOfSeq
  <2>4. /\ t \in Seq(Event) /\ Len(t) = Len(u) - 1
        /\ \A i \in 1..Len(u) - 1 : t[i] = u[i + 1]
    <3>1. /\ t \in Seq(Event)
          /\ Len(t) = IF 2 <= Len(u) THEN Len(u) - 2 + 1 ELSE 0
          /\ \A i \in 1 .. Len(u) - 2 + 1 : t[i] = u[2 + i - 1]
      BY <1>1, <2>3, SubSeqProperties
    <3> HIDE DEF t
    <3> QED BY <1>1, <1>2, <2>1, <3>1
  <2> HIDE DEF t
  <2>5. /\ t \in Seq(Event) /\ Len(t) = Len(s) + 1 - 1
        /\ Len(t) \in 1..BufferSize
        /\ \A i \in 1..Len(s) - 1 : t[i] = s[i + 1]
        /\ t[Len(t)] = x
    BY <1>1, <1>2, <2>1, <2>4
  <2> QED BY <2>2, <2>5 DEF u
<1> QED BY <1>1, <1>2, <1>3, <1>4

-----------------------------------------------------------------------------
(* Deliver *)

\* What Subscribe was asked and answered stays.
Asked(d, s) ==
    d.resume = s.resume /\ d.from = s.from /\ d.reset = s.reset /\ d.replay = s.replay

LEMMA DeliverOK ==
    ASSUME NEW s, SubOK(s), nextSeq \in Nat, NoGap(s),
           NEW e \in Event, e.seq = nextSeq + 1
    PROVE  LET d == Deliver(s, e)
           IN  /\ SubOK(d)
               /\ Follows(d.queue, d.taken)
               /\ d.state = "open" => d.taken + Len(d.queue) = nextSeq + 1
<1>1. CASE s.state # "open"
  BY <1>1 DEF Deliver, NoGap
<1>2. CASE s.state = "open" /\ Len(s.queue) < SubscriberBuffer
  <2> DEFINE q == Append(s.queue, e)
             d == [s EXCEPT !.queue = q]
  <2>1. Deliver(s, e) = d
    BY <1>2 DEF Deliver
  <2>2. /\ q \in Seq(Event) /\ Len(s.queue) \in Nat /\ Len(q) = Len(s.queue) + 1
        /\ \A i \in 1..Len(s.queue) : q[i] = s.queue[i]
        /\ q[Len(s.queue) + 1] = e
    BY DEF SubOK
  <2> HIDE DEF q
  <2>3. /\ DOMAIN d = DOMAIN s /\ d.queue = q /\ d.state = s.state /\ d.taken = s.taken
        /\ Asked(d, s)
    BY DEF SubOK, Asked
  <2> HIDE DEF d
  <2>4. SubOK(d)
    BY <2>2, <2>3 DEF SubOK, Exact, Asked
  <2>5. s.taken + Len(s.queue) = nextSeq /\ s.taken \in Nat
    BY <1>2 DEF NoGap, SubOK
  <2>6. ASSUME NEW i \in 1..Len(q) PROVE q[i].seq = s.taken + i
    <3>1. CASE i \in 1..Len(s.queue)
      BY <2>2, <3>1 DEF NoGap, Follows
    <3>2. CASE i = Len(s.queue) + 1
      BY <2>2, <2>5, <3>2
    <3> QED BY <2>2, <3>1, <3>2
  <2>7. Follows(d.queue, d.taken)
    BY <2>3, <2>6 DEF Follows
  <2>8. d.taken + Len(d.queue) = nextSeq + 1
    <3>1. d.taken = s.taken /\ Len(d.queue) = Len(s.queue) + 1 /\ Len(s.queue) \in Nat
      BY <2>2, <2>3
    <3> QED BY <2>5, <3>1
  <2> QED BY <2>1, <2>4, <2>7, <2>8
<1>3. CASE s.state = "open" /\ ~(Len(s.queue) < SubscriberBuffer)
  <2> DEFINE d == [s EXCEPT !.state = "cut"]
  <2>1. Deliver(s, e) = d
    BY <1>3 DEF Deliver
  <2>2. /\ DOMAIN d = DOMAIN s /\ d.queue = s.queue /\ d.state = "cut" /\ d.taken = s.taken
        /\ Asked(d, s)
    BY DEF SubOK, Asked
  <2> HIDE DEF d
  <2>3. SubOK(d)
    BY <1>3, <2>2 DEF SubOK, Exact, Asked
  <2> QED BY <2>1, <2>2, <2>3 DEF NoGap
<1> QED BY <1>1, <1>2, <1>3

-----------------------------------------------------------------------------
LEMMA InitInv == BrokerInit => BrokerIInv
<1> SUFFICES ASSUME BrokerInit PROVE BrokerIInv
  OBVIOUS
<1>1. <<>> \in Seq(Event) /\ Len(<<>>) = 0
  BY EmptySeq
<1>2. SubOK(NoSub)
  BY <1>1 DEF SubOK, NoSub, Exact
<1>3. TypeInv /\ NumbersInv
  BY <1>1, <1>2, BrokerAssumption, FS_EmptySet DEF BrokerInit, TypeInv, NumbersInv, Distinct
<1>4. WindowIsContiguous
  BY <1>1 DEF BrokerInit, WindowIsContiguous, Follows
<1>5. StreamHasNoGap
  BY <1>1 DEF BrokerInit, StreamHasNoGap, NoSub, Follows
<1>6. SnapshotsAreCurrent
  BY <1>1 DEF BrokerInit, SnapshotsAreCurrent
<1> QED BY <1>3, <1>4, <1>5, <1>6 DEF BrokerIInv

\* A publish keeps the invariant.
LEMMA PublishInv ==
    ASSUME BrokerIInv, NEW id \in Entries, NEW kind \in Kinds, Publish(id, kind)
    PROVE  BrokerIInv'
<1> DEFINE e == NewEvent(id, kind)
<1>0. CASE brokerClosed
  BY <1>0 DEF Publish, brokerVars, BrokerIInv, TypeInv, NumbersInv, WindowIsContiguous,
              StreamHasNoGap, SnapshotsAreCurrent
<1>1. CASE ~brokerClosed
  <2>1. /\ nextSeq' = nextSeq + 1
        /\ UpdateActive(e)
        /\ events' = Trim(Append(events, e))
        /\ subs' = [c \in Subs |-> Deliver(subs[c], e)]
    BY <1>1 DEF Publish, NewEvent
  <2>2. nextSeq \in Nat /\ nextSeq' \in Nat /\ e \in Event /\ e.seq = nextSeq + 1
        /\ e.kind = kind /\ e.id = id
    BY <2>1 DEF BrokerIInv, TypeInv, NewEvent, Event
  <2> HIDE DEF e
  <2>3. PICK d \in {0, 1} :
             /\ events' \in Seq(Event)
             /\ Len(events') = Len(events) + 1 - d
             /\ Len(events') \in 1..BufferSize
             /\ \A i \in 1..Len(events) - d : events'[i] = events[i + d]
             /\ events'[Len(events')] = e
    BY <2>1, <2>2, TrimAppend DEF BrokerIInv, TypeInv
  <2>4. Len(events) \in Nat /\ BufferSize \in Nat
    BY BrokerAssumption DEF BrokerIInv, TypeInv
  <2>5. ASSUME NEW c \in Subs
        PROVE  /\ SubOK(subs'[c])
               /\ Follows(subs'[c].queue, subs'[c].taken)
               /\ subs'[c].state = "open" =>
                     subs'[c].taken + Len(subs'[c].queue) = nextSeq'
    <3>1. SubOK(subs[c]) /\ NoGap(subs[c])
      BY DEF BrokerIInv, TypeInv, StreamHasNoGap, NoGap
    <3>2. subs'[c] = Deliver(subs[c], e)
      BY <2>1
    <3> QED BY <2>1, <2>2, <3>1, <3>2, DeliverOK
  <2>6. active' \in SUBSET Event /\ IsFiniteSet(active')
    <3> DEFINE others == {a \in active : a.id # id}
    <3>1. IsFiniteSet(others) /\ others \in SUBSET Event
      BY FS_Subset DEF BrokerIInv, TypeInv
    <3>2. active' = others \/ active' = others \cup {e}
      BY <2>1, <2>2 DEF UpdateActive
    <3> HIDE DEF others
    <3>3. IsFiniteSet(others \cup {e})
      BY <3>1, FS_AddElement
    <3> QED BY <2>2, <3>1, <3>2, <3>3
  <2>7. TypeInv'
    BY <2>1, <2>2, <2>3, <2>4, <2>5, <2>6 DEF TypeInv
  <2>11. NumbersInv'
    <3>1. events' # <<>>
      BY <2>3, <2>4
    <3>2. \A a \in active' : a \in active \/ a = e
      BY <2>1, <2>2 DEF UpdateActive
    <3>3. \A a \in active : a.seq \in 1..nextSeq
      BY DEF BrokerIInv, NumbersInv
    <3>4. \A a \in active' : a.seq \in 1..nextSeq'
      BY <2>1, <2>2, <3>2, <3>3
    <3>5. Distinct(active')
      <4> SUFFICES ASSUME NEW x \in active', NEW y \in active', x.seq = y.seq PROVE x = y
        BY DEF Distinct
      <4>1. x \in active /\ y \in active => x = y
        BY DEF BrokerIInv, NumbersInv, Distinct
      <4>2. \A a \in active : a.seq # e.seq
        BY <2>2, <3>3
      <4> QED BY <3>2, <4>1, <4>2
    <3> QED BY <3>1, <3>4, <3>5 DEF NumbersInv
  <2>8. WindowIsContiguous'
    <3>1. Len(events) <= nextSeq
          /\ \A i \in 1..Len(events) : events[i].seq = nextSeq - Len(events) + i
      BY DEF BrokerIInv, WindowIsContiguous, Follows
    <3>2. ASSUME NEW i \in 1..Len(events')
          PROVE  events'[i].seq = nextSeq' - Len(events') + i
      <4>1. CASE i = Len(events')
        BY <2>1, <2>2, <2>3, <2>4, <4>1
      <4>2. CASE i \in 1..Len(events) - d
        <5>1. i + d \in 1..Len(events)
          BY <2>4, <4>2
        <5>2. events'[i].seq = nextSeq - Len(events) + (i + d)
          BY <2>3, <3>1, <4>2, <5>1
        <5>3. nextSeq' = nextSeq + 1 /\ Len(events') = Len(events) + 1 - d /\ i \in Nat
          BY <2>1, <2>3, <2>4, <4>2
        <5> QED BY <2>2, <2>4, <5>2, <5>3
      <4> QED BY <2>3, <2>4, <4>1, <4>2
    <3>3. Len(events') <= nextSeq'
      BY <2>1, <2>2, <2>3, <2>4, <3>1
    <3> QED BY <3>2, <3>3 DEF WindowIsContiguous, Follows
  <2>9. StreamHasNoGap'
    BY <2>5 DEF StreamHasNoGap
  <2>10. SnapshotsAreCurrent'
    <3>1. active' = IF kind \in Terminal THEN {a \in active : a.id # id}
                    ELSE {a \in active : a.id # id} \cup {e}
      BY <2>1, <2>2 DEF UpdateActive
    <3>2. \A a, b \in active' : a.id = b.id => a = b
      BY <2>2, <3>1 DEF BrokerIInv, SnapshotsAreCurrent
    <3>3. \A a \in active' : a.kind \notin Terminal
      BY <2>2, <3>1 DEF BrokerIInv, SnapshotsAreCurrent
    <3>4. ASSUME NEW i \in 1..Len(events'),
                 \A j \in i + 1..Len(events') : events'[j].id # events'[i].id
          PROVE  IF events'[i].kind \in Terminal
                 THEN \A a \in active' : a.id # events'[i].id
                 ELSE events'[i] \in active'
      <4>1. CASE i = Len(events')
        BY <2>2, <2>3, <3>1, <4>1
      <4>2. CASE i \in 1..Len(events) - d
        <5>1. i + d \in 1..Len(events) /\ events'[i] = events[i + d]
          BY <2>3, <2>4, <4>2
        <5>2. events[i + d].id # id
          <6>1. Len(events') \in i + 1..Len(events')
            BY <2>3, <2>4, <4>2
          <6> QED BY <2>2, <2>3, <3>4, <5>1, <6>1
        <5>3. ASSUME NEW j \in i + d + 1..Len(events)
              PROVE  events[j].id # events[i + d].id
          <6>1. j - d \in 1..Len(events) - d /\ j - d \in i + 1..Len(events')
            BY <2>3, <2>4, <4>2
          <6>2. events'[j - d] = events[j]
            <7>1. events'[j - d] = events[(j - d) + d]
              BY <2>3, <6>1
            <7>2. (j - d) + d = j
              BY <2>4
            <7> QED BY <7>1, <7>2
          <6> QED BY <3>4, <5>1, <6>1, <6>2
        <5>4. IF events[i + d].kind \in Terminal
              THEN \A a \in active : a.id # events[i + d].id
              ELSE events[i + d] \in active
          BY <5>1, <5>3 DEF BrokerIInv, SnapshotsAreCurrent
        <5> QED BY <2>2, <3>1, <5>1, <5>2, <5>4
      <4> QED BY <2>3, <2>4, <4>1, <4>2
    <3> QED BY <3>2, <3>3, <3>4 DEF SnapshotsAreCurrent
  <2> QED BY <2>7, <2>11, <2>8, <2>9, <2>10 DEF BrokerIInv
<1> QED BY <1>0, <1>1

\* A step of one subscription keeps the invariant if the subscription it
\* leaves behind is well formed and has no gap.
LEMMA OneSubscription ==
    ASSUME BrokerIInv, NEW c \in Subs, NEW s, subs' = [subs EXCEPT ![c] = s],
           SubOK(s), NoGap(s), UNCHANGED <<nextSeq, events, active>>
    PROVE  BrokerIInv'
<1>1. DOMAIN subs' = Subs /\ \A b \in Subs : subs'[b] = IF b = c THEN s ELSE subs[b]
  BY DEF BrokerIInv, TypeInv
<1>2. TypeInv'
  BY <1>1 DEF BrokerIInv, TypeInv
<1>3. StreamHasNoGap'
  BY <1>1 DEF BrokerIInv, StreamHasNoGap, NoGap
<1> QED BY <1>2, <1>3 DEF BrokerIInv, NumbersInv, WindowIsContiguous, SnapshotsAreCurrent

\* What Subscribe answers: a reset, or the events from the cursor on.
LEMMA SubscriptionOK ==
    ASSUME BrokerIInv, NEW n \in Nat
    PROVE  SubOK(Subscription(n)) /\ NoGap(Subscription(n))
<1> DEFINE s == Subscription(n)
           N == Len(events)
           replay == IF n = 0 \/ s.reset THEN Snapshots ELSE After(events, n)
<1>1. <<>> \in Seq(Event) /\ Len(<<>>) = 0
  BY EmptySeq
<1>2. /\ DOMAIN s = {"state", "resume", "from", "reset", "replay", "queue", "taken"}
      /\ s.state = "open" /\ s.queue = <<>> /\ s.taken = nextSeq /\ s.from = nextSeq
      /\ s.resume = n /\ s.reset = (n # 0 /\ CannotResume(n)) /\ s.reset \in BOOLEAN
      /\ s.replay = replay
  BY DEF Subscription
<1> HIDE DEF s
<1>3. /\ nextSeq \in Nat /\ events \in Seq(Event) /\ N \in Nat /\ N <= nextSeq
      /\ \A i \in 1..N : events[i].seq = nextSeq - N + i
  BY DEF BrokerIInv, TypeInv, WindowIsContiguous, Follows
<1>4. Snapshots \in Seq(Event)
  BY SnapshotsOK DEF BrokerIInv, TypeInv, NumbersInv
<1>5. ASSUME n # 0, ~s.reset
      PROVE  /\ replay \in Seq(Event) /\ Follows(replay, n)
             /\ n + Len(replay) = nextSeq /\ Len(replay) <= ReplayLimit
  <2>1. ~CannotResume(n)
    BY <1>2, <1>5
  <2>2. N > 0 /\ Last(events) = events[N] /\ Head(events) = events[1]
    BY <1>3, <2>1 DEF CannotResume, Last
  <2>3. Last(events).seq = nextSeq /\ Head(events).seq = nextSeq - N + 1
    BY <1>3, <2>2
  <2>4. n <= nextSeq /\ nextSeq - N <= n /\ nextSeq <= n + ReplayLimit
    BY <1>3, <2>1, <2>3, BrokerAssumption DEF CannotResume
  <2> DEFINE m == n - (nextSeq - N)
  <2>5. m \in 0..N /\ N - m = nextSeq - n /\ \A i \in 1..N : events[i].seq > n <=> i > m
    BY <1>3, <2>4
  <2>6. replay = After(events, n)
    BY <1>5
  <2>7. m \in Int
    BY <2>5
  <2> HIDE DEF replay, m
  <2>8. /\ replay \in Seq(Event) /\ Len(replay) = N - m
        /\ \A i \in 1..N - m : replay[i] = events[i + m]
    BY <1>3, <2>5, <2>6, AfterIsSuffix
  <2>9. ASSUME NEW i \in 1..Len(replay) PROVE replay[i].seq = n + i
    <3>1. i \in 1..N - m /\ i + m \in 1..N /\ nextSeq - N + (i + m) = n + i
      BY <1>3, <2>5, <2>7, <2>8 DEF m
    <3> QED BY <1>3, <2>8, <3>1
  <2> QED BY <1>3, <2>4, <2>5, <2>8, <2>9, BrokerAssumption DEF Follows
<1>6. replay \in Seq(Event)
  BY <1>4, <1>5
<1> HIDE DEF replay
<1>7. Exact(s)
  BY <1>2, <1>5 DEF Exact
<1>8. SubOK(s)
  BY <1>1, <1>2, <1>3, <1>6, <1>7 DEF SubOK
<1>9. NoGap(s)
  BY <1>1, <1>2, <1>3 DEF NoGap, Follows
<1> QED BY <1>8, <1>9 DEF s

\* Subscribing keeps the invariant.
LEMMA SubscribeInv ==
    ASSUME BrokerIInv, NEW c \in Subs, NEW n \in Nat, Subscribe(c, n)
    PROVE  BrokerIInv'
<1>1. subs' = [subs EXCEPT ![c] = Subscription(n)] /\ UNCHANGED <<nextSeq, events, active>>
  BY DEF Subscribe
<1> QED BY <1>1, SubscriptionOK, OneSubscription

LEMMA NextInv == BrokerIInv /\ [BrokerNext]_brokerVars => BrokerIInv'
<1> SUFFICES ASSUME BrokerIInv, [BrokerNext]_brokerVars PROVE BrokerIInv'
  OBVIOUS
<1>1. ASSUME NEW id \in Entries, NEW kind \in Kinds, Publish(id, kind) PROVE BrokerIInv'
  BY <1>1, PublishInv
<1>2. ASSUME NEW c \in Subs, NEW n \in Nat, Subscribe(c, n) PROVE BrokerIInv'
  BY <1>2, SubscribeInv
<1>3. ASSUME NEW c \in Subs, Take(c) PROVE BrokerIInv'
  <2> DEFINE q == subs[c].queue
             s == [subs[c] EXCEPT !.queue = Tail(q), !.taken = Head(q).seq]
  <2>1. SubOK(subs[c]) /\ NoGap(subs[c]) /\ DOMAIN subs = Subs /\ nextSeq \in Nat
    BY DEF BrokerIInv, TypeInv, StreamHasNoGap, NoGap
  <2>2. q # <<>> /\ q \in Seq(Event)
    BY <1>3, <2>1 DEF Take, SubOK
  <2>3. subs' = [subs EXCEPT ![c] = s] /\ UNCHANGED <<nextSeq, events, active>>
    BY <1>3, <2>1 DEF Take
  <2>4. /\ Len(q) \in Nat \ {0} /\ Head(q) = q[1] /\ Head(q) \in Event
        /\ Tail(q) \in Seq(Event) /\ Len(Tail(q)) = Len(q) - 1
        /\ \A i \in 1..Len(q) - 1 : Tail(q)[i] = q[i + 1]
    BY <2>2
  <2>5. /\ DOMAIN s = DOMAIN subs[c] /\ s.state = subs[c].state
        /\ s.queue = Tail(q) /\ s.taken = Head(q).seq /\ Asked(s, subs[c])
    BY <2>1 DEF SubOK, Asked
  <2> HIDE DEF s
  <2>6. Head(q).seq \in Nat
    BY <2>4 DEF Event
  <2>7. SubOK(s)
    BY <2>1, <2>4, <2>5, <2>6 DEF SubOK, Exact, Asked
  <2>8. subs[c].taken \in Nat /\ \A i \in 1..Len(q) : q[i].seq = subs[c].taken + i
    BY <2>1 DEF NoGap, Follows, SubOK
  <2>9. Head(q).seq = subs[c].taken + 1
    BY <2>4, <2>8
  <2>10. Follows(s.queue, s.taken)
    <3> SUFFICES ASSUME NEW i \in 1..Len(Tail(q))
                 PROVE  Tail(q)[i].seq = Head(q).seq + i
      BY <2>5 DEF Follows
    <3>1. i \in 1..Len(q) - 1 /\ i + 1 \in 1..Len(q)
      BY <2>4
    <3>2. Tail(q)[i].seq = subs[c].taken + (i + 1)
      BY <2>4, <2>8, <3>1
    <3> QED BY <2>8, <2>9, <3>1, <3>2
  <2>11. s.state = "open" => s.taken + Len(s.queue) = nextSeq
    <3> SUFFICES ASSUME subs[c].state = "open" PROVE Head(q).seq + Len(Tail(q)) = nextSeq
      BY <2>5
    <3>1. subs[c].taken + Len(q) = nextSeq
      BY <2>1 DEF NoGap
    <3>2. subs[c].taken \in Nat /\ Len(q) \in Nat /\ Len(Tail(q)) = Len(q) - 1
      BY <2>4, <2>8
    <3> HIDE DEF q
    <3> QED BY <2>9, <3>1, <3>2
  <2>12. NoGap(s)
    BY <2>10, <2>11 DEF NoGap
  <2> QED BY <2>3, <2>7, <2>12, OneSubscription
<1>4. ASSUME NEW c \in Subs, Unsubscribe(c) PROVE BrokerIInv'
  <2>1. <<>> \in Seq(Event) /\ Len(<<>>) = 0
    BY EmptySeq
  <2>2. SubOK(NoSub) /\ NoGap(NoSub)
    BY <2>1 DEF SubOK, NoSub, NoGap, Follows, Exact
  <2> QED BY <1>4, <2>2, OneSubscription DEF Unsubscribe
<1>5. ASSUME NEW c \in Subs, CloseChannel(c) PROVE BrokerIInv'
  <2> DEFINE s == [subs[c] EXCEPT !.state = "cut"]
  <2>1. SubOK(subs[c]) /\ NoGap(subs[c]) /\ DOMAIN subs = Subs
    BY DEF BrokerIInv, TypeInv, StreamHasNoGap, NoGap
  <2>2. subs' = [subs EXCEPT ![c] = s] /\ UNCHANGED <<nextSeq, events, active>>
    BY <1>5, <2>1 DEF CloseChannel
  <2>3. /\ DOMAIN s = DOMAIN subs[c] /\ s.state = "cut"
        /\ s.queue = subs[c].queue /\ s.taken = subs[c].taken /\ Asked(s, subs[c])
    BY <2>1 DEF SubOK, Asked
  <2> HIDE DEF s
  <2>4. subs[c].state # "none"
    BY <1>5 DEF CloseChannel
  <2>5. SubOK(s) /\ NoGap(s)
    BY <2>1, <2>3, <2>4 DEF SubOK, NoGap, Exact, Asked
  <2> QED BY <2>2, <2>5, OneSubscription
<1>6. ASSUME CloseBroker PROVE BrokerIInv'
  <2>1. ASSUME NEW c \in Subs
        PROVE  /\ SubOK(subs'[c])
               /\ Follows(subs'[c].queue, subs'[c].taken)
               /\ subs'[c].state # "open"
    <3>1. SubOK(subs[c]) /\ NoGap(subs[c])
      BY DEF BrokerIInv, TypeInv, StreamHasNoGap, NoGap
    <3>2. CASE subs[c].state = "open"
      <4> DEFINE s == [subs[c] EXCEPT !.state = "detached"]
      <4>1. subs'[c] = s
        BY <1>6, <3>2 DEF CloseBroker
      <4>2. /\ DOMAIN s = DOMAIN subs[c] /\ s.state = "detached"
            /\ s.queue = subs[c].queue /\ s.taken = subs[c].taken /\ Asked(s, subs[c])
        BY <3>1 DEF SubOK, Asked
      <4> HIDE DEF s
      <4>3. SubOK(s)
        BY <3>1, <3>2, <4>2 DEF SubOK, Exact, Asked
      <4> QED BY <3>1, <4>1, <4>2, <4>3 DEF NoGap
    <3>3. CASE subs[c].state # "open"
      BY <1>6, <3>1, <3>3 DEF CloseBroker, NoGap
    <3> QED BY <3>2, <3>3
  <2>2. UNCHANGED <<nextSeq, events, active>> /\ DOMAIN subs' = Subs
    BY <1>6 DEF CloseBroker
  <2>3. TypeInv'
    BY <2>1, <2>2 DEF BrokerIInv, TypeInv
  <2>4. StreamHasNoGap'
    BY <2>1 DEF StreamHasNoGap
  <2> QED BY <2>2, <2>3, <2>4 DEF BrokerIInv, NumbersInv, WindowIsContiguous, SnapshotsAreCurrent
<1>7. CASE UNCHANGED brokerVars
  BY <1>7 DEF brokerVars, BrokerIInv, TypeInv, NumbersInv, WindowIsContiguous, StreamHasNoGap,
              SnapshotsAreCurrent
<1> QED BY <1>1, <1>2, <1>3, <1>4, <1>5, <1>6, <1>7 DEF BrokerNext

-----------------------------------------------------------------------------
(* The stream: its steps are the broker's, or leave the broker alone, or start
   a new process. *)

LEMMA StreamInitInv == StreamInit => BrokerIInv
<1> SUFFICES ASSUME StreamInit PROVE BrokerIInv
  OBVIOUS
<1>1. PICK e \in Entries :
         LET first == [seq |-> 1, kind |-> "started", id |-> e]
         IN  /\ nextSeq = 1 /\ events = <<first>> /\ active = {first}
             /\ subs = [c \in Subs |-> [NoSub EXCEPT !.state = "open", !.taken = 1]]
  BY DEF StreamInit
<1> DEFINE first == [seq |-> 1, kind |-> "started", id |-> e]
           s == [NoSub EXCEPT !.state = "open", !.taken = 1]
<1>2. first \in Event /\ first.seq = 1 /\ first.kind \notin Terminal /\ first.id = e
  BY DEF Event, Kinds, Terminal
<1>3. <<>> \in Seq(Event) /\ Len(<<>>) = 0
  BY EmptySeq
<1>4. SubOK(s) /\ s.queue = <<>> /\ s.taken = 1
  BY <1>3 DEF SubOK, NoSub, Exact
<1>5. /\ nextSeq = 1 /\ events = <<first>> /\ active = {first}
      /\ subs = [c \in Subs |-> s]
  BY <1>1
<1> HIDE DEF first, s
<1>6. events \in Seq(Event) /\ Len(events) = 1 /\ events[1] = first
  BY <1>2, <1>5
<1>7. TypeInv /\ NumbersInv
  <2>1. IsFiniteSet(active)
    BY <1>5, FS_Singleton
  <2>2. TypeInv
    BY <1>2, <1>4, <1>5, <1>6, <2>1, BrokerAssumption DEF TypeInv
  <2>3. NumbersInv
    BY <1>2, <1>5, <1>6 DEF NumbersInv, Distinct
  <2> QED BY <2>2, <2>3
<1>8. WindowIsContiguous
  BY <1>2, <1>5, <1>6 DEF WindowIsContiguous, Follows
<1>9. StreamHasNoGap
  BY <1>3, <1>4, <1>5 DEF StreamHasNoGap, Follows
<1>10. SnapshotsAreCurrent
  BY <1>2, <1>5, <1>6 DEF SnapshotsAreCurrent
<1> QED BY <1>7, <1>8, <1>9, <1>10 DEF BrokerIInv

LEMMA RestartInv == Restart => BrokerIInv'
<1> SUFFICES ASSUME Restart PROVE BrokerIInv'
  OBVIOUS
<1>1. <<>> \in Seq(Event) /\ Len(<<>>) = 0
  BY EmptySeq
<1>2. SubOK(NoSub)
  BY <1>1 DEF SubOK, NoSub, Exact
<1>3. nextSeq' = 0 /\ events' = <<>> /\ active' = {} /\ subs' = [c \in Subs |-> NoSub]
  BY DEF Restart
<1>4. TypeInv' /\ NumbersInv'
  BY <1>1, <1>2, <1>3, BrokerAssumption, FS_EmptySet DEF TypeInv, NumbersInv, Distinct
<1>5. WindowIsContiguous'
  BY <1>1, <1>3 DEF WindowIsContiguous, Follows
<1>6. StreamHasNoGap'
  BY <1>1, <1>3 DEF StreamHasNoGap, NoSub, Follows
<1>7. SnapshotsAreCurrent'
  BY <1>1, <1>3 DEF SnapshotsAreCurrent
<1> QED BY <1>4, <1>5, <1>6, <1>7 DEF BrokerIInv

LEMMA StreamNextInv ==
    ASSUME BrokerIInv, \A c \in Subs : cursor[c] \in Nat, [StreamNext]_streamVars
    PROVE  BrokerIInv'
<1>1. ASSUME [BrokerNext]_brokerVars PROVE BrokerIInv'
  BY <1>1, NextInv
<1>2. ASSUME NEW e \in Entries, Entry(e) PROVE BrokerIInv'
  <2>1. ASSUME NEW k \in Kinds, Publish(e, k) PROVE BrokerIInv'
    BY <2>1, PublishInv
  <2>2. CASE Persist(e)
    BY <1>1, <2>2 DEF Persist
  <2>3. CASE ~Persist(e)
    <3>1. \E k \in {"started", "completed", "flushed", "failed", "removed"} : Publish(e, k)
      BY <1>2, <2>3 DEF Entry, Start, Complete, PublishFlushed, Fail, Discard, Log
    <3> QED BY <2>1, <3>1 DEF Kinds
  <2> QED BY <2>2, <2>3
<1>3. ASSUME NEW c \in Subs, Serve(c) PROVE BrokerIInv'
  <2>1. CASE Connect(c)
    BY <2>1, SubscribeInv DEF Connect
  <2>2. CASE SendReset(c) \/ SendReplay(c)
    BY <1>1, <2>2 DEF SendReset, SendReplay
  <2>3. CASE SendEvent(c)
    BY <1>1, <2>3 DEF SendEvent, BrokerNext
  <2>4. CASE EndOfStream(c)
    BY <1>1, <2>4 DEF EndOfStream, Disconnect, BrokerNext
  <2> QED BY <1>3, <2>1, <2>2, <2>3, <2>4 DEF Serve
<1>4. ASSUME NEW c \in Subs, Fetch(c) \/ Heartbeat(c) PROVE BrokerIInv'
  BY <1>1, <1>4 DEF Fetch, AnswerReload, ApplyReload, Heartbeat
<1>5. ASSUME NEW c \in Subs, Drop(c) PROVE BrokerIInv'
  BY <1>1, <1>5 DEF Drop, Disconnect, BrokerNext
<1>6. ASSUME NEW c \in Subs, ShutdownChannel(c) PROVE BrokerIInv'
  BY <1>1, <1>6 DEF ShutdownChannel, BrokerNext
<1>7. CASE Shutdown
  BY <1>1, <1>7 DEF Shutdown, BrokerNext
<1>8. CASE Restart
  BY <1>8, RestartInv
<1>9. CASE UNCHANGED streamVars
  BY <1>1, <1>9 DEF streamVars
<1> QED BY <1>2, <1>3, <1>4, <1>5, <1>6, <1>7, <1>8, <1>9 DEF StreamNext

-----------------------------------------------------------------------------
(* The dashboard.  The invariant of DashboardTells says, of every browser and
   entry, that what is on its way to the browser ends with the entry's last
   event; that, if nothing of the entry is on its way, the row is right or
   the fetch under way will make it right; and that a browser which is not
   connected is right up to its cursor or will be reset. *)

DashTypes ==
    /\ phase \in [Entries -> {"new", "started", "completed", "stored", "flushed", "failed",
                              "removed", "lost"}]
    /\ link \in [Subs -> BOOLEAN]
    /\ todo \in [Subs -> [reset : BOOLEAN, replay : Seq(Event)]]
    /\ cursor \in [Subs -> Nat \ {0}]
    /\ view \in [Subs -> [Entries -> {"none", "row", "started", "completed", "failed",
                                      "flushed"}]]
    /\ reload \in [Subs -> {"no", "asked", "answered"}]
    /\ answer \in [Subs -> SUBSET Entries]
    /\ foreign \in [Subs -> BOOLEAN]
    /\ hist \in [Subs -> SUBSET Mishaps]

\* The last number that the window has lost.
Base == nextSeq - Len(events)

\* The number of x is in use, and the window still has x if it goes back so far.
Numbered(x) == x.seq \in 1..nextSeq /\ (x.seq > Base => events[x.seq - Base] = x)

\* The entry has got at least as far as x says, in this process.
KindFits(x) ==
    /\ phase[x.id] \notin {"new", "lost"}
    /\ x.kind = "completed" => phase[x.id] # "started"
    /\ x.kind \in Terminal => phase[x.id] = x.kind

Genuine(s) == \A i \in 1..Len(s) : Numbered(s[i]) /\ KindFits(s[i])

\* The kind of the last event of an entry.
LastKind(e) == IF phase[e] = "stored" THEN "completed" ELSE phase[e]

InProgress(e) == phase[e] \in {"started", "completed", "stored"}

Holds(s, e) == \E i \in 1..Len(s) : s[i].id = e

\* The last event of e in s, if there is one, is of kind k.
EndsWith(s, e, k) ==
    \A i \in 1..Len(s) :
        s[i].id = e /\ (\A j \in i + 1..Len(s) : s[j].id # e) => s[i].kind = k

\* Something of e came after number n, or the window no longer tells.
Behind(n, e) == n < Base \/ \E i \in 1..Len(events) : events[i].seq > n /\ events[i].id = e

\* What browser c shows of e is right, or its fetch will make it right.
Shown(c, e) ==
    /\ phase[e] \in {"started", "completed"} => view[c][e] = phase[e]
    /\ phase[e] = "stored" => view[c][e] \in {"completed", "row"}
    /\ phase[e] = "flushed" /\ ~todo[c].reset =>
          \/ reload[c] = "asked"
          \/ reload[c] = "answered" /\ e \in answer[c]
          \/ reload[c] = "no" /\ view[c][e] \in {"flushed", "row"}
    /\ hist[c] = {} /\ ~todo[c].reset /\ view[c][e] \in {"started", "completed"} => InProgress(e)

\* The last number that the channel of c holds or held.
Frontier(c) == subs[c].taken + Len(subs[c].queue)

\* A connected browser: what is on its way tells the rest.
OnItsWay(c, e) ==
    ~Behind(Frontier(c), e) =>
        /\ EndsWith(subs[c].queue, e, LastKind(e))
        /\ ~Holds(subs[c].queue, e) => EndsWith(todo[c].replay, e, LastKind(e))
        /\ ~Holds(subs[c].queue, e) /\ ~Holds(todo[c].replay, e) => Shown(c, e)

\* One that is not: it knows everything up to its cursor, or it will be reset.
UpToCursor(c, e) == ~Behind(cursor[c], e) => Shown(c, e)

Informed(c) ==
    IF link[c] THEN \A e \in Entries : OnItsWay(c, e)
    ELSE foreign[c] \/ CannotResume(cursor[c]) \/ \A e \in Entries : UpToCursor(c, e)

\* How far a row is tells how far its entry is.
ViewFits(c, e) ==
    /\ view[c][e] = "started" => phase[e] # "new"
    /\ view[c][e] = "completed" => phase[e] \notin {"new", "started"}
    /\ view[c][e] = "failed" => phase[e] \in {"failed", "lost"}
    /\ view[c][e] = "flushed" => phase[e] = "flushed"
    /\ view[c][e] = "row" => e \in Persisted

FetchFits(c) ==
    /\ answer[c] \subseteq Persisted
    /\ reload[c] # "no" => "reset" \in hist[c]
    /\ reload[c] = "answered" /\ "overtaken" \notin hist[c] =>
          \A e \in Entries : view[c][e] \in {"flushed", "row"} => e \in answer[c]

LinkFits(c) ==
    /\ link[c] <=> subs[c].state # "none"
    /\ ~link[c] => todo[c] = NothingToDo
    /\ Frontier(c) <= nextSeq
    /\ subs[c].state = "open" => ~brokerClosed
    /\ ~foreign[c] => cursor[c] <= nextSeq
    /\ todo[c].reset /\ ~foreign[c] => CannotResume(cursor[c])
    /\ Genuine(subs[c].queue)
    /\ Genuine(todo[c].replay)

BrowserOK(c) ==
    /\ LinkFits(c)
    /\ FetchFits(c)
    /\ \A e \in Entries : ViewFits(c, e)
    /\ ~brokerClosed /\ Lucky(c) => Informed(c)

\* The window and the snapshots tell how far the entries are.
EventsFit ==
    /\ \A a \in active : Numbered(a) /\ KindFits(a)
    /\ Genuine(events)
    /\ ~brokerClosed =>
          /\ \A e \in Entries : EndsWith(events, e, LastKind(e))
          /\ \A a \in active : InProgress(a.id) /\ a.kind = LastKind(a.id)
          /\ \A e \in Entries : InProgress(e) => \E a \in active : a.id = e

DashInv == DashTypes /\ EventsFit /\ \A c \in Subs : BrowserOK(c)

StreamIInv == BrokerIInv /\ DashInv

-----------------------------------------------------------------------------
(* What is on its way *)

LEMMA AfterAppend ==
    ASSUME NEW s \in Seq(Event), NEW x \in Event, NEW e, NEW k
    PROVE  /\ Holds(Append(s, x), e) <=> Holds(s, e) \/ x.id = e
           /\ x.id = e /\ x.kind = k => EndsWith(Append(s, x), e, k)
           /\ x.id # e /\ EndsWith(s, e, k) => EndsWith(Append(s, x), e, k)
<1> DEFINE t == Append(s, x)
<1>1. /\ Len(s) \in Nat /\ Len(t) = Len(s) + 1
      /\ \A i \in 1..Len(s) : t[i] = s[i]
      /\ t[Len(s) + 1] = x
  OBVIOUS
<1> HIDE DEF t
<1>2. \A i \in 1..Len(t) : i \in 1..Len(s) \/ i = Len(s) + 1
  BY <1>1
<1>3. 1..Len(s) \subseteq 1..Len(t) /\ Len(s) + 1 \in 1..Len(t)
  BY <1>1
<1>4. Holds(t, e) <=> Holds(s, e) \/ x.id = e
  BY <1>1, <1>2, <1>3 DEF Holds
<1>5. ASSUME x.id = e, x.kind = k PROVE EndsWith(t, e, k)
  <2> SUFFICES ASSUME NEW i \in 1..Len(t), \A j \in i + 1..Len(t) : t[j].id # e
               PROVE  t[i].kind = k
    BY DEF EndsWith
  <2>1. CASE i = Len(s) + 1
    BY <1>1, <1>5, <2>1
  <2>2. CASE i \in 1..Len(s)
    <3>1. Len(s) + 1 \in i + 1..Len(t)
      BY <1>1, <2>2
    <3> QED BY <1>1, <1>5, <3>1
  <2> QED BY <1>2, <2>1, <2>2
<1>6. ASSUME x.id # e, EndsWith(s, e, k) PROVE EndsWith(t, e, k)
  <2> SUFFICES ASSUME NEW i \in 1..Len(t), t[i].id = e, \A j \in i + 1..Len(t) : t[j].id # e
               PROVE  t[i].kind = k
    BY DEF EndsWith
  <2>1. i \in 1..Len(s)
    BY <1>1, <1>2, <1>6
  <2>2. \A j \in i + 1..Len(s) : j \in 1..Len(s) /\ j \in i + 1..Len(t)
    BY <1>1, <2>1
  <2>3. \A j \in i + 1..Len(s) : s[j].id # e
    BY <1>1, <2>2
  <2> QED BY <1>1, <1>6, <2>1, <2>3 DEF EndsWith
<1> QED BY <1>4, <1>5, <1>6 DEF t

LEMMA HoldsAppend ==
    ASSUME NEW s \in Seq(Event), NEW x \in Event, NEW e
    PROVE  Holds(Append(s, x), e) <=> Holds(s, e) \/ x.id = e
<1> DEFINE k == "started"
<1> QED BY AfterAppend, k = k

\* The last events of a sequence end as it does.
LEMMA AfterSuffix ==
    ASSUME NEW s \in Seq(Event), NEW t \in Seq(Event), NEW d \in Nat,
           Len(t) = Len(s) - d, \A i \in 1..Len(t) : t[i] = s[i + d],
           NEW e, NEW k, EndsWith(s, e, k)
    PROVE  EndsWith(t, e, k)
<1>1. Len(s) \in Nat /\ Len(t) \in Nat
  OBVIOUS
<1> SUFFICES ASSUME NEW i \in 1..Len(t), t[i].id = e, \A j \in i + 1..Len(t) : t[j].id # e
             PROVE  t[i].kind = k
  BY DEF EndsWith
<1>2. i + d \in 1..Len(s) /\ t[i] = s[i + d]
  BY <1>1
<1>3. ASSUME NEW j \in i + d + 1..Len(s) PROVE s[j].id # e
  <2>1. j - d \in 1..Len(t) /\ j - d \in i + 1..Len(t) /\ (j - d) + d = j
    BY <1>1
  <2>2. t[j - d] = s[j]
    BY <2>1
  <2> QED BY <2>1, <2>2
<1>4. \A j \in (i + d) + 1..Len(s) : s[j].id # e
  BY <1>1, <1>3
<1> QED BY <1>2, <1>4 DEF EndsWith

LEMMA AfterTail ==
    ASSUME NEW s \in Seq(Event), s # <<>>, NEW e, NEW k
    PROVE  /\ Head(s) \in Event /\ Tail(s) \in Seq(Event)
           /\ Holds(s, e) <=> Head(s).id = e \/ Holds(Tail(s), e)
           /\ EndsWith(s, e, k) => EndsWith(Tail(s), e, k)
           /\ EndsWith(s, e, k) /\ Head(s).id = e /\ ~Holds(Tail(s), e) => Head(s).kind = k
           /\ Genuine(s) => Genuine(Tail(s)) /\ Numbered(Head(s)) /\ KindFits(Head(s))
<1> DEFINE t == Tail(s)
<1>1. /\ Len(s) \in Nat \ {0} /\ Head(s) = s[1] /\ Head(s) \in Event /\ t \in Seq(Event)
      /\ Len(t) = Len(s) - 1
      /\ \A i \in 1..Len(t) : t[i] = s[i + 1]
  OBVIOUS
<1> HIDE DEF t
<1>2. \A i \in 1..Len(t) : i + 1 \in 1..Len(s)
  BY <1>1
<1>3. \A i \in 1..Len(s) : i = 1 \/ (i - 1 \in 1..Len(t) /\ t[i - 1] = s[i])
  <2> SUFFICES ASSUME NEW i \in 1..Len(s), i # 1 PROVE i - 1 \in 1..Len(t) /\ t[i - 1] = s[i]
    OBVIOUS
  <2>1. i - 1 \in 1..Len(t) /\ (i - 1) + 1 = i
    BY <1>1
  <2> QED BY <1>1, <2>1
<1>4. Holds(s, e) <=> Head(s).id = e \/ Holds(t, e)
  <2>1. Holds(s, e) => Head(s).id = e \/ Holds(t, e)
    BY <1>1, <1>3 DEF Holds
  <2>2. Holds(t, e) => Holds(s, e)
    BY <1>1, <1>2 DEF Holds
  <2>3. Head(s).id = e => Holds(s, e)
    <3>1. 1 \in 1..Len(s)
      BY <1>1
    <3> QED BY <1>1, <3>1 DEF Holds
  <2> QED BY <2>1, <2>2, <2>3
<1>5. EndsWith(s, e, k) => EndsWith(t, e, k)
  BY <1>1, AfterSuffix
<1>6. EndsWith(s, e, k) /\ Head(s).id = e /\ ~Holds(t, e) => Head(s).kind = k
  <2> SUFFICES ASSUME EndsWith(s, e, k), Head(s).id = e, ~Holds(t, e) PROVE Head(s).kind = k
    OBVIOUS
  <2>1. 1 \in 1..Len(s)
    BY <1>1
  <2>2. ASSUME NEW j \in 1 + 1..Len(s) PROVE s[j].id # e
    <3>1. j \in 1..Len(s) /\ j # 1
      BY <1>1
    <3> QED BY <1>3, <3>1 DEF Holds
  <2> QED BY <1>1, <2>1, <2>2 DEF EndsWith
<1>7. Genuine(s) => Genuine(t) /\ Numbered(Head(s)) /\ KindFits(Head(s))
  <2>1. 1 \in 1..Len(s)
    BY <1>1
  <2> QED BY <1>1, <1>2, <2>1 DEF Genuine
<1> QED BY <1>1, <1>4, <1>5, <1>6, <1>7 DEF t

LEMMA Nothing ==
    /\ <<>> \in Seq(Event) /\ Len(<<>>) = 0
    /\ \A e, k : ~Holds(<<>>, e) /\ EndsWith(<<>>, e, k)
    /\ Genuine(<<>>)
<1>1. <<>> \in Seq(Event) /\ Len(<<>>) = 0
  BY EmptySeq
<1> QED BY <1>1 DEF Holds, EndsWith, Genuine

-----------------------------------------------------------------------------
(* How far the window tells *)

LEMMA WindowFacts ==
    ASSUME BrokerIInv
    PROVE  /\ nextSeq \in Nat /\ events \in Seq(Event) /\ Len(events) \in Nat
           /\ Base \in Nat /\ Base + Len(events) = nextSeq
           /\ \A i \in 1..Len(events) : events[i] \in Event /\ events[i].seq = Base + i
<1>1. /\ nextSeq \in Nat /\ events \in Seq(Event) /\ Len(events) <= nextSeq
      /\ \A i \in 1..Len(events) : events[i].seq = nextSeq - Len(events) + i
  BY DEF BrokerIInv, TypeInv, WindowIsContiguous, Follows
<1>2. Len(events) \in Nat /\ \A i \in 1..Len(events) : events[i] \in Event
  BY <1>1, ElementOfSeq
<1> QED BY <1>1, <1>2 DEF Base

\* Nothing came after the last event.
LEMMA UpToDate ==
    ASSUME BrokerIInv, NEW e
    PROVE  ~Behind(nextSeq, e)
BY WindowFacts DEF Behind

LEMMA ResumeFacts ==
    ASSUME BrokerIInv, NEW n \in Nat
    PROVE  CannotResume(n) <=>
             \/ Len(events) = 0 \/ n > nextSeq \/ n < Base \/ nextSeq > n + ReplayLimit
<1>1. CASE events = <<>>
  BY <1>1, WindowFacts DEF CannotResume
<1>2. CASE events # <<>>
  <2>1. Len(events) \in Nat \ {0}
    BY <1>2, WindowFacts
  <2>2. 1 \in 1..Len(events) /\ Len(events) \in 1..Len(events)
    BY <2>1
  <2>3. Last(events) = events[Len(events)] /\ Head(events) = events[1]
    BY <1>2, WindowFacts DEF Last
  <2>4. Last(events).seq = nextSeq /\ Head(events).seq = Base + 1
    BY <2>1, <2>2, <2>3, WindowFacts
  <2>5. n + 1 < Base + 1 <=> n < Base
    BY WindowFacts
  <2> QED BY <1>2, <2>1, <2>4, <2>5 DEF CannotResume
<1> QED BY <1>1, <1>2

\* What a publish does to the numbers: the window moves on by one.
LEMMA PublishMoves ==
    ASSUME BrokerIInv, NEW id \in Entries, NEW kind \in Kinds, Publish(id, kind), ~brokerClosed
    PROVE  LET x == NewEvent(id, kind)
           IN  /\ x \in Event /\ x.seq = nextSeq + 1 /\ x.id = id /\ x.kind = kind
               /\ nextSeq' = nextSeq + 1
               /\ Base <= Base' /\ Base' <= nextSeq
               /\ Len(events') \in Nat \ {0} /\ Base' + Len(events') = nextSeq + 1
               /\ events'[Len(events')] = x
               /\ \E d \in {0, 1} :
                     /\ Base' = Base + d /\ Len(events') = Len(events) + 1 - d
                     /\ \A i \in 1..Len(events') : i # Len(events') =>
                           i + d \in 1..Len(events) /\ events'[i] = events[i + d]
               /\ \A y : Numbered(y) \/ y = x => Numbered(y)'
<1> DEFINE x == NewEvent(id, kind)
<1>1. /\ nextSeq' = nextSeq + 1 /\ events' = Trim(Append(events, x))
  BY DEF Publish, NewEvent
<1>2. x \in Event /\ x.seq = nextSeq + 1 /\ x.id = id /\ x.kind = kind
  BY WindowFacts DEF NewEvent, Event
<1> HIDE DEF x
<1>3. Len(events) <= BufferSize
  BY DEF BrokerIInv, TypeInv
<1>4. PICK d \in {0, 1} :
           /\ events' \in Seq(Event)
           /\ Len(events') = Len(events) + 1 - d
           /\ Len(events') \in 1..BufferSize
           /\ \A i \in 1..Len(events) - d : events'[i] = events[i + d]
           /\ events'[Len(events')] = x
  BY <1>1, <1>2, <1>3, WindowFacts, TrimAppend
<1>5. BrokerIInv'
  BY PublishInv
<1>6. Base' = nextSeq' - Len(events') /\ Base = nextSeq - Len(events)
  BY DEF Base
<1>7. /\ Base' = Base + d /\ Base' \in Nat /\ Base \in Nat
      /\ Len(events') \in Nat \ {0} /\ Base' + Len(events') = nextSeq + 1
      /\ Base <= Base' /\ Base' <= nextSeq
  <2>1. Len(events) \in Nat /\ Base \in Nat /\ nextSeq \in Nat
    BY WindowFacts
  <2>2. Len(events') = Len(events) + 1 - d /\ Len(events') \in 1..BufferSize /\ nextSeq' = nextSeq + 1
    BY <1>1, <1>4
  <2>3. BufferSize \in Nat
    BY BrokerAssumption
  <2>4. d = 0 \/ d = 1
    OBVIOUS
  <2>5. Len(events') \in Nat \ {0}
    BY <2>2, <2>3
  <2>6. Base' = Base + d
    BY <1>6, <2>1, <2>2, <2>4
  <2>7. Base' + Len(events') = nextSeq + 1
    BY <1>6, <2>1, <2>2, <2>4
  <2> QED BY <2>1, <2>4, <2>5, <2>6, <2>7
<1>8. ASSUME NEW i \in 1..Len(events'), i # Len(events')
      PROVE  i + d \in 1..Len(events) /\ events'[i] = events[i + d]
  <2>1. i \in 1..Len(events) - d /\ i + d \in 1..Len(events)
    BY <1>4, <1>7, <1>8, WindowFacts
  <2> QED BY <1>4, <2>1
<1>9. ASSUME NEW y, y = x PROVE Numbered(y)'
  <2>1. y.seq \in 1..nextSeq' /\ y.seq - Base' = Len(events')
    <3>1. y.seq = nextSeq + 1 /\ nextSeq \in Nat
      BY <1>2, <1>9, WindowFacts
    <3> QED BY <1>1, <1>7, <3>1
  <2>2. events'[y.seq - Base'] = y
    BY <1>4, <1>9, <2>1
  <2> QED BY <2>1, <2>2 DEF Numbered
<1>10. ASSUME NEW y, Numbered(y) PROVE Numbered(y)'
  <2>1. y.seq \in 1..nextSeq /\ (y.seq > Base => events[y.seq - Base] = y)
    BY <1>10 DEF Numbered
  <2>2. y.seq \in 1..nextSeq'
    BY <1>1, <2>1, WindowFacts
  <2>3. ASSUME y.seq > Base' PROVE events'[y.seq - Base'] = y
    <3>0. d \in Nat /\ y.seq \in Nat /\ Len(events) \in Nat /\ nextSeq = Base + Len(events)
      BY <2>1, WindowFacts
    <3>1. y.seq - Base' \in 1..Len(events) - d /\ (y.seq - Base') + d = y.seq - Base
          /\ y.seq > Base
      BY <1>7, <2>1, <2>3, <3>0
    <3>2. events'[y.seq - Base'] = events[y.seq - Base]
      BY <1>4, <3>1
    <3> QED BY <2>1, <3>1, <3>2
  <2> QED BY <2>2, <2>3 DEF Numbered
<1> QED BY <1>1, <1>2, <1>4, <1>7, <1>8, <1>9, <1>10 DEF x

-----------------------------------------------------------------------------
(* The steps of the loggers *)

Moves == {<<"new", "started">>, <<"started", "completed">>, <<"completed", "stored">>,
          <<"completed", "failed">>, <<"stored", "flushed">>, <<"started", "removed">>,
          <<"completed", "removed">>}

\* An entry that gets further makes nothing wrong that fitted it.
LEMMA GetsFurther ==
    ASSUME DashTypes, NEW e \in Entries, NEW from, NEW to, <<from, to>> \in Moves,
           phase[e] = from, phase' = [phase EXCEPT ![e] = to]
    PROVE  /\ phase'[e] = to /\ \A f \in Entries : f # e => phase'[f] = phase[f]
           /\ Persisted \subseteq Persisted'
           /\ \A x \in Event : KindFits(x) => KindFits(x)'
           /\ \A c \in Subs, f \in Entries :
                 view' = view /\ ViewFits(c, f) => ViewFits(c, f)'
<1>1. phase'[e] = to /\ \A f \in Entries : f # e => phase'[f] = phase[f]
  BY DEF DashTypes
<1>2. Persisted \subseteq Persisted'
  BY <1>1 DEF Persisted, Moves
<1>3. ASSUME NEW x \in Event, KindFits(x) PROVE KindFits(x)'
  <2>1. x.id \in Entries /\ x.kind \in Kinds
    BY DEF Event
  <2>2. CASE x.id # e
    BY <1>1, <1>3, <2>1, <2>2 DEF KindFits
  <2>3. CASE x.id = e
    BY <1>1, <1>3, <2>1, <2>3 DEF KindFits, Moves, Terminal
  <2> QED BY <2>2, <2>3
<1>4. ASSUME NEW c \in Subs, NEW f \in Entries, view' = view, ViewFits(c, f)
      PROVE  ViewFits(c, f)'
  <2>1. CASE f # e
    BY <1>1, <1>2, <1>4, <2>1 DEF ViewFits
  <2>2. CASE f = e
    <3>1. phase[f] = from /\ phase'[f] = to
      BY <1>1, <2>2
    <3>2. f \in Persisted => f \in Persisted'
      BY <1>2
    <3> QED BY <1>4, <3>1, <3>2 DEF ViewFits, Moves
  <2> QED BY <2>1, <2>2
<1> QED BY <1>1, <1>2, <1>3, <1>4

Elsewhere == UNCHANGED <<link, todo, browserVars, hist>>

\* The row of an entry that did not move is as right as it was.
LEMMA ShownStays ==
    ASSUME NEW c \in Subs, NEW f \in Entries, phase'[f] = phase[f], Elsewhere, Shown(c, f)
    PROVE  Shown(c, f)'
BY DEF Shown, InProgress, Elsewhere, browserVars

LEMMA FetchStays ==
    ASSUME NEW c \in Subs, Persisted \subseteq Persisted', Elsewhere, FetchFits(c)
    PROVE  FetchFits(c)'
BY DEF FetchFits, Elsewhere, browserVars

\* The store has an entry: its row says completed, and that is right.
LEMMA PersistInv ==
    ASSUME StreamIInv, NEW e \in Entries, Persist(e)
    PROVE  DashInv'
<1>1. /\ phase[e] = "completed" /\ phase' = [phase EXCEPT ![e] = "stored"]
      /\ UNCHANGED brokerVars /\ Elsewhere
  BY DEF Persist, Elsewhere
<1>2. DashTypes /\ EventsFit /\ (\A c \in Subs : BrowserOK(c)) /\ BrokerIInv
  BY DEF StreamIInv, DashInv
<1>3. /\ phase'[e] = "stored" /\ \A f \in Entries : f # e => phase'[f] = phase[f]
      /\ Persisted \subseteq Persisted'
      /\ \A x \in Event : KindFits(x) => KindFits(x)'
      /\ \A c \in Subs, f \in Entries : ViewFits(c, f) => ViewFits(c, f)'
  <2>1. view' = view /\ <<"completed", "stored">> \in Moves
    BY <1>1 DEF Elsewhere, browserVars, Moves
  <2> QED BY <1>1, <1>2, <2>1, GetsFurther
<1>4. DashTypes'
  BY <1>1, <1>2 DEF DashTypes, Elsewhere, browserVars
<1>5. UNCHANGED <<nextSeq, events, active, subs, brokerClosed, Base>>
  BY <1>1 DEF brokerVars, Base
<1>6. \A x : Numbered(x) => Numbered(x)'
  BY <1>5 DEF Numbered
<1>7. \A s \in Seq(Event) : Genuine(s) => Genuine(s)'
  BY <1>3, <1>6, ElementOfSeq DEF Genuine
<1>8. \A f \in Entries : LastKind(f)' = LastKind(f) /\ (InProgress(f) <=> InProgress(f)')
  BY <1>1, <1>3 DEF LastKind, InProgress
<1>9. EventsFit'
  <2>1. active \in SUBSET Event /\ events \in Seq(Event)
    BY <1>2 DEF BrokerIInv, TypeInv
  <2>2. \A a \in active : a \in Event /\ a.id \in Entries
    BY <2>1 DEF Event
  <2>3. \A a \in active' : Numbered(a)' /\ KindFits(a)'
    BY <1>2, <1>3, <1>5, <1>6, <2>2 DEF EventsFit
  <2>4. Genuine(events)'
    <3>1. Genuine(events)
      BY <1>2 DEF EventsFit
    <3>2. \A i \in 1..Len(events) : events[i] \in Event
      BY <2>1, ElementOfSeq
    <3> QED BY <1>3, <1>5, <1>6, <3>1, <3>2 DEF Genuine
  <2>5. ASSUME ~brokerClosed'
        PROVE  /\ \A f \in Entries : EndsWith(events, f, LastKind(f))'
               /\ \A a \in active' : InProgress(a.id)' /\ a.kind = LastKind(a.id)'
               /\ \A f \in Entries : InProgress(f)' => \E a \in active' : a.id = f
    <3>1. /\ \A f \in Entries : EndsWith(events, f, LastKind(f))
          /\ \A a \in active : InProgress(a.id) /\ a.kind = LastKind(a.id)
          /\ \A f \in Entries : InProgress(f) => \E a \in active : a.id = f
      BY <1>2, <1>5, <2>5 DEF EventsFit
    <3>2. \A f \in Entries : EndsWith(events, f, LastKind(f))'
      BY <1>5, <1>8, <3>1 DEF EndsWith
    <3> QED BY <1>5, <1>8, <2>2, <3>1, <3>2
  <2> QED BY <2>3, <2>4, <2>5 DEF EventsFit
<1>10. ASSUME NEW c \in Subs PROVE BrowserOK(c)'
  <2>1. LinkFits(c) /\ FetchFits(c) /\ (\A f \in Entries : ViewFits(c, f))
        /\ (~brokerClosed /\ Lucky(c) => Informed(c))
    BY <1>2 DEF BrowserOK
  <2>2. UNCHANGED <<link, todo, cursor, foreign, view, reload, answer, hist>>
    BY <1>1 DEF Elsewhere, browserVars
  <2>3. subs[c].queue \in Seq(Event) /\ todo[c].replay \in Seq(Event)
    BY <1>2 DEF BrokerIInv, TypeInv, SubOK, DashTypes
  <2>4. LinkFits(c)'
    <3>1. Genuine(subs[c].queue)' /\ Genuine(todo[c].replay)'
      <4>1. Genuine(subs[c].queue) /\ Genuine(todo[c].replay)
        BY <2>1 DEF LinkFits
      <4>2. /\ \A i \in 1..Len(subs[c].queue) : subs[c].queue[i] \in Event
            /\ \A i \in 1..Len(todo[c].replay) : todo[c].replay[i] \in Event
        BY <2>3, ElementOfSeq
      <4> QED BY <1>3, <1>5, <1>6, <2>2, <4>1, <4>2 DEF Genuine
    <3> QED BY <1>5, <2>1, <2>2, <3>1 DEF LinkFits, Frontier, CannotResume
  <2>5. FetchFits(c)'
    BY <1>1, <1>3, <2>1, FetchStays
  <2>6. \A f \in Entries : ViewFits(c, f)'
    BY <1>3, <2>1
  <2>7. ASSUME NEW f \in Entries, Shown(c, f) PROVE Shown(c, f)'
    <3>1. CASE f # e
      BY <1>1, <1>3, <2>7, <3>1, ShownStays
    <3>2. CASE f = e
      BY <1>1, <1>3, <2>2, <2>7, <3>2 DEF Shown, InProgress
    <3> QED BY <3>1, <3>2
  <2>8. ASSUME ~brokerClosed', Lucky(c)' PROVE Informed(c)'
    <3>1. Informed(c)
      BY <1>5, <2>1, <2>2, <2>8 DEF Lucky
    <3>2. \A n, f : Behind(n, f)' <=> Behind(n, f)
      BY <1>5 DEF Behind
    <3>3. CASE link[c]
      <4>1. \A f \in Entries : OnItsWay(c, f)
        BY <3>1, <3>3 DEF Informed
      <4>2. Frontier(c)' = Frontier(c)
        BY <1>5 DEF Frontier
      <4>3. ASSUME NEW f \in Entries PROVE OnItsWay(c, f)'
        BY <1>5, <1>8, <2>2, <2>7, <3>2, <4>1, <4>2 DEF OnItsWay, EndsWith, Holds
      <4> QED BY <2>2, <3>3, <4>3 DEF Informed
    <3>4. CASE ~link[c]
      <4>1. (\A f \in Entries : UpToCursor(c, f)) => \A f \in Entries : UpToCursor(c, f)'
        BY <2>2, <2>7, <3>2 DEF UpToCursor
      <4>2. CannotResume(cursor[c])' <=> CannotResume(cursor[c])
        BY <1>5, <2>2 DEF CannotResume
      <4> QED BY <2>2, <3>1, <3>4, <4>1, <4>2 DEF Informed
    <3> QED BY <3>3, <3>4
  <2> QED BY <2>4, <2>5, <2>6, <2>8 DEF BrowserOK
<1> QED BY <1>4, <1>9, <1>10 DEF DashInv

\* Once the broker is closed an entry moves on without an event, and nobody is
\* promised anything until the restart.
LEMMA LogClosedInv ==
    ASSUME StreamIInv, NEW e \in Entries, NEW from, NEW to, <<from, to>> \in Moves,
           Log(e, from, to, to), brokerClosed
    PROVE  DashInv'
<1>1. /\ phase[e] = from /\ phase' = [phase EXCEPT ![e] = to]
      /\ UNCHANGED brokerVars /\ Elsewhere
  BY DEF Log, Publish, Elsewhere
<1>2. DashTypes /\ EventsFit /\ (\A c \in Subs : BrowserOK(c)) /\ BrokerIInv
  BY DEF StreamIInv, DashInv
<1>3. /\ Persisted \subseteq Persisted'
      /\ \A x \in Event : KindFits(x) => KindFits(x)'
      /\ \A c \in Subs, f \in Entries : ViewFits(c, f) => ViewFits(c, f)'
  <2>1. view' = view
    BY <1>1 DEF Elsewhere, browserVars
  <2> QED BY <1>1, <1>2, <2>1, GetsFurther
<1>4. DashTypes'
  <2>1. to \in {"new", "started", "completed", "stored", "flushed", "failed", "removed", "lost"}
    BY DEF Moves
  <2> QED BY <1>1, <1>2, <2>1 DEF DashTypes, Elsewhere, browserVars
<1>5. UNCHANGED <<nextSeq, events, active, subs, brokerClosed, Base>>
  BY <1>1 DEF brokerVars, Base
<1>6. \A x : Numbered(x) => Numbered(x)'
  BY <1>5 DEF Numbered
<1>7. EventsFit'
  <2>1. active \in SUBSET Event /\ events \in Seq(Event)
    BY <1>2 DEF BrokerIInv, TypeInv
  <2>2. \A a \in active' : Numbered(a)' /\ KindFits(a)'
    BY <1>2, <1>3, <1>5, <1>6, <2>1 DEF EventsFit
  <2>3. Genuine(events)'
    <3>1. Genuine(events)
      BY <1>2 DEF EventsFit
    <3>2. \A i \in 1..Len(events) : events[i] \in Event
      BY <2>1, ElementOfSeq
    <3> QED BY <1>3, <1>5, <1>6, <3>1, <3>2 DEF Genuine
  <2> QED BY <1>5, <2>2, <2>3 DEF EventsFit
<1>8. ASSUME NEW c \in Subs PROVE BrowserOK(c)'
  <2>1. LinkFits(c) /\ FetchFits(c) /\ (\A f \in Entries : ViewFits(c, f))
    BY <1>2 DEF BrowserOK
  <2>2. UNCHANGED <<link, todo, cursor, foreign, view, reload, answer, hist>>
    BY <1>1 DEF Elsewhere, browserVars
  <2>3. subs[c].queue \in Seq(Event) /\ todo[c].replay \in Seq(Event)
    BY <1>2 DEF BrokerIInv, TypeInv, SubOK, DashTypes
  <2>4. LinkFits(c)'
    <3>1. Genuine(subs[c].queue)' /\ Genuine(todo[c].replay)'
      <4>1. Genuine(subs[c].queue) /\ Genuine(todo[c].replay)
        BY <2>1 DEF LinkFits
      <4>2. /\ \A i \in 1..Len(subs[c].queue) : subs[c].queue[i] \in Event
            /\ \A i \in 1..Len(todo[c].replay) : todo[c].replay[i] \in Event
        BY <2>3, ElementOfSeq
      <4> QED BY <1>3, <1>5, <1>6, <2>2, <4>1, <4>2 DEF Genuine
    <3> QED BY <1>5, <2>1, <2>2, <3>1 DEF LinkFits, Frontier, CannotResume
  <2>5. FetchFits(c)'
    BY <1>1, <1>3, <2>1, FetchStays
  <2>6. \A f \in Entries : ViewFits(c, f)'
    BY <1>3, <2>1
  <2>7. brokerClosed'
    BY <1>5
  <2> QED BY <2>4, <2>5, <2>6, <2>7 DEF BrowserOK
<1> QED BY <1>4, <1>7, <1>8 DEF DashInv

\* What the channel of a subscriber holds after a publish: the event, or what
\* it held, and then the subscriber is cut off.
LEMMA DeliverCases ==
    ASSUME NEW s, SubOK(s), NEW x \in Event
    PROVE  LET d == Deliver(s, x)
           IN  /\ d.state = "none" <=> s.state = "none"
               /\ d.state = "open" => s.state = "open"
               /\ d.taken = s.taken
               /\ \/ d.state = "open" /\ d.queue = Append(s.queue, x)
                  \/ d.state # "open" /\ d.queue = s.queue
BY DEF Deliver, SubOK

\* An entry moves on and its event is published.
LEMMA LogOpenInv ==
    ASSUME StreamIInv, NEW e \in Entries, NEW from, NEW to, <<from, to>> \in Moves, to \in Kinds,
           Log(e, from, to, to), ~brokerClosed
    PROVE  DashInv'
<1> DEFINE x == NewEvent(e, to)
<1>1. /\ phase[e] = from /\ phase' = [phase EXCEPT ![e] = to]
      /\ Publish(e, to) /\ Elsewhere
  BY DEF Log, Elsewhere
<1>2. DashTypes /\ EventsFit /\ (\A c \in Subs : BrowserOK(c)) /\ BrokerIInv
  BY DEF StreamIInv, DashInv
<1>3. /\ phase'[e] = to /\ \A f \in Entries : f # e => phase'[f] = phase[f]
      /\ Persisted \subseteq Persisted'
      /\ \A y \in Event : KindFits(y) => KindFits(y)'
      /\ \A c \in Subs, f \in Entries : ViewFits(c, f) => ViewFits(c, f)'
  <2>1. view' = view
    BY <1>1 DEF Elsewhere, browserVars
  <2> QED BY <1>1, <1>2, <2>1, GetsFurther
<1>4. DashTypes'
  <2>1. to \in {"new", "started", "completed", "stored", "flushed", "failed", "removed", "lost"}
    BY DEF Moves
  <2> QED BY <1>1, <1>2, <2>1 DEF DashTypes, Elsewhere, browserVars
<1>5. /\ UpdateActive(x) /\ brokerClosed' = FALSE
      /\ subs' = [c \in Subs |-> Deliver(subs[c], x)]
  BY <1>1 DEF Publish, NewEvent
<1>6. /\ x \in Event /\ x.seq = nextSeq + 1 /\ x.id = e /\ x.kind = to
      /\ nextSeq' = nextSeq + 1
      /\ Base <= Base' /\ Base' <= nextSeq
      /\ Len(events') \in Nat \ {0} /\ Base' + Len(events') = nextSeq + 1
      /\ events'[Len(events')] = x
      /\ \A y : Numbered(y) \/ y = x => Numbered(y)'
  BY <1>1, <1>2, PublishMoves
<1>18. PICK d \in {0, 1} :
           /\ Base' = Base + d /\ Len(events') = Len(events) + 1 - d
           /\ \A i \in 1..Len(events') : i # Len(events') =>
                 i + d \in 1..Len(events) /\ events'[i] = events[i + d]
  BY <1>1, <1>2, PublishMoves
<1> HIDE DEF x
<1>7. /\ nextSeq \in Nat /\ events \in Seq(Event) /\ Len(events) \in Nat
      /\ Base \in Nat /\ Base + Len(events) = nextSeq
      /\ \A i \in 1..Len(events) : events[i] \in Event /\ events[i].seq = Base + i
  BY <1>2, WindowFacts
<1>8. BrokerIInv'
  BY <1>1, <1>2, PublishInv
<1>9. /\ events' \in Seq(Event) /\ Base' \in Nat
      /\ \A i \in 1..Len(events') : events'[i] \in Event /\ events'[i].seq = Base' + i
  <2>1. events' \in Seq(Event)
    BY <1>8 DEF BrokerIInv, TypeInv
  <2>2. \A i \in 1..Len(events') : events'[i] \in Event
    BY <2>1, ElementOfSeq
  <2>3. \A i \in 1..Len(events') : events'[i].seq = nextSeq' - Len(events') + i
    BY <1>8 DEF BrokerIInv, WindowIsContiguous, Follows
  <2>4. Base' = nextSeq' - Len(events')
    BY DEF Base
  <2>5. Base' \in Nat
    BY <1>7, <1>18
  <2> QED BY <2>1, <2>2, <2>3, <2>4, <2>5
<1>17. /\ nextSeq \in Nat /\ Base \in Nat /\ Base' \in Nat /\ Len(events) \in Nat
       /\ Len(events') \in Nat \ {0} /\ Base + Len(events) = nextSeq
       /\ Base' + Len(events') = nextSeq + 1 /\ Base <= Base' /\ Base' <= nextSeq
  BY <1>6, <1>7, <1>9
<1>10. LastKind(e)' = to /\ (\A y : y = x => KindFits(y)')
  <2>1. to # "stored"
    BY DEF Kinds
  <2> QED BY <1>3, <1>6, <2>1 DEF LastKind, KindFits, Kinds, Terminal
<1>11. \A f \in Entries : f # e => LastKind(f)' = LastKind(f) /\ (InProgress(f)' <=> InProgress(f))
  BY <1>3 DEF LastKind, InProgress
<1>12. ASSUME NEW n \in Nat, NEW f, Behind(n, f) PROVE Behind(n, f)'
  <2>1. CASE n < Base
    BY <1>6, <1>7, <1>9, <2>1 DEF Behind
  <2>2. CASE ~(n < Base)
    <3>1. PICK i \in 1..Len(events) : events[i].seq > n /\ events[i].id = f
      BY <1>12, <2>2 DEF Behind
    <3>2. /\ Base + i > n /\ i \in 1..Len(events) /\ Base' = Base + d
          /\ Len(events') = Len(events) + 1 - d
      BY <1>7, <1>18, <3>1
    <3>3. CASE i <= d
      <4>1. n < Base'
        BY <1>17, <3>2, <3>3
      <4> QED BY <4>1 DEF Behind
    <3>4. CASE i > d
      <4>1. i - d \in 1..Len(events') /\ i - d # Len(events') /\ (i - d) + d = i
        BY <1>17, <3>2, <3>4
      <4>2. events'[i - d] = events[i]
        BY <1>18, <4>1
      <4> QED BY <3>1, <4>1, <4>2 DEF Behind
    <3> QED BY <3>2, <3>3, <3>4
  <2> QED BY <2>1, <2>2
<1>13. ASSUME NEW n \in Nat, n <= nextSeq PROVE Behind(n, e)'
  <2>1. Len(events') \in 1..Len(events')
    BY <1>6
  <2>2. events'[Len(events')].seq > n
    BY <1>6, <1>7, <1>13
  <2> QED BY <1>6, <2>1, <2>2 DEF Behind
<1>14. ASSUME NEW n \in Nat, n <= nextSeq, n # 0, CannotResume(n) PROVE CannotResume(n)'
  <2>1. Len(events) # 0
    <3>1. events # <<>>
      BY <1>2, <1>7, <1>14 DEF BrokerIInv, NumbersInv
    <3> QED BY <1>7, <3>1
  <2>2. n < Base \/ nextSeq > n + ReplayLimit
    BY <1>2, <1>7, <1>14, <2>1, ResumeFacts
  <2>3. ReplayLimit \in Nat
    BY BrokerAssumption
  <2>4. n + 1 < Head(events').seq \/ Last(events').seq > n + ReplayLimit
    <3>1. Head(events') = events'[1] /\ Last(events') = events'[Len(events')]
      BY <1>6, <1>9 DEF Last
    <3>2. 1 \in 1..Len(events')
      BY <1>6
    <3>3. Head(events').seq = Base' + 1 /\ Last(events').seq = nextSeq + 1
      BY <1>6, <1>9, <3>1, <3>2
    <3> QED BY <1>6, <1>7, <1>9, <2>2, <2>3, <3>3
  <2> QED BY <2>4 DEF CannotResume
<1>15. EventsFit'
  <2>1. active \in SUBSET Event
    BY <1>2 DEF BrokerIInv, TypeInv
  <2>2. \A a \in active' : a \in active \/ a = x
    BY <1>5 DEF UpdateActive
  <2>3. \A a \in active' : Numbered(a)' /\ KindFits(a)'
    BY <1>2, <1>3, <1>6, <1>10, <2>1, <2>2 DEF EventsFit
  <2>4. ASSUME NEW i \in 1..Len(events')
        PROVE  \A y : y = events'[i] => Numbered(y)' /\ KindFits(y)'
    <3>1. CASE i = Len(events')
      BY <1>6, <1>10, <3>1
    <3>2. CASE i # Len(events')
      <4> DEFINE j == i + d
      <4>1. j \in 1..Len(events) /\ events'[i] = events[j]
        BY <1>18, <3>2
      <4>2. Numbered(events[j]) /\ KindFits(events[j]) /\ events[j] \in Event
        BY <1>2, <1>7, <4>1 DEF EventsFit, Genuine
      <4> HIDE DEF j
      <4>3. \A y : y = events[j] => Numbered(y)' /\ KindFits(y)'
        BY <1>3, <1>6, <4>2
      <4> QED BY <4>1, <4>3
    <3> QED BY <3>1, <3>2
  <2>5. /\ \A f \in Entries : EndsWith(events, f, LastKind(f))
        /\ \A a \in active : InProgress(a.id) /\ a.kind = LastKind(a.id)
        /\ \A g \in Entries : InProgress(g) => \E a \in active : a.id = g
    BY <1>2 DEF EventsFit
  <2>6. ASSUME NEW f \in Entries PROVE EndsWith(events, f, LastKind(f))'
    <3>1. EndsWith(Append(events, x), f, LastKind(f)')
      <4>1. CASE f = e
        BY <1>6, <1>7, <1>10, <4>1, AfterAppend
      <4>2. CASE f # e
        BY <1>6, <1>7, <1>11, <2>5, <4>2, AfterAppend
      <4> QED BY <4>1, <4>2
    <3> DEFINE u == Append(events, x)
    <3>2. /\ u \in Seq(Event) /\ Len(u) = Len(events) + 1
          /\ (\A i \in 1..Len(events) : u[i] = events[i]) /\ u[Len(events) + 1] = x
      BY <1>6, <1>7
    <3>3. d \in Nat /\ Len(events') = Len(u) - d
      BY <1>17, <1>18, <3>2
    <3>4. ASSUME NEW i \in 1..Len(events') PROVE events'[i] = u[i + d]
      <4>1. CASE i = Len(events')
        <5>1. i + d = Len(events) + 1
          BY <1>7, <3>2, <3>3, <4>1
        <5> QED BY <1>6, <3>2, <4>1, <5>1
      <4>2. CASE i # Len(events')
        BY <1>18, <3>2, <4>2
      <4> QED BY <4>1, <4>2
    <3> HIDE DEF u
    <3>5. \A k : EndsWith(u, f, k) => EndsWith(events', f, k)
      BY <1>9, <3>2, <3>3, <3>4, AfterSuffix
    <3>6. EndsWith(events', f, LastKind(f)')
      BY <3>1, <3>5 DEF u
    <3> QED BY <3>6 DEF EndsWith
  <2>7. ASSUME NEW a \in active' PROVE InProgress(a.id)' /\ a.kind = LastKind(a.id)'
    <3>1. CASE a = x
      <4>1. to \notin Terminal
        BY <1>5, <1>6, <3>1 DEF UpdateActive
      <4> QED BY <1>3, <1>6, <1>10, <3>1, <4>1 DEF InProgress, Kinds, Terminal
    <3>2. CASE a # x
      <4>1. a \in active /\ a.id # e
        BY <1>5, <1>6, <3>2 DEF UpdateActive
      <4>2. a.id \in Entries
        BY <2>1, <4>1 DEF Event
      <4> QED BY <1>11, <2>5, <4>1, <4>2
    <3> QED BY <3>1, <3>2
  <2>8. ASSUME NEW f \in Entries, InProgress(f)' PROVE \E a \in active' : a.id = f
    <3>1. CASE f = e
      <4>1. to \notin Terminal
        BY <1>3, <2>8, <3>1 DEF InProgress, Terminal
      <4> QED BY <1>5, <1>6, <3>1, <4>1 DEF UpdateActive
    <3>2. CASE f # e
      <4>1. PICK a \in active : a.id = f
        BY <1>11, <2>5, <2>8, <3>2
      <4>2. a \in active'
        BY <1>5, <1>6, <3>2, <4>1 DEF UpdateActive
      <4> QED BY <4>1, <4>2
    <3> QED BY <3>1, <3>2
  <2>9. Genuine(events)'
    BY <2>4 DEF Genuine
  <2> QED BY <2>3, <2>6, <2>7, <2>8, <2>9 DEF EventsFit
<1>16. ASSUME NEW c \in Subs PROVE BrowserOK(c)'
  <2>1. LinkFits(c) /\ FetchFits(c) /\ (\A f \in Entries : ViewFits(c, f))
        /\ (Lucky(c) => Informed(c))
    BY <1>2 DEF BrowserOK
  <2>2. UNCHANGED <<link, todo, cursor, foreign, view, reload, answer, hist>>
    BY <1>1 DEF Elsewhere, browserVars
  <2>3. SubOK(subs[c]) /\ subs[c].queue \in Seq(Event) /\ todo[c].replay \in Seq(Event)
        /\ subs[c].taken \in Nat /\ cursor[c] \in Nat \ {0}
    BY <1>2 DEF BrokerIInv, TypeInv, SubOK, DashTypes
  <2>4. /\ subs'[c].state = "none" <=> subs[c].state = "none"
        /\ subs'[c].state = "open" => subs[c].state = "open"
        /\ subs'[c].taken = subs[c].taken
        /\ \/ subs'[c].state = "open" /\ subs'[c].queue = Append(subs[c].queue, x)
           \/ subs'[c].state # "open" /\ subs'[c].queue = subs[c].queue
    <3>1. PICK old, new : old = subs[c] /\ new = subs'[c]
      OBVIOUS
    <3>2. new = Deliver(old, x)
      BY <1>5, <3>1
    <3>3. SubOK(old)
      BY <2>3, <3>1
    <3>4. /\ new.state = "none" <=> old.state = "none"
          /\ new.state = "open" => old.state = "open"
          /\ new.taken = old.taken
          /\ \/ new.state = "open" /\ new.queue = Append(old.queue, x)
             \/ new.state # "open" /\ new.queue = old.queue
      BY <1>6, <3>2, <3>3, DeliverCases
    <3> QED BY <3>1, <3>4
  <2>5. Frontier(c) \in Nat /\ Frontier(c) <= nextSeq /\ Len(subs[c].queue) \in Nat
    BY <2>1, <2>3 DEF Frontier, LinkFits
  <2>6. \/ subs'[c].queue = Append(subs[c].queue, x) /\ subs[c].state = "open"
           /\ Frontier(c) = nextSeq /\ Frontier(c)' = nextSeq'
        \/ subs'[c].queue = subs[c].queue /\ Frontier(c)' = Frontier(c)
    <3>1. CASE subs'[c].state = "open" /\ subs'[c].queue = Append(subs[c].queue, x)
      <4>1. subs[c].state = "open" /\ Frontier(c) = nextSeq
        BY <1>2, <2>4, <3>1 DEF BrokerIInv, StreamHasNoGap, Frontier
      <4>2. Len(subs'[c].queue) = Len(subs[c].queue) + 1
        BY <1>6, <2>3, <3>1
      <4>3. Frontier(c)' = Frontier(c) + 1
        <5>1. Frontier(c)' = subs'[c].taken + Len(subs'[c].queue)
          BY DEF Frontier
        <5>2. Frontier(c) = subs[c].taken + Len(subs[c].queue)
          BY DEF Frontier
        <5>3. subs[c].taken \in Nat /\ subs'[c].taken = subs[c].taken
          BY <2>3, <2>4
        <5> QED BY <2>5, <4>2, <5>1, <5>2, <5>3
      <4> QED BY <1>6, <3>1, <4>1, <4>3
    <3>2. CASE subs'[c].queue = subs[c].queue
      BY <2>4, <3>2 DEF Frontier
    <3> QED BY <2>4, <3>1, <3>2
  <2>7. LinkFits(c)'
    <3>1. Genuine(subs[c].queue) /\ Genuine(todo[c].replay)
      BY <2>1 DEF LinkFits
    <3>2. /\ \A i \in 1..Len(subs[c].queue) : subs[c].queue[i] \in Event
          /\ \A i \in 1..Len(todo[c].replay) : todo[c].replay[i] \in Event
      BY <2>3, ElementOfSeq
    <3>3. \A y \in Event : (Numbered(y) /\ KindFits(y)) \/ y = x => Numbered(y)' /\ KindFits(y)'
      BY <1>3, <1>6, <1>10
    <3>4. Genuine(todo[c].replay)'
      BY <2>2, <3>1, <3>2, <3>3 DEF Genuine
    <3>5. ASSUME NEW i \in 1..Len(subs'[c].queue)
          PROVE  \A y : y = subs'[c].queue[i] => Numbered(y)' /\ KindFits(y)'
      <4>1. \/ subs'[c].queue[i] = x
            \/ i \in 1..Len(subs[c].queue) /\ subs'[c].queue[i] = subs[c].queue[i]
        <5>1. CASE subs'[c].queue = Append(subs[c].queue, x)
          <6>1. /\ Len(subs'[c].queue) = Len(subs[c].queue) + 1
                /\ \A j \in 1..Len(subs[c].queue) : subs'[c].queue[j] = subs[c].queue[j]
                /\ subs'[c].queue[Len(subs[c].queue) + 1] = x
            BY <1>6, <2>3, <5>1
          <6>2. i \in 1..Len(subs[c].queue) \/ i = Len(subs[c].queue) + 1
            BY <2>5, <6>1
          <6> QED BY <6>1, <6>2
        <5>2. CASE subs'[c].queue = subs[c].queue
          BY <5>2
        <5> QED BY <2>6, <5>1, <5>2
      <4> QED BY <1>6, <3>1, <3>2, <3>3, <4>1 DEF Genuine
    <3>6. Genuine(subs[c].queue)'
      BY <3>5 DEF Genuine
    <3>7. Frontier(c)' <= nextSeq'
      BY <1>6, <1>7, <2>5, <2>6
    <3>8. todo'[c].reset /\ ~foreign'[c] => CannotResume(cursor[c])'
      <4>1. todo[c].reset /\ ~foreign[c] => CannotResume(cursor[c]) /\ cursor[c] <= nextSeq
        BY <2>1 DEF LinkFits
      <4>2. ASSUME NEW n, n = cursor[c], n <= nextSeq, CannotResume(n) PROVE CannotResume(n)'
        BY <1>14, <2>3, <4>2
      <4> QED BY <2>2, <4>1, <4>2
    <3> QED BY <1>5, <1>6, <1>7, <2>1, <2>2, <2>3, <2>4, <3>4, <3>6, <3>7, <3>8 DEF LinkFits
  <2>8. FetchFits(c)'
    BY <1>1, <1>3, <2>1, FetchStays
  <2>9. \A f \in Entries : ViewFits(c, f)'
    BY <1>3, <2>1
  <2>10. \A f \in Entries : f # e /\ Shown(c, f) => Shown(c, f)'
    BY <1>1, <1>3, ShownStays
  <2>11. ASSUME Lucky(c)' PROVE Informed(c)'
    <3>1. Informed(c)
      BY <2>1, <2>2, <2>11 DEF Lucky
    <3>2. CASE link[c]
      <4>1. ASSUME NEW f \in Entries PROVE OnItsWay(c, f)'
        <5>1. OnItsWay(c, f)
          BY <3>1, <3>2 DEF Informed
        <5>2. CASE subs'[c].queue = Append(subs[c].queue, x) /\ Frontier(c) = nextSeq
          <6>1. ~Behind(Frontier(c), f)
            BY <1>2, <5>2, UpToDate
          <6>2. /\ EndsWith(subs[c].queue, f, LastKind(f))
                /\ ~Holds(subs[c].queue, f) => EndsWith(todo[c].replay, f, LastKind(f))
                /\ ~Holds(subs[c].queue, f) /\ ~Holds(todo[c].replay, f) => Shown(c, f)
            BY <5>1, <6>1 DEF OnItsWay
          <6>3. Holds(subs'[c].queue, f) <=> Holds(subs[c].queue, f) \/ f = e
            BY <1>6, <2>3, <5>2, HoldsAppend
          <6>4. EndsWith(subs'[c].queue, f, LastKind(f)')
            <7>1. CASE f = e
              BY <1>6, <1>10, <2>3, <5>2, <7>1, AfterAppend
            <7>2. CASE f # e
              BY <1>6, <1>11, <2>3, <5>2, <6>2, <7>2, AfterAppend
            <7> QED BY <7>1, <7>2
          <6>5. ~Holds(subs'[c].queue, f) => EndsWith(todo[c].replay, f, LastKind(f)')
            BY <1>11, <6>2, <6>3
          <6>6. ~Holds(subs'[c].queue, f) /\ ~Holds(todo[c].replay, f) => Shown(c, f)'
            BY <2>10, <6>2, <6>3
          <6> QED BY <2>2, <6>4, <6>5, <6>6 DEF OnItsWay, EndsWith, Holds
        <5>3. CASE subs'[c].queue = subs[c].queue /\ Frontier(c)' = Frontier(c)
          <6>1. CASE f = e
            <7>1. ASSUME NEW n, n = Frontier(c) PROVE Behind(n, f)'
              BY <1>13, <2>5, <6>1, <7>1
            <7>2. Behind(Frontier(c), f)'
              BY <5>3, <7>1
            <7> QED BY <7>2 DEF OnItsWay
          <6>2. CASE f # e
            <7>1. ASSUME NEW n, n = Frontier(c), Behind(n, f) PROVE Behind(n, f)'
              BY <1>12, <2>5, <7>1
            <7>2. Behind(Frontier(c), f) => Behind(Frontier(c), f)'
              BY <5>3, <7>1
            <7>3. LastKind(f)' = LastKind(f) /\ (Shown(c, f) => Shown(c, f)')
              BY <1>11, <2>10, <6>2
            <7> QED BY <2>2, <5>1, <5>3, <7>2, <7>3 DEF OnItsWay, EndsWith, Holds
          <6> QED BY <6>1, <6>2
        <5> QED BY <2>6, <5>2, <5>3
      <4> QED BY <2>2, <3>2, <4>1 DEF Informed
    <3>3. CASE ~link[c] /\ ~foreign[c]
      <4>1. cursor[c] <= nextSeq
        BY <2>1, <3>3 DEF LinkFits
      <4>2. ASSUME NEW n, n = cursor[c], CannotResume(n) PROVE CannotResume(n)'
        BY <1>14, <2>3, <4>1, <4>2
      <4>3. ASSUME NEW n, NEW f \in Entries, n = cursor[c], Behind(n, f) \/ f = e PROVE Behind(n, f)'
        BY <1>12, <1>13, <2>3, <4>1, <4>3
      <4>4. CannotResume(cursor[c]) => CannotResume(cursor[c])'
        BY <2>2, <4>2
      <4>5. \A f \in Entries : Behind(cursor[c], f) \/ f = e => Behind(cursor[c], f)'
        BY <2>2, <4>3
      <4>6. ASSUME \A f \in Entries : UpToCursor(c, f), NEW f \in Entries PROVE UpToCursor(c, f)'
        BY <2>10, <4>5, <4>6 DEF UpToCursor
      <4> QED BY <2>2, <3>1, <3>3, <4>4, <4>6 DEF Informed
    <3>4. CASE ~link[c] /\ foreign[c]
      BY <2>2, <3>4 DEF Informed
    <3> QED BY <3>2, <3>3, <3>4
  <2> QED BY <2>7, <2>8, <2>9, <2>11 DEF BrowserOK
<1> QED BY <1>4, <1>15, <1>16 DEF DashInv

LEMMA EntryInv ==
    ASSUME StreamIInv, NEW e \in Entries, Entry(e)
    PROVE  DashInv'
<1>1. ASSUME NEW from, NEW to, <<from, to>> \in Moves, to \in Kinds, Log(e, from, to, to)
      PROVE  DashInv'
  BY <1>1, LogClosedInv, LogOpenInv
<1>2. CASE Persist(e)
  BY <1>2, PersistInv
<1>3. CASE ~Persist(e)
  <2>1. \E from, to : <<from, to>> \in Moves /\ to \in Kinds /\ Log(e, from, to, to)
    BY <1>3 DEF Entry, Start, Complete, PublishFlushed, Fail, Discard, Moves, Kinds
  <2> QED BY <1>1, <2>1
<1> QED BY <1>2, <1>3

-----------------------------------------------------------------------------
(* The steps of one browser *)

Same(d) ==
    /\ subs'[d] = subs[d] /\ link'[d] = link[d] /\ todo'[d] = todo[d]
    /\ cursor'[d] = cursor[d] /\ foreign'[d] = foreign[d] /\ view'[d] = view[d]
    /\ reload'[d] = reload[d] /\ answer'[d] = answer[d] /\ hist'[d] = hist[d]

OnlyBrowser(c) ==
    /\ UNCHANGED <<nextSeq, events, active, phase, brokerClosed>>
    /\ \A d \in Subs : d # c => Same(d)

\* What depends on the broker's numbers and on the entries alone.
LEMMA Frozen ==
    ASSUME UNCHANGED <<nextSeq, events, phase>>
    PROVE  /\ \A n, f : Behind(n, f)' <=> Behind(n, f)
           /\ \A n : CannotResume(n)' <=> CannotResume(n)
           /\ \A f : LastKind(f)' = LastKind(f) /\ (InProgress(f)' <=> InProgress(f))
           /\ \A s : Genuine(s)' <=> Genuine(s)
           /\ Persisted' = Persisted
<1>1. Base' = Base
  BY DEF Base
<1>2. \A n, f : Behind(n, f)' <=> Behind(n, f)
  BY <1>1 DEF Behind
<1>3. \A n : CannotResume(n)' <=> CannotResume(n)
  BY DEF CannotResume
<1>4. \A f : LastKind(f)' = LastKind(f) /\ (InProgress(f)' <=> InProgress(f))
  BY DEF LastKind, InProgress
<1>5. \A s : Genuine(s)' <=> Genuine(s)
  BY <1>1 DEF Genuine, Numbered, KindFits
<1>6. Persisted' = Persisted
  BY DEF Persisted
<1> QED BY <1>2, <1>3, <1>4, <1>5, <1>6

LEMMA OneBrowserInv ==
    ASSUME StreamIInv, NEW c \in Subs, OnlyBrowser(c), DashTypes', BrowserOK(c)'
    PROVE  DashInv'
<1>1. UNCHANGED <<nextSeq, events, active, phase, brokerClosed>>
  BY DEF OnlyBrowser
<1>2. EventsFit'
  <2>1. EventsFit
    BY DEF StreamIInv, DashInv
  <2>2. Base' = Base
    BY <1>1 DEF Base
  <2> QED BY <1>1, <2>1, <2>2 DEF EventsFit, Genuine, Numbered, KindFits, EndsWith, LastKind,
                                  InProgress
<1>3. ASSUME NEW d \in Subs, d # c PROVE BrowserOK(d)'
  <2>1. BrowserOK(d) /\ Same(d)
    BY <1>3 DEF StreamIInv, DashInv, OnlyBrowser
  <2>2. Frontier(d)' = Frontier(d)
    BY <2>1 DEF Frontier, Same
  <2>3. LinkFits(d)'
    BY <1>1, <2>1, <2>2, Frozen DEF BrowserOK, LinkFits, Same, NothingToDo
  <2>4. FetchFits(d)'
    BY <1>1, <2>1, Frozen DEF BrowserOK, FetchFits, Same
  <2>5. \A f \in Entries : ViewFits(d, f)'
    BY <1>1, <2>1, Frozen DEF BrowserOK, ViewFits, Same
  <2>6. ASSUME ~brokerClosed', Lucky(d)' PROVE Informed(d)'
    <3>1. Informed(d)
      BY <1>1, <2>1, <2>6 DEF BrowserOK, Lucky, Same
    <3>2. \A f \in Entries : Shown(d, f)' <=> Shown(d, f)
      BY <1>1, <2>1, Frozen DEF Shown, Same
    <3>3. \A f \in Entries : OnItsWay(d, f)' <=> OnItsWay(d, f)
      BY <1>1, <2>1, <2>2, <3>2, Frozen DEF OnItsWay, Same, EndsWith, Holds
    <3>4. \A f \in Entries : UpToCursor(d, f)' <=> UpToCursor(d, f)
      BY <1>1, <2>1, <3>2, Frozen DEF UpToCursor, Same
    <3>5. CannotResume(cursor[d])' <=> CannotResume(cursor[d])
      BY <1>1, <2>1, Frozen DEF Same
    <3> QED BY <2>1, <3>1, <3>3, <3>4, <3>5 DEF Informed, Same
  <2> QED BY <2>3, <2>4, <2>5, <2>6 DEF BrowserOK
<1>4. \A d \in Subs : BrowserOK(d)'
  BY <1>3
<1> QED BY <1>2, <1>4 DEF DashInv

\* A browser whose rows do not get worse, with the same on its way, stays
\* informed.
LEMMA InformedStays ==
    ASSUME NEW c \in Subs, UNCHANGED <<nextSeq, events, phase>>,
           subs'[c] = subs[c], link'[c] = link[c], todo'[c].replay = todo[c].replay,
           ~link[c] => cursor'[c] = cursor[c] /\ foreign'[c] = foreign[c],
           \A f \in Entries : Shown(c, f) => Shown(c, f)', Informed(c)
    PROVE  Informed(c)'
<1>1. Frontier(c)' = Frontier(c)
  BY DEF Frontier
<1>2. CASE link[c]
  <2>1. \A f \in Entries : OnItsWay(c, f)' \/ ~OnItsWay(c, f)
    BY <1>1, Frozen DEF OnItsWay, EndsWith, Holds
  <2> QED BY <1>2, <2>1 DEF Informed
<1>3. CASE ~link[c]
  <2>1. \A f \in Entries : UpToCursor(c, f)' \/ ~UpToCursor(c, f)
    BY <1>3, Frozen DEF UpToCursor
  <2>2. CannotResume(cursor[c])' <=> CannotResume(cursor[c])
    BY <1>3, Frozen
  <2> QED BY <1>3, <2>1, <2>2 DEF Informed
<1> QED BY <1>2, <1>3

\* Everything but the rows and the fetch of one browser stays.
LEMMA FetchInv ==
    ASSUME StreamIInv, NEW c \in Subs, Fetch(c)
    PROVE  DashInv'
<1>1. DashTypes /\ BrowserOK(c)
  BY DEF StreamIInv, DashInv
<1>2. /\ UNCHANGED <<nextSeq, events, active, phase, brokerClosed>>
      /\ UNCHANGED <<subs, link, todo, cursor, foreign, hist>>
  BY DEF Fetch, AnswerReload, ApplyReload, brokerVars
<1>3. OnlyBrowser(c)
  BY <1>1, <1>2 DEF Fetch, AnswerReload, ApplyReload, OnlyBrowser, Same, DashTypes
<1>4. LinkFits(c)'
  <2>1. LinkFits(c) /\ Frontier(c)' = Frontier(c)
    BY <1>1, <1>2 DEF BrowserOK, Frontier
  <2> QED BY <1>2, <2>1, Frozen DEF LinkFits, NothingToDo
<1>5. Persisted \subseteq Entries
  BY DEF Persisted
<1>6. CASE AnswerReload(c)
  <2>1. /\ reload[c] = "asked" /\ reload'[c] = "answered" /\ answer'[c] = Persisted
        /\ view' = view
    BY <1>1, <1>6 DEF AnswerReload, DashTypes
  <2>2. DashTypes'
    BY <1>1, <1>2, <1>5, <1>6, <2>1 DEF AnswerReload, DashTypes
  <2>3. FetchFits(c)'
    <3>1. \A e \in Entries : view[c][e] \in {"flushed", "row"} => e \in Persisted
      BY <1>1 DEF BrowserOK, ViewFits, Persisted
    <3>2. "reset" \in hist[c]
      BY <1>1, <2>1 DEF BrowserOK, FetchFits
    <3> QED BY <1>2, <2>1, <3>1, <3>2, Frozen DEF FetchFits
  <2>4. \A f \in Entries : ViewFits(c, f)'
    BY <1>1, <1>2, <2>1, Frozen DEF BrowserOK, ViewFits
  <2>5. ASSUME ~brokerClosed', Lucky(c)' PROVE Informed(c)'
    <3>1. Informed(c)
      BY <1>1, <1>2, <2>5 DEF BrowserOK, Lucky
    <3>2. ASSUME NEW f \in Entries, Shown(c, f) PROVE Shown(c, f)'
      <4>1. phase[f] = "flushed" => f \in Persisted
        BY DEF Persisted
      <4> QED BY <1>2, <2>1, <3>2, <4>1, Frozen DEF Shown
    <3> QED BY <1>2, <3>1, <3>2, InformedStays
  <2> QED BY <1>3, <1>4, <2>2, <2>3, <2>4, <2>5, OneBrowserInv DEF BrowserOK
<1>7. CASE ApplyReload(c)
  <2>1. /\ reload[c] = "answered" /\ reload'[c] = "no" /\ answer'[c] = {}
        /\ view'[c] = WithLiveEntries(view[c], answer[c])
    BY <1>1, <1>7 DEF ApplyReload, DashTypes
  <2>2. \A f \in Entries : view'[c][f] = IF f \in answer[c] THEN "row"
                                         ELSE IF view[c][f] \in {"started", "completed"}
                                              THEN view[c][f] ELSE "none"
    BY <2>1 DEF WithLiveEntries
  <2>3. DashTypes'
    <3>1. WithLiveEntries(view[c], answer[c])
            \in [Entries -> {"none", "row", "started", "completed", "failed", "flushed"}]
      BY DEF WithLiveEntries
    <3> QED BY <1>1, <1>2, <1>7, <3>1 DEF ApplyReload, DashTypes
  <2>4. answer[c] \subseteq Persisted /\ "reset" \in hist[c]
        /\ ("overtaken" \notin hist[c] =>
              \A e \in Entries : view[c][e] \in {"flushed", "row"} => e \in answer[c])
    BY <1>1, <2>1 DEF BrowserOK, FetchFits
  <2>5. FetchFits(c)'
    BY <2>1 DEF FetchFits
  <2>6. \A f \in Entries : ViewFits(c, f)'
    BY <1>1, <1>2, <2>2, <2>4, Frozen DEF BrowserOK, ViewFits
  <2>7. ASSUME ~brokerClosed', Lucky(c)' PROVE Informed(c)'
    <3>1. Informed(c) /\ "overtaken" \notin hist[c]
      BY <1>1, <1>2, <2>7 DEF BrowserOK, Lucky
    <3>2. ASSUME NEW f \in Entries, Shown(c, f) PROVE Shown(c, f)'
      <4>1. f \in answer[c] => phase[f] \in {"stored", "flushed"}
        BY <2>4 DEF Persisted
      <4>2. hist'[c] # {} /\ todo' = todo /\ phase' = phase
        BY <1>2, <2>4
      <4>3. phase[f] \in {"started", "completed"} => view'[c][f] = phase[f]
        BY <2>2, <3>2, <4>1 DEF Shown
      <4>4. phase[f] = "stored" => view'[c][f] \in {"completed", "row"}
        BY <2>2, <2>4, <3>1, <3>2 DEF Shown
      <4>5. phase[f] = "flushed" /\ ~todo[c].reset => view'[c][f] = "row"
        BY <2>1, <2>2, <3>2 DEF Shown
      <4> QED BY <2>1, <4>2, <4>3, <4>4, <4>5 DEF Shown
    <3> QED BY <1>2, <3>1, <3>2, InformedStays
  <2> QED BY <1>3, <1>4, <2>3, <2>5, <2>6, <2>7, OneBrowserInv DEF BrowserOK
<1> QED BY <1>6, <1>7 DEF Fetch

\* The browser's cursor never gets ahead of the process it belongs to.
LEMMA SeeSeqOK ==
    ASSUME DashTypes, NEW c \in Subs, LinkFits(c), NEW n \in Nat, n <= nextSeq, nextSeq \in Nat,
           SeeSeq(c, n)
    PROVE  /\ cursor' \in [Subs -> Nat \ {0}] /\ foreign' \in [Subs -> BOOLEAN]
           /\ \A d \in Subs : d # c => cursor'[d] = cursor[d] /\ foreign'[d] = foreign[d]
           /\ ~foreign'[c] => cursor'[c] <= nextSeq
<1>1. cursor[c] \in Nat \ {0} /\ (~foreign[c] => cursor[c] <= nextSeq)
  BY DEF DashTypes, LinkFits
<1>2. CASE n > cursor[c]
  <2>1. n \in Nat \ {0} /\ cursor' = [cursor EXCEPT ![c] = n]
        /\ foreign' = [foreign EXCEPT ![c] = FALSE]
    BY <1>1, <1>2 DEF SeeSeq
  <2> QED BY <2>1 DEF DashTypes
<1>3. CASE ~(n > cursor[c])
  BY <1>1, <1>3 DEF SeeSeq, DashTypes
<1> QED BY <1>2, <1>3

LEMMA HeartbeatInv ==
    ASSUME StreamIInv, NEW c \in Subs, Heartbeat(c)
    PROVE  DashInv'
<1>1. DashTypes /\ BrowserOK(c) /\ nextSeq \in Nat
  BY DEF StreamIInv, DashInv, BrokerIInv, TypeInv
<1>2. /\ link[c] /\ SeeSeq(c, nextSeq) /\ todo[c].reset = FALSE
      /\ UNCHANGED <<nextSeq, events, active, phase, brokerClosed>>
      /\ UNCHANGED <<subs, link, todo, view, reload, answer, hist>>
  BY DEF Heartbeat, brokerVars, NothingToDo
<1>3. /\ cursor' \in [Subs -> Nat \ {0}] /\ foreign' \in [Subs -> BOOLEAN]
      /\ \A d \in Subs : d # c => cursor'[d] = cursor[d] /\ foreign'[d] = foreign[d]
      /\ ~foreign'[c] => cursor'[c] <= nextSeq
  BY <1>1, <1>2, SeeSeqOK DEF BrowserOK
<1>4. OnlyBrowser(c)
  BY <1>2, <1>3 DEF OnlyBrowser, Same
<1>5. DashTypes'
  BY <1>1, <1>2, <1>3 DEF DashTypes
<1>6. LinkFits(c)'
  <2>1. LinkFits(c) /\ Frontier(c)' = Frontier(c)
    BY <1>1, <1>2 DEF BrowserOK, Frontier
  <2> QED BY <1>2, <1>3, <2>1, Frozen DEF LinkFits, NothingToDo
<1>7. FetchFits(c)' /\ \A f \in Entries : ViewFits(c, f)'
  BY <1>1, <1>2, Frozen DEF BrowserOK, FetchFits, ViewFits
<1>8. ASSUME ~brokerClosed', Lucky(c)' PROVE Informed(c)'
  <2>1. Informed(c)
    BY <1>1, <1>2, <1>8 DEF BrowserOK, Lucky
  <2>2. \A f \in Entries : Shown(c, f) => Shown(c, f)'
    BY <1>2, Frozen DEF Shown
  <2> QED BY <1>2, <2>1, <2>2, InformedStays
<1> QED BY <1>4, <1>5, <1>6, <1>7, <1>8, OneBrowserInv DEF BrowserOK

\* A reset: the cursor jumps to the latest number and the rows are fetched anew.
LEMMA SendResetInv ==
    ASSUME StreamIInv, NEW c \in Subs, SendReset(c)
    PROVE  DashInv'
<1>1. DashTypes /\ BrowserOK(c) /\ nextSeq \in Nat
  BY DEF StreamIInv, DashInv, BrokerIInv, TypeInv
<1>2. /\ link[c] /\ SeeSeq(c, nextSeq) /\ todo' = [todo EXCEPT ![c].reset = FALSE]
      /\ reload' = [reload EXCEPT ![c] = "asked"] /\ answer' = [answer EXCEPT ![c] = {}]
      /\ hist' = [hist EXCEPT ![c] = @ \cup {"reset"}]
      /\ UNCHANGED <<nextSeq, events, active, phase, brokerClosed>>
      /\ UNCHANGED <<subs, link, view>>
  BY DEF SendReset, brokerVars, Mishap
<1>3. /\ cursor' \in [Subs -> Nat \ {0}] /\ foreign' \in [Subs -> BOOLEAN]
      /\ \A d \in Subs : d # c => cursor'[d] = cursor[d] /\ foreign'[d] = foreign[d]
      /\ ~foreign'[c] => cursor'[c] <= nextSeq
  BY <1>1, <1>2, SeeSeqOK DEF BrowserOK
<1>4. /\ todo'[c].reset = FALSE /\ todo'[c].replay = todo[c].replay
      /\ reload'[c] = "asked" /\ answer'[c] = {} /\ hist'[c] = hist[c] \cup {"reset"}
      /\ \A d \in Subs : d # c =>
            /\ todo'[d] = todo[d] /\ reload'[d] = reload[d] /\ answer'[d] = answer[d]
            /\ hist'[d] = hist[d]
      /\ todo' \in [Subs -> [reset : BOOLEAN, replay : Seq(Event)]]
  <2>1. todo \in [Subs -> [reset : BOOLEAN, replay : Seq(Event)]]
    BY <1>1 DEF DashTypes
  <2>2. /\ todo'[c].reset = FALSE /\ todo'[c].replay = todo[c].replay
        /\ \A d \in Subs : d # c => todo'[d] = todo[d]
    BY <1>2, <2>1
  <2>3. todo' \in [Subs -> [reset : BOOLEAN, replay : Seq(Event)]]
    BY <1>2, <2>1
  <2> QED BY <1>1, <1>2, <2>2, <2>3 DEF DashTypes
<1>5. OnlyBrowser(c)
  BY <1>2, <1>3, <1>4 DEF OnlyBrowser, Same
<1>6. DashTypes'
  BY <1>1, <1>2, <1>3, <1>4 DEF DashTypes, Mishaps
<1>7. LinkFits(c)'
  <2>1. LinkFits(c) /\ Frontier(c)' = Frontier(c)
    BY <1>1, <1>2 DEF BrowserOK, Frontier
  <2> QED BY <1>2, <1>3, <1>4, <2>1, Frozen DEF LinkFits
<1>8. FetchFits(c)' /\ \A f \in Entries : ViewFits(c, f)'
  BY <1>1, <1>2, <1>4, Frozen DEF BrowserOK, FetchFits, ViewFits
<1>9. ASSUME ~brokerClosed', Lucky(c)' PROVE Informed(c)'
  <2>1. Informed(c)
    BY <1>1, <1>2, <1>4, <1>9 DEF BrowserOK, Lucky
  <2>2. hist'[c] # {}
    BY <1>4
  <2>3. \A f \in Entries : Shown(c, f) => Shown(c, f)'
    BY <1>2, <1>4, <2>2, Frozen DEF Shown
  <2> QED BY <1>2, <1>4, <2>1, <2>3, InformedStays
<1> QED BY <1>5, <1>6, <1>7, <1>8, <1>9, OneBrowserInv DEF BrowserOK

\* The row after an event of its entry.
LEMMA MergeFacts ==
    ASSUME NEW row \in {"none", "row", "started", "completed", "failed", "flushed"},
           NEW k \in Kinds
    PROVE  /\ Merge(row, k) \in {"none", "row", "started", "completed", "failed", "flushed"}
           /\ Merge(row, k) = IF k = "removed" THEN "none"
                              ELSE IF \/ k = "started" /\ row \in {"completed", "failed", "flushed"}
                                      \/ k = "completed" /\ row \in {"failed", "flushed"}
                                   THEN row ELSE k
<1>1. Rank("none") = 0 /\ Rank("row") = 0 /\ Rank("started") = 1 /\ Rank("completed") = 2
      /\ Rank("failed") = 3 /\ Rank("flushed") = 3
  BY DEF Rank
<1> QED BY <1>1 DEF Merge, Kinds

\* The browser processes an event x, whichever way it came: rows keep fitting,
\* and the last event of an entry makes its row right.
LEMMA SeeOK ==
    ASSUME StreamIInv, NEW c \in Subs, NEW x \in Event, Numbered(x), KindFits(x), See(c, x),
           UNCHANGED <<nextSeq, events, phase>>
    PROVE  /\ cursor' \in [Subs -> Nat \ {0}] /\ foreign' \in [Subs -> BOOLEAN]
           /\ view' \in [Subs -> [Entries -> {"none", "row", "started", "completed", "failed",
                                              "flushed"}]]
           /\ hist' \in [Subs -> SUBSET Mishaps] /\ reload' = reload /\ answer' = answer
           /\ \A d \in Subs : d # c => /\ cursor'[d] = cursor[d] /\ foreign'[d] = foreign[d]
                                       /\ view'[d] = view[d] /\ hist'[d] = hist[d]
           /\ ~foreign'[c] => cursor'[c] <= nextSeq
           /\ FetchFits(c)' /\ (\A f \in Entries : ViewFits(c, f)')
           /\ hist[c] \subseteq hist'[c]
           /\ \A f \in Entries :
                 f # x.id /\ todo'[c].reset = todo[c].reset /\ Shown(c, f) => Shown(c, f)'
           /\ Lucky(c)' /\ ~todo'[c].reset /\ x.kind = LastKind(x.id) => Shown(c, x.id)'
<1>1. DashTypes /\ BrowserOK(c) /\ nextSeq \in Nat
  BY DEF StreamIInv, DashInv, BrokerIInv, TypeInv
<1>2. x.id \in Entries /\ x.kind \in Kinds /\ x.seq \in Nat /\ x.seq <= nextSeq
  BY <1>1 DEF Event, Numbered
<1> DEFINE e == x.id
           row == Merge(view[c][e], x.kind)
           what == IF reload[c] = "answered" THEN {"overtaken"} ELSE {}
<1>3. /\ SeeSeq(c, x.seq) /\ view' = [view EXCEPT ![c][e] = row]
      /\ hist' = [hist EXCEPT ![c] = @ \cup what]
      /\ reload' = reload /\ answer' = answer
  BY <1>1 DEF See, Mishap, DashTypes
<1>4. view[c][e] \in {"none", "row", "started", "completed", "failed", "flushed"}
  BY <1>1, <1>2 DEF DashTypes
<1>5. /\ row \in {"none", "row", "started", "completed", "failed", "flushed"}
      /\ row = IF x.kind = "removed" THEN "none"
               ELSE IF \/ x.kind = "started" /\ view[c][e] \in {"completed", "failed", "flushed"}
                       \/ x.kind = "completed" /\ view[c][e] \in {"failed", "flushed"}
                    THEN view[c][e] ELSE x.kind
  BY <1>2, <1>4, MergeFacts
<1>6. /\ cursor' \in [Subs -> Nat \ {0}] /\ foreign' \in [Subs -> BOOLEAN]
      /\ \A d \in Subs : d # c => cursor'[d] = cursor[d] /\ foreign'[d] = foreign[d]
      /\ ~foreign'[c] => cursor'[c] <= nextSeq
  BY <1>1, <1>2, <1>3, SeeSeqOK DEF BrowserOK
<1> HIDE DEF row
<1>7. /\ view' \in [Subs -> [Entries -> {"none", "row", "started", "completed", "failed",
                                         "flushed"}]]
      /\ view'[c][e] = row /\ (\A f \in Entries : f # e => view'[c][f] = view[c][f])
      /\ \A d \in Subs : d # c => view'[d] = view[d]
  BY <1>1, <1>2, <1>3, <1>5 DEF DashTypes
<1>8. /\ hist' \in [Subs -> SUBSET Mishaps] /\ hist'[c] = hist[c] \cup what
      /\ \A d \in Subs : d # c => hist'[d] = hist[d]
  BY <1>1, <1>3 DEF DashTypes, Mishaps
<1>9. ViewFits(c, e)'
  <2>1. ViewFits(c, e) /\ KindFits(x)
    BY <1>1, <1>2 DEF BrowserOK
  <2>2. phase' = phase /\ Persisted' = Persisted
    BY Frozen
  <2>3. phase[e] = "flushed" => e \in Persisted
    BY <1>2 DEF Persisted
  <2> QED BY <1>2, <1>4, <1>5, <1>7, <2>1, <2>2, <2>3 DEF ViewFits, KindFits, Kinds, Terminal
<1>10. \A f \in Entries : ViewFits(c, f)'
  <2>1. ASSUME NEW f \in Entries, f # e PROVE ViewFits(c, f)'
    BY <1>1, <1>7, <2>1, Frozen DEF BrowserOK, ViewFits
  <2> QED BY <1>9, <2>1
<1>11. FetchFits(c)'
  <2>1. FetchFits(c) /\ Persisted' = Persisted
    BY <1>1, Frozen DEF BrowserOK
  <2>2. ~(reload'[c] = "answered" /\ "overtaken" \notin hist'[c])
    BY <1>3, <1>8
  <2> QED BY <1>3, <1>8, <2>1, <2>2 DEF FetchFits
<1>12. \A f \in Entries :
          f # e /\ todo'[c].reset = todo[c].reset /\ Shown(c, f) => Shown(c, f)'
  BY <1>3, <1>7, <1>8, Frozen DEF Shown
<1>13. ASSUME Lucky(c)', ~todo'[c].reset, x.kind = LastKind(e) PROVE Shown(c, e)'
  <2>1. reload[c] \in {"no", "asked"}
    <3>1. reload[c] = "answered" => "overtaken" \in hist'[c]
      BY <1>8
    <3>2. "overtaken" \notin hist'[c]
      BY <1>13 DEF Lucky
    <3> QED BY <1>1, <3>1, <3>2 DEF DashTypes
  <2>2. ViewFits(c, e) /\ KindFits(x)
    BY <1>1, <1>2 DEF BrowserOK
  <2>3. phase[e] \in {"started", "completed"} => row = phase[e]
    BY <1>4, <1>5, <1>13, <2>2 DEF ViewFits, LastKind
  <2>4. phase[e] = "stored" => row = "completed"
    BY <1>4, <1>5, <1>13, <2>2 DEF ViewFits, LastKind
  <2>5. phase[e] = "flushed" => row = "flushed"
    BY <1>4, <1>5, <1>13 DEF LastKind
  <2>6. row \in {"started", "completed"} => InProgress(e)
    BY <1>2, <1>4, <1>5, <1>13, <2>2 DEF ViewFits, LastKind, InProgress, Kinds
  <2> QED BY <1>3, <1>7, <2>1, <2>3, <2>4, <2>5, <2>6, Frozen DEF Shown
<1> QED BY <1>3, <1>6, <1>7, <1>8, <1>10, <1>11, <1>12, <1>13

LEMMA SendReplayInv ==
    ASSUME StreamIInv, NEW c \in Subs, SendReplay(c)
    PROVE  DashInv'
<1>1. DashTypes /\ BrowserOK(c)
  BY DEF StreamIInv, DashInv
<1>0. PICK s, x : s = todo[c].replay /\ x = Head(s)
  OBVIOUS
<1>2. /\ link[c] /\ todo[c].reset = FALSE /\ s # <<>> /\ s \in Seq(Event) /\ See(c, x)
      /\ todo' = [todo EXCEPT ![c].replay = Tail(s)]
      /\ UNCHANGED <<nextSeq, events, active, phase, brokerClosed>> /\ UNCHANGED <<subs, link>>
  BY <1>0, <1>1 DEF SendReplay, brokerVars, DashTypes
<1>3. LinkFits(c) /\ Genuine(s)
  BY <1>0, <1>1 DEF BrowserOK, LinkFits
<1>4. /\ x \in Event /\ Tail(s) \in Seq(Event) /\ Numbered(x) /\ KindFits(x)
      /\ Genuine(Tail(s))
  BY <1>0, <1>2, <1>3, AfterTail
<1>5. \A f, k : /\ Holds(s, f) <=> x.id = f \/ Holds(Tail(s), f)
                /\ EndsWith(s, f, k) => EndsWith(Tail(s), f, k)
                /\ EndsWith(s, f, k) /\ x.id = f /\ ~Holds(Tail(s), f) => x.kind = k
  BY <1>0, <1>2, AfterTail
<1>6. /\ todo'[c].reset = FALSE /\ todo'[c].replay = Tail(s)
      /\ (\A d \in Subs : d # c => todo'[d] = todo[d])
      /\ todo' \in [Subs -> [reset : BOOLEAN, replay : Seq(Event)]]
  <2>1. todo \in [Subs -> [reset : BOOLEAN, replay : Seq(Event)]]
    BY <1>1 DEF DashTypes
  <2>2. PICK t : t = Tail(s)
    OBVIOUS
  <2>3. todo' = [todo EXCEPT ![c].replay = t] /\ t \in Seq(Event) /\ todo[c].reset = FALSE
    BY <1>2, <1>4, <2>2
  <2>4. /\ todo'[c].reset = FALSE /\ todo'[c].replay = t
        /\ \A d \in Subs : d # c => todo'[d] = todo[d]
    BY <2>1, <2>3
  <2>5. todo' \in [Subs -> [reset : BOOLEAN, replay : Seq(Event)]]
    BY <2>1, <2>3
  <2> QED BY <2>2, <2>4, <2>5
<1>7. /\ cursor' \in [Subs -> Nat \ {0}] /\ foreign' \in [Subs -> BOOLEAN]
      /\ view' \in [Subs -> [Entries -> {"none", "row", "started", "completed", "failed",
                                         "flushed"}]]
      /\ hist' \in [Subs -> SUBSET Mishaps] /\ reload' = reload /\ answer' = answer
      /\ \A d \in Subs : d # c => /\ cursor'[d] = cursor[d] /\ foreign'[d] = foreign[d]
                                  /\ view'[d] = view[d] /\ hist'[d] = hist[d]
      /\ ~foreign'[c] => cursor'[c] <= nextSeq
      /\ FetchFits(c)' /\ (\A f \in Entries : ViewFits(c, f)')
      /\ hist[c] \subseteq hist'[c]
      /\ \A f \in Entries : f # x.id /\ Shown(c, f) => Shown(c, f)'
      /\ Lucky(c)' /\ x.kind = LastKind(x.id) => Shown(c, x.id)'
  BY <1>2, <1>4, <1>6, SeeOK
<1>8. OnlyBrowser(c)
  BY <1>2, <1>6, <1>7 DEF OnlyBrowser, Same
<1>9. DashTypes'
  BY <1>1, <1>2, <1>6, <1>7 DEF DashTypes
<1>10. LinkFits(c)'
  <2>1. Frontier(c)' = Frontier(c)
    BY <1>2 DEF Frontier
  <2>2. Genuine(todo[c].replay)'
    <3>1. Genuine(Tail(s)) <=> \A i \in 1..Len(Tail(s)) : Numbered(Tail(s)[i]) /\ KindFits(Tail(s)[i])
      BY DEF Genuine
    <3>2. \A y : (Numbered(y) => Numbered(y)') /\ (KindFits(y) => KindFits(y)')
      <4>1. Base' = Base
        BY <1>2 DEF Base
      <4> QED BY <1>2, <4>1 DEF Numbered, KindFits
    <3> QED BY <1>4, <1>6, <3>1, <3>2 DEF Genuine
  <2>3. Genuine(subs[c].queue)'
    BY <1>2, <1>3, Frozen DEF LinkFits
  <2> QED BY <1>2, <1>3, <1>6, <1>7, <2>1, <2>2, <2>3 DEF LinkFits
<1>11. ASSUME ~brokerClosed', Lucky(c)' PROVE Informed(c)'
  <2>1. Informed(c)
    BY <1>1, <1>2, <1>7, <1>11 DEF BrowserOK, Lucky
  <2>2. ASSUME NEW f \in Entries PROVE OnItsWay(c, f)'
    <3>1. OnItsWay(c, f) /\ Frontier(c)' = Frontier(c)
      BY <1>2, <2>1 DEF Informed, Frontier
    <3>4. /\ Behind(Frontier(c), f)' <=> Behind(Frontier(c), f)
          /\ EndsWith(todo[c].replay, f, LastKind(f))' <=> EndsWith(Tail(s), f, LastKind(f))
          /\ Holds(todo[c].replay, f)' <=> Holds(Tail(s), f)
          /\ EndsWith(subs[c].queue, f, LastKind(f))' <=> EndsWith(subs[c].queue, f, LastKind(f))
          /\ Holds(subs[c].queue, f)' <=> Holds(subs[c].queue, f)
      <4>1. LastKind(f)' = LastKind(f) /\ \A n : Behind(n, f)' <=> Behind(n, f)
        BY <1>2, Frozen
      <4>2. Behind(Frontier(c), f)' <=> Behind(Frontier(c), f)
        BY <3>1, <4>1
      <4> QED BY <1>2, <1>6, <4>1, <4>2 DEF EndsWith, Holds
    <3> SUFFICES ASSUME ~Behind(Frontier(c), f)
                 PROVE  /\ EndsWith(subs[c].queue, f, LastKind(f))
                        /\ ~Holds(subs[c].queue, f) => EndsWith(Tail(s), f, LastKind(f))
                        /\ ~Holds(subs[c].queue, f) /\ ~Holds(Tail(s), f) => Shown(c, f)'
      BY <3>4 DEF OnItsWay
    <3>2. /\ EndsWith(subs[c].queue, f, LastKind(f))
          /\ ~Holds(subs[c].queue, f) => EndsWith(s, f, LastKind(f))
          /\ ~Holds(subs[c].queue, f) /\ ~Holds(s, f) => Shown(c, f)
      BY <1>0, <3>1 DEF OnItsWay
    <3>3. ASSUME ~Holds(subs[c].queue, f), ~Holds(Tail(s), f) PROVE Shown(c, f)'
      <4>1. CASE x.id = f
        <5>1. x.kind = LastKind(f)
          BY <1>5, <3>2, <3>3, <4>1
        <5> QED BY <1>7, <1>11, <4>1, <5>1
      <4>2. CASE x.id # f
        BY <1>5, <1>7, <3>2, <3>3, <4>2
      <4> QED BY <4>1, <4>2
    <3> QED BY <1>5, <3>2, <3>3
  <2> QED BY <1>2, <2>2 DEF Informed
<1> QED BY <1>7, <1>8, <1>9, <1>10, <1>11, OneBrowserInv DEF BrowserOK

LEMMA SendEventInv ==
    ASSUME StreamIInv, NEW c \in Subs, SendEvent(c)
    PROVE  DashInv'
<1>1. DashTypes /\ BrowserOK(c) /\ DOMAIN subs = Subs /\ SubOK(subs[c])
  BY DEF StreamIInv, DashInv, BrokerIInv, TypeInv
<1>0. PICK s, x : s = subs[c].queue /\ x = Head(s)
  OBVIOUS
<1>2. /\ link[c] /\ todo[c] = NothingToDo /\ s # <<>> /\ s \in Seq(Event) /\ See(c, x)
      /\ subs' = [subs EXCEPT ![c].queue = Tail(@), ![c].taken = x.seq]
      /\ UNCHANGED <<nextSeq, events, active, phase, brokerClosed>> /\ UNCHANGED <<todo, link>>
  BY <1>0, <1>1 DEF SendEvent, Take, SubOK
<1>3. LinkFits(c) /\ Genuine(s)
  BY <1>0, <1>1 DEF BrowserOK, LinkFits
<1>4. /\ x \in Event /\ Tail(s) \in Seq(Event) /\ Numbered(x) /\ KindFits(x)
      /\ Genuine(Tail(s))
  BY <1>0, <1>2, <1>3, AfterTail
<1>5. \A f, k : /\ Holds(s, f) <=> x.id = f \/ Holds(Tail(s), f)
                /\ EndsWith(s, f, k) => EndsWith(Tail(s), f, k)
                /\ EndsWith(s, f, k) /\ x.id = f /\ ~Holds(Tail(s), f) => x.kind = k
  BY <1>0, <1>2, AfterTail
<1>6. /\ subs'[c].queue = Tail(s) /\ subs'[c].taken = x.seq /\ subs'[c].state = subs[c].state
      /\ (\A d \in Subs : d # c => subs'[d] = subs[d])
  BY <1>0, <1>1, <1>2 DEF SubOK
<1>7. Frontier(c)' = Frontier(c)
  <2>1. /\ Len(s) \in Nat \ {0} /\ Len(Tail(s)) = Len(s) - 1 /\ x = s[1]
    BY <1>0, <1>2
  <2>2. s[1].seq = subs[c].taken + 1 /\ subs[c].taken \in Nat
    <3>1. 1 \in 1..Len(s)
      BY <2>1
    <3> QED BY <1>0, <1>1, <3>1 DEF StreamIInv, BrokerIInv, StreamHasNoGap, Follows, SubOK
  <2>3. Frontier(c)' = x.seq + Len(Tail(s))
    BY <1>6 DEF Frontier
  <2>4. Frontier(c) = subs[c].taken + Len(s)
    BY <1>0 DEF Frontier
  <2> QED BY <2>1, <2>2, <2>3, <2>4
<1>8. todo'[c].reset = FALSE /\ todo[c].reset = FALSE /\ todo[c].replay = <<>>
  BY <1>2 DEF NothingToDo
<1>9. /\ cursor' \in [Subs -> Nat \ {0}] /\ foreign' \in [Subs -> BOOLEAN]
      /\ view' \in [Subs -> [Entries -> {"none", "row", "started", "completed", "failed",
                                         "flushed"}]]
      /\ hist' \in [Subs -> SUBSET Mishaps] /\ reload' = reload /\ answer' = answer
      /\ \A d \in Subs : d # c => /\ cursor'[d] = cursor[d] /\ foreign'[d] = foreign[d]
                                  /\ view'[d] = view[d] /\ hist'[d] = hist[d]
      /\ ~foreign'[c] => cursor'[c] <= nextSeq
      /\ FetchFits(c)' /\ (\A f \in Entries : ViewFits(c, f)')
      /\ hist[c] \subseteq hist'[c]
      /\ \A f \in Entries : f # x.id /\ Shown(c, f) => Shown(c, f)'
      /\ Lucky(c)' /\ x.kind = LastKind(x.id) => Shown(c, x.id)'
  BY <1>2, <1>4, <1>8, SeeOK
<1>10. OnlyBrowser(c)
  BY <1>2, <1>6, <1>9 DEF OnlyBrowser, Same
<1>11. DashTypes'
  BY <1>1, <1>2, <1>9 DEF DashTypes
<1>12. LinkFits(c)'
  <2>1. Genuine(subs[c].queue)'
    <3>1. Genuine(Tail(s)) <=> \A i \in 1..Len(Tail(s)) : Numbered(Tail(s)[i]) /\ KindFits(Tail(s)[i])
      BY DEF Genuine
    <3>2. \A y : (Numbered(y) => Numbered(y)') /\ (KindFits(y) => KindFits(y)')
      <4>1. Base' = Base
        BY <1>2 DEF Base
      <4> QED BY <1>2, <4>1 DEF Numbered, KindFits
    <3> QED BY <1>4, <1>6, <3>1, <3>2 DEF Genuine
  <2>2. Genuine(todo[c].replay)'
    BY <1>2, <1>3, Frozen DEF LinkFits
  <2> QED BY <1>2, <1>3, <1>6, <1>7, <1>8, <1>9, <2>1, <2>2 DEF LinkFits
<1>13. ASSUME ~brokerClosed', Lucky(c)' PROVE Informed(c)'
  <2>1. Informed(c)
    BY <1>1, <1>2, <1>9, <1>13 DEF BrowserOK, Lucky
  <2>2. ASSUME NEW f \in Entries PROVE OnItsWay(c, f)'
    <3>1. OnItsWay(c, f)
      BY <1>2, <2>1 DEF Informed
    <3>2. \A k : ~Holds(<<>>, f) /\ EndsWith(<<>>, f, k)
      BY Nothing
    <3>5. /\ Behind(Frontier(c), f)' <=> Behind(Frontier(c), f)
          /\ EndsWith(subs[c].queue, f, LastKind(f))' <=> EndsWith(Tail(s), f, LastKind(f))
          /\ Holds(subs[c].queue, f)' <=> Holds(Tail(s), f)
          /\ EndsWith(todo[c].replay, f, LastKind(f))'
      <4>1. LastKind(f)' = LastKind(f) /\ \A n : Behind(n, f)' <=> Behind(n, f)
        BY <1>2, Frozen
      <4>2. Behind(Frontier(c), f)' <=> Behind(Frontier(c), f)
        BY <1>7, <4>1
      <4>3. EndsWith(todo[c].replay, f, LastKind(f))'
        BY <1>2, <1>8, <3>2 DEF EndsWith
      <4> QED BY <1>6, <4>1, <4>2, <4>3 DEF EndsWith, Holds
    <3> SUFFICES ASSUME ~Behind(Frontier(c), f)
                 PROVE  /\ EndsWith(Tail(s), f, LastKind(f))
                        /\ ~Holds(Tail(s), f) => Shown(c, f)'
      BY <3>5 DEF OnItsWay
    <3>3. /\ EndsWith(s, f, LastKind(f))
          /\ ~Holds(s, f) => Shown(c, f)
      BY <1>0, <1>8, <3>1, <3>2 DEF OnItsWay
    <3>4. ASSUME ~Holds(Tail(s), f) PROVE Shown(c, f)'
      <4>1. CASE x.id = f
        <5>1. x.kind = LastKind(f)
          BY <1>5, <3>3, <3>4, <4>1
        <5> QED BY <1>9, <1>13, <4>1, <5>1
      <4>2. CASE x.id # f
        BY <1>5, <1>9, <3>3, <3>4, <4>2
      <4> QED BY <4>1, <4>2
    <3> QED BY <1>5, <3>3, <3>4
  <2> QED BY <1>2, <2>2 DEF Informed
<1> QED BY <1>9, <1>10, <1>11, <1>12, <1>13, OneBrowserInv DEF BrowserOK

-----------------------------------------------------------------------------
(* Connecting and disconnecting *)

\* What is replayed to a browser that can resume: the events after its cursor.
LEMMA ResumeReplay ==
    ASSUME BrokerIInv, NEW n \in Nat, ~CannotResume(n)
    PROVE  /\ After(events, n) \in Seq(Event)
           /\ \E m \in 0..Len(events) :
                 /\ n = Base + m /\ Len(After(events, n)) = Len(events) - m
                 /\ \A i \in 1..Len(After(events, n)) : After(events, n)[i] = events[i + m]
<1>1. /\ nextSeq \in Nat /\ events \in Seq(Event) /\ Len(events) \in Nat
      /\ Base \in Nat /\ Base + Len(events) = nextSeq
      /\ \A i \in 1..Len(events) : events[i] \in Event /\ events[i].seq = Base + i
  BY WindowFacts
<1>2. n <= nextSeq /\ Base <= n
  BY <1>1, ResumeFacts
<1>3. PICK m \in 0..Len(events) : n = Base + m
  <2>1. n - Base \in 0..Len(events) /\ n = Base + (n - Base)
    BY <1>1, <1>2
  <2> QED BY <2>1
<1>4. \A i \in 1..Len(events) : events[i].seq > n <=> i > m
  BY <1>1, <1>3
<1>5. /\ After(events, n) \in Seq(Event)
      /\ Len(After(events, n)) = Len(events) - m
      /\ \A i \in 1..Len(events) - m : After(events, n)[i] = events[i + m]
  BY <1>1, <1>4, AfterIsSuffix
<1> QED BY <1>3, <1>5

LEMMA SnapshotsReplay ==
    ASSUME StreamIInv
    PROVE  /\ Snapshots \in Seq(Event)
           /\ Genuine(Snapshots)
           /\ ~brokerClosed => \A e \in Entries :
                 EndsWith(Snapshots, e, LastKind(e)) /\ (InProgress(e) => Holds(Snapshots, e))
<1>1. active \in SUBSET Event /\ IsFiniteSet(active) /\ Distinct(active)
  BY DEF StreamIInv, BrokerIInv, TypeInv, NumbersInv
<1>2. /\ Snapshots \in Seq(Event)
      /\ \A i \in 1..Len(Snapshots) : Snapshots[i] \in active
      /\ \A x \in active : \E i \in 1..Len(Snapshots) : Snapshots[i] = x
  BY <1>1, SnapshotsOK
<1>3. EventsFit
  BY DEF StreamIInv, DashInv
<1> HIDE DEF Snapshots
<1>4. Genuine(Snapshots)
  BY <1>2, <1>3 DEF EventsFit, Genuine
<1>5. ASSUME ~brokerClosed, NEW e \in Entries
      PROVE  EndsWith(Snapshots, e, LastKind(e)) /\ (InProgress(e) => Holds(Snapshots, e))
  <2>1. EndsWith(Snapshots, e, LastKind(e))
    BY <1>2, <1>3, <1>5 DEF EventsFit, EndsWith
  <2>2. ASSUME InProgress(e) PROVE Holds(Snapshots, e)
    <3>1. PICK a \in active : a.id = e
      BY <1>3, <1>5, <2>2 DEF EventsFit
    <3>2. PICK i \in 1..Len(Snapshots) : Snapshots[i] = a
      BY <1>2
    <3> QED BY <3>1, <3>2 DEF Holds
  <2> QED BY <2>1, <2>2
<1> QED BY <1>2, <1>4, <1>5

\* The replay of a subscription, as the browser will get it.
LEMMA ReplayTells ==
    ASSUME StreamIInv, NEW n \in Nat \ {0}, ~brokerClosed, NEW s, s = Subscription(n)
    PROVE  /\ s.state = "open" /\ s.queue = <<>> /\ s.taken = nextSeq
           /\ s.reset \in BOOLEAN /\ (s.reset <=> CannotResume(n))
           /\ s.replay \in Seq(Event) /\ Genuine(s.replay)
           /\ \A e \in Entries :
                 /\ EndsWith(s.replay, e, LastKind(e))
                 /\ ~Holds(s.replay, e) => IF s.reset THEN ~InProgress(e) ELSE ~Behind(n, e)
<1>1. /\ s.state = "open" /\ s.queue = <<>> /\ s.taken = nextSeq
      /\ s.reset \in BOOLEAN /\ (s.reset <=> CannotResume(n))
      /\ s.replay = IF CannotResume(n) THEN Snapshots ELSE After(events, n)
  BY DEF Subscription, CannotResume
<1>2. CASE CannotResume(n)
  BY <1>1, <1>2, SnapshotsReplay
<1>3. CASE ~CannotResume(n)
  <2>1. BrokerIInv /\ EventsFit
    BY DEF StreamIInv, DashInv
  <2>2. PICK t : t = s.replay
    OBVIOUS
  <2>3. /\ events \in Seq(Event) /\ Len(events) \in Nat /\ Base \in Nat
        /\ \A i \in 1..Len(events) : events[i] \in Event /\ events[i].seq = Base + i
    BY <2>1, WindowFacts
  <2>4. t \in Seq(Event) /\ Len(t) \in Nat
    BY <1>1, <1>3, <2>1, <2>2, ResumeReplay
  <2>5. PICK m \in 0..Len(events) :
            /\ n = Base + m /\ Len(t) = Len(events) - m
            /\ \A i \in 1..Len(t) : t[i] = events[i + m]
    BY <1>1, <1>3, <2>1, <2>2, ResumeReplay
  <2>6. \A i \in 1..Len(t) : i + m \in 1..Len(events)
    BY <2>3, <2>4, <2>5
  <2>7. Genuine(t)
    BY <2>1, <2>5, <2>6 DEF EventsFit, Genuine
  <2>8. ASSUME NEW e \in Entries
        PROVE  EndsWith(t, e, LastKind(e)) /\ (~Holds(t, e) => ~Behind(n, e))
    <3>1. EndsWith(t, e, LastKind(e))
      <4>1. EndsWith(events, e, LastKind(e))
        BY <2>1 DEF EventsFit
      <4>2. m \in Nat
        BY <2>3, <2>5
      <4> QED BY <2>3, <2>4, <2>5, <4>1, <4>2, AfterSuffix
    <3>2. ASSUME NEW i \in 1..Len(events), events[i].seq > n, events[i].id = e
          PROVE  Holds(t, e)
      <4>1. events[i].seq = Base + i
        BY <2>3
      <4>2. i - m \in 1..Len(t) /\ (i - m) + m = i
        BY <2>3, <2>4, <2>5, <3>2, <4>1
      <4>3. t[i - m] = events[i]
        BY <2>5, <4>2
      <4> QED BY <3>2, <4>2, <4>3 DEF Holds
    <3>3. n >= Base
      BY <2>3, <2>5
    <3> QED BY <2>3, <3>1, <3>2, <3>3 DEF Behind
  <2> QED BY <1>1, <1>3, <2>2, <2>4, <2>7, <2>8
<1> QED BY <1>2, <1>3

LEMMA ConnectInv ==
    ASSUME StreamIInv, NEW c \in Subs, Connect(c)
    PROVE  DashInv'
<1>1. DashTypes /\ BrowserOK(c) /\ nextSeq \in Nat /\ DOMAIN subs = Subs
  BY DEF StreamIInv, DashInv, BrokerIInv, TypeInv
<1>2. PICK s : s = Subscription(cursor[c])
  OBVIOUS
<1>3. /\ link[c] = FALSE /\ ~brokerClosed /\ subs' = [subs EXCEPT ![c] = s]
      /\ link' = [link EXCEPT ![c] = TRUE]
      /\ todo' = [todo EXCEPT ![c] = [reset |-> subs'[c].reset, replay |-> subs'[c].replay]]
      /\ hist' = [hist EXCEPT ![c] = @ \cup (IF foreign[c] /\ ~subs'[c].reset
                                             THEN {"resumed"} ELSE {})]
      /\ UNCHANGED <<nextSeq, events, active, phase, brokerClosed>>
      /\ UNCHANGED <<cursor, foreign, view, reload, answer>>
  BY <1>1, <1>2 DEF Connect, Subscribe, Mishap, browserVars, DashTypes
<1>4. cursor[c] \in Nat \ {0}
  BY <1>1 DEF DashTypes
<1>5. /\ s.state = "open" /\ s.queue = <<>> /\ s.taken = nextSeq
      /\ s.reset \in BOOLEAN /\ (s.reset <=> CannotResume(cursor[c]))
      /\ s.replay \in Seq(Event) /\ Genuine(s.replay)
      /\ \A e \in Entries :
            /\ EndsWith(s.replay, e, LastKind(e))
            /\ ~Holds(s.replay, e) => IF s.reset THEN ~InProgress(e) ELSE ~Behind(cursor[c], e)
  BY <1>2, <1>3, <1>4, ReplayTells
<1>6. /\ subs'[c] = s /\ link'[c] = TRUE
      /\ todo'[c].reset = s.reset /\ todo'[c].replay = s.replay
      /\ hist'[c] = hist[c] \cup (IF foreign[c] /\ ~s.reset THEN {"resumed"} ELSE {})
      /\ \A d \in Subs : d # c => /\ subs'[d] = subs[d] /\ link'[d] = link[d]
                                  /\ todo'[d] = todo[d] /\ hist'[d] = hist[d]
  BY <1>1, <1>3 DEF DashTypes
<1>7. /\ link' \in [Subs -> BOOLEAN] /\ hist' \in [Subs -> SUBSET Mishaps]
      /\ todo' \in [Subs -> [reset : BOOLEAN, replay : Seq(Event)]]
  <2>1. subs'[c] = s
    BY <1>6
  <2>2. hist' \in [Subs -> SUBSET Mishaps]
    BY <1>1, <1>3 DEF DashTypes, Mishaps
  <2> QED BY <1>1, <1>3, <1>5, <2>1, <2>2 DEF DashTypes
<1>8. DashTypes'
  BY <1>1, <1>3, <1>7 DEF DashTypes
<1>9. OnlyBrowser(c)
  BY <1>3, <1>6 DEF OnlyBrowser, Same
<1>10. Frontier(c)' = nextSeq
  BY <1>1, <1>5, <1>6 DEF Frontier
<1>11. LinkFits(c)'
  <2>1. Genuine(subs[c].queue)'
    <3>1. subs'[c].queue = <<>> /\ 1..Len(<<>>) = {}
      BY <1>5, <1>6
    <3> QED BY <3>1 DEF Genuine
  <2>2. Genuine(todo[c].replay)'
    <3>1. \A x : (Numbered(x) => Numbered(x)') /\ (KindFits(x) => KindFits(x)')
      <4>1. Base' = Base
        BY <1>3 DEF Base
      <4> QED BY <1>3, <4>1 DEF Numbered, KindFits
    <3> QED BY <1>5, <1>6, <3>1 DEF Genuine
  <2>3. CannotResume(cursor[c])' <=> CannotResume(cursor[c])
    BY <1>3, Frozen
  <2> QED BY <1>1, <1>3, <1>5, <1>6, <1>10, <2>1, <2>2, <2>3 DEF LinkFits, BrowserOK
<1>12. FetchFits(c)' /\ \A f \in Entries : ViewFits(c, f)'
  BY <1>1, <1>3, <1>6, Frozen DEF BrowserOK, FetchFits, ViewFits
<1>13. ASSUME Lucky(c)', NEW f \in Entries PROVE OnItsWay(c, f)'
  <2>1. Lucky(c) /\ (foreign[c] => s.reset)
    <3>1. hist[c] \subseteq hist'[c]
      BY <1>6
    <3>2. foreign[c] /\ ~s.reset => "resumed" \in hist'[c]
      BY <1>6
    <3> QED BY <1>13, <3>1, <3>2 DEF Lucky
  <2>2. Informed(c)
    BY <1>1, <1>3, <2>1 DEF BrowserOK
  <2>3. \A k : EndsWith(<<>>, f, k) /\ ~Holds(<<>>, f)
    BY Nothing
  <2>4. EndsWith(subs[c].queue, f, LastKind(f))'
    BY <1>5, <1>6, <2>3 DEF EndsWith
  <2>5. EndsWith(todo[c].replay, f, LastKind(f))'
    <3>1. LastKind(f)' = LastKind(f)
      BY <1>3, Frozen
    <3> QED BY <1>5, <1>6, <3>1 DEF EndsWith
  <2>6. ASSUME ~Holds(s.replay, f) PROVE Shown(c, f)'
    <3>1. CASE s.reset
      <4>1. ~InProgress(f)
        BY <1>5, <2>6, <3>1
      <4> QED BY <1>3, <1>6, <3>1, <4>1 DEF Shown, InProgress
    <3>2. CASE ~s.reset
      <4>1. UpToCursor(c, f) /\ ~Behind(cursor[c], f)
        BY <1>3, <1>5, <2>1, <2>2, <2>6, <3>2 DEF Informed
      <4>2. Shown(c, f)
        BY <4>1 DEF UpToCursor
      <4>3. todo[c].reset = FALSE
        BY <1>1, <1>3 DEF BrowserOK, LinkFits, NothingToDo
      <4>4. hist'[c] = hist[c] /\ InProgress(f)' = InProgress(f) /\ todo'[c].reset = FALSE
        BY <1>3, <1>5, <1>6, <2>1, <3>2 DEF InProgress
      <4> QED BY <1>3, <4>2, <4>3, <4>4 DEF Shown
    <3> QED BY <1>5, <3>1, <3>2
  <2>7. ~Holds(todo[c].replay, f)' => ~Holds(s.replay, f)
    BY <1>6 DEF Holds
  <2> QED BY <2>4, <2>5, <2>6, <2>7 DEF OnItsWay
<1>14. Lucky(c)' => Informed(c)'
  BY <1>6, <1>13 DEF Informed
<1> QED BY <1>8, <1>9, <1>11, <1>12, <1>14, OneBrowserInv DEF BrowserOK

\* A browser that leaves knows everything up to its cursor, or it was ahead of
\* what it was sent.
LEMMA DisconnectInv ==
    ASSUME StreamIInv, NEW c \in Subs, Disconnect(c)
    PROVE  DashInv'
<1>1. DashTypes /\ BrowserOK(c) /\ nextSeq \in Nat /\ DOMAIN subs = Subs /\ BrokerIInv
      /\ SubOK(subs[c])
  BY DEF StreamIInv, DashInv, BrokerIInv, TypeInv
<1>2. /\ link[c] = TRUE /\ subs' = [subs EXCEPT ![c] = NoSub]
      /\ link' = [link EXCEPT ![c] = FALSE]
      /\ todo' = [todo EXCEPT ![c] = NothingToDo]
      /\ hist' = [hist EXCEPT ![c] = @ \cup (IF AheadOfStream(c) THEN {"skipped"} ELSE {})]
      /\ UNCHANGED <<nextSeq, events, active, phase, brokerClosed>>
      /\ UNCHANGED <<cursor, foreign, view, reload, answer>>
  BY <1>1 DEF Disconnect, Unsubscribe, Mishap, browserVars, DashTypes
<1>3. /\ subs'[c] = NoSub /\ link'[c] = FALSE /\ todo'[c] = NothingToDo
      /\ hist'[c] = hist[c] \cup (IF AheadOfStream(c) THEN {"skipped"} ELSE {})
      /\ \A d \in Subs : d # c => /\ subs'[d] = subs[d] /\ link'[d] = link[d]
                                  /\ todo'[d] = todo[d] /\ hist'[d] = hist[d]
  BY <1>1, <1>2 DEF DashTypes
<1>4. DashTypes'
  <2>1. NothingToDo \in [reset : BOOLEAN, replay : Seq(Event)]
    BY Nothing DEF NothingToDo
  <2>2. hist' \in [Subs -> SUBSET Mishaps]
    BY <1>1, <1>2 DEF DashTypes, Mishaps
  <2> QED BY <1>1, <1>2, <2>1, <2>2 DEF DashTypes
<1>5. OnlyBrowser(c)
  BY <1>2, <1>3 DEF OnlyBrowser, Same
<1>6. LinkFits(c)'
  <2>1. /\ subs'[c].state = "none" /\ subs'[c].queue = <<>> /\ subs'[c].taken = 0
        /\ todo'[c].reset = FALSE /\ todo'[c].replay = <<>> /\ 1..Len(<<>>) = {}
        /\ Len(<<>>) = 0
    BY <1>3 DEF NoSub, NothingToDo
  <2>2. Genuine(subs[c].queue)' /\ Genuine(todo[c].replay)'
    BY <2>1 DEF Genuine
  <2>3. Frontier(c)' = 0
    BY <2>1 DEF Frontier
  <2> QED BY <1>1, <1>2, <1>3, <2>1, <2>2, <2>3 DEF LinkFits, BrowserOK
<1>7. FetchFits(c)' /\ \A f \in Entries : ViewFits(c, f)'
  BY <1>1, <1>2, <1>3, Frozen DEF BrowserOK, FetchFits, ViewFits
<1>8. ASSUME ~brokerClosed', Lucky(c)' PROVE Informed(c)'
  <2>1. Lucky(c) /\ ~AheadOfStream(c)
    <3>1. hist[c] \subseteq hist'[c] /\ (AheadOfStream(c) => "skipped" \in hist'[c])
      BY <1>3
    <3> QED BY <1>8, <3>1 DEF Lucky
  <2>2. LinkFits(c) /\ \A f \in Entries : OnItsWay(c, f)
    BY <1>1, <1>2, <1>8, <2>1 DEF BrowserOK, Informed
  <2>3. CannotResume(cursor[c])' <=> CannotResume(cursor[c])
    BY <1>2, Frozen
  <2>4. CASE foreign[c] \/ todo[c].reset
    <3>1. foreign'[c] \/ CannotResume(cursor[c])'
      BY <1>2, <2>2, <2>3, <2>4 DEF LinkFits
    <3> QED BY <1>3, <3>1 DEF Informed
  <2>5. CASE ~foreign[c] /\ ~todo[c].reset
    <3>1. PICK n, q, r : n = cursor[c] /\ q = subs[c].queue /\ r = todo[c].replay
      OBVIOUS
    <3>2. n \in Nat /\ q \in Seq(Event) /\ r \in Seq(Event) /\ subs[c].taken \in Nat
      BY <1>1, <3>1 DEF DashTypes, SubOK
    <3>3. n <= subs[c].taken /\ \A i \in 1..Len(r) : r[i].seq > n
      <4>1. n <= subs[c].taken /\ \A e \in ToSet(r) : ~(e.seq <= n)
        BY <2>1, <2>5, <3>1, <3>2 DEF AheadOfStream
      <4>2. \A i \in 1..Len(r) : r[i] \in ToSet(r) /\ r[i] \in Event
        BY <3>2, ElementOfSeq DEF ToSet
      <4> QED BY <3>2, <4>1, <4>2 DEF Event
    <3>4. \A i \in 1..Len(q) : q[i].seq > n
      <4>1. \A i \in 1..Len(q) : q[i].seq = subs[c].taken + i
        BY <1>1, <3>1 DEF BrokerIInv, StreamHasNoGap, Follows
      <4>2. Len(q) \in Nat
        BY <3>2
      <4> QED BY <3>2, <3>3, <4>1, <4>2
    <3>5. Genuine(q) /\ Genuine(r)
      BY <2>2, <3>1 DEF LinkFits
    <3>6. ASSUME NEW f \in Entries, ~Behind(n, f) PROVE Shown(c, f)'
      <4>1. /\ Base \in Nat /\ n >= Base /\ Len(events) \in Nat /\ Base + Len(events) = nextSeq
            /\ \A i \in 1..Len(events) : ~(events[i].seq > n /\ events[i].id = f)
        BY <1>1, <3>2, <3>6, WindowFacts DEF Behind
      <4>2. ASSUME NEW x, Numbered(x), x.seq > n PROVE x.id # f
        <5>1. x.seq \in Nat /\ x.seq <= nextSeq
          BY <1>1, <4>2 DEF Numbered
        <5>2. x.seq > Base
          BY <3>2, <4>1, <4>2, <5>1
        <5>3. x.seq - Base \in 1..Len(events) /\ events[x.seq - Base] = x
          BY <4>1, <4>2, <5>1, <5>2 DEF Numbered
        <5> QED BY <4>1, <4>2, <5>3
      <4>3. ~Holds(q, f) /\ ~Holds(r, f)
        BY <3>3, <3>4, <3>5, <4>2 DEF Holds, Genuine
      <4>4. ~Behind(Frontier(c), f)
        <5>1. Frontier(c) \in Nat /\ n <= Frontier(c)
          BY <3>1, <3>2, <3>3 DEF Frontier
        <5>2. \A i \in 1..Len(events) : events[i].seq \in Nat
          BY <1>1, <4>1, WindowFacts
        <5> QED BY <3>2, <4>1, <5>1, <5>2 DEF Behind
      <4>5. Shown(c, f)
        BY <2>2, <3>1, <4>3, <4>4 DEF OnItsWay
      <4>6. hist'[c] = hist[c] /\ InProgress(f)' = InProgress(f) /\ todo'[c].reset = FALSE
        BY <1>2, <1>3, <2>1 DEF InProgress, NothingToDo
      <4> QED BY <1>2, <2>5, <4>5, <4>6 DEF Shown
    <3>7. \A f \in Entries : UpToCursor(c, f)'
      <4>1. \A f \in Entries : Behind(n, f)' <=> Behind(n, f)
        BY <1>2, Frozen
      <4>2. cursor'[c] = n
        BY <1>2, <3>1
      <4>3. \A f \in Entries : Behind(cursor[c], f)' <=> Behind(n, f)
        BY <1>2, <3>1, <4>1
      <4> QED BY <3>6, <4>3 DEF UpToCursor
    <3> QED BY <1>3, <3>7 DEF Informed
  <2> QED BY <2>4, <2>5
<1> QED BY <1>4, <1>5, <1>6, <1>7, <1>8, OneBrowserInv DEF BrowserOK

-----------------------------------------------------------------------------
(* Shutdown and restart *)

LEMMA ShutdownChannelInv ==
    ASSUME StreamIInv, NEW c \in Subs, ShutdownChannel(c)
    PROVE  DashInv'
<1>1. DashTypes /\ BrowserOK(c) /\ SubOK(subs[c]) /\ DOMAIN subs = Subs
  BY DEF StreamIInv, DashInv, BrokerIInv, TypeInv
<1>2. /\ subs[c].state = "detached" /\ subs' = [subs EXCEPT ![c].state = "cut"]
      /\ UNCHANGED <<nextSeq, events, active, phase, brokerClosed>>
      /\ UNCHANGED <<link, todo, cursor, foreign, view, reload, answer, hist>>
  BY DEF ShutdownChannel, CloseChannel, browserVars
<1>3. /\ subs'[c].state = "cut" /\ subs'[c].queue = subs[c].queue
      /\ subs'[c].taken = subs[c].taken /\ \A d \in Subs : d # c => subs'[d] = subs[d]
  BY <1>1, <1>2 DEF SubOK
<1>4. OnlyBrowser(c)
  BY <1>2, <1>3 DEF OnlyBrowser, Same
<1>5. DashTypes'
  BY <1>1, <1>2 DEF DashTypes
<1>6. Frontier(c)' = Frontier(c)
  BY <1>3 DEF Frontier
<1>7. LinkFits(c)'
  <2>1. Genuine(subs[c].queue)' /\ Genuine(todo[c].replay)'
    <3>1. \A x : (Numbered(x) => Numbered(x)') /\ (KindFits(x) => KindFits(x)')
      <4>1. Base' = Base
        BY <1>2 DEF Base
      <4> QED BY <1>2, <4>1 DEF Numbered, KindFits
    <3> QED BY <1>1, <1>2, <1>3, <3>1 DEF BrowserOK, LinkFits, Genuine
  <2>2. CannotResume(cursor[c])' <=> CannotResume(cursor[c])
    BY <1>2, Frozen
  <2> QED BY <1>1, <1>2, <1>3, <1>6, <2>1, <2>2 DEF LinkFits, BrowserOK, NothingToDo
<1>8. FetchFits(c)' /\ \A f \in Entries : ViewFits(c, f)'
  BY <1>1, <1>2, Frozen DEF BrowserOK, FetchFits, ViewFits
<1>9. ASSUME ~brokerClosed', Lucky(c)' PROVE Informed(c)'
  <2>1. Informed(c) /\ link'[c] = link[c] /\ link[c]
    BY <1>1, <1>2, <1>9 DEF BrowserOK, Lucky, LinkFits
  <2>2. ASSUME NEW f \in Entries PROVE OnItsWay(c, f)'
    <3>1. OnItsWay(c, f)
      BY <2>1 DEF Informed
    <3>2. /\ LastKind(f)' = LastKind(f)
          /\ \A n : Behind(n, f)' <=> Behind(n, f)
      BY <1>2, Frozen
    <3>3. Behind(Frontier(c), f)' <=> Behind(Frontier(c), f)
      BY <1>6, <3>2
    <3>4. Shown(c, f)' <=> Shown(c, f)
      BY <1>2, Frozen DEF Shown
    <3> QED BY <1>2, <1>3, <3>1, <3>2, <3>3, <3>4 DEF OnItsWay, EndsWith, Holds
  <2> QED BY <2>1, <2>2 DEF Informed
<1> QED BY <1>4, <1>5, <1>7, <1>8, <1>9, OneBrowserInv DEF BrowserOK

LEMMA ShutdownInv ==
    ASSUME StreamIInv, Shutdown
    PROVE  DashInv'
<1>1. DashTypes /\ EventsFit /\ DOMAIN subs = Subs
  BY DEF StreamIInv, DashInv, BrokerIInv, TypeInv
<1>2. /\ brokerClosed' = TRUE
      /\ subs' = [c \in Subs |-> IF subs[c].state = "open"
                                 THEN [subs[c] EXCEPT !.state = "detached"] ELSE subs[c]]
      /\ UNCHANGED <<nextSeq, events, active, phase>>
      /\ UNCHANGED <<link, todo, cursor, foreign, view, reload, answer, hist>>
  BY DEF Shutdown, CloseBroker, browserVars
<1>3. DashTypes'
  BY <1>1, <1>2 DEF DashTypes
<1>4. \A x : (Numbered(x) => Numbered(x)') /\ (KindFits(x) => KindFits(x)')
  <2>1. Base' = Base
    BY <1>2 DEF Base
  <2> QED BY <1>2, <2>1 DEF Numbered, KindFits
<1>5. EventsFit'
  BY <1>1, <1>2, <1>4 DEF EventsFit, Genuine
<1>6. ASSUME NEW c \in Subs PROVE BrowserOK(c)'
  <2>1. BrowserOK(c) /\ SubOK(subs[c])
    BY DEF StreamIInv, DashInv, BrokerIInv, TypeInv
  <2>2. /\ subs'[c].queue = subs[c].queue /\ subs'[c].taken = subs[c].taken
        /\ subs'[c].state # "open" /\ (subs'[c].state = "none" <=> subs[c].state = "none")
    BY <1>2, <2>1 DEF SubOK
  <2>3. Frontier(c)' = Frontier(c)
    BY <2>2 DEF Frontier
  <2>4. Genuine(subs[c].queue)' /\ Genuine(todo[c].replay)'
    BY <1>2, <1>4, <2>1, <2>2 DEF BrowserOK, LinkFits, Genuine
  <2>5. LinkFits(c)'
    <3>1. CannotResume(cursor[c])' <=> CannotResume(cursor[c])
      BY <1>2, Frozen
    <3> QED BY <1>2, <2>1, <2>2, <2>3, <2>4, <3>1 DEF BrowserOK, LinkFits, NothingToDo
  <2>6. FetchFits(c)' /\ \A f \in Entries : ViewFits(c, f)'
    BY <1>2, <2>1, Frozen DEF BrowserOK, FetchFits, ViewFits
  <2> QED BY <1>2, <2>5, <2>6 DEF BrowserOK
<1> QED BY <1>3, <1>5, <1>6 DEF DashInv

\* A new process: what was shown as stored is stored still, and every cursor is
\* another process's.
LEMMA RestartDashInv ==
    ASSUME StreamIInv, Restart
    PROVE  DashInv'
<1>1. DashTypes
  BY DEF StreamIInv, DashInv
<1>2. /\ nextSeq' = 0 /\ events' = <<>> /\ active' = {}
      /\ phase' = [e \in Entries |-> IF e \in Persisted THEN "flushed"
                                     ELSE IF phase[e] = "new" THEN "new" ELSE "lost"]
      /\ UNCHANGED <<cursor, answer, hist>>
  BY DEF Restart
<1>3. Len(<<>>) = 0 /\ 1..Len(<<>>) = {} /\ <<>> \in Seq(Event)
  BY Nothing
<1>4. DashTypes'
  <2>1. NothingToDo \in [reset : BOOLEAN, replay : Seq(Event)]
    BY <1>3 DEF NothingToDo
  <2>2. todo' \in [Subs -> [reset : BOOLEAN, replay : Seq(Event)]] /\ link' \in [Subs -> BOOLEAN]
    BY <2>1 DEF Restart
  <2>3. view' \in [Subs -> [Entries -> {"none", "row", "started", "completed", "failed", "flushed"}]]
    BY <1>1 DEF Restart, DashTypes
  <2>4. /\ reload' \in [Subs -> {"no", "asked", "answered"}]
        /\ foreign' \in [Subs -> BOOLEAN]
    BY <1>1 DEF Restart, DashTypes
  <2>5. phase' \in [Entries -> {"new", "started", "completed", "stored", "flushed", "failed",
                                "removed", "lost"}]
    BY <1>2
  <2> QED BY <1>1, <1>2, <2>2, <2>3, <2>4, <2>5 DEF DashTypes
<1>5. EventsFit'
  <2>1. \A e \in Entries : ~InProgress(e)'
    BY <1>2 DEF InProgress
  <2> QED BY <1>2, <1>3, <2>1 DEF EventsFit, Genuine, EndsWith
<1>6. Persisted' = Persisted
  BY <1>2 DEF Persisted
<1>7. ASSUME NEW c \in Subs PROVE BrowserOK(c)'
  <2>1. BrowserOK(c)
    BY <1>7 DEF StreamIInv, DashInv
  <2>2. /\ subs'[c] = NoSub /\ link'[c] = FALSE /\ todo'[c] = NothingToDo
        /\ foreign'[c] = TRUE
        /\ reload'[c] = (IF reload[c] = "asked" THEN "no" ELSE reload[c])
        /\ view'[c] = (IF reload[c] = "asked" THEN [e \in Entries |-> "none"] ELSE view[c])
    <3>1. cursor[c] > 0
      BY <1>1 DEF DashTypes
    <3>2. foreign'[c] = (cursor[c] > 0)
      BY DEF Restart
    <3>3. foreign'[c] = TRUE
      BY <3>1, <3>2
    <3> QED BY <3>3 DEF Restart
  <2>3. LinkFits(c)'
    <3>1. /\ subs'[c].state = "none" /\ subs'[c].queue = <<>> /\ subs'[c].taken = 0
          /\ todo'[c].reset = FALSE /\ todo'[c].replay = <<>>
      BY <2>2 DEF NoSub, NothingToDo
    <3>2. Genuine(subs[c].queue)' /\ Genuine(todo[c].replay)' /\ Frontier(c)' = 0
      BY <1>3, <3>1 DEF Genuine, Frontier
    <3> QED BY <1>2, <2>2, <3>1, <3>2 DEF LinkFits
  <2>4. \A e \in Entries : ViewFits(c, e)'
    <3>1. ASSUME NEW e \in Entries PROVE ViewFits(c, e)'
      <4>1. ViewFits(c, e)
        BY <2>1 DEF BrowserOK
      <4>2. view'[c][e] \in {"none", view[c][e]}
        BY <2>2
      <4>3. phase'[e] = IF e \in Persisted THEN "flushed"
                        ELSE IF phase[e] = "new" THEN "new" ELSE "lost"
        BY <1>2
      <4> QED BY <1>6, <4>1, <4>2, <4>3 DEF ViewFits, Persisted
    <3> QED BY <3>1
  <2>5. FetchFits(c)'
    <3>1. FetchFits(c) /\ answer'[c] = answer[c] /\ hist'[c] = hist[c]
      BY <1>2, <2>1 DEF BrowserOK
    <3> QED BY <1>6, <2>2, <3>1 DEF FetchFits
  <2>6. Informed(c)'
    BY <2>2 DEF Informed
  <2> QED BY <2>3, <2>4, <2>5, <2>6 DEF BrowserOK
<1> QED BY <1>4, <1>5, <1>7 DEF DashInv

LEMMA StreamInitDash ==
    ASSUME StreamInit
    PROVE  DashInv
<1>1. PICK e \in Entries :
        LET first == [seq |-> 1, kind |-> "started", id |-> e]
        IN  /\ nextSeq = 1 /\ events = <<first>> /\ active = {first}
            /\ brokerClosed = FALSE
            /\ subs = [c \in Subs |-> [NoSub EXCEPT !.state = "open", !.taken = 1]]
            /\ phase = [f \in Entries |-> IF f = e THEN "started" ELSE "new"]
            /\ link = [c \in Subs |-> TRUE]
            /\ todo = [c \in Subs |-> NothingToDo]
            /\ cursor = [c \in Subs |-> 1]
            /\ view = [c \in Subs |-> [f \in Entries |-> IF f = e THEN "started" ELSE "none"]]
            /\ reload = [c \in Subs |-> "no"]
            /\ answer = [c \in Subs |-> {}]
            /\ foreign = [c \in Subs |-> FALSE]
            /\ hist = [c \in Subs |-> {}]
  BY DEF StreamInit
<1>2. PICK x : x = [seq |-> 1, kind |-> "started", id |-> e]
  OBVIOUS
<1>3. /\ nextSeq = 1 /\ events = <<x>> /\ active = {x} /\ x.seq = 1 /\ x.kind = "started"
      /\ x.id = e
      /\ phase = [f \in Entries |-> IF f = e THEN "started" ELSE "new"]
  BY <1>1, <1>2
<1>4. Len(events) = 1 /\ events[1] = x /\ (\A i \in 1..Len(events) : i = 1)
  BY <1>3
<1>5. Len(<<>>) = 0 /\ 1..Len(<<>>) = {} /\ <<>> \in Seq(Event)
  BY Nothing
<1>6. DashTypes
  <2>1. NothingToDo \in [reset : BOOLEAN, replay : Seq(Event)]
    BY <1>5 DEF NothingToDo
  <2>2. todo \in [Subs -> [reset : BOOLEAN, replay : Seq(Event)]]
    BY <1>1, <2>1
  <2> QED BY <1>1, <2>2 DEF DashTypes, Mishaps
<1>7. EventsFit
  <2>1. Base = 0
    BY <1>3, <1>4 DEF Base
  <2>2. Numbered(x) /\ KindFits(x)
    <3>1. x.seq - 0 = 1 /\ x.seq \in 1..nextSeq
      BY <1>3
    <3> QED BY <1>3, <1>4, <2>1, <3>1 DEF Numbered, KindFits, Terminal
  <2>3. Genuine(events)
    BY <1>4, <2>2 DEF Genuine
  <2>4. LastKind(e) = "started" /\ InProgress(e) /\ \A f \in Entries : InProgress(f) => f = e
    BY <1>3 DEF LastKind, InProgress
  <2>5. \A f \in Entries : EndsWith(events, f, LastKind(f))
    BY <1>3, <1>4, <2>4 DEF EndsWith
  <2> QED BY <1>3, <2>2, <2>3, <2>4, <2>5 DEF EventsFit
<1>8. ASSUME NEW c \in Subs PROVE BrowserOK(c)
  <2>1. /\ subs[c].state = "open" /\ subs[c].queue = <<>> /\ subs[c].taken = 1
        /\ todo[c].reset = FALSE /\ todo[c].replay = <<>>
        /\ link[c] = TRUE /\ cursor[c] = 1 /\ foreign[c] = FALSE /\ hist[c] = {}
        /\ reload[c] = "no" /\ answer[c] = {} /\ brokerClosed = FALSE
        /\ \A f \in Entries : view[c][f] = IF f = e THEN "started" ELSE "none"
    BY <1>1 DEF NoSub, NothingToDo
  <2>2. LinkFits(c)
    <3>1. Genuine(subs[c].queue) /\ Genuine(todo[c].replay) /\ Frontier(c) = 1
      BY <1>5, <2>1 DEF Genuine, Frontier
    <3> QED BY <1>3, <2>1, <3>1 DEF LinkFits
  <2>3. \A f \in Entries : ViewFits(c, f)
    BY <1>3, <2>1 DEF ViewFits
  <2>4. FetchFits(c)
    BY <2>1 DEF FetchFits
  <2>5. \A f \in Entries : OnItsWay(c, f)
    <3>1. \A f \in Entries : Shown(c, f)
      BY <1>3, <2>1 DEF Shown, InProgress
    <3>2. \A f, k : EndsWith(subs[c].queue, f, k) /\ EndsWith(todo[c].replay, f, k)
      BY <2>1, Nothing
    <3> QED BY <3>1, <3>2 DEF OnItsWay
  <2> QED BY <2>1, <2>2, <2>3, <2>4, <2>5 DEF BrowserOK, Informed
<1> QED BY <1>6, <1>7, <1>8 DEF DashInv

-----------------------------------------------------------------------------
(* All steps together *)

LEMMA DashNextInv ==
    ASSUME StreamIInv, [StreamNext]_streamVars
    PROVE  DashInv'
<1>1. ASSUME NEW e \in Entries, Entry(e) PROVE DashInv'
  BY <1>1, EntryInv
<1>2. ASSUME NEW c \in Subs, Serve(c) PROVE DashInv'
  <2>1. CASE Connect(c)
    BY <2>1, ConnectInv
  <2>2. CASE SendReset(c)
    BY <2>2, SendResetInv
  <2>3. CASE SendReplay(c)
    BY <2>3, SendReplayInv
  <2>4. CASE SendEvent(c)
    BY <2>4, SendEventInv
  <2>5. CASE EndOfStream(c)
    BY <2>5, DisconnectInv DEF EndOfStream
  <2> QED BY <1>2, <2>1, <2>2, <2>3, <2>4, <2>5 DEF Serve
<1>3. ASSUME NEW c \in Subs, Drop(c) PROVE DashInv'
  BY <1>3, DisconnectInv DEF Drop
<1>4. CASE UNCHANGED streamVars
  <2>1. UNCHANGED <<nextSeq, events, active, phase, brokerClosed>>
        /\ UNCHANGED <<subs, link, todo, cursor, foreign, view, reload, answer, hist>>
    BY <1>4 DEF streamVars, brokerVars, browserVars
  <2>2. CASE Subs = {}
    <3>1. Base' = Base
      BY <2>1 DEF Base
    <3>2. EventsFit'
      <4>1. EventsFit
        BY DEF StreamIInv, DashInv
      <4> QED BY <2>1, <3>1, <4>1 DEF EventsFit, Genuine, Numbered, KindFits, EndsWith,
                                       LastKind, InProgress
    <3>3. DashTypes'
      BY <2>1 DEF StreamIInv, DashInv, DashTypes
    <3> QED BY <2>2, <3>2, <3>3 DEF DashInv
  <2>3. CASE Subs # {}
    <3>1. PICK c \in Subs : TRUE
      BY <2>3
    <3>2. OnlyBrowser(c)
      BY <2>1 DEF OnlyBrowser, Same
    <3>3. DashTypes' /\ DashTypes /\ BrowserOK(c)
      BY <2>1 DEF StreamIInv, DashInv, DashTypes
    <3>4. Frontier(c)' = Frontier(c)
      BY <2>1 DEF Frontier
    <3>5. LinkFits(c)'
      BY <2>1, <3>3, <3>4, Frozen DEF BrowserOK, LinkFits, NothingToDo
    <3>6. FetchFits(c)' /\ \A f \in Entries : ViewFits(c, f)'
      BY <2>1, <3>3, Frozen DEF BrowserOK, FetchFits, ViewFits
    <3>7. ASSUME ~brokerClosed', Lucky(c)' PROVE Informed(c)'
      <4>1. Informed(c)
        BY <2>1, <3>3, <3>7 DEF BrowserOK, Lucky
      <4>2. \A f \in Entries : Shown(c, f) => Shown(c, f)'
        BY <2>1, Frozen DEF Shown
      <4> QED BY <2>1, <4>1, <4>2, InformedStays
    <3> QED BY <3>2, <3>3, <3>5, <3>6, <3>7, OneBrowserInv DEF BrowserOK
  <2> QED BY <2>2, <2>3
<1> QED BY <1>1, <1>2, <1>3, <1>4, FetchInv, HeartbeatInv, ShutdownChannelInv, ShutdownInv,
           RestartDashInv DEF StreamNext

LEMMA StreamInvHolds ==
    /\ StreamInit => StreamIInv
    /\ StreamIInv /\ [StreamNext]_streamVars => StreamIInv'
<1>1. StreamInit => StreamIInv
  BY StreamInitInv, StreamInitDash DEF StreamIInv
<1>2. ASSUME StreamIInv, [StreamNext]_streamVars PROVE StreamIInv'
  <2>1. BrokerIInv /\ \A c \in Subs : cursor[c] \in Nat
    BY <1>2 DEF StreamIInv, DashInv, DashTypes
  <2>2. BrokerIInv'
    BY <1>2, <2>1, StreamNextInv
  <2>3. DashInv'
    BY <1>2, DashNextInv
  <2> QED BY <2>2, <2>3 DEF StreamIInv
<1> QED BY <1>1, <1>2

\* With nothing on its way to a browser that kept up, its rows are right.
LEMMA QuietIsRight ==
    ASSUME StreamIInv, NEW c \in Subs, Quiet(c), Lucky(c), NEW e \in Entries
    PROVE  Shown(c, e)
<1>1. /\ link[c] /\ subs[c].state = "open" /\ todo[c] = NothingToDo /\ subs[c].queue = <<>>
  BY DEF Quiet
<1>2. BrowserOK(c) /\ BrokerIInv /\ SubOK(subs[c])
  BY DEF StreamIInv, DashInv, BrokerIInv, TypeInv
<1>3. Informed(c)
  BY <1>1, <1>2 DEF BrowserOK, LinkFits
<1>4. OnItsWay(c, e)
  BY <1>1, <1>3 DEF Informed
<1>5. Frontier(c) = nextSeq
  BY <1>1, <1>2 DEF BrokerIInv, StreamHasNoGap, Frontier
<1>6. ~Behind(Frontier(c), e)
  BY <1>2, <1>5, UpToDate
<1>7. todo[c].replay = <<>>
  BY <1>1 DEF NothingToDo
<1>8. ~Holds(subs[c].queue, e) /\ ~Holds(todo[c].replay, e)
  BY <1>1, <1>7, Nothing
<1> QED BY <1>4, <1>6, <1>8 DEF OnItsWay

LEMMA DashboardRight ==
    ASSUME StreamIInv
    PROVE  DashboardTells
<1>1. ASSUME NEW c \in Subs, NEW e \in Entries, Quiet(c), Lucky(c)
      PROVE  /\ phase[e] = "flushed" => view[c][e] \in {"flushed", "row"}
             /\ phase[e] \in {"started", "completed"} => view[c][e] = phase[e]
             /\ phase[e] = "stored" => view[c][e] \in {"completed", "row"}
             /\ hist[c] = {} /\ view[c][e] \in {"started", "completed"} => InProgress(e)
  <2>1. Shown(c, e)
    BY <1>1, QuietIsRight
  <2>2. todo[c].reset = FALSE /\ reload[c] = "no"
    BY <1>1 DEF Quiet, NothingToDo
  <2> QED BY <2>1, <2>2 DEF Shown
<1>2. StoredShown /\ InProgressShown
  BY <1>1 DEF StoredShown, InProgressShown
<1>3. NoGhostRows
  <2>1. \A c \in Subs : hist[c] = {} => Lucky(c)
    BY DEF Lucky
  <2> QED BY <1>1, <2>1 DEF NoGhostRows, InProgress
<1>4. ShownIsStored
  <2>1. \A c \in Subs, e \in Entries : ViewFits(c, e)
    BY DEF StreamIInv, DashInv, BrowserOK
  <2> QED BY <2>1 DEF ShownIsStored, ViewFits, Persisted
<1> QED BY <1>2, <1>3, <1>4 DEF DashboardTells

-----------------------------------------------------------------------------
\* The broker alone, with any publisher and any cursor.
THEOREM BrokerInvariance == BrokerSpec => []BrokerIInv
BY InitInv, NextInv, PTL DEF BrokerSpec

\* The broker, the handler and the browsers, restarts of the gateway included.
THEOREM StreamInvariance == StreamSpec => []StreamIInv
BY StreamInvHolds, PTL DEF StreamSpec

\* The replay window is the last events published, without a hole.
THEOREM WindowCorrect == StreamSpec => []WindowIsContiguous
<1>1. StreamIInv => WindowIsContiguous
  BY DEF StreamIInv, BrokerIInv
<1> QED BY <1>1, StreamInvariance, PTL

\* No subscriber ever misses an event without being cut off.
THEOREM StreamCorrect == StreamSpec => []StreamHasNoGap
<1>1. StreamIInv => StreamHasNoGap
  BY DEF StreamIInv, BrokerIInv
<1> QED BY <1>1, StreamInvariance, PTL

\* The snapshots hold the entries in progress and no other.
THEOREM SnapshotsCorrect == StreamSpec => []SnapshotsAreCurrent
<1>1. StreamIInv => SnapshotsAreCurrent
  BY DEF StreamIInv, BrokerIInv
<1> QED BY <1>1, StreamInvariance, PTL

\* Subscribe (replayAfterLocked) replays exactly what followed the cursor, or
\* says that it cannot.
THEOREM ResumesExactly == StreamSpec => []ResumeIsExact
<1>1. StreamIInv => ResumeIsExact
  BY DEF StreamIInv, BrokerIInv, TypeInv, SubOK, Exact, ResumeIsExact
<1> QED BY <1>1, StreamInvariance, PTL

\* Once nothing is on its way to it, the dashboard (live-logs.js, audit-list.js)
\* shows what the server has, however the connection dropped and the process
\* restarted.
THEOREM DashboardIsRight == StreamSpec => []DashboardTells
<1>1. StreamIInv => DashboardTells
  BY DashboardRight
<1> QED BY <1>1, StreamInvariance, PTL
=============================================================================
