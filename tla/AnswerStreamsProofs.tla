------------------------- MODULE AnswerStreamsProofs -------------------------
(***************************************************************************)
(* An answer on its way to a client of chat completions or of /v1/messages *)
(* stays well-formed, arrives whole and is recorded once, for every number *)
(* of blocks and pieces and every limit of the audit log.                  *)
(*                                                                         *)
(* Between the layers the proof speaks of what has been told of the answer *)
(* (Told): what a chunk says (Says) takes one such to the next.  A chat    *)
(* client, the observers and the converter for /v1/messages each follow    *)
(* what they are told (ChatSays, ObserverSays, MessagesSays), and what the *)
(* provider's side tells follows the answer as sent so far (Tells).  What  *)
(* a converter has written and the client has not read yet is a path of    *)
(* the client's states (Reaches).                                          *)
(***************************************************************************)
EXTENDS AnswerStreams, SequenceFacts

-----------------------------------------------------------------------------
(* Sequences and functions with some numbers as their domain. *)

Bodies == Seq(Nat)
Partial(S) == UNION {[D -> S] : D \in SUBSET Nat}

\* What a map is with one more entry, or with another value for it.
PutIs(S, f, k, v, g) ==
  /\ g \in Partial(S)
  /\ DOMAIN f \subseteq Nat
  /\ DOMAIN g = DOMAIN f \cup {k}
  /\ g[k] = v
  /\ \A j \in DOMAIN f : f[j] \in S /\ (j # k => g[j] = f[j])

LEMMA PartialWith ==
    ASSUME NEW S, NEW f \in Partial(S), NEW k \in Nat, NEW v \in S
    PROVE  PutIs(S, f, k, v, Put(f, k, v))
<1> DEFINE g == Put(f, k, v)
<1>1. PICK D \in SUBSET Nat : f \in [D -> S]
  BY DEF Partial
<1>2. g = [j \in D \cup {k} |-> IF j = k THEN v ELSE f[j]]
  BY <1>1 DEF Put
<1>3. g \in [D \cup {k} -> S]
  BY <1>1, <1>2
<1>4. D \cup {k} \in SUBSET Nat
  BY <1>1
<1>5. g \in Partial(S)
  <2> HIDE DEF g
  <2> QED BY <1>3, <1>4 DEF Partial
<1>6. /\ DOMAIN f \subseteq Nat /\ DOMAIN g = DOMAIN f \cup {k} /\ g[k] = v
      /\ \A j \in DOMAIN f : f[j] \in S /\ (j # k => g[j] = f[j])
  BY <1>1, <1>2
<1> HIDE DEF g
<1>7. PutIs(S, f, k, v, g)
  BY <1>5, <1>6 DEF PutIs
<1> QED BY <1>7 DEF g

LEMMA PartialExcept ==
    ASSUME NEW S, NEW f \in Partial(S), NEW k \in DOMAIN f, NEW v \in S
    PROVE  PutIs(S, f, k, v, [f EXCEPT ![k] = v])
<1> DEFINE g == [f EXCEPT ![k] = v]
<1>1. PICK D \in SUBSET Nat : f \in [D -> S]
  BY DEF Partial
<1>2. g \in [D -> S]
  BY <1>1
<1>3. g \in Partial(S)
  <2> HIDE DEF g
  <2> QED BY <1>1, <1>2 DEF Partial
<1>4. /\ DOMAIN f \subseteq Nat /\ DOMAIN g = DOMAIN f \cup {k} /\ g[k] = v
      /\ \A j \in DOMAIN f : f[j] \in S /\ (j # k => g[j] = f[j])
  BY <1>1
<1> HIDE DEF g
<1>5. PutIs(S, f, k, v, g)
  BY <1>3, <1>4 DEF PutIs
<1> QED BY <1>5 DEF g

LEMMA PartialFacts ==
    ASSUME NEW S, NEW f \in Partial(S)
    PROVE  DOMAIN f \subseteq Nat /\ \A j \in DOMAIN f : f[j] \in S
<1>1. PICK D \in SUBSET Nat : f \in [D -> S]
  BY DEF Partial
<1> QED BY <1>1

LEMMA EmptyPartial ==
    ASSUME NEW S
    PROVE  <<>> \in Partial(S) /\ DOMAIN <<>> = {}
<1>1. <<>> \in [{} -> S] /\ {} \in SUBSET Nat
  OBVIOUS
<1> QED BY <1>1 DEF Partial

\* A prefix agrees wherever it is.
LEMMA PrefixIs ==
    ASSUME NEW s \in Bodies, NEW t \in Bodies
    PROVE  IsPrefix(s, t) <=> (Len(s) <= Len(t) /\ \A i \in 1..Len(s) : s[i] = t[i])
<1>1. Len(s) \in Nat /\ Len(t) \in Nat
  BY DEF Bodies
<1>2. CASE Len(s) <= Len(t)
  <2>1. /\ SubSeq(s, 1, Len(s)) = [i \in 1..Len(s) |-> s[i]]
        /\ SubSeq(t, 1, Len(s)) = [i \in 1..Len(s) |-> t[i]]
    BY <1>1, <1>2 DEF Bodies
  <2>2. (SubSeq(s, 1, Len(s)) = SubSeq(t, 1, Len(s))) <=> \A i \in 1..Len(s) : s[i] = t[i]
    BY <2>1
  <2> QED BY <1>2, <2>2 DEF IsPrefix
<1>3. CASE ~(Len(s) <= Len(t))
  BY <1>3 DEF IsPrefix
<1> QED BY <1>2, <1>3

LEMMA PrefixSelf ==
    ASSUME NEW s \in Bodies
    PROVE  IsPrefix(s, s)
BY PrefixIs DEF Bodies

LEMMA PrefixTrans ==
    ASSUME NEW s \in Bodies, NEW t \in Bodies, NEW u \in Bodies, IsPrefix(s, t), IsPrefix(t, u)
    PROVE  IsPrefix(s, u)
<1>1. Len(s) \in Nat /\ Len(t) \in Nat /\ Len(u) \in Nat
  BY DEF Bodies
<1>2. Len(s) <= Len(t) /\ \A i \in 1..Len(s) : s[i] = t[i]
  BY PrefixIs
<1>3. Len(t) <= Len(u) /\ \A i \in 1..Len(t) : t[i] = u[i]
  BY PrefixIs
<1>4. Len(s) <= Len(u) /\ \A i \in 1..Len(s) : s[i] = u[i]
  BY <1>1, <1>2, <1>3
<1> QED BY <1>4, PrefixIs

LEMMA PrefixCat ==
    ASSUME NEW s \in Bodies, NEW t \in Bodies
    PROVE  s \o t \in Bodies /\ Len(s \o t) = Len(s) + Len(t) /\ IsPrefix(s, s \o t)
<1>1. s \o t \in Bodies /\ Len(s \o t) = Len(s) + Len(t) /\ \A i \in 1..Len(s) : (s \o t)[i] = s[i]
  BY DEF Bodies
<1>2. Len(s) \in Nat /\ Len(t) \in Nat
  BY DEF Bodies
<1>3. Len(s) <= Len(s \o t)
  BY <1>1, <1>2
<1> HIDE DEF Bodies
<1>4. IsPrefix(s, s \o t)
  BY <1>1, <1>3, PrefixIs
<1> QED BY <1>1, <1>4

LEMMA CatEmpty ==
    ASSUME NEW s \in Bodies
    PROVE  s \o <<>> = s /\ <<>> \o s = s /\ <<>> \in Bodies /\ Len(s) \in Nat
BY DEF Bodies

LEMMA CatAssoc ==
    ASSUME NEW s \in Bodies, NEW t \in Bodies, NEW u \in Bodies
    PROVE  (s \o t) \o u = s \o (t \o u)
BY SMTT(60) DEF Bodies

-----------------------------------------------------------------------------
(* What an answer says, one block at a time. *)

Usages == [input: Nat, output: Nat]
BlockTypes == {"thinking", "text", "tool"}
SentBlocks == [type: BlockTypes, id: Nat, body: Bodies, open: BOOLEAN]
ShownBlocks == [type: BlockTypes, id: Nat, body: Bodies]
CallBodies == [id: Nat, body: Bodies]
Answers == [text: Bodies, calls: Seq(CallBodies), shown: Seq(ShownBlocks), size: Nat, pieces: Nat]

\* The answer to a sequence of blocks is reached block by block.
LEMMA AnswerTurns ==
    ASSUME NEW blocks, Len(blocks) \in Nat
    PROVE  \E turns : /\ turns[0] = NothingSaid
                      /\ \A k \in 1..Len(blocks) : turns[k] = Said(turns[k - 1], blocks[k])
                      /\ AnswerOf(blocks) = turns[Len(blocks)]
<1> DEFINE N == Len(blocks)
           Step(g, k) == IF k = 0 THEN NothingSaid ELSE Said(g[k - 1], blocks[k])
           S == {k \in Nat : \E g : g = [j \in 0..k |-> Step(g, j)]}
<1>0. N \in Nat
  OBVIOUS
<1>1. 0 \in S
  <2> DEFINE g == [j \in 0..0 |-> NothingSaid]
  <2>1. g = [j \in 0..0 |-> Step(g, j)]
    OBVIOUS
  <2> QED BY <2>1
<1>2. ASSUME NEW k \in Nat, k \in S PROVE k + 1 \in S
  <2>1. PICK g : g = [j \in 0..k |-> Step(g, j)]
    BY <1>2
  <2> DEFINE h == [j \in 0..(k + 1) |-> IF j <= k THEN g[j] ELSE Step(g, j)]
  <2>2. \A j \in 0..k : h[j] = g[j] /\ g[j] = Step(g, j)
    <3> HIDE DEF Step
    <3>1. \A j \in 0..k : g[j] = Step(g, j)
      BY <2>1
    <3>2. \A j \in 0..k : h[j] = g[j]
      OBVIOUS
    <3> QED BY <3>1, <3>2
  <2>3. h[k + 1] = Step(g, k + 1)
    <3> HIDE DEF Step
    <3> QED OBVIOUS
  <2>4. ASSUME NEW j \in 0..(k + 1) PROVE h[j] = Step(h, j)
    <3> HIDE DEF h
    <3>1. CASE j = 0
      BY <2>2, <3>1
    <3>2. CASE j # 0
      <4>1. j - 1 \in 0..k /\ h[j - 1] = g[j - 1]
        BY <2>2, <3>2
      <4>2. Step(h, j) = Step(g, j)
        BY <4>1
      <4>3. h[j] = Step(g, j)
        <5> HIDE DEF Step
        <5>1. j \in 0..k \/ j = k + 1
          OBVIOUS
        <5> QED BY <2>2, <2>3, <5>1
      <4> QED BY <4>2, <4>3
    <3> QED BY <3>1, <3>2
  <2>5. h = [j \in 0..(k + 1) |-> Step(h, j)]
    <3>1. h = [j \in 0..(k + 1) |-> h[j]]
      <4> HIDE DEF Step
      <4> QED OBVIOUS
    <3> HIDE DEF h, Step
    <3> QED BY <2>4, <3>1
  <2> HIDE DEF h, Step
  <2> QED BY <2>5
<1>3. \E g : g = [j \in 0..N |-> Step(g, j)]
  <2>1. \A k \in Nat : k \in S
    <3> HIDE DEF S
    <3> QED BY <1>1, <1>2, AllNumbers
  <2> HIDE DEF Step
  <2> QED BY <1>0, <2>1
<1>4. PICK turns : turns = CHOOSE g : g = [j \in 0..N |-> Step(g, j)]
  OBVIOUS
<1>5. AnswerOf(blocks) = turns[N]
  BY <1>4 DEF AnswerOf
<1>6. turns = [j \in 0..N |-> Step(turns, j)]
  <2> HIDE DEF Step
  <2> QED BY <1>3, <1>4
<1>7. \A j \in 0..N : turns[j] = Step(turns, j)
  <2> HIDE DEF Step
  <2> QED BY <1>6
<1>8. turns[0] = NothingSaid
  BY <1>0, <1>7
<1>9. \A k \in 1..N : turns[k] = Said(turns[k - 1], blocks[k])
  BY <1>0, <1>7
<1> QED BY <1>5, <1>8, <1>9

\* One block more says one block more.
LEMMA AnswerGrows ==
    ASSUME NEW S, NEW blocks \in Seq(S), NEW b \in S
    PROVE  AnswerOf(Append(blocks, b)) = Said(AnswerOf(blocks), b)
<1> DEFINE N == Len(blocks)
           more == Append(blocks, b)
<1>1. N \in Nat /\ Len(more) = N + 1 /\ more[N + 1] = b /\ \A k \in 1..N : more[k] = blocks[k]
  OBVIOUS
<1> HIDE DEF more
<1>2. PICK f : /\ f[0] = NothingSaid
               /\ \A k \in 1..N : f[k] = Said(f[k - 1], blocks[k])
               /\ AnswerOf(blocks) = f[N]
  BY <1>1, AnswerTurns
<1>3. PICK g : /\ g[0] = NothingSaid
               /\ \A k \in 1..(N + 1) : g[k] = Said(g[k - 1], more[k])
               /\ AnswerOf(more) = g[N + 1]
  <2>1. Len(more) \in Nat
    BY <1>1
  <2>2. \E g : /\ g[0] = NothingSaid
               /\ \A k \in 1..Len(more) : g[k] = Said(g[k - 1], more[k])
               /\ AnswerOf(more) = g[Len(more)]
    BY <2>1, AnswerTurns
  <2> QED BY <2>2, <1>1
<1> DEFINE S0 == {k \in Nat : k <= N => g[k] = f[k]}
<1>4. 0 \in S0
  BY <1>2, <1>3
<1>5. ASSUME NEW k \in Nat, k \in S0 PROVE k + 1 \in S0
  <2> SUFFICES ASSUME k + 1 <= N PROVE g[k + 1] = f[k + 1]
    OBVIOUS
  <2>1. g[k] = f[k]
    BY <1>1, <1>5
  <2>2. k + 1 \in 1..N /\ k + 1 \in 1..(N + 1) /\ (k + 1) - 1 = k
    BY <1>1
  <2>3. f[k + 1] = Said(f[k], blocks[k + 1])
    BY <1>2, <2>2
  <2>4. g[k + 1] = Said(g[k], more[k + 1])
    BY <1>3, <2>2
  <2> QED BY <1>1, <2>1, <2>2, <2>3, <2>4
<1>6. N \in S0
  <2> HIDE DEF S0
  <2>1. \A k \in Nat : k \in S0
    BY <1>4, <1>5, AllNumbers
  <2> QED BY <1>1, <2>1
<1>7. g[N] = f[N]
  BY <1>1, <1>6
<1>8. N + 1 \in 1..(N + 1) /\ (N + 1) - 1 = N
  BY <1>1
<1>9. g[N + 1] = Said(g[N], b)
  BY <1>1, <1>3, <1>8
<1> QED BY <1>2, <1>3, <1>7, <1>9 DEF more

LEMMA AnswerOfNothing == AnswerOf(<<>>) = NothingSaid
<1>1. Len(<<>>) = 0
  OBVIOUS
<1>2. PICK f : f[0] = NothingSaid /\ AnswerOf(<<>>) = f[Len(<<>>)]
  BY <1>1, AnswerTurns
<1> QED BY <1>1, <1>2

\* What one block does to an answer.
LEMMA SaidFacts ==
    ASSUME NEW a \in Answers, NEW b, b.type \in BlockTypes, b.id \in Nat, b.body \in Bodies
    PROVE  /\ Said(a, b) \in Answers
           /\ Said(a, b).text = IF b.type = "text" THEN a.text \o b.body ELSE a.text
           /\ Said(a, b).calls = IF b.type = "tool" THEN Append(a.calls, [id |-> b.id, body |-> b.body])
                                 ELSE a.calls
           /\ Said(a, b).shown = Shown(a.shown, b)
           /\ Said(a, b).size = IF b.type = "thinking" THEN a.size ELSE a.size + Len(b.body)
           /\ Said(a, b).pieces = a.pieces + Len(b.body)
<1>1. Len(b.body) \in Nat /\ a.size \in Nat /\ a.pieces \in Nat /\ a.text \in Bodies
      /\ a.calls \in Seq(CallBodies) /\ a.shown \in Seq(ShownBlocks)
  BY DEF Answers, Bodies
<1>2. a.text \o b.body \in Bodies
  BY <1>1 DEF Bodies
<1>3. [id |-> b.id, body |-> b.body] \in CallBodies
  BY DEF CallBodies
<1>4. Append(a.calls, [id |-> b.id, body |-> b.body]) \in Seq(CallBodies)
  BY <1>1, <1>3
<1>5. Shown(a.shown, b) \in Seq(ShownBlocks)
  <2>1. Block(b.type, b.id, b.body) \in ShownBlocks
    BY DEF Block, ShownBlocks
  <2>2. Append(a.shown, Block(b.type, b.id, b.body)) \in Seq(ShownBlocks)
    BY <1>1, <2>1
  <2>3. ASSUME a.shown # <<>>
        PROVE  [a.shown EXCEPT ![Len(a.shown)].body = @ \o b.body] \in Seq(ShownBlocks)
    <3> DEFINE n == Len(a.shown)
    <3>1. n \in 1..n /\ n \in Nat /\ a.shown[n] \in ShownBlocks
      BY <1>1, <2>3
    <3>2. a.shown[n].body \o b.body \in Bodies
      BY <3>1 DEF ShownBlocks, Bodies
    <3>3. [a.shown[n] EXCEPT !.body = @ \o b.body] \in ShownBlocks
      BY <3>1, <3>2 DEF ShownBlocks
    <3> QED BY <1>1, <3>1, <3>3
  <2> QED BY <1>1, <2>2, <2>3 DEF Shown
<1>6. Said(a, b) = [text |-> IF b.type = "text" THEN a.text \o b.body ELSE a.text,
                    calls |-> IF b.type = "tool" THEN Append(a.calls, [id |-> b.id, body |-> b.body])
                              ELSE a.calls,
                    shown |-> Shown(a.shown, b),
                    size |-> IF b.type = "thinking" THEN a.size ELSE a.size + Len(b.body),
                    pieces |-> a.pieces + Len(b.body)]
  BY DEF Said
<1>7. Said(a, b) \in Answers
  BY <1>1, <1>2, <1>4, <1>5, <1>6 DEF Answers
<1> QED BY <1>6, <1>7

\* An answer has its type, a call for every block that is one, and no others.
LEMMA AnswerFacts ==
    ASSUME NEW blocks \in Seq(SentBlocks)
    PROVE  /\ AnswerOf(blocks) \in Answers
           /\ Len(AnswerOf(blocks).calls) <= Len(blocks)
           /\ AnswerOf(blocks).calls # <<>> => \E n \in DOMAIN blocks : blocks[n].type = "tool"
<1> DEFINE N == Len(blocks)
<1>1. N \in Nat /\ DOMAIN blocks = 1..N /\ \A n \in 1..N : blocks[n] \in SentBlocks
  OBVIOUS
<1>2. PICK f : /\ f[0] = NothingSaid
               /\ \A k \in 1..N : f[k] = Said(f[k - 1], blocks[k])
               /\ AnswerOf(blocks) = f[N]
  BY <1>1, AnswerTurns
<1> DEFINE T == {k \in Nat : k <= N => /\ f[k] \in Answers
                                       /\ Len(f[k].calls) <= k
                                       /\ f[k].calls # <<>> => \E n \in 1..k : blocks[n].type = "tool"}
<1>3. 0 \in T
  <2>1. NothingSaid \in Answers
    <3>1. <<>> \in Bodies /\ <<>> \in Seq(CallBodies) /\ <<>> \in Seq(ShownBlocks)
      BY DEF Bodies
    <3> QED BY <3>1 DEF NothingSaid, Answers
  <2>2. NothingSaid.calls = <<>> /\ Len(<<>>) = 0
    BY DEF NothingSaid
  <2> QED BY <1>2, <2>1, <2>2
<1>4. ASSUME NEW k \in Nat, k \in T PROVE k + 1 \in T
  <2> SUFFICES ASSUME k + 1 <= N
               PROVE  /\ f[k + 1] \in Answers
                      /\ Len(f[k + 1].calls) <= k + 1
                      /\ f[k + 1].calls # <<>> => \E n \in 1..(k + 1) : blocks[n].type = "tool"
    OBVIOUS
  <2>1. /\ f[k] \in Answers
        /\ Len(f[k].calls) <= k
        /\ f[k].calls # <<>> => \E n \in 1..k : blocks[n].type = "tool"
    BY <1>1, <1>4
  <2>2. k + 1 \in 1..N /\ (k + 1) - 1 = k
    BY <1>1
  <2>3. f[k + 1] = Said(f[k], blocks[k + 1])
    BY <1>2, <2>2
  <2>4. /\ blocks[k + 1].type \in BlockTypes /\ blocks[k + 1].id \in Nat /\ blocks[k + 1].body \in Bodies
    BY <1>1, <2>2 DEF SentBlocks
  <2>5. /\ f[k + 1] \in Answers
        /\ f[k + 1].calls = IF blocks[k + 1].type = "tool"
                            THEN Append(f[k].calls, [id |-> blocks[k + 1].id, body |-> blocks[k + 1].body])
                            ELSE f[k].calls
    BY <2>1, <2>3, <2>4, SaidFacts
  <2>6. f[k].calls \in Seq(CallBodies)
    BY <2>1 DEF Answers
  <2>7. CASE blocks[k + 1].type = "tool"
    <3>1. Len(f[k + 1].calls) = Len(f[k].calls) + 1
      BY <2>5, <2>6, <2>7
    <3>2. Len(f[k].calls) \in Nat
      BY <2>6
    <3>3. k + 1 \in 1..(k + 1)
      OBVIOUS
    <3> QED BY <2>1, <2>5, <2>7, <3>1, <3>2, <3>3
  <2>8. CASE blocks[k + 1].type # "tool"
    <3>1. Len(f[k].calls) \in Nat
      BY <2>6
    <3>2. \A n \in 1..k : n \in 1..(k + 1)
      OBVIOUS
    <3> QED BY <2>1, <2>5, <2>8, <3>1, <3>2
  <2> QED BY <2>7, <2>8
<1>5. N \in T
  <2> HIDE DEF T
  <2>1. \A k \in Nat : k \in T
    BY <1>3, <1>4, AllNumbers
  <2> QED BY <1>1, <2>1
<1> QED BY <1>1, <1>2, <1>5

LEMMA BlockFacts ==
    ASSUME NEW type, NEW id, NEW body
    PROVE  Block(type, id, body).type = type /\ Block(type, id, body).id = id /\ Block(type, id, body).body = body
BY DEF Block

LEMMA SaidSame ==
    ASSUME NEW a, NEW b
    PROVE  Said(a, b) = Said(a, Block(b.type, b.id, b.body))
<1>1. PICK c : c = [type |-> b.type, id |-> b.id, body |-> b.body]
  OBVIOUS
<1>2. c.type = b.type /\ c.id = b.id /\ c.body = b.body /\ Block(b.type, b.id, b.body) = c
  BY <1>1 DEF Block
<1>3. Shown(a.shown, b) = Shown(a.shown, c)
  BY <1>2 DEF Shown
<1>4. Said(a, b) = Said(a, c)
  BY <1>2, <1>3 DEF Said
<1> QED BY <1>2, <1>4

\* The answer with one block more, by its parts.
LEMMA SaidBlock ==
    ASSUME NEW a \in Answers, NEW type \in BlockTypes, NEW id \in Nat, NEW body \in Bodies
    PROVE  /\ Said(a, Block(type, id, body)) \in Answers
           /\ Said(a, Block(type, id, body)).text = IF type = "text" THEN a.text \o body ELSE a.text
           /\ Said(a, Block(type, id, body)).calls
                = IF type = "tool" THEN Append(a.calls, [id |-> id, body |-> body]) ELSE a.calls
           /\ Said(a, Block(type, id, body)).shown = Shown(a.shown, Block(type, id, body))
           /\ Said(a, Block(type, id, body)).size
                = IF type = "thinking" THEN a.size ELSE a.size + Len(body)
           /\ Said(a, Block(type, id, body)).pieces = a.pieces + Len(body)
<1> DEFINE b == Block(type, id, body)
<1>1. b.type = type /\ b.id = id /\ b.body = body
  BY BlockFacts
<1> HIDE DEF b
<1>2. /\ Said(a, b) \in Answers
      /\ Said(a, b).text = IF b.type = "text" THEN a.text \o b.body ELSE a.text
      /\ Said(a, b).calls = IF b.type = "tool" THEN Append(a.calls, [id |-> b.id, body |-> b.body])
                            ELSE a.calls
      /\ Said(a, b).shown = Shown(a.shown, b)
      /\ Said(a, b).size = IF b.type = "thinking" THEN a.size ELSE a.size + Len(b.body)
      /\ Said(a, b).pieces = a.pieces + Len(b.body)
  BY <1>1, SaidFacts
<1>3. /\ Said(a, b) \in Answers
      /\ Said(a, b).text = IF type = "text" THEN a.text \o body ELSE a.text
      /\ Said(a, b).calls = IF type = "tool" THEN Append(a.calls, [id |-> id, body |-> body])
                            ELSE a.calls
      /\ Said(a, b).shown = Shown(a.shown, b)
      /\ Said(a, b).size = IF type = "thinking" THEN a.size ELSE a.size + Len(body)
      /\ Said(a, b).pieces = a.pieces + Len(body)
  BY <1>1, <1>2
<1> QED BY <1>3 DEF b

\* The same for each type of block.
LEMMA SaidTool ==
    ASSUME NEW a \in Answers, NEW id \in Nat, NEW body \in Bodies
    PROVE  /\ Said(a, Block("tool", id, body)) \in Answers
           /\ Said(a, Block("tool", id, body)).text = a.text
           /\ Said(a, Block("tool", id, body)).calls = Append(a.calls, [id |-> id, body |-> body])
           /\ Said(a, Block("tool", id, body)).shown = Append(a.shown, Block("tool", id, body))
           /\ Said(a, Block("tool", id, body)).size = a.size + Len(body)
           /\ Said(a, Block("tool", id, body)).pieces = a.pieces + Len(body)
<1>1. PICK type \in BlockTypes : type = "tool"
  BY DEF BlockTypes
<1>2. type # "text" /\ type # "thinking"
  BY <1>1
<1>3. /\ Said(a, Block(type, id, body)) \in Answers
      /\ Said(a, Block(type, id, body)).text = IF type = "text" THEN a.text \o body ELSE a.text
      /\ Said(a, Block(type, id, body)).calls
           = IF type = "tool" THEN Append(a.calls, [id |-> id, body |-> body]) ELSE a.calls
      /\ Said(a, Block(type, id, body)).shown = Shown(a.shown, Block(type, id, body))
      /\ Said(a, Block(type, id, body)).size = IF type = "thinking" THEN a.size ELSE a.size + Len(body)
      /\ Said(a, Block(type, id, body)).pieces = a.pieces + Len(body)
  BY SaidBlock
<1>4. Shown(a.shown, Block("tool", id, body)) = Append(a.shown, Block("tool", id, body))
  BY DEF Shown, Block
<1> QED BY <1>1, <1>2, <1>3, <1>4

LEMMA SaidText ==
    ASSUME NEW a \in Answers, NEW id \in Nat, NEW body \in Bodies
    PROVE  /\ Said(a, Block("text", id, body)) \in Answers
           /\ Said(a, Block("text", id, body)).text = a.text \o body
           /\ Said(a, Block("text", id, body)).calls = a.calls
           /\ Said(a, Block("text", id, body)).shown = Shown(a.shown, Block("text", id, body))
           /\ Said(a, Block("text", id, body)).size = a.size + Len(body)
           /\ Said(a, Block("text", id, body)).pieces = a.pieces + Len(body)
<1>1. PICK type \in BlockTypes : type = "text"
  BY DEF BlockTypes
<1>2. type # "tool" /\ type # "thinking"
  BY <1>1
<1>3. /\ Said(a, Block(type, id, body)) \in Answers
      /\ Said(a, Block(type, id, body)).text = IF type = "text" THEN a.text \o body ELSE a.text
      /\ Said(a, Block(type, id, body)).calls
           = IF type = "tool" THEN Append(a.calls, [id |-> id, body |-> body]) ELSE a.calls
      /\ Said(a, Block(type, id, body)).shown = Shown(a.shown, Block(type, id, body))
      /\ Said(a, Block(type, id, body)).size = IF type = "thinking" THEN a.size ELSE a.size + Len(body)
      /\ Said(a, Block(type, id, body)).pieces = a.pieces + Len(body)
  BY SaidBlock
<1> QED BY <1>1, <1>2, <1>3

LEMMA SaidThought ==
    ASSUME NEW a \in Answers, NEW id \in Nat, NEW body \in Bodies
    PROVE  /\ Said(a, Block("thinking", id, body)) \in Answers
           /\ Said(a, Block("thinking", id, body)).text = a.text
           /\ Said(a, Block("thinking", id, body)).calls = a.calls
           /\ Said(a, Block("thinking", id, body)).shown = Shown(a.shown, Block("thinking", id, body))
           /\ Said(a, Block("thinking", id, body)).size = a.size
           /\ Said(a, Block("thinking", id, body)).pieces = a.pieces + Len(body)
<1>1. PICK type \in BlockTypes : type = "thinking"
  BY DEF BlockTypes
<1>2. type # "tool" /\ type # "text"
  BY <1>1
<1>3. /\ Said(a, Block(type, id, body)) \in Answers
      /\ Said(a, Block(type, id, body)).text = IF type = "text" THEN a.text \o body ELSE a.text
      /\ Said(a, Block(type, id, body)).calls
           = IF type = "tool" THEN Append(a.calls, [id |-> id, body |-> body]) ELSE a.calls
      /\ Said(a, Block(type, id, body)).shown = Shown(a.shown, Block(type, id, body))
      /\ Said(a, Block(type, id, body)).size = IF type = "thinking" THEN a.size ELSE a.size + Len(body)
      /\ Said(a, Block(type, id, body)).pieces = a.pieces + Len(body)
  BY SaidBlock
<1> QED BY <1>1, <1>2, <1>3

LEMMA AppendIs ==
    ASSUME NEW S, NEW w \in Seq(S), NEW x \in S
    PROVE  /\ Len(w) \in Nat /\ Append(w, x) \in Seq(S) /\ Len(Append(w, x)) = Len(w) + 1
           /\ Append(w, x) # <<>>
           /\ Append(w, x)[Len(w) + 1] = x
           /\ \A k \in 1..Len(w) : Append(w, x)[k] = w[k]
           /\ Last(Append(w, x)) = x
BY DEF Last

LEMMA SameSequence ==
    ASSUME NEW S, NEW v \in Seq(S), NEW w \in Seq(S), Len(v) = Len(w), \A k \in 1..Len(w) : v[k] = w[k]
    PROVE  v = w
OBVIOUS

\* The last block or call grows.
LEMMA GrowLast ==
    ASSUME NEW S \in {ShownBlocks, CallBodies}, NEW w \in Seq(S), w # <<>>, NEW s \in Bodies
    PROVE  LET v == [w EXCEPT ![Len(w)].body = @ \o s] IN
           /\ v \in Seq(S) /\ Len(v) = Len(w) /\ Len(w) \in Nat \ {0} /\ v # <<>>
           /\ Last(v) = v[Len(w)] /\ Last(w) = w[Len(w)] /\ w[Len(w)] \in S
           /\ v[Len(w)] = [w[Len(w)] EXCEPT !.body = @ \o s]
           /\ \A k \in 1..(Len(w) - 1) : v[k] = w[k]
<1> DEFINE n == Len(w)
           x == [w[n] EXCEPT !.body = @ \o s]
           v == [w EXCEPT ![n].body = @ \o s]
<1>1. n \in Nat \ {0} /\ n \in 1..n /\ w[n] \in S /\ Last(w) = w[n]
  BY DEF Last
<1>2. x \in S
  <2>1. CASE S = ShownBlocks
    <3>1. w[n].body \in Bodies
      BY <1>1, <2>1 DEF ShownBlocks
    <3>2. w[n].body \o s \in Bodies
      BY <3>1 DEF Bodies
    <3> QED BY <1>1, <2>1, <3>2 DEF ShownBlocks
  <2>2. CASE S = CallBodies
    <3>1. w[n].body \in Bodies
      BY <1>1, <2>2 DEF CallBodies
    <3>2. w[n].body \o s \in Bodies
      BY <3>1 DEF Bodies
    <3> QED BY <1>1, <2>2, <3>2 DEF CallBodies
  <2> QED BY <2>1, <2>2
<1>3. v = [w EXCEPT ![n] = x]
  OBVIOUS
<1> HIDE DEF x, v
<1>4. v \in Seq(S) /\ Len(v) = n /\ v[n] = x /\ \A k \in 1..(n - 1) : v[k] = w[k]
  BY <1>1, <1>2, <1>3
<1>5. v # <<>> /\ Last(v) = v[n]
  BY <1>1, <1>4 DEF Last
<1>6. /\ v \in Seq(S) /\ Len(v) = Len(w) /\ Len(w) \in Nat \ {0} /\ v # <<>>
      /\ Last(v) = v[Len(w)] /\ Last(w) = w[Len(w)] /\ w[Len(w)] \in S
      /\ v[Len(w)] = [w[Len(w)] EXCEPT !.body = @ \o s]
      /\ \A k \in 1..(Len(w) - 1) : v[k] = w[k]
  BY <1>1, <1>4, <1>5 DEF x
<1> QED BY <1>6 DEF v

LEMMA SameShown ==
    ASSUME NEW x \in ShownBlocks, NEW y \in ShownBlocks, x.type = y.type, x.id = y.id, x.body = y.body
    PROVE  x = y
BY DEF ShownBlocks

LEMMA SameCall ==
    ASSUME NEW x \in CallBodies, NEW y \in CallBodies, x.id = y.id, x.body = y.body
    PROVE  x = y
BY DEF CallBodies

LEMMA SameAnswer ==
    ASSUME NEW x \in Answers, NEW y \in Answers, x.text = y.text, x.calls = y.calls, x.shown = y.shown,
           x.size = y.size, x.pieces = y.pieces
    PROVE  x = y
BY DEF Answers

\* A piece that goes on a text or a reasoning is one more of it.
LEMMA ShownAgain ==
    ASSUME NEW w \in Seq(ShownBlocks), NEW type \in {"thinking", "text"}, NEW body \in Bodies,
           NEW piece \in Bodies, piece # <<>>
    PROVE  Shown(w, Block(type, NoId, body \o piece))
             = Shown(Shown(w, Block(type, NoId, body)), Block(type, NoId, piece))
<1> DEFINE b == Block(type, NoId, body)
           c == Block(type, NoId, body \o piece)
           p == Block(type, NoId, piece)
<1>1. /\ b.type = type /\ b.id = NoId /\ b.body = body
      /\ c.type = type /\ c.id = NoId /\ c.body = body \o piece
      /\ p.type = type /\ p.id = NoId /\ p.body = piece
  BY DEF Block
<1>2. type # "tool" /\ type \in BlockTypes /\ NoId \in Nat /\ body \o piece \in Bodies /\ body \o piece # <<>>
  BY DEF BlockTypes, NoId, Bodies
<1>3. b \in ShownBlocks /\ c \in ShownBlocks /\ p \in ShownBlocks
  BY <1>2 DEF Block, ShownBlocks
<1> HIDE DEF b, c, p
<1>4. CASE body = <<>>
  <2>1. body \o piece = piece
    BY <1>4, CatEmpty
  <2>2. c = p
    BY <2>1 DEF c, p
  <2>3. Shown(w, b) = w
    BY <1>1, <1>2, <1>4 DEF Shown
  <2> QED BY <2>2, <2>3 DEF b, c, p
<1>5. CASE body # <<>> /\ w # <<>> /\ Last(w).type = type
  <2> DEFINE n == Len(w)
             v == [w EXCEPT ![n].body = @ \o body]
             u == [w EXCEPT ![n].body = @ \o (body \o piece)]
             t == [v EXCEPT ![Len(v)].body = @ \o piece]
  <2>0. ShownBlocks \in {ShownBlocks, CallBodies}
    OBVIOUS
  <2>1. /\ v \in Seq(ShownBlocks) /\ Len(v) = n /\ n \in Nat \ {0} /\ v # <<>>
        /\ Last(v) = v[n] /\ Last(w) = w[n] /\ w[n] \in ShownBlocks
        /\ v[n] = [w[n] EXCEPT !.body = @ \o body]
        /\ \A k \in 1..(n - 1) : v[k] = w[k]
    BY <1>5, <2>0, GrowLast
  <2>2. /\ u \in Seq(ShownBlocks) /\ Len(u) = n
        /\ u[n] = [w[n] EXCEPT !.body = @ \o (body \o piece)]
        /\ \A k \in 1..(n - 1) : u[k] = w[k]
    BY ZenonT(30), <1>2, <1>5, <2>0, GrowLast
  <2>3. Shown(w, b) = v
    BY <1>1, <1>2, <1>5 DEF Shown
  <2>4. Shown(w, c) = u
    BY <1>1, <1>2, <1>5 DEF Shown
  <2> HIDE DEF v, u
  <2>5. /\ t \in Seq(ShownBlocks) /\ Len(t) = Len(v)
        /\ t[Len(v)] = [v[Len(v)] EXCEPT !.body = @ \o piece]
        /\ \A k \in 1..(Len(v) - 1) : t[k] = v[k]
    BY ZenonT(90), <2>0, <2>1, GrowLast
  <2>6. Last(v).type = type
    BY <1>5, <2>1 DEF ShownBlocks
  <2>7. Shown(v, p) = t
    BY <1>1, <1>2, <2>1, <2>6 DEF Shown
  <2> HIDE DEF t
  <2>8. t[n] = u[n]
    <3>1. w[n].body \in Bodies
      BY <2>1 DEF ShownBlocks
    <3>2. (w[n].body \o body) \o piece = w[n].body \o (body \o piece)
      BY <3>1, CatAssoc
    <3>3. v[n].body = w[n].body \o body /\ v[n].type = w[n].type /\ v[n].id = w[n].id
      BY <2>1 DEF ShownBlocks
    <3>4. u[n].body = w[n].body \o (body \o piece) /\ u[n].type = w[n].type /\ u[n].id = w[n].id
      BY <2>1, <2>2 DEF ShownBlocks
    <3>5. v[n] \in ShownBlocks /\ u[n] \in ShownBlocks /\ t[n] \in ShownBlocks
      <4>1. n \in 1..Len(v) /\ n \in 1..Len(u) /\ n \in 1..Len(t)
        BY <2>1, <2>2, <2>5
      <4>2. \A k \in 1..Len(v) : v[k] \in ShownBlocks
        BY <2>1
      <4>3. \A k \in 1..Len(u) : u[k] \in ShownBlocks
        BY <2>2
      <4>4. \A k \in 1..Len(t) : t[k] \in ShownBlocks
        BY <2>5
      <4> QED BY <4>1, <4>2, <4>3, <4>4
    <3>6. t[n].body = v[n].body \o piece /\ t[n].type = v[n].type /\ t[n].id = v[n].id
      BY <2>1, <2>5, <3>5 DEF ShownBlocks
    <3>7. t[n].body = u[n].body
      BY <3>2, <3>3, <3>4, <3>6
    <3> QED BY <3>3, <3>4, <3>5, <3>6, <3>7, SameShown
  <2>9. \A k \in 1..n : t[k] = u[k]
    BY <2>1, <2>2, <2>5, <2>8
  <2>10. t = u
    BY <2>1, <2>2, <2>5, <2>9, SameSequence
  <2> QED BY <2>3, <2>4, <2>7, <2>10 DEF b, c, p
<1>6. CASE body # <<>> /\ ~(w # <<>> /\ Last(w).type = type)
  <2> DEFINE n == Len(w)
             v == Append(w, b)
             u == Append(w, c)
             t == [v EXCEPT ![Len(v)].body = @ \o piece]
  <2>1. /\ n \in Nat /\ v \in Seq(ShownBlocks) /\ Len(v) = n + 1 /\ v # <<>>
        /\ v[n + 1] = b /\ Last(v) = b /\ \A k \in 1..n : v[k] = w[k]
    BY <1>3, AppendIs
  <2>2. u \in Seq(ShownBlocks) /\ Len(u) = n + 1 /\ u[n + 1] = c /\ \A k \in 1..n : u[k] = w[k]
    BY <1>3, AppendIs
  <2>3. Shown(w, b) = v
    <3>1. Block(b.type, b.id, b.body) = b
      BY <1>1 DEF b
    <3> QED BY <1>1, <1>2, <1>6, <3>1 DEF Shown
  <2>4. Shown(w, c) = u
    <3>1. Block(c.type, c.id, c.body) = c
      BY <1>1 DEF c
    <3> QED BY <1>1, <1>2, <1>6, <3>1 DEF Shown
  <2> HIDE DEF v, u
  <2>5. /\ t \in Seq(ShownBlocks) /\ Len(t) = Len(v)
        /\ t[Len(v)] = [v[Len(v)] EXCEPT !.body = @ \o piece]
        /\ \A k \in 1..(Len(v) - 1) : t[k] = v[k]
    <3>1. ShownBlocks \in {ShownBlocks, CallBodies}
      OBVIOUS
    <3> QED BY ZenonT(90), <2>1, <3>1, GrowLast
  <2>6. Shown(v, p) = t
    BY <1>1, <1>2, <2>1 DEF Shown
  <2> HIDE DEF t
  <2>7. t[n + 1] = c
    <3>1. t[n + 1] = [b EXCEPT !.body = @ \o piece]
      BY <2>1, <2>5
    <3>2. t[n + 1] \in ShownBlocks
      <4>1. n + 1 \in 1..Len(t)
        BY <2>1, <2>5
      <4>2. \A k \in 1..Len(t) : t[k] \in ShownBlocks
        BY <2>5
      <4> QED BY <4>1, <4>2
    <3>3. t[n + 1].type = b.type /\ t[n + 1].id = b.id /\ t[n + 1].body = b.body \o piece
      BY <1>3, <3>1 DEF ShownBlocks
    <3> QED BY <1>1, <1>3, <3>2, <3>3, SameShown
  <2>8. \A k \in 1..(n + 1) : t[k] = u[k]
    <3>1. \A k \in 1..n : t[k] = u[k]
      BY <2>1, <2>2, <2>5
    <3> QED BY <2>1, <2>2, <2>7, <3>1
  <2>9. t = u
    BY <2>1, <2>2, <2>5, <2>8, SameSequence
  <2> QED BY <2>3, <2>4, <2>6, <2>9 DEF b, c, p
<1> QED BY <1>4, <1>5, <1>6

LEMMA SaidAgain ==
    ASSUME NEW a \in Answers, NEW type \in {"thinking", "text"}, NEW body \in Bodies,
           NEW piece \in Bodies, piece # <<>>
    PROVE  Said(a, Block(type, NoId, body \o piece))
             = Said(Said(a, Block(type, NoId, body)), Block(type, NoId, piece))
<1> DEFINE x == Said(a, Block(type, NoId, body))
           y == Said(a, Block(type, NoId, body \o piece))
           z == Said(x, Block(type, NoId, piece))
<1>1. type \in BlockTypes /\ type # "tool" /\ NoId \in Nat /\ body \o piece \in Bodies
  BY DEF BlockTypes, NoId, Bodies
<1>2. a.text \in Bodies /\ a.size \in Nat /\ a.pieces \in Nat /\ a.shown \in Seq(ShownBlocks)
  BY DEF Answers
<1>3. Len(body) \in Nat /\ Len(piece) \in Nat /\ Len(body \o piece) = Len(body) + Len(piece)
  BY DEF Bodies
<1>4. /\ x \in Answers
      /\ x.text = IF type = "text" THEN a.text \o body ELSE a.text
      /\ x.calls = a.calls /\ x.shown = Shown(a.shown, Block(type, NoId, body))
      /\ x.size = IF type = "thinking" THEN a.size ELSE a.size + Len(body)
      /\ x.pieces = a.pieces + Len(body)
  <2>1. /\ x \in Answers
        /\ x.text = IF type = "text" THEN a.text \o body ELSE a.text
        /\ x.calls = IF type = "tool" THEN Append(a.calls, [id |-> NoId, body |-> body]) ELSE a.calls
        /\ x.shown = Shown(a.shown, Block(type, NoId, body))
        /\ x.size = IF type = "thinking" THEN a.size ELSE a.size + Len(body)
        /\ x.pieces = a.pieces + Len(body)
    BY <1>1, SaidBlock
  <2> QED BY <1>1, <2>1
<1>5. /\ y \in Answers
      /\ y.text = IF type = "text" THEN a.text \o (body \o piece) ELSE a.text
      /\ y.calls = a.calls /\ y.shown = Shown(a.shown, Block(type, NoId, body \o piece))
      /\ y.size = IF type = "thinking" THEN a.size ELSE a.size + Len(body \o piece)
      /\ y.pieces = a.pieces + Len(body \o piece)
  <2>1. /\ y \in Answers
        /\ y.text = IF type = "text" THEN a.text \o (body \o piece) ELSE a.text
        /\ y.calls = IF type = "tool" THEN Append(a.calls, [id |-> NoId, body |-> body \o piece]) ELSE a.calls
        /\ y.shown = Shown(a.shown, Block(type, NoId, body \o piece))
        /\ y.size = IF type = "thinking" THEN a.size ELSE a.size + Len(body \o piece)
        /\ y.pieces = a.pieces + Len(body \o piece)
    BY <1>1, SaidBlock
  <2> QED BY <1>1, <2>1
<1> HIDE DEF x, y
<1>6. /\ z \in Answers
      /\ z.text = IF type = "text" THEN x.text \o piece ELSE x.text
      /\ z.calls = x.calls /\ z.shown = Shown(x.shown, Block(type, NoId, piece))
      /\ z.size = IF type = "thinking" THEN x.size ELSE x.size + Len(piece)
      /\ z.pieces = x.pieces + Len(piece)
  <2>0. x \in Answers
    BY <1>4
  <2>1. /\ z \in Answers
        /\ z.text = IF type = "text" THEN x.text \o piece ELSE x.text
        /\ z.calls = IF type = "tool" THEN Append(x.calls, [id |-> NoId, body |-> piece]) ELSE x.calls
        /\ z.shown = Shown(x.shown, Block(type, NoId, piece))
        /\ z.size = IF type = "thinking" THEN x.size ELSE x.size + Len(piece)
        /\ z.pieces = x.pieces + Len(piece)
    BY <1>1, <2>0, SaidBlock
  <2> QED BY <1>1, <2>1
<1> HIDE DEF z
<1>7. y.text = z.text
  <2>1. (a.text \o body) \o piece = a.text \o (body \o piece)
    BY <1>2, CatAssoc
  <2> QED BY <1>4, <1>5, <1>6, <2>1
<1>8. y.shown = z.shown
  BY <1>2, <1>4, <1>5, <1>6, ShownAgain
<1>9. y.size = z.size /\ y.pieces = z.pieces
  BY <1>2, <1>3, <1>4, <1>5, <1>6
<1>10. y = z
  BY <1>4, <1>5, <1>6, <1>7, <1>8, <1>9, SameAnswer
<1> QED BY <1>10 DEF x, y, z

\* What more arguments of the last call say.
Further(a, piece) ==
  [text |-> a.text,
   calls |-> [a.calls EXCEPT ![Len(a.calls)].body = @ \o piece],
   shown |-> [a.shown EXCEPT ![Len(a.shown)].body = @ \o piece],
   size |-> a.size + Len(piece), pieces |-> a.pieces + Len(piece)]

LEMMA FurtherFacts ==
    ASSUME NEW a \in Answers, a.calls # <<>>, a.shown # <<>>, NEW piece \in Bodies
    PROVE  /\ Further(a, piece) \in Answers
           /\ Further(a, piece).text = a.text
           /\ Further(a, piece).calls = [a.calls EXCEPT ![Len(a.calls)].body = @ \o piece]
           /\ Further(a, piece).shown = [a.shown EXCEPT ![Len(a.shown)].body = @ \o piece]
           /\ Further(a, piece).size = a.size + Len(piece)
           /\ Further(a, piece).pieces = a.pieces + Len(piece)
<1>1. /\ a.calls \in Seq(CallBodies) /\ a.shown \in Seq(ShownBlocks) /\ a.text \in Bodies
      /\ a.size \in Nat /\ a.pieces \in Nat /\ Len(piece) \in Nat
  BY DEF Answers, Bodies
<1>2. ShownBlocks \in {ShownBlocks, CallBodies} /\ CallBodies \in {ShownBlocks, CallBodies}
  OBVIOUS
<1>3. [a.calls EXCEPT ![Len(a.calls)].body = @ \o piece] \in Seq(CallBodies)
  BY <1>1, <1>2, GrowLast
<1>4. [a.shown EXCEPT ![Len(a.shown)].body = @ \o piece] \in Seq(ShownBlocks)
  BY <1>1, <1>2, GrowLast
<1>5. PICK x : x = [a.calls EXCEPT ![Len(a.calls)].body = @ \o piece]
  OBVIOUS
<1>6. PICK y : y = [a.shown EXCEPT ![Len(a.shown)].body = @ \o piece]
  OBVIOUS
<1>7. Further(a, piece) = [text |-> a.text, calls |-> x, shown |-> y, size |-> a.size + Len(piece),
                           pieces |-> a.pieces + Len(piece)]
  BY <1>5, <1>6 DEF Further
<1>8. Further(a, piece) \in Answers
  BY <1>1, <1>3, <1>4, <1>5, <1>6, <1>7 DEF Answers
<1> QED BY <1>5, <1>6, <1>7, <1>8

LEMMA SaidFurther ==
    ASSUME NEW a \in Answers, NEW id \in Nat, NEW body \in Bodies, NEW piece \in Bodies
    PROVE  Said(a, Block("tool", id, body \o piece)) = Further(Said(a, Block("tool", id, body)), piece)
<1> DEFINE b == Block("tool", id, body)
           c == Block("tool", id, body \o piece)
           x == Said(a, b)
           y == Said(a, c)
           z == Further(x, piece)
<1>1. "tool" \in BlockTypes /\ body \o piece \in Bodies
  BY DEF BlockTypes, Bodies
<1>2. a.text \in Bodies /\ a.size \in Nat /\ a.pieces \in Nat /\ a.shown \in Seq(ShownBlocks)
      /\ a.calls \in Seq(CallBodies)
  BY DEF Answers
<1>3. Len(body) \in Nat /\ Len(piece) \in Nat /\ Len(body \o piece) = Len(body) + Len(piece)
  BY DEF Bodies
<1>4. /\ b.type = "tool" /\ b.id = id /\ b.body = body /\ b \in ShownBlocks
      /\ c.type = "tool" /\ c.id = id /\ c.body = body \o piece /\ c \in ShownBlocks
  BY <1>1 DEF Block, ShownBlocks
<1>5. Shown(a.shown, b) = Append(a.shown, b) /\ Shown(a.shown, c) = Append(a.shown, c)
  BY <1>4 DEF Shown
<1>6. /\ x \in Answers /\ x.text = a.text /\ x.calls = Append(a.calls, [id |-> id, body |-> body])
      /\ x.shown = Append(a.shown, b) /\ x.size = a.size + Len(body) /\ x.pieces = a.pieces + Len(body)
  <2>1. /\ x \in Answers
        /\ x.text = IF "tool" = "text" THEN a.text \o (body) ELSE a.text
        /\ x.calls = IF "tool" = "tool" THEN Append(a.calls, [id |-> id, body |-> body]) ELSE a.calls
        /\ x.shown = Shown(a.shown, b)
        /\ x.size = IF "tool" = "thinking" THEN a.size ELSE a.size + Len(body)
        /\ x.pieces = a.pieces + Len(body)
    BY <1>1, SaidBlock
  <2> QED BY <1>5, <2>1
<1>7. /\ y \in Answers /\ y.text = a.text /\ y.calls = Append(a.calls, [id |-> id, body |-> body \o piece])
      /\ y.shown = Append(a.shown, c) /\ y.size = a.size + Len(body \o piece)
      /\ y.pieces = a.pieces + Len(body \o piece)
  <2>1. /\ y \in Answers
        /\ y.text = IF "tool" = "text" THEN a.text \o (body \o piece) ELSE a.text
        /\ y.calls = IF "tool" = "tool" THEN Append(a.calls, [id |-> id, body |-> body \o piece]) ELSE a.calls
        /\ y.shown = Shown(a.shown, c)
        /\ y.size = IF "tool" = "thinking" THEN a.size ELSE a.size + Len(body \o piece)
        /\ y.pieces = a.pieces + Len(body \o piece)
    BY <1>1, SaidBlock
  <2> QED BY <1>5, <2>1
<1>8. [id |-> id, body |-> body] \in CallBodies /\ [id |-> id, body |-> body \o piece] \in CallBodies
  BY <1>1 DEF CallBodies
<1>9. /\ Len(x.calls) = Len(a.calls) + 1 /\ x.calls # <<>> /\ x.calls \in Seq(CallBodies)
      /\ x.calls[Len(a.calls) + 1] = [id |-> id, body |-> body]
      /\ Len(y.calls) = Len(a.calls) + 1 /\ y.calls \in Seq(CallBodies)
      /\ y.calls[Len(a.calls) + 1] = [id |-> id, body |-> body \o piece]
      /\ \A k \in 1..Len(a.calls) : x.calls[k] = a.calls[k] /\ y.calls[k] = a.calls[k]
      /\ Len(a.calls) \in Nat
  <2> DEFINE f == [id |-> id, body |-> body]
             g == [id |-> id, body |-> body \o piece]
  <2>1. f \in CallBodies /\ g \in CallBodies
    BY <1>8
  <2>2. x.calls = Append(a.calls, f) /\ y.calls = Append(a.calls, g)
    BY <1>6, <1>7
  <2> HIDE DEF f, g, x, y
  <2>3. /\ Len(a.calls) \in Nat /\ Append(a.calls, f) \in Seq(CallBodies)
        /\ Len(Append(a.calls, f)) = Len(a.calls) + 1 /\ Append(a.calls, f) # <<>>
        /\ Append(a.calls, f)[Len(a.calls) + 1] = f
        /\ \A k \in 1..Len(a.calls) : Append(a.calls, f)[k] = a.calls[k]
    BY <1>2, <2>1, AppendIs
  <2>4. /\ Append(a.calls, g) \in Seq(CallBodies)
        /\ Len(Append(a.calls, g)) = Len(a.calls) + 1
        /\ Append(a.calls, g)[Len(a.calls) + 1] = g
        /\ \A k \in 1..Len(a.calls) : Append(a.calls, g)[k] = a.calls[k]
    BY <1>2, <2>1, AppendIs
  <2>5. /\ Len(x.calls) = Len(a.calls) + 1 /\ x.calls # <<>> /\ x.calls \in Seq(CallBodies)
        /\ x.calls[Len(a.calls) + 1] = f
        /\ \A k \in 1..Len(a.calls) : x.calls[k] = a.calls[k]
    BY <2>2, <2>3
  <2>6. /\ Len(y.calls) = Len(a.calls) + 1 /\ y.calls \in Seq(CallBodies)
        /\ y.calls[Len(a.calls) + 1] = g
        /\ \A k \in 1..Len(a.calls) : y.calls[k] = a.calls[k]
    BY <2>2, <2>4
  <2> QED BY <2>3, <2>5, <2>6 DEF f, g
<1>10. /\ Len(x.shown) = Len(a.shown) + 1 /\ x.shown # <<>> /\ x.shown \in Seq(ShownBlocks)
       /\ x.shown[Len(a.shown) + 1] = b
       /\ Len(y.shown) = Len(a.shown) + 1 /\ y.shown \in Seq(ShownBlocks)
       /\ y.shown[Len(a.shown) + 1] = c
       /\ \A k \in 1..Len(a.shown) : x.shown[k] = a.shown[k] /\ y.shown[k] = a.shown[k]
       /\ Len(a.shown) \in Nat
  <2>1. b \in ShownBlocks /\ c \in ShownBlocks
    BY <1>4
  <2>2. x.shown = Append(a.shown, b) /\ y.shown = Append(a.shown, c)
    BY <1>6, <1>7
  <2> HIDE DEF b, c, x, y
  <2>3. /\ Len(a.shown) \in Nat /\ Append(a.shown, b) \in Seq(ShownBlocks)
        /\ Len(Append(a.shown, b)) = Len(a.shown) + 1 /\ Append(a.shown, b) # <<>>
        /\ Append(a.shown, b)[Len(a.shown) + 1] = b
        /\ \A k \in 1..Len(a.shown) : Append(a.shown, b)[k] = a.shown[k]
    BY <1>2, <2>1, AppendIs
  <2>4. /\ Append(a.shown, c) \in Seq(ShownBlocks)
        /\ Len(Append(a.shown, c)) = Len(a.shown) + 1
        /\ Append(a.shown, c)[Len(a.shown) + 1] = c
        /\ \A k \in 1..Len(a.shown) : Append(a.shown, c)[k] = a.shown[k]
    BY <1>2, <2>1, AppendIs
  <2>5. /\ Len(x.shown) = Len(a.shown) + 1 /\ x.shown # <<>> /\ x.shown \in Seq(ShownBlocks)
        /\ x.shown[Len(a.shown) + 1] = b
        /\ \A k \in 1..Len(a.shown) : x.shown[k] = a.shown[k]
    BY <2>2, <2>3
  <2>6. /\ Len(y.shown) = Len(a.shown) + 1 /\ y.shown \in Seq(ShownBlocks)
        /\ y.shown[Len(a.shown) + 1] = c
        /\ \A k \in 1..Len(a.shown) : y.shown[k] = a.shown[k]
    BY <2>2, <2>4
  <2> QED BY <2>3, <2>5, <2>6
<1> HIDE DEF b, c, x, y
<1>11. /\ z \in Answers /\ z.text = x.text
       /\ z.calls = [x.calls EXCEPT ![Len(x.calls)].body = @ \o piece]
       /\ z.shown = [x.shown EXCEPT ![Len(x.shown)].body = @ \o piece]
       /\ z.size = x.size + Len(piece) /\ z.pieces = x.pieces + Len(piece)
  BY <1>6, <1>9, <1>10, FurtherFacts
<1> HIDE DEF z
<1>12. z.size = y.size /\ z.pieces = y.pieces /\ z.text = y.text
  BY <1>2, <1>3, <1>6, <1>7, <1>11
<1>13. z.calls = y.calls
  <2>1. CallBodies \in {ShownBlocks, CallBodies}
    OBVIOUS
  <2>2. /\ z.calls \in Seq(CallBodies) /\ Len(z.calls) = Len(x.calls)
        /\ z.calls[Len(x.calls)] = [x.calls[Len(x.calls)] EXCEPT !.body = @ \o piece]
        /\ \A k \in 1..(Len(x.calls) - 1) : z.calls[k] = x.calls[k]
    <3>1. x.calls \in Seq(CallBodies) /\ x.calls # <<>>
      BY <1>9
    <3> DEFINE v == [x.calls EXCEPT ![Len(x.calls)].body = @ \o piece]
    <3>2. /\ v \in Seq(CallBodies) /\ Len(v) = Len(x.calls)
          /\ v[Len(x.calls)] = [x.calls[Len(x.calls)] EXCEPT !.body = @ \o piece]
          /\ \A k \in 1..(Len(x.calls) - 1) : v[k] = x.calls[k]
      BY <2>1, <3>1, GrowLast
    <3>3. z.calls = v
      BY <1>11
    <3> HIDE DEF v
    <3> QED BY <3>2, <3>3
  <2>3. z.calls[Len(a.calls) + 1] = y.calls[Len(a.calls) + 1]
    <3>1. z.calls[Len(a.calls) + 1] = [[id |-> id, body |-> body] EXCEPT !.body = @ \o piece]
      BY <1>9, <2>2
    <3>2. [[id |-> id, body |-> body] EXCEPT !.body = @ \o piece] = [id |-> id, body |-> body \o piece]
      BY SMTT(60)
    <3> QED BY <1>9, <3>1, <3>2
  <2>4. \A k \in 1..Len(a.calls) : z.calls[k] = y.calls[k]
    BY <1>9, <2>2
  <2>5. \A k \in 1..(Len(a.calls) + 1) : z.calls[k] = y.calls[k]
    BY <1>9, <2>3, <2>4
  <2> QED BY ZenonT(30), <1>9, <2>2, <2>5, SameSequence
<1>14. z.shown = y.shown
  <2>1. ShownBlocks \in {ShownBlocks, CallBodies}
    OBVIOUS
  <2>2. /\ z.shown \in Seq(ShownBlocks) /\ Len(z.shown) = Len(x.shown)
        /\ z.shown[Len(x.shown)] = [x.shown[Len(x.shown)] EXCEPT !.body = @ \o piece]
        /\ \A k \in 1..(Len(x.shown) - 1) : z.shown[k] = x.shown[k]
    <3>1. x.shown \in Seq(ShownBlocks) /\ x.shown # <<>>
      BY <1>10
    <3> DEFINE v == [x.shown EXCEPT ![Len(x.shown)].body = @ \o piece]
    <3>2. /\ v \in Seq(ShownBlocks) /\ Len(v) = Len(x.shown)
          /\ v[Len(x.shown)] = [x.shown[Len(x.shown)] EXCEPT !.body = @ \o piece]
          /\ \A k \in 1..(Len(x.shown) - 1) : v[k] = x.shown[k]
      BY ZenonT(30), <2>1, <3>1, GrowLast
    <3>3. z.shown = v
      BY <1>11
    <3> HIDE DEF v
    <3> QED BY <3>2, <3>3
  <2>3. z.shown[Len(a.shown) + 1] = y.shown[Len(a.shown) + 1]
    <3>1. z.shown[Len(a.shown) + 1] = [b EXCEPT !.body = @ \o piece]
      BY <1>10, <2>2
    <3>2. [b EXCEPT !.body = @ \o piece] = c
      BY <1>4 DEF ShownBlocks
    <3> QED BY <1>10, <3>1, <3>2
  <2>4. \A k \in 1..Len(a.shown) : z.shown[k] = y.shown[k]
    BY <1>10, <2>2
  <2>5. \A k \in 1..(Len(a.shown) + 1) : z.shown[k] = y.shown[k]
    BY <1>10, <2>3, <2>4
  <2> QED BY <1>10, <2>2, <2>5, SameSequence
<1>15. z = y
  BY <1>7, <1>11, <1>12, <1>13, <1>14, SameAnswer
<1> QED BY <1>15 DEF b, c, x, y, z

-----------------------------------------------------------------------------
(* The pieces that an audit entry has. *)

CallSize(entry, k) == IF k \in DOMAIN entry.calls THEN Len(entry.calls[k].body) ELSE 0

LEMMA PiecesTurns ==
    ASSUME NEW entry
    PROVE  \E upTo : /\ upTo[0] = Len(entry.text)
                     /\ \A k \in 1..MaxBlocks : upTo[k] = upTo[k - 1] + CallSize(entry, k - 1)
                     /\ PiecesKept(entry) = upTo[MaxBlocks]
<1> DEFINE N == MaxBlocks
           Step(g, k) == IF k = 0 THEN Len(entry.text) ELSE g[k - 1] + CallSize(entry, k - 1)
           S == {k \in Nat : \E g : g = [j \in 0..k |-> Step(g, j)]}
<1>0. N \in Nat
  BY StreamsAssumption
<1>1. 0 \in S
  <2> DEFINE g == [j \in 0..0 |-> Len(entry.text)]
  <2>1. g = [j \in 0..0 |-> Step(g, j)]
    OBVIOUS
  <2> QED BY <2>1
<1>2. ASSUME NEW k \in Nat, k \in S PROVE k + 1 \in S
  <2>1. PICK g : g = [j \in 0..k |-> Step(g, j)]
    BY <1>2
  <2> DEFINE h == [j \in 0..(k + 1) |-> IF j <= k THEN g[j] ELSE Step(g, j)]
  <2>2. \A j \in 0..k : h[j] = g[j] /\ g[j] = Step(g, j)
    <3> HIDE DEF Step
    <3>1. \A j \in 0..k : g[j] = Step(g, j)
      BY <2>1
    <3>2. \A j \in 0..k : h[j] = g[j]
      OBVIOUS
    <3> QED BY <3>1, <3>2
  <2>3. h[k + 1] = Step(g, k + 1)
    <3> HIDE DEF Step
    <3> QED OBVIOUS
  <2>4. ASSUME NEW j \in 0..(k + 1) PROVE h[j] = Step(h, j)
    <3> HIDE DEF h
    <3>1. CASE j = 0
      BY <2>2, <3>1
    <3>2. CASE j # 0
      <4>1. j - 1 \in 0..k /\ h[j - 1] = g[j - 1]
        BY <2>2, <3>2
      <4>2. Step(h, j) = Step(g, j)
        BY <4>1
      <4>3. h[j] = Step(g, j)
        <5> HIDE DEF Step
        <5>1. j \in 0..k \/ j = k + 1
          OBVIOUS
        <5> QED BY <2>2, <2>3, <5>1
      <4> QED BY <4>2, <4>3
    <3> QED BY <3>1, <3>2
  <2>5. h = [j \in 0..(k + 1) |-> Step(h, j)]
    <3>1. h = [j \in 0..(k + 1) |-> h[j]]
      <4> HIDE DEF Step
      <4> QED OBVIOUS
    <3> HIDE DEF h, Step
    <3> QED BY <2>4, <3>1
  <2> HIDE DEF h, Step
  <2> QED BY <2>5
<1>3. \E g : g = [j \in 0..N |-> Step(g, j)]
  <2>1. \A k \in Nat : k \in S
    <3> HIDE DEF S
    <3> QED BY <1>1, <1>2, AllNumbers
  <2> HIDE DEF Step
  <2> QED BY <1>0, <2>1
<1>4. PICK turns : turns = CHOOSE g : g = [j \in 0..N |-> Step(g, j)]
  OBVIOUS
<1>5. PiecesKept(entry) = turns[N]
  BY <1>4 DEF PiecesKept, CallSize
<1>6. turns = [j \in 0..N |-> Step(turns, j)]
  <2> HIDE DEF Step
  <2> QED BY <1>3, <1>4
<1>7. \A j \in 0..N : turns[j] = Step(turns, j)
  <2> HIDE DEF Step
  <2> QED BY <1>6
<1>8. turns[0] = Len(entry.text)
  BY <1>0, <1>7
<1>9. \A k \in 1..N : turns[k] = turns[k - 1] + CallSize(entry, k - 1)
  BY <1>0, <1>7
<1> QED BY <1>5, <1>8, <1>9

LongerBy(x, y, m, n, c) ==
  /\ Len(x.text) \in Nat /\ \A k \in Nat : CallSize(x, k) \in Nat
  /\ c < MaxBlocks \/ n = 0
  /\ Len(y.text) = Len(x.text) + m
  /\ \A k \in Nat : CallSize(y, k) = CallSize(x, k) + (IF k = c THEN n ELSE 0)

\* An entry with m pieces more in its text and n more in one of its calls has
\* m + n pieces more.
LEMMA PiecesDiffer ==
    ASSUME NEW x, NEW y, NEW m \in Nat, NEW n \in Nat, NEW c \in Nat, LongerBy(x, y, m, n, c)
    PROVE  PiecesKept(x) \in Nat /\ PiecesKept(y) = PiecesKept(x) + m + n
<1>0. /\ Len(x.text) \in Nat /\ \A k \in Nat : CallSize(x, k) \in Nat
      /\ c < MaxBlocks \/ n = 0
      /\ Len(y.text) = Len(x.text) + m
      /\ \A k \in Nat : CallSize(y, k) = CallSize(x, k) + (IF k = c THEN n ELSE 0)
  BY DEF LongerBy
<1>1. MaxBlocks \in Nat
  BY StreamsAssumption
<1>2. PICK f : /\ f[0] = Len(x.text)
               /\ \A k \in 1..MaxBlocks : f[k] = f[k - 1] + CallSize(x, k - 1)
               /\ PiecesKept(x) = f[MaxBlocks]
  BY PiecesTurns
<1>3. PICK g : /\ g[0] = Len(y.text)
               /\ \A k \in 1..MaxBlocks : g[k] = g[k - 1] + CallSize(y, k - 1)
               /\ PiecesKept(y) = g[MaxBlocks]
  BY PiecesTurns
<1> DEFINE T == {k \in Nat : k <= MaxBlocks =>
                   f[k] \in Nat /\ g[k] = f[k] + m + (IF c < k THEN n ELSE 0)}
<1>4. 0 \in T
  <2>1. ~(c < 0)
    OBVIOUS
  <2>2. f[0] \in Nat /\ g[0] = f[0] + m
    BY <1>0, <1>2, <1>3
  <2>3. g[0] = f[0] + m + 0
    BY <2>2
  <2> QED BY <2>1, <2>2, <2>3
<1>5. ASSUME NEW k \in Nat, k \in T PROVE k + 1 \in T
  <2> SUFFICES ASSUME k + 1 <= MaxBlocks
               PROVE  f[k + 1] \in Nat /\ g[k + 1] = f[k + 1] + m + (IF c < k + 1 THEN n ELSE 0)
    OBVIOUS
  <2>1. k + 1 \in 1..MaxBlocks /\ (k + 1) - 1 = k /\ k <= MaxBlocks
    BY <1>1
  <2>2. f[k] \in Nat /\ g[k] = f[k] + m + (IF c < k THEN n ELSE 0)
    BY <1>5, <2>1
  <2>3. f[k + 1] = f[k] + CallSize(x, k)
    BY <1>2, <2>1
  <2>4. g[k + 1] = g[k] + CallSize(y, k)
    BY <1>3, <2>1
  <2>5. CallSize(x, k) \in Nat /\ CallSize(y, k) = CallSize(x, k) + (IF k = c THEN n ELSE 0)
    BY <1>0
  <2>6. PICK fk \in Nat : fk = f[k]
    BY <2>2
  <2>7. PICK size \in Nat : size = CallSize(x, k)
    BY <2>5
  <2>8. f[k + 1] = fk + size
    BY <2>3, <2>6, <2>7
  <2>9. CASE k = c
    <3>1. ~(c < k) /\ c < k + 1
      BY <2>9
    <3>2. g[k] = fk + m + 0
      BY <2>2, <2>6, <3>1
    <3>3. CallSize(y, k) = size + n
      BY <2>5, <2>7, <2>9
    <3>4. g[k + 1] = (fk + m + 0) + (size + n)
      BY <2>4, <3>2, <3>3
    <3>5. g[k + 1] = (fk + size) + m + n
      BY <3>4
    <3> QED BY <2>8, <3>1, <3>5
  <2>10. CASE k # c
    <3>1. (c < k + 1) <=> (c < k)
      BY <2>10
    <3> DEFINE extra == IF c < k THEN n ELSE 0
    <3>2. extra \in Nat /\ g[k] = fk + m + extra
      BY <2>2, <2>6
    <3>3. CallSize(y, k) = size + 0
      BY <2>5, <2>7, <2>10
    <3>4. extra = IF c < k + 1 THEN n ELSE 0
      BY <3>1
    <3> HIDE DEF extra
    <3>5. g[k + 1] = (fk + m + extra) + (size + 0)
      BY <2>4, <3>2, <3>3
    <3>6. g[k + 1] = (fk + size) + m + extra
      BY <3>2, <3>5
    <3> QED BY <2>8, <3>4, <3>6
  <2> QED BY <2>9, <2>10
<1>6. MaxBlocks \in T
  <2> HIDE DEF T
  <2>1. \A k \in Nat : k \in T
    BY <1>4, <1>5, AllNumbers
  <2> QED BY <1>1, <2>1
<1>7. f[MaxBlocks] \in Nat /\ g[MaxBlocks] = f[MaxBlocks] + m + (IF c < MaxBlocks THEN n ELSE 0)
  BY <1>1, <1>6
<1> QED BY <1>0, <1>1, <1>2, <1>3, <1>7

LEMMA PiecesOfNothing ==
    ASSUME NEW x, x.text = <<>>, x.calls = <<>>
    PROVE  PiecesKept(x) = 0
<1>1. MaxBlocks \in Nat
  BY StreamsAssumption
<1>2. PICK f : /\ f[0] = Len(x.text)
               /\ \A k \in 1..MaxBlocks : f[k] = f[k - 1] + CallSize(x, k - 1)
               /\ PiecesKept(x) = f[MaxBlocks]
  BY PiecesTurns
<1> DEFINE T == {k \in Nat : k <= MaxBlocks => f[k] = 0}
<1>3. 0 \in T
  BY <1>2
<1>4. ASSUME NEW k \in Nat, k \in T PROVE k + 1 \in T
  <2> SUFFICES ASSUME k + 1 <= MaxBlocks PROVE f[k + 1] = 0
    OBVIOUS
  <2>1. k + 1 \in 1..MaxBlocks /\ (k + 1) - 1 = k /\ f[k] = 0
    BY <1>1, <1>4
  <2>2. f[k + 1] = f[k] + CallSize(x, k)
    BY <1>2, <2>1
  <2>3. CallSize(x, k) = 0
    BY DEF CallSize
  <2> QED BY <2>1, <2>2, <2>3
<1>5. MaxBlocks \in T
  <2> HIDE DEF T
  <2>1. \A k \in Nat : k \in T
    BY <1>3, <1>4, AllNumbers
  <2> QED BY <1>1, <2>1
<1> QED BY <1>1, <1>2, <1>5

-----------------------------------------------------------------------------
(* The observers. *)

Seen == [usage: Usages, text: Bodies, calls: Partial(CallBodies), captured: Nat, truncated: BOOLEAN,
         completed: BOOLEAN, output: {<<>>}]

\* Observers have seen a text and calls of some size, and kept what fits.
KeptOf(o, text, calls, size) ==
  /\ o \in Seen
  /\ text \in Bodies /\ calls \in Seq(CallBodies) /\ size \in Nat
  /\ o.captured = IF size <= MaxContentCapture THEN size ELSE MaxContentCapture
  /\ (o.truncated <=> size > MaxContentCapture)
  /\ IsPrefix(o.text, text)
  /\ ~o.truncated => o.text = text
  /\ DOMAIN o.calls = 0..(Len(calls) - 1)
  /\ \A k \in 1..Len(calls) : /\ o.calls[k - 1].id = calls[k].id
                              /\ IsPrefix(o.calls[k - 1].body, calls[k].body)
                              /\ ~o.truncated => o.calls[k - 1].body = calls[k].body
  /\ PiecesKept(o) = o.captured

SameButPieces(o, p) == p.usage = o.usage /\ p.completed = o.completed /\ p.output = o.output

LEMMA KeptFacts ==
    ASSUME NEW o \in Seen, NEW size \in Nat, NEW piece \in Bodies,
           o.captured = (IF size <= MaxContentCapture THEN size ELSE MaxContentCapture),
           (o.truncated <=> size > MaxContentCapture)
    PROVE  /\ Kept(o, piece) \in Bodies /\ IsPrefix(Kept(o, piece), piece)
           /\ Len(Kept(o, piece)) \in Nat /\ Len(piece) \in Nat
           /\ o.captured + Len(Kept(o, piece)) = IF size + Len(piece) <= MaxContentCapture
                                                 THEN size + Len(piece) ELSE MaxContentCapture
           /\ (o.truncated \/ Len(Kept(o, piece)) < Len(piece)) <=> (size + Len(piece) > MaxContentCapture)
           /\ (o.truncated \/ Len(Kept(o, piece)) < Len(piece)) \/ Kept(o, piece) = piece
           /\ o.truncated => Kept(o, piece) = <<>>
<1> DEFINE M == MaxContentCapture
           n == Len(piece)
<1>1. M \in Nat /\ n \in Nat /\ o.truncated \in BOOLEAN
  BY StreamsAssumption DEF Bodies, Seen
<1>2. CASE o.truncated
  <2>1. Kept(o, piece) = <<>>
    BY <1>2 DEF Kept
  <2>2. size > M /\ o.captured = M
    BY <1>1, <1>2
  <2>3. <<>> \in Bodies /\ Len(<<>>) = 0 /\ IsPrefix(<<>>, piece)
    <3>1. <<>> \in Bodies /\ Len(<<>>) = 0
      BY DEF Bodies
    <3>2. IsPrefix(<<>>, <<>> \o piece)
      BY <3>1, PrefixCat
    <3> QED BY <3>1, <3>2, CatEmpty
  <2>4. ~(size + n <= M) /\ size + n > M
    BY <1>1, <2>2
  <2> QED BY <1>1, <1>2, <2>1, <2>2, <2>3, <2>4
<1>3. CASE ~o.truncated
  <2>1. size <= M /\ o.captured = size
    BY <1>1, <1>3
  <2>2. CASE n <= M - size
    <3>1. Kept(o, piece) = SubSeq(piece, 1, n)
      BY <1>3, <2>1, <2>2 DEF Kept
    <3>2. SubSeq(piece, 1, n) = piece
      BY DEF Bodies
    <3>3. size + n <= M /\ ~(size + n > M) /\ ~(n < n)
      BY <1>1, <2>1, <2>2
    <3>4. Kept(o, piece) = piece /\ IsPrefix(piece, piece)
      BY <3>1, <3>2, PrefixSelf
    <3> QED BY <1>1, <1>3, <2>1, <3>3, <3>4
  <2>3. CASE ~(n <= M - size)
    <3> DEFINE k == M - size
    <3>1. Kept(o, piece) = SubSeq(piece, 1, k)
      BY <1>3, <2>1, <2>3 DEF Kept
    <3>2. k \in 0..n /\ k < n
      BY <1>1, <2>1, <2>3
    <3>3. /\ SubSeq(piece, 1, k) \in Bodies /\ Len(SubSeq(piece, 1, k)) = k
          /\ \A i \in 1..k : SubSeq(piece, 1, k)[i] = piece[i]
      BY <1>1, <3>2 DEF Bodies
    <3>4. IsPrefix(SubSeq(piece, 1, k), piece)
      <4>1. Len(SubSeq(piece, 1, k)) <= Len(piece)
        BY <1>1, <3>2, <3>3
      <4>2. \A i \in 1..Len(SubSeq(piece, 1, k)) : SubSeq(piece, 1, k)[i] = piece[i]
        BY <3>3
      <4> QED BY <3>3, <4>1, <4>2, PrefixIs
    <3>5. ~(size + n <= M) /\ size + n > M /\ size + k = M
      BY <1>1, <2>1, <2>3
    <3> HIDE DEF k
    <3> QED BY <1>1, <1>3, <2>1, <3>1, <3>2, <3>3, <3>4, <3>5
  <2> QED BY <2>2, <2>3
<1> QED BY <1>2, <1>3

LEMMA PrefixKept ==
    ASSUME NEW s \in Bodies, NEW t \in Bodies, NEW kept \in Bodies, NEW piece \in Bodies,
           IsPrefix(s, t), IsPrefix(kept, piece), s = t \/ kept = <<>>
    PROVE  s \o kept \in Bodies /\ t \o piece \in Bodies /\ IsPrefix(s \o kept, t \o piece)
<1>1. s \o kept \in Bodies /\ t \o piece \in Bodies /\ t \o kept \in Bodies
  BY PrefixCat
<1>2. CASE kept = <<>>
  <2>1. s \o kept = s
    BY <1>2, CatEmpty
  <2>2. IsPrefix(t, t \o piece)
    BY PrefixCat
  <2> QED BY <1>1, <2>1, <2>2, PrefixTrans
<1>3. CASE s = t
  <2>1. Len(kept) <= Len(piece) /\ \A i \in 1..Len(kept) : kept[i] = piece[i]
    BY PrefixIs
  <2>2. Len(t \o kept) <= Len(t \o piece) /\ \A i \in 1..Len(t \o kept) : (t \o kept)[i] = (t \o piece)[i]
    <3>1. /\ Len(t) \in Nat /\ Len(kept) \in Nat /\ Len(piece) \in Nat
          /\ Len(t \o kept) = Len(t) + Len(kept) /\ Len(t \o piece) = Len(t) + Len(piece)
          /\ \A i \in 1..(Len(t) + Len(kept)) : (t \o kept)[i] = IF i <= Len(t) THEN t[i] ELSE kept[i - Len(t)]
          /\ \A i \in 1..(Len(t) + Len(piece)) : (t \o piece)[i] = IF i <= Len(t) THEN t[i] ELSE piece[i - Len(t)]
      BY DEF Bodies
    <3>2. ASSUME NEW i \in 1..(Len(t) + Len(kept)) PROVE (t \o kept)[i] = (t \o piece)[i]
      <4>1. i \in 1..(Len(t) + Len(piece)) /\ (i <= Len(t) \/ i - Len(t) \in 1..Len(kept))
        BY <2>1, <3>1
      <4> QED BY <2>1, <3>1, <4>1
    <3> QED BY <2>1, <3>1, <3>2
  <2> QED BY <1>1, <1>3, <2>2, PrefixIs
<1> QED BY <1>2, <1>3

LEMMA EntrySizes ==
    ASSUME NEW o \in Seen
    PROVE  Len(o.text) \in Nat /\ \A k \in Nat : CallSize(o, k) \in Nat
<1>1. o.text \in Bodies /\ o.calls \in Partial(CallBodies)
  BY DEF Seen
<1>2. Len(o.text) \in Nat
  BY <1>1 DEF Bodies
<1>3. \A k \in DOMAIN o.calls : o.calls[k] \in CallBodies
  BY <1>1, PartialFacts
<1>4. \A k \in DOMAIN o.calls : Len(o.calls[k].body) \in Nat
  BY <1>3 DEF CallBodies, Bodies
<1> QED BY <1>2, <1>4 DEF CallSize

LEMMA ObservesText ==
    ASSUME NEW o, NEW text, NEW calls, NEW size, KeptOf(o, text, calls, size), NEW piece \in Bodies
    PROVE  /\ KeptOf(appendText(o, piece), text \o piece, calls, size + Len(piece))
           /\ SameButPieces(o, appendText(o, piece))
<1> DEFINE kept == Kept(o, piece)
           p == appendText(o, piece)
<1>1. /\ o \in Seen /\ text \in Bodies /\ calls \in Seq(CallBodies) /\ size \in Nat
      /\ o.captured = (IF size <= MaxContentCapture THEN size ELSE MaxContentCapture)
      /\ (o.truncated <=> size > MaxContentCapture) /\ IsPrefix(o.text, text)
      /\ ~o.truncated => o.text = text
      /\ DOMAIN o.calls = 0..(Len(calls) - 1)
      /\ \A k \in 1..Len(calls) : /\ o.calls[k - 1].id = calls[k].id
                                  /\ IsPrefix(o.calls[k - 1].body, calls[k].body)
                                  /\ ~o.truncated => o.calls[k - 1].body = calls[k].body
      /\ PiecesKept(o) = o.captured
  BY DEF KeptOf
<1>2. /\ kept \in Bodies /\ IsPrefix(kept, piece) /\ Len(kept) \in Nat /\ Len(piece) \in Nat
      /\ o.captured + Len(kept) = IF size + Len(piece) <= MaxContentCapture
                                  THEN size + Len(piece) ELSE MaxContentCapture
      /\ (o.truncated \/ Len(kept) < Len(piece)) <=> (size + Len(piece) > MaxContentCapture)
      /\ (o.truncated \/ Len(kept) < Len(piece)) \/ kept = piece
      /\ o.truncated => kept = <<>>
  BY <1>1, KeptFacts
<1>3. o.text \in Bodies /\ o.captured \in Nat /\ o.calls \in Partial(CallBodies) /\ o.truncated \in BOOLEAN
  BY <1>1 DEF Seen
<1> HIDE DEF kept
<1>4. /\ p.text = o.text \o kept /\ p.calls = o.calls /\ p.captured = o.captured + Len(kept)
      /\ (p.truncated <=> (o.truncated \/ Len(kept) < Len(piece)))
      /\ p.usage = o.usage /\ p.completed = o.completed /\ p.output = o.output
  BY <1>1 DEF appendText, appendLimitedStreamText, kept, Seen
<1>5. /\ o.text \o kept \in Bodies /\ text \o piece \in Bodies /\ IsPrefix(o.text \o kept, text \o piece)
  BY <1>1, <1>2, <1>3, PrefixKept
<1>6. p \in Seen
  <2>1. PICK over \in BOOLEAN : over = (o.truncated \/ Len(kept) < Len(piece))
    OBVIOUS
  <2>2. p = [o EXCEPT !.captured = o.captured + Len(kept), !.truncated = over, !.text = o.text \o kept]
    BY <1>1, <2>1 DEF appendText, appendLimitedStreamText, kept, Seen
  <2>3. o.captured + Len(kept) \in Nat
    BY <1>2, <1>3
  <2> HIDE DEF p
  <2> QED BY <1>1, <1>5, <2>1, <2>2, <2>3 DEF Seen
<1> HIDE DEF p
<1>7. ~p.truncated => kept = piece /\ ~o.truncated
  BY <1>2, <1>3, <1>4
<1>8. size + Len(piece) \in Nat
  BY <1>1, <1>2
<1>9. PiecesKept(p) = p.captured
  <2>1. Len(p.text) = Len(o.text) + Len(kept)
    BY <1>2, <1>3, <1>4, PrefixCat
  <2>2. \A k \in Nat : CallSize(p, k) = CallSize(o, k) + (IF k = 0 THEN 0 ELSE 0)
    BY <1>1, <1>4, EntrySizes DEF CallSize
  <2>3. Len(o.text) \in Nat /\ \A k \in Nat : CallSize(o, k) \in Nat
    BY <1>1, EntrySizes
  <2>4. PiecesKept(o) \in Nat /\ PiecesKept(p) = PiecesKept(o) + Len(kept) + 0
    <3>1. PICK n \in Nat : n = 0
      OBVIOUS
    <3>2. \A k \in Nat : CallSize(p, k) = CallSize(o, k) + (IF k = n THEN n ELSE 0)
      BY <2>2, <3>1
    <3>3. PiecesKept(p) = PiecesKept(o) + Len(kept) + n /\ PiecesKept(o) \in Nat
      <4>1. n < MaxBlocks \/ n = 0
        BY <3>1
      <4>2. PICK m \in Nat : m = Len(kept)
        BY <1>2
      <4>3. Len(p.text) = Len(o.text) + m
        BY <2>1, <4>2
      <4>4. PiecesKept(o) \in Nat /\ PiecesKept(p) = PiecesKept(o) + m + n
        <5>1. LongerBy(o, p, m, n, n)
          BY <2>3, <3>2, <4>1, <4>3 DEF LongerBy
        <5> QED BY <5>1, PiecesDiffer
      <4> QED BY <4>2, <4>4
    <3> QED BY <3>1, <3>3
  <2> QED BY <1>1, <1>2, <1>4, <2>4
<1>10. \A k \in 1..Len(calls) : /\ p.calls[k - 1].id = calls[k].id
                                /\ IsPrefix(p.calls[k - 1].body, calls[k].body)
                                /\ ~p.truncated => p.calls[k - 1].body = calls[k].body
  BY <1>1, <1>4, <1>7
<1>11. /\ p.captured = (IF size + Len(piece) <= MaxContentCapture THEN size + Len(piece) ELSE MaxContentCapture)
       /\ (p.truncated <=> size + Len(piece) > MaxContentCapture)
       /\ IsPrefix(p.text, text \o piece)
       /\ ~p.truncated => p.text = text \o piece
       /\ DOMAIN p.calls = 0..(Len(calls) - 1)
  BY <1>1, <1>2, <1>4, <1>5, <1>7
<1>12. KeptOf(p, text \o piece, calls, size + Len(piece))
  BY <1>1, <1>5, <1>6, <1>8, <1>9, <1>10, <1>11 DEF KeptOf
<1>13. SameButPieces(o, p)
  BY <1>4 DEF SameButPieces
<1> QED BY <1>12, <1>13 DEF p

\* Calls with one more of them, or with more arguments in one.
CallFed(calls, more, k, id, arguments) ==
  /\ calls \in Seq(CallBodies) /\ more \in Seq(CallBodies)
  /\ k \in Nat /\ id \in Nat /\ arguments \in Bodies
  /\ k <= Len(calls) /\ Len(more) = IF k < Len(calls) THEN Len(calls) ELSE k + 1
  /\ \A j \in 1..Len(calls) : j # k + 1 => more[j] = calls[j]
  /\ IF k < Len(calls)
     THEN id = NoId /\ more[k + 1].id = calls[k + 1].id /\ more[k + 1].body = calls[k + 1].body \o arguments
     ELSE more[k + 1].id = id /\ more[k + 1].body = arguments

LEMMA FedNew ==
    ASSUME NEW calls \in Seq(CallBodies), NEW id \in Nat, NEW arguments \in Bodies
    PROVE  CallFed(calls, Append(calls, [id |-> id, body |-> arguments]), Len(calls), id, arguments)
<1> DEFINE x == [id |-> id, body |-> arguments]
           more == Append(calls, x)
<1>1. x \in CallBodies /\ x.id = id /\ x.body = arguments
  BY DEF CallBodies
<1> HIDE DEF x
<1>2. /\ Len(calls) \in Nat /\ more \in Seq(CallBodies) /\ Len(more) = Len(calls) + 1
      /\ more[Len(calls) + 1] = x /\ \A k \in 1..Len(calls) : more[k] = calls[k]
  BY <1>1, AppendIs
<1> HIDE DEF more
<1>3. CallFed(calls, more, Len(calls), id, arguments)
  BY <1>1, <1>2 DEF CallFed
<1> QED BY <1>3 DEF x, more

LEMMA FedFurther ==
    ASSUME NEW calls \in Seq(CallBodies), calls # <<>>, NEW arguments \in Bodies
    PROVE  CallFed(calls, [calls EXCEPT ![Len(calls)].body = @ \o arguments], Len(calls) - 1, NoId, arguments)
<1> DEFINE more == [calls EXCEPT ![Len(calls)].body = @ \o arguments]
           n == Len(calls)
<1>1. CallBodies \in {ShownBlocks, CallBodies} /\ NoId \in Nat
  BY DEF NoId
<1>2. /\ more \in Seq(CallBodies) /\ Len(more) = n /\ n \in Nat \ {0}
      /\ calls[n] \in CallBodies
      /\ more[n] = [calls[n] EXCEPT !.body = @ \o arguments]
      /\ \A k \in 1..(n - 1) : more[k] = calls[k]
  BY <1>1, GrowLast
<1> HIDE DEF more
<1>3. more[n].id = calls[n].id /\ more[n].body = calls[n].body \o arguments
  BY <1>2 DEF CallBodies
<1>4. n - 1 \in Nat /\ n - 1 < n /\ (n - 1) + 1 = n
  BY <1>2
<1>5. PICK k \in Nat : k = n - 1
  BY <1>2
<1>6. k < n /\ k <= n /\ k + 1 = n
  BY <1>2, <1>5
<1>7. \A j \in 1..n : j # k + 1 => more[j] = calls[j]
  BY <1>2, <1>6
<1>8. more[k + 1].id = calls[k + 1].id /\ more[k + 1].body = calls[k + 1].body \o arguments
  BY <1>3, <1>6
<1>9. CallFed(calls, more, k, NoId, arguments)
  BY <1>1, <1>2, <1>6, <1>7, <1>8 DEF CallFed
<1> QED BY <1>5, <1>9 DEF more

\* A delta of a tool call, as appendToolCall keeps it.
LEMMA ObservesCall ==
    ASSUME NEW o, NEW text, NEW calls, NEW size, KeptOf(o, text, calls, size),
           NEW k \in Nat, k < MaxBlocks, NEW id, NEW arguments, NEW more, CallFed(calls, more, k, id, arguments)
    PROVE  /\ KeptOf(appendToolCall(o, CallDelta(k, id, arguments)), text, more, size + Len(arguments))
           /\ SameButPieces(o, appendToolCall(o, CallDelta(k, id, arguments)))
<1> DEFINE kept == Kept(o, arguments)
           known == IF k \in DOMAIN o.calls THEN o.calls[k] ELSE [id |-> NoId, body |-> <<>>]
           fed == [id |-> IF known.id = NoId THEN id ELSE known.id, body |-> known.body \o kept]
           p == appendToolCall(o, CallDelta(k, id, arguments))
<1>0. /\ calls \in Seq(CallBodies) /\ more \in Seq(CallBodies)
      /\ id \in Nat /\ arguments \in Bodies
      /\ k <= Len(calls) /\ Len(more) = (IF k < Len(calls) THEN Len(calls) ELSE k + 1)
      /\ \A j \in 1..Len(calls) : j # k + 1 => more[j] = calls[j]
      /\ k < Len(calls) => /\ id = NoId /\ more[k + 1].id = calls[k + 1].id
                           /\ more[k + 1].body = calls[k + 1].body \o arguments
      /\ ~(k < Len(calls)) => more[k + 1].id = id /\ more[k + 1].body = arguments
      /\ Len(calls) \in Nat
  BY DEF CallFed
<1>1. /\ o \in Seen /\ text \in Bodies /\ size \in Nat
      /\ o.captured = (IF size <= MaxContentCapture THEN size ELSE MaxContentCapture)
      /\ (o.truncated <=> size > MaxContentCapture) /\ IsPrefix(o.text, text)
      /\ ~o.truncated => o.text = text
      /\ DOMAIN o.calls = 0..(Len(calls) - 1)
      /\ \A j \in 1..Len(calls) : /\ o.calls[j - 1].id = calls[j].id
                                  /\ IsPrefix(o.calls[j - 1].body, calls[j].body)
                                  /\ ~o.truncated => o.calls[j - 1].body = calls[j].body
      /\ PiecesKept(o) = o.captured
  BY DEF KeptOf
<1>2. /\ kept \in Bodies /\ IsPrefix(kept, arguments) /\ Len(kept) \in Nat /\ Len(arguments) \in Nat
      /\ o.captured + Len(kept) = IF size + Len(arguments) <= MaxContentCapture
                                  THEN size + Len(arguments) ELSE MaxContentCapture
      /\ (o.truncated \/ Len(kept) < Len(arguments)) <=> (size + Len(arguments) > MaxContentCapture)
      /\ (o.truncated \/ Len(kept) < Len(arguments)) \/ kept = arguments
      /\ o.truncated => kept = <<>>
  BY <1>0, <1>1, KeptFacts
<1>3. o.text \in Bodies /\ o.captured \in Nat /\ o.calls \in Partial(CallBodies) /\ o.truncated \in BOOLEAN
  BY <1>1 DEF Seen
<1>4. known \in CallBodies /\ known.id \in Nat /\ known.body \in Bodies
  <2>1. [id |-> NoId, body |-> <<>>] \in CallBodies
    <3>1. <<>> \in Bodies /\ NoId \in Nat
      BY DEF Bodies, NoId
    <3> QED BY <3>1 DEF CallBodies
  <2>2. k \in DOMAIN o.calls => o.calls[k] \in CallBodies
    BY <1>3, PartialFacts
  <2>3. known \in CallBodies
    BY <2>1, <2>2
  <2> HIDE DEF known
  <2> QED BY <2>3 DEF CallBodies
<1>5. k < Len(calls) => known = o.calls[k] /\ known.id = calls[k + 1].id
                        /\ IsPrefix(known.body, calls[k + 1].body)
                        /\ (~o.truncated => known.body = calls[k + 1].body)
  <2> SUFFICES ASSUME k < Len(calls)
               PROVE  known = o.calls[k] /\ known.id = calls[k + 1].id
                      /\ IsPrefix(known.body, calls[k + 1].body)
                      /\ (~o.truncated => known.body = calls[k + 1].body)
    OBVIOUS
  <2>1. k \in DOMAIN o.calls /\ k + 1 \in 1..Len(calls) /\ (k + 1) - 1 = k
    <3>1. DOMAIN o.calls = 0..(Len(calls) - 1) /\ Len(calls) \in Nat
      BY <1>0, <1>1
    <3> QED BY <3>1
  <2>2. known = o.calls[k]
    BY <2>1
  <2> HIDE DEF known
  <2> QED BY <1>1, <2>1, <2>2
<1>6. ~(k < Len(calls)) => known = [id |-> NoId, body |-> <<>>] /\ k = Len(calls) /\ k \notin DOMAIN o.calls
  BY <1>0, <1>1
<1>7. /\ p.text = o.text /\ p.calls = Put(o.calls, k, fed) /\ p.captured = o.captured + Len(kept)
      /\ (p.truncated <=> (o.truncated \/ Len(kept) < Len(arguments)))
      /\ p.usage = o.usage /\ p.completed = o.completed /\ p.output = o.output
      /\ p \in Seen
  <2>1. PICK over \in BOOLEAN : over = (o.truncated \/ Len(kept) < Len(arguments))
    OBVIOUS
  <2>2. p = [o EXCEPT !.captured = o.captured + Len(kept), !.truncated = over, !.calls = Put(o.calls, k, fed)]
    BY <1>1, <2>1 DEF appendToolCall, appendLimitedStreamText, CallDelta, Seen
  <2>3. o.captured + Len(kept) \in Nat
    BY <1>2, <1>3
  <2>4. fed \in CallBodies
    <3>1. known.body \o kept \in Bodies
      BY <1>2, <1>4, PrefixCat
    <3> HIDE DEF known, kept
    <3> QED BY <1>0, <1>4, <3>1 DEF CallBodies
  <2> HIDE DEF fed, kept
  <2>5. Put(o.calls, k, fed) \in Partial(CallBodies)
    <3>1. PutIs(CallBodies, o.calls, k, fed, Put(o.calls, k, fed))
      BY <1>3, <2>4, PartialWith
    <3> QED BY <3>1 DEF PutIs
  <2> HIDE DEF p
  <2> QED BY <1>1, <2>1, <2>2, <2>3, <2>5 DEF Seen
<1>8. fed.id = (IF known.id = NoId THEN id ELSE known.id) /\ fed.body = known.body \o kept
      /\ fed \in CallBodies
  <2>1. known.body \o kept \in Bodies
    BY <1>2, <1>4, PrefixCat
  <2> HIDE DEF known, kept
  <2> QED BY <1>0, <1>4, <2>1 DEF CallBodies
<1> HIDE DEF p, fed, known, kept
<1>9. /\ DOMAIN p.calls = 0..(Len(more) - 1)
      /\ p.calls[k] = fed
      /\ \A j \in DOMAIN o.calls : j # k => p.calls[j] = o.calls[j]
  <2>1. /\ DOMAIN p.calls = DOMAIN o.calls \cup {k}
        /\ p.calls[k] = fed
        /\ \A j \in DOMAIN o.calls : j # k => p.calls[j] = o.calls[j]
    <3>1. o.calls \in Partial(CallBodies) /\ fed \in CallBodies /\ p.calls = Put(o.calls, k, fed)
      BY <1>3, <1>7, <1>8
    <3>2. PutIs(CallBodies, o.calls, k, fed, p.calls)
      BY <3>1, PartialWith
    <3> QED BY <3>2 DEF PutIs
  <2>2. DOMAIN o.calls \cup {k} = 0..(Len(more) - 1)
    BY <1>0, <1>1
  <2> QED BY <2>1, <2>2
<1>10. ~p.truncated => kept = arguments /\ ~o.truncated
  BY <1>2, <1>3, <1>7
<1>11. /\ fed.id = more[k + 1].id
       /\ IsPrefix(fed.body, more[k + 1].body)
       /\ ~p.truncated => fed.body = more[k + 1].body
  <2>1. CASE k < Len(calls)
    <3>1. fed.id = more[k + 1].id
      BY <1>0, <1>5, <1>8, <2>1
    <3>2. calls[k + 1].body \in Bodies
      <4>1. k + 1 \in 1..Len(calls)
        BY <1>0, <2>1
      <4>2. calls[k + 1] \in CallBodies
        BY <1>0, <4>1
      <4> QED BY <4>2 DEF CallBodies
    <3>3. known.body = calls[k + 1].body \/ kept = <<>>
      BY <1>2, <1>3, <1>5, <2>1
    <3>4. IsPrefix(known.body \o kept, calls[k + 1].body \o arguments)
      BY <1>0, <1>2, <1>4, <1>5, <2>1, <3>2, <3>3, PrefixKept
    <3>5. ~p.truncated => known.body \o kept = calls[k + 1].body \o arguments
      BY <1>5, <1>10, <2>1
    <3> QED BY <1>0, <1>8, <2>1, <3>1, <3>4, <3>5
  <2>2. CASE ~(k < Len(calls))
    <3>1. known.id = NoId /\ known.body = <<>>
      BY <1>6, <2>2
    <3>2. fed.id = id /\ fed.body = kept
      BY <1>2, <1>8, <3>1, CatEmpty
    <3> QED BY <1>0, <1>2, <1>10, <2>2, <3>2
  <2> QED BY <2>1, <2>2
<1>12. \A j \in 1..Len(more) : /\ p.calls[j - 1].id = more[j].id
                               /\ IsPrefix(p.calls[j - 1].body, more[j].body)
                               /\ ~p.truncated => p.calls[j - 1].body = more[j].body
  <2> SUFFICES ASSUME NEW j \in 1..Len(more)
               PROVE  /\ p.calls[j - 1].id = more[j].id
                      /\ IsPrefix(p.calls[j - 1].body, more[j].body)
                      /\ ~p.truncated => p.calls[j - 1].body = more[j].body
    OBVIOUS
  <2>1. CASE j = k + 1
    <3>1. p.calls[j - 1] = fed
      BY <1>9, <2>1
    <3> QED BY <1>11, <2>1, <3>1
  <2>2. CASE j # k + 1
    <3>1. j \in 1..Len(calls) /\ j - 1 # k /\ j - 1 \in DOMAIN o.calls
      BY <1>0, <1>1, <2>2
    <3>2. p.calls[j - 1] = o.calls[j - 1] /\ more[j] = calls[j]
      BY <1>0, <1>9, <2>2, <3>1
    <3>3. /\ o.calls[j - 1].id = calls[j].id
          /\ IsPrefix(o.calls[j - 1].body, calls[j].body)
          /\ ~o.truncated => o.calls[j - 1].body = calls[j].body
      BY <1>1, <3>1
    <3> QED BY <1>10, <3>2, <3>3
  <2> QED BY <2>1, <2>2
<1>13. PiecesKept(p) = p.captured
  <2>1. PICK n \in Nat : n = Len(kept)
    BY <1>2
  <2>2. PICK m \in Nat : m = 0
    OBVIOUS
  <2>3. Len(p.text) = Len(o.text) + m
    <3>1. Len(o.text) \in Nat
      BY <1>3 DEF Bodies
    <3> QED BY <1>7, <2>2, <3>1
  <2>4. \A j \in Nat : CallSize(p, j) = CallSize(o, j) + (IF j = k THEN n ELSE 0)
    <3> SUFFICES ASSUME NEW j \in Nat PROVE CallSize(p, j) = CallSize(o, j) + (IF j = k THEN n ELSE 0)
      OBVIOUS
    <3>1. CallSize(o, j) \in Nat
      BY <1>1, EntrySizes
    <3>2. CASE j = k
      <4>1. CallSize(p, j) = Len(fed.body)
        BY <1>0, <1>9, <3>2 DEF CallSize
      <4>2. CallSize(o, j) = Len(known.body)
        <5>1. k < Len(calls) => k \in DOMAIN o.calls
          BY <1>0, <1>1
        <5>2. Len(<<>>) = 0
          OBVIOUS
        <5> QED BY <1>5, <1>6, <3>2, <5>1, <5>2 DEF CallSize
      <4>3. Len(fed.body) = Len(known.body) + Len(kept)
        BY <1>2, <1>4, <1>8, PrefixCat
      <4> QED BY <2>1, <3>2, <4>1, <4>2, <4>3
    <3>3. CASE j # k
      <4>1. (j \in DOMAIN p.calls) <=> (j \in DOMAIN o.calls)
        BY <1>0, <1>1, <1>9, <3>3
      <4>2. CallSize(p, j) = CallSize(o, j)
        BY <1>9, <3>3, <4>1 DEF CallSize
      <4> QED BY <3>1, <3>3, <4>2
    <3> QED BY <3>2, <3>3
  <2>5. Len(o.text) \in Nat /\ \A j \in Nat : CallSize(o, j) \in Nat
    BY <1>1, EntrySizes
  <2>6. LongerBy(o, p, m, n, k)
    BY <2>3, <2>4, <2>5 DEF LongerBy
  <2>7. PiecesKept(o) \in Nat /\ PiecesKept(p) = PiecesKept(o) + m + n
    BY <2>6, PiecesDiffer
  <2> QED BY <1>1, <1>3, <1>7, <2>1, <2>2, <2>7
<1>14. /\ size + Len(arguments) \in Nat
       /\ p.captured = (IF size + Len(arguments) <= MaxContentCapture THEN size + Len(arguments)
                        ELSE MaxContentCapture)
       /\ (p.truncated <=> size + Len(arguments) > MaxContentCapture)
       /\ IsPrefix(p.text, text)
       /\ ~p.truncated => p.text = text
  BY <1>1, <1>2, <1>7, <1>10
<1>15. KeptOf(p, text, more, size + Len(arguments))
  BY <1>0, <1>1, <1>7, <1>9, <1>12, <1>13, <1>14 DEF KeptOf
<1>16. SameButPieces(o, p)
  BY <1>7 DEF SameButPieces
<1> QED BY <1>15, <1>16 DEF p

-----------------------------------------------------------------------------
(* What the events of a chat stream say.  A stream has told an answer, the    *)
(* reason of its stop, its usage, and whether it has ended.                   *)

\* The reasons of a stop, in the words of the four protocols.
Words == {Unset, "end_turn", "max_tokens", "tool_use", "stop", "length", "tool_calls", "completed"}
CallDeltas == [index: Nat, id: Nat, arguments: Bodies]
Chunks == [type: {"chunk"}, reasoning: Bodies, content: Bodies, calls: Seq(CallDeltas), finish: Words,
           usage: Usages]
Told == [answer: Answers, stop: Words, usage: Usages, ended: BOOLEAN]

SaysNothing(e, a, b) == e.reasoning = <<>> /\ e.content = <<>> /\ e.calls = <<>> /\ b = a
SaysThought(e, a, b) ==
  /\ e.reasoning # <<>> /\ e.content = <<>> /\ e.calls = <<>>
  /\ b = Said(a, Block("thinking", NoId, e.reasoning))
SaysText(e, a, b) ==
  /\ e.reasoning = <<>> /\ e.content # <<>> /\ e.calls = <<>>
  /\ b = Said(a, Block("text", NoId, e.content))
SaysCall(e, a, b) ==
  /\ e.reasoning = <<>> /\ e.content = <<>>
  /\ Len(a.calls) < MaxBlocks
  /\ \E id \in Nat \ {NoId}, arguments \in Bodies :
       /\ e.calls = <<CallDelta(Len(a.calls), id, arguments)>>
       /\ b = Said(a, Block("tool", id, arguments))
SaysMore(e, a, b) ==
  /\ e.reasoning = <<>> /\ e.content = <<>>
  /\ a.calls # <<>> /\ Len(a.calls) <= MaxBlocks
  /\ a.shown # <<>> /\ Last(a.shown).type = "tool"
  /\ \E arguments \in Bodies :
       /\ arguments # <<>>
       /\ e.calls = <<CallDelta(Len(a.calls) - 1, NoId, arguments)>>
       /\ b = Further(a, arguments)

ChunkSays(e, a, b) ==
  SaysNothing(e, a, b) \/ SaysThought(e, a, b) \/ SaysText(e, a, b) \/ SaysCall(e, a, b) \/ SaysMore(e, a, b)

\* A chunk takes what is told from t to u.
SaysChunk(e, t, u) ==
  /\ e \in Chunks /\ ~t.ended /\ ~u.ended
  /\ ChunkSays(e, t.answer, u.answer)
  /\ t.stop # Unset => e.finish = Unset /\ u.answer = t.answer
  /\ u.stop = IF e.finish = Unset THEN t.stop ELSE e.finish
  /\ u.usage = IF e.usage = NoUsage THEN t.usage ELSE e.usage

SaysEnd(e, t, u) ==
  /\ e \in {Done, [type |-> "EOF"]}
  /\ u.ended /\ u.answer = t.answer /\ u.stop = t.stop /\ u.usage = t.usage
  /\ e = Done => ~t.ended

Says(e, t, u) == SaysChunk(e, t, u) \/ SaysEnd(e, t, u)

LEMMA ObserveFirst ==
    ASSUME NEW o, NEW e, e.type = "chunk", e.calls = <<>>
    PROVE  Observe(o, e) = appendText(CacheUsage(o, e.usage), e.content)
<1> DEFINE A == appendText(CacheUsage(o, e.usage), e.content)
           Step(g, n) == IF n = 0 THEN A ELSE appendToolCall(g[n - 1], e.calls[n])
<1>1. Len(e.calls) = 0
  OBVIOUS
<1>2. PICK after : after = CHOOSE g : g = [n \in 0..Len(e.calls) |-> Step(g, n)]
  OBVIOUS
<1>3. Observe(o, e) = after[Len(e.calls)]
  BY <1>2 DEF Observe
<1> HIDE DEF A
<1>4. \E g : g = [n \in 0..0 |-> Step(g, n)]
  <2> DEFINE h == [n \in 0..0 |-> A]
  <2>1. h = [n \in 0..0 |-> Step(h, n)]
    OBVIOUS
  <2> QED BY <2>1
<1>5. after = [n \in 0..0 |-> Step(after, n)]
  <2> HIDE DEF Step
  <2>1. 0..Len(e.calls) = 0..0
    BY <1>1
  <2> QED BY <1>2, <1>4, <2>1
<1>6. after[0] = A
  BY <1>5
<1> QED BY <1>1, <1>3, <1>6 DEF A

LEMMA ObserveSecond ==
    ASSUME NEW o, NEW e, NEW delta, e.type = "chunk", e.calls = <<delta>>
    PROVE  Observe(o, e) = appendToolCall(appendText(CacheUsage(o, e.usage), e.content), delta)
<1> DEFINE A == appendText(CacheUsage(o, e.usage), e.content)
           Step(g, n) == IF n = 0 THEN A ELSE appendToolCall(g[n - 1], e.calls[n])
<1>1. Len(e.calls) = 1 /\ e.calls[1] = delta
  OBVIOUS
<1>2. PICK after : after = CHOOSE g : g = [n \in 0..Len(e.calls) |-> Step(g, n)]
  OBVIOUS
<1>3. Observe(o, e) = after[Len(e.calls)]
  BY <1>2 DEF Observe
<1> HIDE DEF A
<1>4. \E g : g = [n \in 0..1 |-> Step(g, n)]
  <2>1. PICK B : B = appendToolCall(A, delta)
    OBVIOUS
  <2> DEFINE h == [n \in 0..1 |-> IF n = 0 THEN A ELSE B]
  <2>2. h[0] = A
    OBVIOUS
  <2>3. Step(h, 0) = A /\ Step(h, 1) = B
    <3> HIDE DEF h
    <3> QED BY <1>1, <2>1, <2>2
  <2>4. \A n \in 0..1 : h[n] = Step(h, n)
    <3>1. \A n \in 0..1 : n = 0 \/ n = 1
      OBVIOUS
    <3>2. h[1] = B
      OBVIOUS
    <3> HIDE DEF Step, h
    <3> QED BY <2>2, <2>3, <3>1, <3>2
  <2>5. h = [n \in 0..1 |-> h[n]]
    OBVIOUS
  <2> HIDE DEF Step, h
  <2> QED BY <2>4, <2>5
<1>5. after = [n \in 0..1 |-> Step(after, n)]
  <2> HIDE DEF Step
  <2>1. 0..Len(e.calls) = 0..1
    BY <1>1
  <2> QED BY <1>2, <1>4, <2>1
<1>6. after[0] = A /\ after[1] = Step(after, 1)
  <2>1. after[1] = Step(after, 1)
    <3> HIDE DEF Step
    <3> QED BY <1>5
  <2>2. after[0] = Step(after, 0)
    <3> HIDE DEF Step
    <3> QED BY <1>5
  <2> QED BY <2>1, <2>2
<1>7. after[1] = appendToolCall(A, delta)
  BY <1>1, <1>6
<1> QED BY <1>1, <1>3, <1>7 DEF A

\* The observers have seen what is told.
ObserverTold(o, t) ==
  KeptOf(o, t.answer.text, t.answer.calls, t.answer.size) /\ o.usage = t.usage

LEMMA CacheKeeps ==
    ASSUME NEW o, NEW text, NEW calls, NEW size, KeptOf(o, text, calls, size), NEW usage \in Usages
    PROVE  /\ KeptOf(CacheUsage(o, usage), text, calls, size)
           /\ CacheUsage(o, usage).usage = IF usage = NoUsage THEN o.usage ELSE usage
<1>1. CASE usage = NoUsage
  BY <1>1 DEF CacheUsage
<1>2. CASE usage # NoUsage
  <2> DEFINE p == [o EXCEPT !.usage = usage]
  <2>1. o \in Seen
    BY DEF KeptOf
  <2>2. /\ p \in Seen /\ p.usage = usage /\ p.text = o.text /\ p.calls = o.calls
        /\ p.captured = o.captured /\ p.truncated = o.truncated
    BY <2>1 DEF Seen
  <2> HIDE DEF p
  <2>3. PiecesKept(p) = PiecesKept(o)
    <3>1. PICK n \in Nat : n = 0
      OBVIOUS
    <3>2. Len(o.text) \in Nat /\ \A k \in Nat : CallSize(o, k) \in Nat
      BY <2>1, EntrySizes
    <3>3. \A k \in Nat : CallSize(p, k) = CallSize(o, k)
      BY <2>2 DEF CallSize
    <3>4. \A k \in Nat : CallSize(p, k) = CallSize(o, k) + (IF k = n THEN n ELSE 0)
      BY <3>1, <3>2, <3>3
    <3>5. LongerBy(o, p, n, n, n)
      BY <2>2, <3>1, <3>2, <3>4 DEF LongerBy
    <3>6. PiecesKept(o) \in Nat /\ PiecesKept(p) = PiecesKept(o) + n + n
      BY <3>5, PiecesDiffer
    <3> QED BY <3>1, <3>6
  <2>4. KeptOf(p, text, calls, size)
    BY <2>2, <2>3 DEF KeptOf
  <2>5. CacheUsage(o, usage) = p
    BY <1>2 DEF CacheUsage, p
  <2> QED BY <1>2, <2>2, <2>4, <2>5
<1> QED BY <1>1, <1>2

LEMMA ObserverSays ==
    ASSUME NEW o, NEW e, NEW t \in Told, NEW u \in Told, ObserverTold(o, t), Says(e, t, u)
    PROVE  ObserverTold(Observe(o, e), u)
<1> DEFINE a == t.answer
           b == u.answer
<1>0. NoId \in Nat
  BY DEF NoId
<1>1. a \in Answers /\ b \in Answers /\ a.calls \in Seq(CallBodies) /\ a.size \in Nat /\ a.text \in Bodies
  BY DEF Told, Answers
<1>2. KeptOf(o, a.text, a.calls, a.size) /\ o.usage = t.usage
  BY DEF ObserverTold
<1>3. CASE SaysEnd(e, t, u)
  <2>1. Observe(o, e) = o
    BY <1>3 DEF SaysEnd, Observe, Done
  <2> QED BY <1>2, <1>3, <2>1 DEF SaysEnd, ObserverTold
<1>4. CASE SaysChunk(e, t, u)
  <2>1. /\ e \in Chunks /\ ChunkSays(e, a, b)
        /\ u.usage = IF e.usage = NoUsage THEN t.usage ELSE e.usage
    BY <1>4 DEF SaysChunk
  <2>2. e.type = "chunk" /\ e.usage \in Usages /\ e.content \in Bodies /\ e.reasoning \in Bodies
    BY <2>1 DEF Chunks
  <2>3. PICK c : c = CacheUsage(o, e.usage)
    OBVIOUS
  <2>4. KeptOf(c, a.text, a.calls, a.size) /\ c.usage = u.usage
    BY <1>2, <2>1, <2>2, <2>3, CacheKeeps
  <2>5. PICK p : p = appendText(c, e.content)
    OBVIOUS
  <2>6. KeptOf(p, a.text \o e.content, a.calls, a.size + Len(e.content)) /\ SameButPieces(c, p)
    BY <2>2, <2>4, <2>5, ObservesText
  <2>7. p.usage = u.usage
    BY <2>4, <2>6 DEF SameButPieces
  <2>8. CASE e.content = <<>>
    <3>1. a.text \o e.content = a.text /\ a.size + Len(e.content) = a.size
      <4>1. Len(<<>>) = 0
        OBVIOUS
      <4> QED BY <1>1, <2>8, <4>1, CatEmpty
    <3>2. KeptOf(p, a.text, a.calls, a.size)
      BY <2>6, <3>1
    <3>3. CASE SaysNothing(e, a, b)
      <4>1. Observe(o, e) = p
        BY <2>2, <2>3, <2>5, <3>3, ObserveFirst DEF SaysNothing
      <4> QED BY <2>7, <3>2, <3>3, <4>1 DEF SaysNothing, ObserverTold
    <3>4. CASE SaysThought(e, a, b)
      <4>1. Observe(o, e) = p
        BY <2>2, <2>3, <2>5, <3>4, ObserveFirst DEF SaysThought
      <4>2. b = Said(a, Block("thinking", NoId, e.reasoning))
        BY <3>4 DEF SaysThought
      <4>3. b.text = a.text /\ b.calls = a.calls /\ b.size = a.size
        <5>1. PICK id \in Nat, piece \in Bodies : id = NoId /\ piece = e.reasoning
          BY <1>0, <2>2
        <5>2. b = Said(a, Block("thinking", id, piece))
          BY <4>2, <5>1
        <5>3. a \in Answers
          BY <1>1
        <5> HIDE DEF a, b
        <5>4. /\ Said(a, Block("thinking", id, piece)).text = a.text
              /\ Said(a, Block("thinking", id, piece)).calls = a.calls
              /\ Said(a, Block("thinking", id, piece)).size = a.size
          BY <5>3, SaidThought
        <5> QED BY <5>2, <5>4
      <4> QED BY <2>7, <3>2, <4>1, <4>3 DEF ObserverTold
    <3>5. CASE SaysCall(e, a, b)
      <4>1. PICK id \in Nat \ {NoId} : \E arguments \in Bodies :
               /\ e.calls = <<CallDelta(Len(a.calls), id, arguments)>>
               /\ b = Said(a, Block("tool", id, arguments))
        BY <3>5 DEF SaysCall
      <4>2. PICK arguments \in Bodies :
               /\ e.calls = <<CallDelta(Len(a.calls), id, arguments)>>
               /\ b = Said(a, Block("tool", id, arguments))
        BY <4>1
      <4>3. Observe(o, e) = appendToolCall(p, CallDelta(Len(a.calls), id, arguments))
        BY <2>2, <2>3, <2>5, <4>2, ObserveSecond
      <4>4. PICK more : more = Append(a.calls, [id |-> id, body |-> arguments])
        OBVIOUS
      <4>5. CallFed(a.calls, more, Len(a.calls), id, arguments)
        BY <1>1, <4>1, <4>4, FedNew
      <4>6. Len(a.calls) \in Nat /\ Len(a.calls) < MaxBlocks
        BY <1>1, <3>5 DEF SaysCall
      <4>7. /\ KeptOf(Observe(o, e), a.text, more, a.size + Len(arguments))
            /\ SameButPieces(p, Observe(o, e))
        BY <3>2, <4>3, <4>5, <4>6, ObservesCall
      <4>8. b.text = a.text /\ b.calls = more /\ b.size = a.size + Len(arguments)
        BY SMTT(30), <1>1, <4>1, <4>2, <4>4, SaidTool
      <4> QED BY <2>7, <4>7, <4>8 DEF ObserverTold, SameButPieces
    <3>6. CASE SaysMore(e, a, b)
      <4>1. PICK arguments \in Bodies :
               /\ e.calls = <<CallDelta(Len(a.calls) - 1, NoId, arguments)>>
               /\ b = Further(a, arguments)
        BY <3>6 DEF SaysMore
      <4>2. a.calls # <<>> /\ a.shown # <<>> /\ Len(a.calls) <= MaxBlocks
        BY <3>6 DEF SaysMore
      <4>3. PICK k \in Nat : k = Len(a.calls) - 1
        <5>1. Len(a.calls) \in Nat \ {0}
          BY <1>1, <4>2
        <5>2. Len(a.calls) - 1 \in Nat
          BY <5>1
        <5> QED BY <5>2
      <4>4. Observe(o, e) = appendToolCall(p, CallDelta(k, NoId, arguments))
        BY <2>2, <2>3, <2>5, <4>1, <4>3, ObserveSecond
      <4>5. PICK more : more = [a.calls EXCEPT ![Len(a.calls)].body = @ \o arguments]
        OBVIOUS
      <4>6. CallFed(a.calls, more, k, NoId, arguments)
        BY <1>1, <4>2, <4>3, <4>5, FedFurther
      <4>7. k < MaxBlocks
        BY <1>1, <4>2, <4>3, StreamsAssumption
      <4>8. /\ KeptOf(Observe(o, e), a.text, more, a.size + Len(arguments))
            /\ SameButPieces(p, Observe(o, e))
        BY <3>2, <4>4, <4>6, <4>7, ObservesCall
      <4>9. /\ Further(a, arguments).text = a.text
            /\ Further(a, arguments).calls = [a.calls EXCEPT ![Len(a.calls)].body = @ \o arguments]
            /\ Further(a, arguments).size = a.size + Len(arguments)
        BY <1>1, <4>2, FurtherFacts
      <4>10. b.text = a.text /\ b.calls = more /\ b.size = a.size + Len(arguments)
        BY <4>1, <4>5, <4>9
      <4> QED BY <2>7, <4>8, <4>10 DEF ObserverTold, SameButPieces
    <3>7. ~SaysText(e, a, b)
      BY <2>8 DEF SaysText
    <3> QED BY <2>1, <3>3, <3>4, <3>5, <3>6, <3>7 DEF ChunkSays
  <2>9. CASE e.content # <<>>
    <3>1. SaysText(e, a, b)
      BY <2>1, <2>9 DEF ChunkSays, SaysNothing, SaysThought, SaysCall, SaysMore
    <3>2. Observe(o, e) = p
      BY <2>2, <2>3, <2>5, <3>1, ObserveFirst DEF SaysText
    <3>3. b = Said(a, Block("text", NoId, e.content))
      BY <3>1 DEF SaysText
    <3>4. b.text = a.text \o e.content /\ b.calls = a.calls /\ b.size = a.size + Len(e.content)
      <4>1. PICK id \in Nat, piece \in Bodies : id = NoId /\ piece = e.content
        BY <1>0, <2>2
      <4>2. b = Said(a, Block("text", id, piece))
        BY <3>3, <4>1
      <4>3. a \in Answers
        BY <1>1
      <4> HIDE DEF a, b
      <4>4. /\ Said(a, Block("text", id, piece)).text = a.text \o piece
            /\ Said(a, Block("text", id, piece)).calls = a.calls
            /\ Said(a, Block("text", id, piece)).size = a.size + Len(piece)
        BY <4>3, SaidText
      <4> QED BY <4>1, <4>2, <4>4
    <3> QED BY <2>6, <2>7, <3>2, <3>4 DEF ObserverTold
  <2> QED BY <2>8, <2>9
<1> QED BY <1>3, <1>4 DEF Says
-----------------------------------------------------------------------------
(* The client of a chat completion. *)

Items == [item: {"message", "function_call"}, id: Nat, announced: Bodies, body: Bodies, done: BOOLEAN]
Clients == [begun: BOOLEAN, text: Bodies, blocks: Seq(ShownBlocks), calls: Seq(Nat), items: Seq(Items),
            open: BOOLEAN, stop: Words, usage: Usages, ended: BOOLEAN, broken: BOOLEAN]

\* Nothing that a client has understood differs but its text and its blocks.
TextOf(c, p, text, blocks) ==
  /\ p \in Clients /\ p.text = text /\ p.blocks = blocks
  /\ p.begun = c.begun /\ p.calls = c.calls /\ p.items = c.items /\ p.open = c.open /\ p.stop = c.stop
  /\ p.usage = c.usage /\ p.ended = c.ended /\ p.broken = c.broken

LEMMA ExpectMet ==
    ASSUME NEW c \in Clients, NEW condition, condition, ~c.ended, ~c.broken
    PROVE  Expect(c, condition) = c
<1>1. PICK b \in BOOLEAN : b = (c.broken \/ ~condition \/ c.ended)
  OBVIOUS
<1>2. Expect(c, condition) = [c EXCEPT !.broken = b]
  BY <1>1 DEF Expect
<1>3. b = FALSE /\ c.broken = FALSE
  BY <1>1 DEF Clients
<1> QED BY <1>2, <1>3 DEF Clients

LEMMA ReadsText ==
    ASSUME NEW c \in Clients, NEW type \in BlockTypes, NEW piece \in Bodies
    PROVE  TextOf(c, TextRead(c, type, piece), IF type = "text" THEN c.text \o piece ELSE c.text, c.blocks)
<1>1. c.text \o piece \in Bodies
  BY DEF Clients, Bodies
<1>2. CASE type = "text"
  <2>1. PICK p : p = [c EXCEPT !.text = c.text \o piece]
    OBVIOUS
  <2>2. TextRead(c, type, piece) = p
    BY <1>2, <2>1 DEF TextRead, Clients
  <2>3. p \in Clients
    BY <1>1, <2>1 DEF Clients
  <2>4. /\ p.text = c.text \o piece /\ p.blocks = c.blocks
        /\ p.begun = c.begun /\ p.calls = c.calls /\ p.items = c.items /\ p.open = c.open
        /\ p.stop = c.stop /\ p.usage = c.usage /\ p.ended = c.ended /\ p.broken = c.broken
    BY <2>1 DEF Clients
  <2> QED BY <1>2, <2>2, <2>3, <2>4 DEF TextOf
<1>3. CASE type # "text"
  BY <1>3 DEF TextRead, TextOf
<1> QED BY <1>2, <1>3

\* A client with other blocks.
LEMMA OtherBlocks ==
    ASSUME NEW c \in Clients, NEW d \in Clients, NEW text, TextOf(c, d, text, c.blocks),
           NEW blocks \in Seq(ShownBlocks)
    PROVE  TextOf(c, [d EXCEPT !.blocks = blocks], text, blocks)
<1> DEFINE p == [d EXCEPT !.blocks = blocks]
<1>1. p \in Clients
  BY DEF Clients
<1>2. /\ p.blocks = blocks /\ p.text = d.text
      /\ p.begun = d.begun /\ p.calls = d.calls /\ p.items = d.items /\ p.open = d.open
      /\ p.stop = d.stop /\ p.usage = d.usage /\ p.ended = d.ended /\ p.broken = d.broken
  BY DEF Clients
<1> HIDE DEF p
<1>3. TextOf(c, p, text, blocks)
  BY <1>1, <1>2 DEF TextOf
<1> QED BY <1>3 DEF p

LEMMA ReadsChatText ==
    ASSUME NEW c \in Clients, NEW type \in {"thinking", "text"}, NEW piece \in Bodies
    PROVE  TextOf(c, ChatText(c, type, piece),
                  IF type = "text" THEN c.text \o piece ELSE c.text,
                  IF piece = <<>> THEN c.blocks ELSE Shown(c.blocks, Block(type, NoId, piece)))
<1> DEFINE text == IF type = "text" THEN c.text \o piece ELSE c.text
           w == c.blocks
<1>1. w \in Seq(ShownBlocks) /\ c.text \in Bodies /\ type \in BlockTypes /\ type # "tool"
  BY DEF Clients, BlockTypes
<1>2. PICK d : d = TextRead(c, type, piece)
  OBVIOUS
<1>3. TextOf(c, d, text, w)
  BY <1>1, <1>2, ReadsText
<1>4. d \in Clients /\ d.blocks = w
  BY <1>3 DEF TextOf
<1>5. PICK b : b = Block(type, NoId, piece)
  OBVIOUS
<1>6. b \in ShownBlocks /\ b.type = type /\ b.id = NoId /\ b.body = piece
  BY <1>1, <1>5 DEF Block, ShownBlocks, NoId
<1>7. CASE piece = <<>>
  <2>1. c.text \o piece = c.text
    BY <1>1, <1>7, CatEmpty
  <2>2. text = c.text
    BY <2>1
  <2>3. ChatText(c, type, piece) = c
    BY <1>7 DEF ChatText
  <2>4. TextOf(c, c, c.text, c.blocks)
    BY DEF TextOf
  <2> QED BY <1>7, <2>2, <2>3, <2>4
<1>8. CASE piece # <<>>
  <2>1. CASE w # <<>> /\ Last(w).type = type
    <3>1. PICK v : v = [w EXCEPT ![Len(w)].body = @ \o piece]
      OBVIOUS
    <3>2. v \in Seq(ShownBlocks)
      <4>1. ShownBlocks \in {ShownBlocks, CallBodies}
        OBVIOUS
      <4> QED BY <1>1, <2>1, <3>1, <4>1, GrowLast
    <3>3. ChatText(c, type, piece) = [d EXCEPT !.blocks = v]
      <4>1. ChatText(c, type, piece) = [d EXCEPT !.blocks[Len(w)].body = @ \o piece]
        BY <1>2, <1>8, <2>1 DEF ChatText
      <4>2. [d EXCEPT !.blocks[Len(w)].body = @ \o piece]
              = [d EXCEPT !.blocks = [d.blocks EXCEPT ![Len(w)].body = @ \o piece]]
        BY <1>4 DEF Clients
      <4> QED BY <1>4, <3>1, <4>1, <4>2
    <3>4. Shown(w, b) = v
      BY <1>1, <1>6, <1>8, <2>1, <3>1 DEF Shown
    <3>5. TextOf(c, [d EXCEPT !.blocks = v], text, v)
      BY <1>3, <1>4, <3>2, OtherBlocks
    <3> QED BY <1>5, <1>8, <3>3, <3>4, <3>5
  <2>2. CASE ~(w # <<>> /\ Last(w).type = type)
    <3>1. PICK v : v = Append(w, b)
      OBVIOUS
    <3>2. v \in Seq(ShownBlocks)
      BY <1>1, <1>6, <3>1
    <3>3. ChatText(c, type, piece) = [d EXCEPT !.blocks = v]
      <4>1. ChatText(c, type, piece) = [d EXCEPT !.blocks = Append(@, b)]
        BY <1>2, <1>5, <1>8, <2>2 DEF ChatText
      <4> QED BY <1>4, <3>1, <4>1 DEF Clients
    <3>4. Shown(w, b) = v
      <4>1. Block(b.type, b.id, b.body) = b
        BY <1>5, <1>6
      <4> QED BY <1>1, <1>6, <1>8, <2>2, <3>1, <4>1 DEF Shown
    <3>5. TextOf(c, [d EXCEPT !.blocks = v], text, v)
      BY <1>3, <1>4, <3>2, OtherBlocks
    <3> QED BY <1>5, <1>8, <3>3, <3>4, <3>5
  <2> QED BY <2>1, <2>2
<1> QED BY <1>7, <1>8

\* The client of a chat completion has read what is told.
ChatTold(c, t) ==
  /\ c \in Clients /\ ~c.broken
  /\ c.blocks = t.answer.shown /\ c.text = t.answer.text
  /\ Len(c.calls) = Len(t.answer.calls)
  /\ t.answer.calls # <<>> /\ t.answer.shown # <<>> /\ Last(t.answer.shown).type = "tool"
       => c.calls[Len(c.calls)] = Len(c.blocks)
  /\ c.stop = t.stop /\ c.usage = t.usage /\ c.ended = t.ended

LEMMA ReadsNewCall ==
    ASSUME NEW c \in Clients, ~c.broken, ~c.ended, NEW id \in Nat \ {NoId}, NEW arguments \in Bodies
    PROVE  LET p == ChatCall(c, CallDelta(Len(c.calls), id, arguments)) IN
           /\ TextOf([c EXCEPT !.calls = Append(@, Len(c.blocks) + 1)], p, c.text,
                     Append(c.blocks, Block("tool", id, arguments)))
           /\ Len(p.calls) = Len(c.calls) + 1 /\ p.calls[Len(p.calls)] = Len(p.blocks)
<1> DEFINE b == Block("tool", id, arguments)
           d == [c EXCEPT !.blocks = Append(@, b), !.calls = Append(@, Len(c.blocks) + 1)]
           p == ChatCall(c, CallDelta(Len(c.calls), id, arguments))
<1>1. /\ c.calls \in Seq(Nat) /\ c.blocks \in Seq(ShownBlocks)
      /\ Len(c.calls) \in Nat /\ Len(c.blocks) \in Nat
  BY DEF Clients
<1>2. b \in ShownBlocks
  BY DEF Block, ShownBlocks, BlockTypes
<1>3. PICK delta : delta = CallDelta(Len(c.calls), id, arguments)
  OBVIOUS
<1>4. delta.index = Len(c.calls) /\ delta.id = id /\ delta.arguments = arguments
  BY <1>3 DEF CallDelta
<1>5. ~(delta.index < Len(c.calls)) /\ delta.id # NoId
  BY <1>1, <1>4
<1>6. Expect(c, delta.id # NoId /\ delta.index = Len(c.calls)) = c
  BY <1>4, <1>5, ExpectMet
<1>7. ChatCall(c, delta) = d
  BY <1>4, <1>5, <1>6 DEF ChatCall
<1>8. PICK blocks, calls : blocks = Append(c.blocks, b) /\ calls = Append(c.calls, Len(c.blocks) + 1)
  OBVIOUS
<1>9. /\ blocks \in Seq(ShownBlocks) /\ calls \in Seq(Nat)
      /\ Len(calls) = Len(c.calls) + 1 /\ calls[Len(calls)] = Len(blocks)
  <2> HIDE DEF b
  <2>1. blocks \in Seq(ShownBlocks) /\ Len(blocks) = Len(c.blocks) + 1
    BY <1>1, <1>2, <1>8
  <2>2. /\ calls \in Seq(Nat) /\ Len(calls) = Len(c.calls) + 1
        /\ calls[Len(c.calls) + 1] = Len(c.blocks) + 1
    BY <1>1, <1>8
  <2> QED BY <2>1, <2>2
<1>10. d = [c EXCEPT !.blocks = blocks, !.calls = calls]
  BY <1>8
<1> HIDE DEF b, d
<1>11. PICK k : k = [c EXCEPT !.calls = calls]
  OBVIOUS
<1>12. k = [c EXCEPT !.calls = Append(@, Len(c.blocks) + 1)]
  BY <1>8, <1>11
<1>13. /\ d \in Clients /\ d.blocks = blocks /\ d.calls = calls /\ d.text = c.text
       /\ d.begun = k.begun /\ d.calls = k.calls /\ d.items = k.items /\ d.open = k.open /\ d.stop = k.stop
       /\ d.usage = k.usage /\ d.ended = k.ended /\ d.broken = k.broken
  BY <1>9, <1>10, <1>11 DEF Clients
<1>14. TextOf(k, d, c.text, blocks)
  BY <1>13 DEF TextOf
<1>15. p = d
  BY <1>3, <1>7
<1> HIDE DEF p
<1>16. /\ TextOf(k, p, c.text, blocks)
       /\ Len(p.calls) = Len(c.calls) + 1 /\ p.calls[Len(p.calls)] = Len(p.blocks)
  BY <1>9, <1>13, <1>14, <1>15
<1> QED BY <1>8, <1>12, <1>16 DEF b, p

LEMMA ReadsMoreOfCall ==
    ASSUME NEW c \in Clients, ~c.broken, ~c.ended, c.calls # <<>>, c.blocks # <<>>,
           c.calls[Len(c.calls)] = Len(c.blocks), NEW arguments \in Bodies
    PROVE  TextOf(c, ChatCall(c, CallDelta(Len(c.calls) - 1, NoId, arguments)), c.text,
                  [c.blocks EXCEPT ![Len(c.blocks)].body = @ \o arguments])
<1>1. /\ c.calls \in Seq(Nat) /\ c.blocks \in Seq(ShownBlocks)
      /\ Len(c.calls) \in Nat \ {0} /\ Len(c.blocks) \in Nat \ {0}
  BY DEF Clients
<1>2. PICK delta : delta = CallDelta(Len(c.calls) - 1, NoId, arguments)
  OBVIOUS
<1>3. delta.index = Len(c.calls) - 1 /\ delta.id = NoId /\ delta.arguments = arguments
  BY <1>2 DEF CallDelta
<1>4. delta.index < Len(c.calls) /\ delta.index + 1 = Len(c.calls)
  BY <1>1, <1>3
<1>5. Expect(c, delta.id = NoId) = c
  BY <1>3, ExpectMet
<1>6. PICK n : n = Len(c.blocks)
  OBVIOUS
<1>7. c.calls[delta.index + 1] = n
  BY <1>4, <1>6
<1>8. ChatCall(c, delta) = [c EXCEPT !.blocks[n].body = @ \o arguments]
  BY <1>3, <1>4, <1>5, <1>7 DEF ChatCall
<1>9. PICK v : v = [c.blocks EXCEPT ![n].body = @ \o arguments]
  OBVIOUS
<1>10. v \in Seq(ShownBlocks)
  <2>1. ShownBlocks \in {ShownBlocks, CallBodies}
    OBVIOUS
  <2> QED BY <1>1, <1>6, <1>9, <2>1, GrowLast
<1>11. ChatCall(c, delta) = [c EXCEPT !.blocks = v]
  BY <1>8, <1>9 DEF Clients
<1>12. TextOf(c, c, c.text, c.blocks)
  BY DEF TextOf
<1>13. TextOf(c, [c EXCEPT !.blocks = v], c.text, v)
  BY <1>10, <1>12, OtherBlocks
<1> QED BY <1>2, <1>6, <1>9, <1>11, <1>13

\* The reason of the stop and the usage of a chunk, and then its text.
ChatCounted(c, e) ==
  [Expect(c, e.finish = Unset \/ c.stop = Unset) EXCEPT
     !.stop = IF e.finish = Unset THEN @ ELSE e.finish,
     !.usage = IF e.usage = NoUsage THEN @ ELSE e.usage]
ChatTexts(c, e) == ChatText(ChatText(ChatCounted(c, e), "thinking", e.reasoning), "text", e.content)

LEMMA ChatFirst ==
    ASSUME NEW c, NEW e, e.type = "chunk", e.calls = <<>>
    PROVE  ChatRead(c, e) = ChatTexts(c, e)
<1> DEFINE A == ChatTexts(c, e)
           Step(g, n) == IF n = 0 THEN A ELSE ChatCall(g[n - 1], e.calls[n])
<1>1. Len(e.calls) = 0
  OBVIOUS
<1>2. PICK after : after = CHOOSE g : g = [n \in 0..Len(e.calls) |-> Step(g, n)]
  OBVIOUS
<1>3. ChatRead(c, e) = after[Len(e.calls)]
  BY <1>2 DEF ChatRead, ChatTexts, ChatCounted
<1> HIDE DEF A
<1>4. \E g : g = [n \in 0..0 |-> Step(g, n)]
  <2> DEFINE h == [n \in 0..0 |-> A]
  <2>1. h = [n \in 0..0 |-> Step(h, n)]
    OBVIOUS
  <2> QED BY <2>1
<1>5. after = [n \in 0..0 |-> Step(after, n)]
  <2> HIDE DEF Step
  <2>1. 0..Len(e.calls) = 0..0
    BY <1>1
  <2> QED BY <1>2, <1>4, <2>1
<1>6. after[0] = A
  BY <1>5
<1> QED BY <1>1, <1>3, <1>6 DEF A

LEMMA ChatSecond ==
    ASSUME NEW c, NEW e, NEW delta, e.type = "chunk", e.calls = <<delta>>
    PROVE  ChatRead(c, e) = ChatCall(ChatTexts(c, e), delta)
<1> DEFINE A == ChatTexts(c, e)
           Step(g, n) == IF n = 0 THEN A ELSE ChatCall(g[n - 1], e.calls[n])
<1>1. Len(e.calls) = 1 /\ e.calls[1] = delta
  OBVIOUS
<1>2. PICK after : after = CHOOSE g : g = [n \in 0..Len(e.calls) |-> Step(g, n)]
  OBVIOUS
<1>3. ChatRead(c, e) = after[Len(e.calls)]
  BY <1>2 DEF ChatRead, ChatTexts, ChatCounted
<1> HIDE DEF A
<1>4. \E g : g = [n \in 0..1 |-> Step(g, n)]
  <2>1. PICK B : B = ChatCall(A, delta)
    OBVIOUS
  <2> DEFINE h == [n \in 0..1 |-> IF n = 0 THEN A ELSE B]
  <2>2. h[0] = A
    OBVIOUS
  <2>3. Step(h, 0) = A /\ Step(h, 1) = B
    <3> HIDE DEF h
    <3> QED BY <1>1, <2>1, <2>2
  <2>4. \A n \in 0..1 : h[n] = Step(h, n)
    <3>1. \A n \in 0..1 : n = 0 \/ n = 1
      OBVIOUS
    <3>2. h[1] = B
      OBVIOUS
    <3> HIDE DEF Step, h
    <3> QED BY <2>2, <2>3, <3>1, <3>2
  <2>5. h = [n \in 0..1 |-> h[n]]
    OBVIOUS
  <2> HIDE DEF Step, h
  <2> QED BY <2>4, <2>5
<1>5. after = [n \in 0..1 |-> Step(after, n)]
  <2> HIDE DEF Step
  <2>1. 0..Len(e.calls) = 0..1
    BY <1>1
  <2> QED BY <1>2, <1>4, <2>1
<1>6. after[0] = A /\ after[1] = Step(after, 1)
  <2>1. after[1] = Step(after, 1)
    <3> HIDE DEF Step
    <3> QED BY <1>5
  <2>2. after[0] = Step(after, 0)
    <3> HIDE DEF Step
    <3> QED BY <1>5
  <2> QED BY <2>1, <2>2
<1>7. after[1] = ChatCall(A, delta)
  BY <1>1, <1>6
<1> QED BY <1>1, <1>3, <1>7 DEF A

LEMMA ShownLast ==
    ASSUME NEW w \in Seq(ShownBlocks), NEW type \in {"thinking", "text"}, NEW piece \in Bodies, piece # <<>>
    PROVE  /\ Shown(w, Block(type, NoId, piece)) # <<>>
           /\ Last(Shown(w, Block(type, NoId, piece))).type = type
<1>1. PICK b : b = Block(type, NoId, piece)
  OBVIOUS
<1>2. b \in ShownBlocks /\ b.type = type /\ b.id = NoId /\ b.body = piece /\ type # "tool"
  BY <1>1 DEF Block, ShownBlocks, NoId, BlockTypes
<1>3. CASE w # <<>> /\ Last(w).type = type
  <2>1. PICK v : v = [w EXCEPT ![Len(w)].body = @ \o piece]
    OBVIOUS
  <2>2. Shown(w, b) = v
    BY <1>2, <1>3, <2>1 DEF Shown
  <2>3. /\ v # <<>> /\ Last(v) = v[Len(w)] /\ Last(w) = w[Len(w)] /\ w[Len(w)] \in ShownBlocks
        /\ v[Len(w)] = [w[Len(w)] EXCEPT !.body = @ \o piece]
    <3>1. ShownBlocks \in {ShownBlocks, CallBodies}
      OBVIOUS
    <3> QED BY <1>3, <2>1, <3>1, GrowLast
  <2>4. Last(v).type = type
    BY <1>3, <2>3 DEF ShownBlocks
  <2> QED BY <1>1, <2>2, <2>3, <2>4
<1>4. CASE ~(w # <<>> /\ Last(w).type = type)
  <2>1. Block(b.type, b.id, b.body) = b
    BY <1>1, <1>2
  <2>2. Shown(w, b) = Append(w, b)
    BY <1>2, <1>4, <2>1 DEF Shown
  <2>3. Append(w, b) # <<>> /\ Last(Append(w, b)) = b
    BY <1>2, AppendIs
  <2> QED BY <1>1, <1>2, <2>2, <2>3
<1> QED BY <1>3, <1>4

LEMMA ChatSays ==
    ASSUME NEW c, NEW e, NEW t \in Told, NEW u \in Told, ChatTold(c, t), Says(e, t, u), e.type # "EOF"
    PROVE  ChatTold(ChatRead(c, e), u)
<1> DEFINE a == t.answer
           b == u.answer
<1>0. NoId \in Nat
  BY DEF NoId
<1>1. /\ a \in Answers /\ b \in Answers /\ a.calls \in Seq(CallBodies) /\ a.text \in Bodies
      /\ a.shown \in Seq(ShownBlocks)
  BY DEF Told, Answers
<1>2. /\ c \in Clients /\ ~c.broken /\ c.blocks = a.shown /\ c.text = a.text
      /\ Len(c.calls) = Len(a.calls)
      /\ a.calls # <<>> /\ a.shown # <<>> /\ Last(a.shown).type = "tool"
           => c.calls[Len(c.calls)] = Len(c.blocks)
      /\ c.stop = t.stop /\ c.usage = t.usage /\ c.ended = t.ended
  BY DEF ChatTold
<1> HIDE DEF a, b
<1>3. CASE SaysEnd(e, t, u)
  <2>1. e = Done /\ ~c.ended
    <3>1. e = Done \/ e = [type |-> "EOF"]
      BY <1>3 DEF SaysEnd
    <3>2. e = Done
      BY <3>1
    <3> QED BY <1>2, <1>3, <3>2 DEF SaysEnd
  <2>2. ChatRead(c, e) = [c EXCEPT !.ended = TRUE]
    <3>1. e.type = "[DONE]"
      BY <2>1 DEF Done
    <3>2. PICK condition \in BOOLEAN : condition = TRUE
      OBVIOUS
    <3>3. Expect(c, condition) = c
      BY <1>2, <2>1, <3>2, ExpectMet
    <3> QED BY <3>1, <3>2, <3>3 DEF ChatRead
  <2>3. PICK p : p = [c EXCEPT !.ended = TRUE]
    OBVIOUS
  <2>4. /\ p \in Clients /\ p.blocks = c.blocks /\ p.text = c.text /\ p.calls = c.calls
        /\ p.stop = c.stop /\ p.usage = c.usage /\ p.ended = TRUE /\ p.broken = c.broken
    BY <1>2, <2>3 DEF Clients
  <2>5. u.ended = TRUE /\ u.answer = t.answer /\ u.stop = t.stop /\ u.usage = t.usage
    BY <1>3 DEF SaysEnd, Told
  <2>6. ChatTold(p, u)
    BY <1>2, <2>4, <2>5 DEF ChatTold, a
  <2> QED BY <2>2, <2>3, <2>6
<1>4. CASE SaysChunk(e, t, u)
  <2>1. /\ e \in Chunks /\ ChunkSays(e, a, b) /\ ~t.ended /\ ~u.ended
        /\ t.stop # Unset => e.finish = Unset
        /\ u.stop = (IF e.finish = Unset THEN t.stop ELSE e.finish)
        /\ u.usage = (IF e.usage = NoUsage THEN t.usage ELSE e.usage)
    BY <1>4 DEF SaysChunk, a, b
  <2>2. /\ e.type = "chunk" /\ e.usage \in Usages /\ e.finish \in Words
        /\ e.content \in Bodies /\ e.reasoning \in Bodies
    BY <2>1 DEF Chunks
  <2>3. PICK k : k = ChatCounted(c, e)
    OBVIOUS
  <2>4. /\ k \in Clients /\ k.blocks = a.shown /\ k.text = a.text /\ k.calls = c.calls
        /\ k.stop = u.stop /\ k.usage = u.usage /\ k.ended = u.ended /\ ~k.broken /\ ~k.ended
    <3>1. Expect(c, e.finish = Unset \/ c.stop = Unset) = c
      <4>1. PICK condition \in BOOLEAN : condition = (e.finish = Unset \/ c.stop = Unset)
        OBVIOUS
      <4>2. condition /\ ~c.ended
        BY <1>2, <2>1, <4>1
      <4> QED BY <1>2, <4>1, <4>2, ExpectMet
    <3>2. u.stop \in Words /\ u.usage \in Usages /\ u.ended \in BOOLEAN /\ t.ended \in BOOLEAN
      BY DEF Told
    <3>3. k = [c EXCEPT !.stop = u.stop, !.usage = u.usage]
      BY <1>2, <2>1, <2>3, <3>1 DEF ChatCounted, Clients
    <3>4. /\ k \in Clients /\ k.blocks = c.blocks /\ k.text = c.text /\ k.calls = c.calls
          /\ k.stop = u.stop /\ k.usage = u.usage /\ k.ended = c.ended /\ k.broken = c.broken
      BY <1>2, <3>2, <3>3 DEF Clients
    <3> QED BY <1>2, <2>1, <3>2, <3>4
  <2>5. PICK x, y : x = ChatText(k, "thinking", e.reasoning) /\ y = ChatText(x, "text", e.content)
    OBVIOUS
  <2>6. y = ChatTexts(c, e)
    BY <2>3, <2>5 DEF ChatTexts
  <2>7. TextOf(k, x, k.text, IF e.reasoning = <<>> THEN k.blocks
                             ELSE Shown(k.blocks, Block("thinking", NoId, e.reasoning)))
    <3>1. PICK type \in {"thinking", "text"} : type = "thinking"
      OBVIOUS
    <3>2. PICK piece \in Bodies : piece = e.reasoning
      BY <2>2
    <3>3. TextOf(k, ChatText(k, type, piece),
                 IF type = "text" THEN k.text \o piece ELSE k.text,
                 IF piece = <<>> THEN k.blocks ELSE Shown(k.blocks, Block(type, NoId, piece)))
      BY <2>4, ReadsChatText
    <3> QED BY <2>5, <3>1, <3>2, <3>3
  <2>8. x \in Clients /\ x.text = k.text
    BY <2>7 DEF TextOf
  <2>9. TextOf(x, y, x.text \o e.content, IF e.content = <<>> THEN x.blocks
                                          ELSE Shown(x.blocks, Block("text", NoId, e.content)))
    <3>1. PICK type \in {"thinking", "text"} : type = "text"
      OBVIOUS
    <3>2. PICK piece \in Bodies : piece = e.content
      BY <2>2
    <3>3. TextOf(x, ChatText(x, type, piece),
                 IF type = "text" THEN x.text \o piece ELSE x.text,
                 IF piece = <<>> THEN x.blocks ELSE Shown(x.blocks, Block(type, NoId, piece)))
      BY <2>8, ReadsChatText
    <3> QED BY <2>5, <3>1, <3>2, <3>3
  <2>10. /\ y \in Clients /\ y.calls = c.calls /\ y.stop = u.stop /\ y.usage = u.usage
         /\ y.ended = u.ended /\ ~y.broken /\ ~y.ended
         /\ y.text = x.text \o e.content
    BY <2>4, <2>7, <2>9 DEF TextOf
  <2>11. ASSUME e.reasoning = <<>>, e.content = <<>> PROVE y.text = a.text /\ y.blocks = a.shown
    <3>1. x.blocks = a.shown /\ y.blocks = x.blocks
      BY <2>4, <2>7, <2>9, <2>11 DEF TextOf
    <3>2. y.text = a.text \o <<>>
      BY <2>4, <2>8, <2>10, <2>11
    <3> QED BY <1>1, <3>1, <3>2, CatEmpty
  <2>12. CASE SaysNothing(e, a, b)
    <3>1. e.calls = <<>> /\ b = a /\ y.text = a.text /\ y.blocks = a.shown
      BY <2>11, <2>12 DEF SaysNothing
    <3>2. ChatRead(c, e) = y
      BY <2>2, <2>6, <3>1, ChatFirst
    <3>3. ChatTold(y, u)
      BY <1>2, <2>10, <3>1 DEF ChatTold, b
    <3> QED BY <3>2, <3>3
  <2>13. CASE SaysThought(e, a, b)
    <3>1. e.reasoning # <<>> /\ e.content = <<>> /\ e.calls = <<>>
          /\ b = Said(a, Block("thinking", NoId, e.reasoning))
      BY <2>13 DEF SaysThought
    <3>2. ChatRead(c, e) = y
      BY <2>2, <2>6, <3>1, ChatFirst
    <3>3. PICK id \in Nat, piece \in Bodies : id = NoId /\ piece = e.reasoning
      BY <1>0, <2>2
    <3>4. /\ b.text = a.text /\ b.calls = a.calls /\ b.shown = Shown(a.shown, Block("thinking", id, piece))
      <4>1. b = Said(a, Block("thinking", id, piece))
        BY <3>1, <3>3
      <4>2. /\ Said(a, Block("thinking", id, piece)).text = a.text
            /\ Said(a, Block("thinking", id, piece)).calls = a.calls
            /\ Said(a, Block("thinking", id, piece)).shown = Shown(a.shown, Block("thinking", id, piece))
        BY <1>1, SaidThought
      <4> QED BY <4>1, <4>2
    <3>5. x.blocks = b.shown /\ y.blocks = b.shown
      BY <2>4, <2>7, <2>9, <3>1, <3>3, <3>4 DEF TextOf
    <3>6. y.text = b.text
      <4>1. y.text = a.text \o <<>>
        BY <2>4, <2>8, <2>10, <3>1
      <4> QED BY <1>1, <3>4, <4>1, CatEmpty
    <3>7. Last(b.shown).type # "tool"
      <4>1. PICK type \in {"thinking", "text"} : type = "thinking"
        OBVIOUS
      <4>2. Last(Shown(a.shown, Block(type, NoId, piece))).type = type
        BY <1>1, <3>1, <3>3, ShownLast
      <4> QED BY <3>3, <3>4, <4>1, <4>2
    <3>8. ChatTold(y, u)
      BY <1>2, <2>10, <3>4, <3>5, <3>6, <3>7 DEF ChatTold, b
    <3> QED BY <3>2, <3>8
  <2>14. CASE SaysText(e, a, b)
    <3>1. e.reasoning = <<>> /\ e.content # <<>> /\ e.calls = <<>>
          /\ b = Said(a, Block("text", NoId, e.content))
      BY <2>14 DEF SaysText
    <3>2. ChatRead(c, e) = y
      BY <2>2, <2>6, <3>1, ChatFirst
    <3>3. PICK id \in Nat, piece \in Bodies : id = NoId /\ piece = e.content
      BY <1>0, <2>2
    <3>4. /\ b.text = a.text \o piece /\ b.calls = a.calls /\ b.shown = Shown(a.shown, Block("text", id, piece))
      <4>1. b = Said(a, Block("text", id, piece))
        BY <3>1, <3>3
      <4>2. /\ Said(a, Block("text", id, piece)).text = a.text \o piece
            /\ Said(a, Block("text", id, piece)).calls = a.calls
            /\ Said(a, Block("text", id, piece)).shown = Shown(a.shown, Block("text", id, piece))
        BY <1>1, SaidText
      <4> QED BY <4>1, <4>2
    <3>5. x.blocks = a.shown /\ y.blocks = b.shown /\ y.text = b.text
      BY ZenonT(90), <2>4, <2>7, <2>9, <3>1, <3>3, <3>4 DEF TextOf
    <3>6. Last(b.shown).type # "tool"
      <4>1. PICK type \in {"thinking", "text"} : type = "text"
        OBVIOUS
      <4>2. Last(Shown(a.shown, Block(type, NoId, piece))).type = type
        BY <1>1, <3>1, <3>3, ShownLast
      <4> QED BY <3>3, <3>4, <4>1, <4>2
    <3>7. ChatTold(y, u)
      BY <1>2, <2>10, <3>4, <3>5, <3>6 DEF ChatTold, b
    <3> QED BY <3>2, <3>7
  <2>15. CASE SaysCall(e, a, b)
    <3>1. PICK id \in Nat \ {NoId} : \E arguments \in Bodies :
             /\ e.calls = <<CallDelta(Len(a.calls), id, arguments)>>
             /\ b = Said(a, Block("tool", id, arguments))
      BY <2>15 DEF SaysCall
    <3>2. PICK arguments \in Bodies :
             /\ e.calls = <<CallDelta(Len(a.calls), id, arguments)>>
             /\ b = Said(a, Block("tool", id, arguments))
      BY <3>1
    <3>3. y.text = a.text /\ y.blocks = a.shown
      BY <2>11, <2>15 DEF SaysCall
    <3>4. PICK p : p = ChatCall(y, CallDelta(Len(y.calls), id, arguments))
      OBVIOUS
    <3>5. ChatRead(c, e) = p
      BY <1>2, <2>2, <2>6, <2>10, <3>2, <3>4, ChatSecond
    <3>6. PICK m : m = [y EXCEPT !.calls = Append(@, Len(y.blocks) + 1)]
      OBVIOUS
    <3>7. /\ TextOf(m, p, y.text, Append(y.blocks, Block("tool", id, arguments)))
          /\ Len(p.calls) = Len(y.calls) + 1 /\ p.calls[Len(p.calls)] = Len(p.blocks)
      BY <2>10, <3>4, <3>6, ReadsNewCall
    <3>8. m.stop = y.stop /\ m.usage = y.usage /\ m.ended = y.ended /\ m.broken = y.broken
      BY <2>10, <3>6 DEF Clients
    <3>9. /\ b.text = a.text /\ b.calls = Append(a.calls, [id |-> id, body |-> arguments])
          /\ b.shown = Append(a.shown, Block("tool", id, arguments))
      <4>1. PICK d \in Nat : d = id
        OBVIOUS
      <4>2. /\ Said(a, Block("tool", d, arguments)).text = a.text
            /\ Said(a, Block("tool", d, arguments)).calls = Append(a.calls, [id |-> d, body |-> arguments])
            /\ Said(a, Block("tool", d, arguments)).shown = Append(a.shown, Block("tool", d, arguments))
        BY ZenonT(90), <1>1, SaidTool
      <4> QED BY <3>2, <4>1, <4>2
    <3>10. Len(b.calls) = Len(a.calls) + 1
      <4>1. [id |-> id, body |-> arguments] \in CallBodies
        BY DEF CallBodies
      <4> QED BY <1>1, <3>9, <4>1, AppendIs
    <3>11. /\ p \in Clients /\ p.text = b.text /\ p.blocks = b.shown /\ p.stop = u.stop /\ p.usage = u.usage
           /\ p.ended = u.ended /\ ~p.broken /\ Len(p.calls) = Len(b.calls)
      BY <1>2, <2>10, <3>3, <3>7, <3>8, <3>9, <3>10 DEF TextOf
    <3>12. ChatTold(p, u)
      BY <3>7, <3>11 DEF ChatTold, b
    <3> QED BY <3>5, <3>12
  <2>16. CASE SaysMore(e, a, b)
    <3>1. PICK arguments \in Bodies :
             /\ e.calls = <<CallDelta(Len(a.calls) - 1, NoId, arguments)>>
             /\ b = Further(a, arguments)
      BY <2>16 DEF SaysMore
    <3>2. a.calls # <<>> /\ a.shown # <<>> /\ Last(a.shown).type = "tool"
      BY <2>16 DEF SaysMore
    <3>3. y.text = a.text /\ y.blocks = a.shown
      BY <2>11, <2>16 DEF SaysMore
    <3>4. PICK p : p = ChatCall(y, CallDelta(Len(y.calls) - 1, NoId, arguments))
      OBVIOUS
    <3>5. ChatRead(c, e) = p
      BY <1>2, <2>2, <2>6, <2>10, <3>1, <3>4, ChatSecond
    <3>6. y.calls # <<>> /\ y.blocks # <<>> /\ y.calls[Len(y.calls)] = Len(y.blocks)
      <4>1. c.calls \in Seq(Nat) /\ Len(a.calls) # 0
        BY <1>1, <1>2, <3>2 DEF Clients
      <4>2. c.calls # <<>>
        BY <1>2, <4>1
      <4> QED BY <1>2, <2>10, <3>2, <3>3, <4>2
    <3>7. TextOf(y, p, y.text, [y.blocks EXCEPT ![Len(y.blocks)].body = @ \o arguments])
      BY <2>10, <3>4, <3>6, ReadsMoreOfCall
    <3>8. /\ b.text = a.text
          /\ b.calls = [a.calls EXCEPT ![Len(a.calls)].body = @ \o arguments]
          /\ b.shown = [a.shown EXCEPT ![Len(a.shown)].body = @ \o arguments]
      <4>1. /\ Further(a, arguments).text = a.text
            /\ Further(a, arguments).calls = [a.calls EXCEPT ![Len(a.calls)].body = @ \o arguments]
            /\ Further(a, arguments).shown = [a.shown EXCEPT ![Len(a.shown)].body = @ \o arguments]
        BY <1>1, <3>2, FurtherFacts
      <4> QED BY <3>1, <4>1
    <3>9. Len(b.calls) = Len(a.calls) /\ Len(b.shown) = Len(a.shown)
      BY <1>1, <3>8
    <3>10. /\ p \in Clients /\ p.text = b.text /\ p.blocks = b.shown /\ p.stop = u.stop /\ p.usage = u.usage
           /\ p.ended = u.ended /\ ~p.broken /\ p.calls = y.calls
      BY <2>10, <3>3, <3>7, <3>8 DEF TextOf
    <3>11. Len(p.calls) = Len(b.calls) /\ p.calls[Len(p.calls)] = Len(p.blocks)
      BY <1>2, <2>10, <3>3, <3>6, <3>9, <3>10
    <3>12. ChatTold(p, u)
      BY <3>10, <3>11 DEF ChatTold, b
    <3> QED BY <3>5, <3>12
  <2> QED BY <2>1, <2>12, <2>13, <2>14, <2>15, <2>16 DEF ChunkSays
<1> QED BY <1>3, <1>4 DEF Says

-----------------------------------------------------------------------------
(* What the converter for /v1/messages has written, and what its client makes *)
(* of it.                                                                     *)

MessageEvents ==
  [type: {"message_start", "message_stop"}]
    \cup [type: {"content_block_start"}, index: Nat, block: BlockTypes, id: Nat]
    \cup [type: {"content_block_delta"}, index: Nat, block: BlockTypes, piece: Bodies]
    \cup [type: {"content_block_stop"}, index: Nat]
    \cup [type: {"message_delta"}, usage: Usages, stop: Words]

\* The events take a client from c to d, who is never broken on the way, and
\* ends with the last of them.
ReachesBy(f, c, events, d) ==
  /\ f[0] = c /\ f[Len(events)] = d
  /\ \A i \in 0..Len(events) : /\ f[i] \in Clients /\ ~f[i].broken /\ IsPrefix(f[i].text, d.text)
                               /\ f[i].ended => i = Len(events)
  /\ \A i \in 1..Len(events) : f[i] = MessagesRead(f[i - 1], events[i])
Reaches(c, events, d) == events \in Seq(MessageEvents) /\ \E f : ReachesBy(f, c, events, d)

LEMMA ReachesNone ==
    ASSUME NEW c \in Clients, ~c.broken
    PROVE  Reaches(c, <<>>, c)
<1> DEFINE f == [i \in 0..0 |-> c]
<1>1. <<>> \in Seq(MessageEvents) /\ Len(<<>>) = 0
  OBVIOUS
<1>2. f[0] = c /\ \A i \in 0..0 : f[i] = c
  OBVIOUS
<1> HIDE DEF f
<1>3. c.text \in Bodies
  BY DEF Clients
<1>4. IsPrefix(c.text, c.text)
  BY <1>3, PrefixSelf
<1>5. \A i \in 0..0 : i = 0
  OBVIOUS
<1>6. ReachesBy(f, c, <<>>, c)
  BY <1>1, <1>2, <1>4, <1>5 DEF ReachesBy
<1> QED BY <1>1, <1>6 DEF Reaches

LEMMA ReachesOneMore ==
    ASSUME NEW c, NEW events, NEW d, Reaches(c, events, d), ~d.ended,
           NEW e \in MessageEvents, NEW g \in Clients, g = MessagesRead(d, e), ~g.broken,
           IsPrefix(d.text, g.text)
    PROVE  Reaches(c, Append(events, e), g)
<1> DEFINE n == Len(events)
           more == Append(events, e)
<1>1. events \in Seq(MessageEvents)
  BY DEF Reaches
<1>2. PICK f : ReachesBy(f, c, events, d)
  BY DEF Reaches
<1>3. /\ n \in Nat /\ more \in Seq(MessageEvents) /\ Len(more) = n + 1 /\ more[n + 1] = e
      /\ \A i \in 1..n : more[i] = events[i]
  <2> HIDE DEF MessageEvents
  <2> QED BY <1>1
<1> HIDE DEF more
<1>4. /\ f[0] = c /\ f[n] = d
      /\ \A i \in 0..n : /\ f[i] \in Clients /\ ~f[i].broken /\ IsPrefix(f[i].text, d.text)
                         /\ f[i].ended => i = n
      /\ \A i \in 1..n : f[i] = MessagesRead(f[i - 1], events[i])
  BY <1>2 DEF ReachesBy
<1> DEFINE h == [i \in 0..(n + 1) |-> IF i = n + 1 THEN g ELSE f[i]]
<1>5. h[n + 1] = g /\ (\A i \in 0..n : h[i] = f[i]) /\ h[0] = c
  BY <1>3, <1>4
<1> HIDE DEF h
<1>6. d.text \in Bodies /\ g.text \in Bodies /\ \A i \in 0..n : f[i].text \in Bodies
  <2>1. n \in 0..n
    BY <1>3
  <2>2. d \in Clients
    BY <1>4, <2>1
  <2> QED BY <1>4, <2>2 DEF Clients
<1>7. IsPrefix(g.text, g.text)
  BY <1>6, PrefixSelf
<1>8. \A i \in 0..n : IsPrefix(f[i].text, g.text)
  BY <1>4, <1>6, PrefixTrans
<1>9. \A i \in 0..(n + 1) : i \in 0..n \/ i = n + 1
  BY <1>3
<1>10. ASSUME NEW i \in 0..(n + 1)
       PROVE  /\ h[i] \in Clients /\ ~h[i].broken /\ IsPrefix(h[i].text, g.text)
              /\ h[i].ended => i = n + 1
  <2>1. CASE i \in 0..n
    <3>1. h[i] = f[i] /\ f[i] \in Clients /\ ~f[i].broken /\ IsPrefix(f[i].text, g.text)
      BY <1>4, <1>5, <1>8, <2>1
    <3>2. ~f[i].ended
      BY <1>4, <2>1
    <3> QED BY <3>1, <3>2
  <2>2. CASE i = n + 1
    BY <1>5, <1>7, <2>2
  <2> QED BY <1>9, <2>1, <2>2
<1>11. ASSUME NEW i \in 1..(n + 1) PROVE h[i] = MessagesRead(h[i - 1], more[i])
  <2>1. CASE i \in 1..n
    <3>1. i - 1 \in 0..n /\ i \in 0..n
      BY <1>3, <2>1
    <3> QED BY <1>3, <1>4, <1>5, <2>1, <3>1
  <2>2. CASE i = n + 1
    <3>1. i - 1 = n /\ n \in 0..n
      BY <1>3, <2>2
    <3> QED BY <1>3, <1>4, <1>5, <2>2, <3>1
  <2>3. i \in 1..n \/ i = n + 1
    BY <1>3
  <2> QED BY <2>1, <2>2, <2>3
<1>12. ReachesBy(h, c, more, g)
  BY <1>3, <1>5, <1>10, <1>11 DEF ReachesBy
<1>13. Reaches(c, more, g)
  BY <1>3, <1>12 DEF Reaches
<1> QED BY <1>13 DEF more

LEMMA ReachesFirst ==
    ASSUME NEW c, NEW events, NEW d, Reaches(c, events, d)
    PROVE  /\ c \in Clients /\ d \in Clients /\ ~c.broken /\ ~d.broken /\ IsPrefix(c.text, d.text)
           /\ events = <<>> => c = d
           /\ events # <<>> => ~c.ended /\ Reaches(MessagesRead(c, Head(events)), Tail(events), d)
<1> DEFINE n == Len(events)
           rest == Tail(events)
<1>1. events \in Seq(MessageEvents) /\ n \in Nat
  <2> HIDE DEF MessageEvents
  <2> QED BY DEF Reaches
<1>2. PICK f : ReachesBy(f, c, events, d)
  BY DEF Reaches
<1>3. /\ f[0] = c /\ f[n] = d
      /\ \A i \in 0..n : /\ f[i] \in Clients /\ ~f[i].broken /\ IsPrefix(f[i].text, d.text)
                         /\ f[i].ended => i = n
      /\ \A i \in 1..n : f[i] = MessagesRead(f[i - 1], events[i])
  BY <1>2 DEF ReachesBy
<1>4. 0 \in 0..n /\ n \in 0..n
  BY <1>1
<1>5. c \in Clients /\ d \in Clients /\ ~c.broken /\ ~d.broken /\ IsPrefix(c.text, d.text)
  BY <1>3, <1>4
<1>6. ASSUME events = <<>> PROVE c = d
  BY <1>3, <1>6
<1>7. ASSUME events # <<>> PROVE ~c.ended /\ Reaches(MessagesRead(c, Head(events)), rest, d)
  <2>1. /\ n \in Nat \ {0} /\ rest \in Seq(MessageEvents) /\ Len(rest) = n - 1 /\ Head(events) = events[1]
        /\ \A i \in 1..(n - 1) : rest[i] = events[i + 1]
    <3> HIDE DEF MessageEvents
    <3> QED BY <1>1, <1>7
  <2> HIDE DEF rest
  <2>2. ~c.ended
    BY <1>3, <1>4, <2>1
  <2> DEFINE h == [i \in 0..(n - 1) |-> f[i + 1]]
  <2>3. \A i \in 0..(n - 1) : h[i] = f[i + 1] /\ i + 1 \in 0..n
    BY <2>1
  <2> HIDE DEF h
  <2>4. h[0] = MessagesRead(c, Head(events)) /\ h[n - 1] = d
    <3>1. 0 \in 0..(n - 1) /\ n - 1 \in 0..(n - 1) /\ 1 \in 1..n /\ (n - 1) + 1 = n /\ 1 - 1 = 0
      BY <2>1
    <3>2. f[1] = MessagesRead(f[1 - 1], events[1])
      BY <1>3, <3>1
    <3>3. h[0] = f[1]
      BY <2>3, <3>1
    <3> QED BY <1>3, <2>1, <2>3, <3>1, <3>2, <3>3
  <2>5. \A i \in 0..(n - 1) : /\ h[i] \in Clients /\ ~h[i].broken /\ IsPrefix(h[i].text, d.text)
                              /\ h[i].ended => i = n - 1
    <3>1. \A i \in 0..(n - 1) : i + 1 = n => i = n - 1
      BY <2>1
    <3> QED BY <1>3, <2>3, <3>1
  <2>6. ASSUME NEW i \in 1..(n - 1) PROVE h[i] = MessagesRead(h[i - 1], rest[i])
    <3>1. i - 1 \in 0..(n - 1) /\ i \in 0..(n - 1) /\ (i - 1) + 1 = i /\ i + 1 \in 1..n /\ (i + 1) - 1 = i
      BY <2>1
    <3>2. h[i - 1] = f[i] /\ h[i] = f[i + 1]
      BY <2>3, <3>1
    <3>3. f[i + 1] = MessagesRead(f[i], events[i + 1])
      BY <1>3, <3>1
    <3> QED BY <2>1, <3>2, <3>3
  <2>7. PICK first : first = MessagesRead(c, Head(events))
    OBVIOUS
  <2>8. ReachesBy(h, first, rest, d)
    BY <2>1, <2>4, <2>5, <2>6, <2>7 DEF ReachesBy
  <2> QED BY <2>1, <2>2, <2>7, <2>8 DEF Reaches
<1> QED BY <1>5, <1>6, <1>7

Converters ==
  [buffer: Seq(MessageEvents), started: BOOLEAN, blockOpen: BOOLEAN, blockType: BlockTypes \cup {Unset}, curIndex: Nat,
   nextIndex: Nat, toolBlock: Partial(Nat), stopReason: Words, usage: Usages, finalized: BOOLEAN,
   closed: BOOLEAN]

\* The converter differs in its buffer only.
Emitted(sc, sd) ==
  /\ sd \in Converters /\ sd.started = sc.started /\ sd.blockOpen = sc.blockOpen
  /\ sd.blockType = sc.blockType /\ sd.curIndex = sc.curIndex /\ sd.nextIndex = sc.nextIndex
  /\ sd.toolBlock = sc.toolBlock /\ sd.stopReason = sc.stopReason /\ sd.usage = sc.usage
  /\ sd.finalized = sc.finalized /\ sd.closed = sc.closed

LEMMA Emits ==
    ASSUME NEW c, NEW sc \in Converters, NEW d, Reaches(c, sc.buffer, d), ~d.ended,
           NEW e \in MessageEvents, NEW g \in Clients, g = MessagesRead(d, e), ~g.broken,
           IsPrefix(d.text, g.text)
    PROVE  Emitted(sc, emit(sc, e)) /\ Reaches(c, emit(sc, e).buffer, g)
<1>1. PICK events : events = Append(sc.buffer, e)
  OBVIOUS
<1>2. events \in Seq(MessageEvents)
  <2>1. sc.buffer \in Seq(MessageEvents)
    <3> HIDE DEF MessageEvents
    <3> QED BY DEF Converters
  <2> HIDE DEF MessageEvents
  <2> QED BY <1>1, <2>1
<1>3. Reaches(c, events, g)
  BY <1>1, ReachesOneMore
<1>4. PICK sd : sd = [sc EXCEPT !.buffer = events]
  OBVIOUS
<1>5. emit(sc, e) = sd
  <2> HIDE DEF MessageEvents
  <2> QED BY <1>1, <1>4 DEF emit, Converters
<1>6. sd \in Converters /\ sd.buffer = events
  <2> HIDE DEF MessageEvents
  <2> QED BY <1>2, <1>4 DEF Converters
<1>7. /\ sd.started = sc.started /\ sd.blockOpen = sc.blockOpen
      /\ sd.blockType = sc.blockType /\ sd.curIndex = sc.curIndex /\ sd.nextIndex = sc.nextIndex
      /\ sd.toolBlock = sc.toolBlock /\ sd.stopReason = sc.stopReason /\ sd.usage = sc.usage
      /\ sd.finalized = sc.finalized /\ sd.closed = sc.closed
  <2> HIDE DEF MessageEvents
  <2> QED BY <1>4 DEF Converters
<1>8. Emitted(sc, sd)
  BY <1>6, <1>7 DEF Emitted
<1> QED BY <1>3, <1>5, <1>6, <1>8

\* What a client of /v1/messages has read, apart from its text and blocks.
SameElse(d, g) ==
  g.calls = d.calls /\ g.items = d.items /\ g.stop = d.stop /\ g.usage = d.usage /\ g.ended = d.ended
  /\ g.broken = d.broken /\ g.begun = d.begun

LEMMA ReadsStart ==
    ASSUME NEW d \in Clients, ~d.broken, ~d.ended, ~d.begun
    PROVE  /\ MessagesRead(d, [type |-> "message_start"]) \in Clients
           /\ MessagesRead(d, [type |-> "message_start"]) = [d EXCEPT !.begun = TRUE]
<1>1. Expect(d, ~d.begun) = d
  BY ExpectMet
<1>2. MessagesRead(d, [type |-> "message_start"]) = [d EXCEPT !.begun = TRUE]
  BY <1>1 DEF MessagesRead
<1>3. [d EXCEPT !.begun = TRUE] \in Clients
  BY DEF Clients
<1> QED BY <1>2, <1>3

LEMMA ReadsBlockStart ==
    ASSUME NEW d \in Clients, ~d.broken, ~d.ended, d.begun, ~d.open, d.stop = Unset,
           NEW type, NEW id, NEW n, n = Len(d.blocks), NEW e,
           e = [type |-> "content_block_start", index |-> n, block |-> type, id |-> id],
           NEW v, v = Append(d.blocks, Block(type, id, <<>>)), NEW g, g = [d EXCEPT !.open = TRUE, !.blocks = v]
    PROVE  MessagesRead(d, e) = g
<1>2. e.type = "content_block_start" /\ e.index = n /\ e.block = type /\ e.id = id
  OBVIOUS
<1>3. Expect(d, d.begun /\ ~d.open /\ d.stop = Unset /\ e.index = Len(d.blocks)) = d
  BY <1>2, ExpectMet
<1>4. MessagesRead(d, e) = [d EXCEPT !.open = TRUE, !.blocks = Append(@, Block(type, id, <<>>))]
  BY <1>2, <1>3 DEF MessagesRead
<1>5. [d EXCEPT !.open = TRUE, !.blocks = Append(@, Block(type, id, <<>>))] = g
  BY DEF Clients
<1> QED BY <1>4, <1>5

LEMMA ReadsBlockDelta ==
    ASSUME NEW d \in Clients, ~d.broken, ~d.ended, d.open, d.blocks # <<>>,
           NEW type \in BlockTypes, Last(d.blocks).type = type, NEW piece \in Bodies,
           NEW n, n = Len(d.blocks) - 1
    PROVE  TextOf(d, MessagesRead(d, [type |-> "content_block_delta", index |-> n, block |-> type,
                                      piece |-> piece]),
                  IF type = "text" THEN d.text \o piece ELSE d.text,
                  [d.blocks EXCEPT ![Len(d.blocks)].body = @ \o piece])
<1>1. PICK e : e = [type |-> "content_block_delta", index |-> n, block |-> type, piece |-> piece]
  OBVIOUS
<1>2. e.type = "content_block_delta" /\ e.index = n /\ e.block = type /\ e.piece = piece
  BY <1>1
<1>3. Expect(d, d.open /\ e.index = Len(d.blocks) - 1 /\ e.block = Last(d.blocks).type) = d
  BY <1>2, ExpectMet
<1>4. PICK x : x = TextRead(d, type, piece)
  OBVIOUS
<1>5. TextOf(d, x, IF type = "text" THEN d.text \o piece ELSE d.text, d.blocks)
  BY <1>4, ReadsText
<1>6. x \in Clients /\ x.blocks = d.blocks
  BY <1>5 DEF TextOf
<1>7. MessagesRead(d, e) = [x EXCEPT !.blocks[Len(d.blocks)].body = @ \o piece]
  BY <1>2, <1>3, <1>4 DEF MessagesRead
<1>8. PICK v : v = [d.blocks EXCEPT ![Len(d.blocks)].body = @ \o piece]
  OBVIOUS
<1>9. v \in Seq(ShownBlocks)
  <2>1. ShownBlocks \in {ShownBlocks, CallBodies} /\ d.blocks \in Seq(ShownBlocks)
    BY DEF Clients
  <2> QED BY <1>8, <2>1, GrowLast
<1>10. MessagesRead(d, e) = [x EXCEPT !.blocks = v]
  BY <1>6, <1>7, <1>8 DEF Clients
<1>11. TextOf(d, [x EXCEPT !.blocks = v], IF type = "text" THEN d.text \o piece ELSE d.text, v)
  BY <1>5, <1>6, <1>9, OtherBlocks
<1> QED BY <1>1, <1>8, <1>10, <1>11

LEMMA ReadsBlockStop ==
    ASSUME NEW d \in Clients, ~d.broken, ~d.ended, d.open, NEW n, n = Len(d.blocks) - 1
    PROVE  MessagesRead(d, [type |-> "content_block_stop", index |-> n]) = [d EXCEPT !.open = FALSE]
<1>1. PICK e : e = [type |-> "content_block_stop", index |-> n]
  OBVIOUS
<1>2. e.type = "content_block_stop" /\ e.index = n
  BY <1>1
<1>3. Expect(d, d.open /\ e.index = Len(d.blocks) - 1) = d
  BY <1>2, ExpectMet
<1> QED BY <1>1, <1>2, <1>3 DEF MessagesRead

MessageDelta(e, reason, usage) == e = [type |-> "message_delta", usage |-> usage, stop |-> reason]
StoppedFor(d, reason, usage, g) == g = [d EXCEPT !.stop = reason, !.usage = usage]

LEMMA ReadsMessageDelta ==
    ASSUME NEW d \in Clients, ~d.broken, ~d.ended, d.begun, ~d.open, d.stop = Unset,
           NEW reason, NEW usage, NEW e, MessageDelta(e, reason, usage),
           NEW g, StoppedFor(d, reason, usage, g)
    PROVE  MessagesRead(d, e) = g
<1>2. e.type = "message_delta" /\ e.usage = usage /\ e.stop = reason
  BY DEF MessageDelta
<1>3. Expect(d, d.begun /\ ~d.open /\ d.stop = Unset) = d
  BY <1>2, ExpectMet
<1> QED BY <1>2, <1>3 DEF MessagesRead, StoppedFor

LEMMA ReadsMessageStop ==
    ASSUME NEW d \in Clients, ~d.broken, ~d.ended, d.stop # Unset
    PROVE  MessagesRead(d, [type |-> "message_stop"]) = [d EXCEPT !.ended = TRUE]
<1>1. Expect(d, d.stop # Unset) = d
  BY ExpectMet
<1> QED BY <1>1 DEF MessagesRead

\* A converter and its client agree on an answer that is not at its end.
Writes(c, sc, d) ==
  /\ sc \in Converters /\ Reaches(c, sc.buffer, d) /\ ~d.ended /\ d.stop = Unset
  /\ d.begun = sc.started /\ d.open = sc.blockOpen
  /\ d.open => d.begun /\ d.blocks # <<>> /\ sc.curIndex = Len(d.blocks) - 1
               /\ sc.blockType = Last(d.blocks).type
  /\ sc.nextIndex = Len(d.blocks)

SameRest(sc, sd) ==
  /\ sd.toolBlock = sc.toolBlock /\ sd.stopReason = sc.stopReason /\ sd.usage = sc.usage
  /\ sd.finalized = sc.finalized /\ sd.closed = sc.closed

\* What was written since sc left the client with a text and some blocks.
Wrote(c, sc, sd, text, blocks, open) ==
  SameRest(sc, sd) /\ \E g : Writes(c, sd, g) /\ g.begun /\ g.text = text /\ g.blocks = blocks /\ g.open = open

LEMMA WritesFacts ==
    ASSUME NEW c, NEW sc, NEW d, Writes(c, sc, d)
    PROVE  /\ sc \in Converters /\ d \in Clients /\ ~d.broken /\ ~d.ended /\ Reaches(c, sc.buffer, d)
           /\ d.stop = Unset /\ d.begun = sc.started /\ d.open = sc.blockOpen
           /\ d.open => d.begun /\ d.blocks # <<>> /\ sc.curIndex = Len(d.blocks) - 1
                        /\ sc.blockType = Last(d.blocks).type
           /\ sc.nextIndex = Len(d.blocks) /\ Len(d.blocks) \in Nat
           /\ d.text \in Bodies /\ d.blocks \in Seq(ShownBlocks)
<1>1. Reaches(c, sc.buffer, d)
  BY DEF Writes
<1>2. d \in Clients /\ ~d.broken
  BY <1>1, ReachesFirst
<1>3. d.text \in Bodies /\ d.blocks \in Seq(ShownBlocks) /\ Len(d.blocks) \in Nat
  BY <1>2 DEF Clients
<1> QED BY <1>2, <1>3 DEF Writes

LEMMA StartWrites ==
    ASSUME NEW c, NEW sc, NEW d, Writes(c, sc, d)
    PROVE  Wrote(c, sc, ensureStarted(sc), d.text, d.blocks, d.open)
<1>1. /\ sc \in Converters /\ d \in Clients /\ ~d.broken /\ ~d.ended /\ Reaches(c, sc.buffer, d)
      /\ d.stop = Unset /\ d.begun = sc.started /\ d.open = sc.blockOpen
      /\ d.open => d.begun /\ d.blocks # <<>> /\ sc.curIndex = Len(d.blocks) - 1
                   /\ sc.blockType = Last(d.blocks).type
      /\ sc.nextIndex = Len(d.blocks) /\ d.text \in Bodies
  BY WritesFacts
<1>2. CASE sc.started
  <2>1. ensureStarted(sc) = sc
    BY <1>2 DEF ensureStarted
  <2> QED BY <1>1, <1>2, <2>1 DEF Wrote, SameRest
<1>3. CASE ~sc.started
  <2>1. PICK e : e = [type |-> "message_start"]
    OBVIOUS
  <2>2. e \in MessageEvents
    BY <2>1 DEF MessageEvents
  <2>3. PICK g : g = [d EXCEPT !.begun = TRUE]
    OBVIOUS
  <2>4. g = MessagesRead(d, e) /\ g \in Clients
    BY <1>1, <1>3, <2>1, <2>3, ReadsStart
  <2>5. /\ g.begun = TRUE /\ g.text = d.text /\ g.blocks = d.blocks /\ g.open = d.open /\ g.stop = d.stop
        /\ g.ended = d.ended /\ g.broken = d.broken
    BY <1>1, <2>3 DEF Clients
  <2>6. PICK x : x = [sc EXCEPT !.started = TRUE]
    OBVIOUS
  <2>7. /\ x \in Converters /\ x.buffer = sc.buffer /\ x.started = TRUE /\ x.blockOpen = sc.blockOpen
        /\ x.blockType = sc.blockType /\ x.curIndex = sc.curIndex /\ x.nextIndex = sc.nextIndex
        /\ SameRest(sc, x)
    <3> HIDE DEF MessageEvents
    <3> QED BY <1>1, <2>6 DEF Converters, SameRest
  <2>8. PICK y : y = emit(x, e)
    OBVIOUS
  <2>9. ensureStarted(sc) = y
    BY <1>3, <2>1, <2>6, <2>8 DEF ensureStarted
  <2>10. IsPrefix(d.text, g.text) /\ ~g.broken /\ Reaches(c, x.buffer, d)
    BY <1>1, <2>5, <2>7, PrefixSelf
  <2>11. Emitted(x, y) /\ Reaches(c, y.buffer, g)
    BY <1>1, <2>2, <2>4, <2>7, <2>8, <2>10, Emits
  <2>12. Writes(c, y, g)
    BY <1>1, <1>3, <2>5, <2>7, <2>11 DEF Emitted, Writes
  <2>13. SameRest(sc, y)
    BY <2>7, <2>11 DEF Emitted, SameRest
  <2> QED BY <2>5, <2>9, <2>12, <2>13 DEF Wrote
<1> QED BY <1>2, <1>3

LEMMA CloseWrites ==
    ASSUME NEW c, NEW sc, NEW d, Writes(c, sc, d), d.begun
    PROVE  Wrote(c, sc, closeBlock(sc), d.text, d.blocks, FALSE)
<1>1. /\ sc \in Converters /\ d \in Clients /\ ~d.broken /\ ~d.ended /\ Reaches(c, sc.buffer, d)
      /\ d.stop = Unset /\ d.begun = sc.started /\ d.open = sc.blockOpen
      /\ d.open => d.begun /\ d.blocks # <<>> /\ sc.curIndex = Len(d.blocks) - 1
                   /\ sc.blockType = Last(d.blocks).type
      /\ sc.nextIndex = Len(d.blocks) /\ d.text \in Bodies
  BY WritesFacts
<1>2. CASE ~sc.blockOpen
  <2>1. closeBlock(sc) = sc /\ d.open = FALSE
    BY <1>1, <1>2 DEF closeBlock, Clients
  <2> QED BY <1>1, <2>1 DEF Wrote, SameRest
<1>3. CASE sc.blockOpen
  <2>1. PICK e : e = [type |-> "content_block_stop", index |-> sc.curIndex]
    OBVIOUS
  <2>2. e \in MessageEvents
    <3>1. sc.curIndex \in Nat
      <4> HIDE DEF MessageEvents
      <4> QED BY <1>1 DEF Converters
    <3> QED BY <2>1, <3>1 DEF MessageEvents
  <2>3. PICK g : g = [d EXCEPT !.open = FALSE]
    OBVIOUS
  <2>4. g = MessagesRead(d, e) /\ g \in Clients
    <3>1. PICK n : n = Len(d.blocks) - 1
      OBVIOUS
    <3>2. MessagesRead(d, [type |-> "content_block_stop", index |-> n]) = [d EXCEPT !.open = FALSE]
      BY <1>1, <1>3, <3>1, ReadsBlockStop
    <3>3. g \in Clients
      BY <1>1, <2>3 DEF Clients
    <3> QED BY <1>1, <1>3, <2>1, <2>3, <3>1, <3>2, <3>3
  <2>5. /\ g.open = FALSE /\ g.text = d.text /\ g.blocks = d.blocks /\ g.begun = d.begun /\ g.stop = d.stop
        /\ g.ended = d.ended /\ g.broken = d.broken
    BY <1>1, <2>3 DEF Clients
  <2>6. PICK x : x = [sc EXCEPT !.blockOpen = FALSE]
    OBVIOUS
  <2>7. /\ x \in Converters /\ x.buffer = sc.buffer /\ x.started = sc.started /\ x.blockOpen = FALSE
        /\ x.blockType = sc.blockType /\ x.curIndex = sc.curIndex /\ x.nextIndex = sc.nextIndex
        /\ SameRest(sc, x)
    <3> HIDE DEF MessageEvents
    <3> QED BY <1>1, <2>6 DEF Converters, SameRest
  <2>8. PICK y : y = emit(x, e)
    OBVIOUS
  <2>9. closeBlock(sc) = y
    BY <1>3, <2>1, <2>6, <2>8 DEF closeBlock
  <2>10. IsPrefix(d.text, g.text) /\ ~g.broken /\ Reaches(c, x.buffer, d)
    BY <1>1, <2>5, <2>7, PrefixSelf
  <2>11. Emitted(x, y) /\ Reaches(c, y.buffer, g)
    BY <1>1, <2>2, <2>4, <2>7, <2>8, <2>10, Emits
  <2>12. Writes(c, y, g)
    BY <1>1, <1>3, <2>5, <2>7, <2>11 DEF Emitted, Writes
  <2>13. SameRest(sc, y)
    BY <2>7, <2>11 DEF Emitted, SameRest
  <2> QED BY <2>5, <2>9, <2>12, <2>13 DEF Wrote
<1> QED BY <1>2, <1>3

LEMMA OpenWrites ==
    ASSUME NEW c, NEW sc, NEW d, Writes(c, sc, d), d.begun, ~d.open,
           NEW type \in BlockTypes, NEW id \in Nat
    PROVE  /\ Wrote(c, sc, openBlock(sc, type, id), d.text, Append(d.blocks, Block(type, id, <<>>)), TRUE)
           /\ openBlock(sc, type, id).curIndex = Len(d.blocks)
<1>1. /\ sc \in Converters /\ d \in Clients /\ ~d.broken /\ ~d.ended /\ Reaches(c, sc.buffer, d)
      /\ d.stop = Unset /\ d.begun = sc.started /\ d.open = sc.blockOpen
      /\ sc.nextIndex = Len(d.blocks) /\ Len(d.blocks) \in Nat
      /\ d.text \in Bodies /\ d.blocks \in Seq(ShownBlocks)
  BY WritesFacts
<1>2. PICK n \in Nat : n = Len(d.blocks)
  BY <1>1
<1>3. PICK e : e = [type |-> "content_block_start", index |-> n, block |-> type, id |-> id]
  OBVIOUS
<1>4. e \in MessageEvents
  BY <1>3 DEF MessageEvents
<1>5. PICK b : b = Block(type, id, <<>>)
  OBVIOUS
<1>6. b \in ShownBlocks /\ b.type = type
  <2>1. <<>> \in Bodies
    BY DEF Bodies
  <2> QED BY <1>5, <2>1 DEF Block, ShownBlocks
<1>7. PICK v : v = Append(d.blocks, b)
  OBVIOUS
<1>8. v \in Seq(ShownBlocks) /\ Len(v) = n + 1 /\ v # <<>> /\ Last(v) = b
  <2>1. PICK w \in Seq(ShownBlocks) : w = d.blocks
    BY <1>1
  <2>2. /\ Append(w, b) \in Seq(ShownBlocks) /\ Len(Append(w, b)) = Len(w) + 1
        /\ Append(w, b) # <<>> /\ Last(Append(w, b)) = b
    BY <1>6, AppendIs
  <2> QED BY <1>2, <1>7, <2>1, <2>2
<1>9. PICK g : g = [d EXCEPT !.open = TRUE, !.blocks = v]
  OBVIOUS
<1>10. g = MessagesRead(d, e)
  <2>1. d \in Clients /\ ~d.broken /\ ~d.ended /\ d.begun /\ ~d.open /\ d.stop = Unset
    BY <1>1
  <2>2. v = Append(d.blocks, Block(type, id, <<>>))
    BY <1>5, <1>7
  <2> QED BY ZenonT(30), <1>2, <1>3, <1>9, <2>1, <2>2, ReadsBlockStart
<1>11. /\ g \in Clients /\ g.open = TRUE /\ g.text = d.text /\ g.blocks = v /\ g.begun = d.begun
       /\ g.stop = d.stop /\ g.ended = d.ended /\ g.broken = d.broken
  BY <1>1, <1>8, <1>9 DEF Clients
<1>12. PICK x : x = [sc EXCEPT !.curIndex = n, !.nextIndex = n + 1, !.blockOpen = TRUE, !.blockType = type]
  OBVIOUS
<1>13. /\ x \in Converters /\ x.buffer = sc.buffer /\ x.started = sc.started /\ x.blockOpen = TRUE
       /\ x.blockType = type /\ x.curIndex = n /\ x.nextIndex = n + 1
       /\ SameRest(sc, x)
  <2>1. n + 1 \in Nat /\ type \in BlockTypes \cup {Unset}
    OBVIOUS
  <2> HIDE DEF MessageEvents
  <2> QED BY <1>1, <1>12, <2>1 DEF Converters, SameRest
<1>14. PICK y : y = emit(x, e)
  OBVIOUS
<1>15. openBlock(sc, type, id) = y
  <2>1. [sc EXCEPT !.curIndex = sc.nextIndex, !.nextIndex = @ + 1, !.blockOpen = TRUE, !.blockType = type] = x
    <3> HIDE DEF MessageEvents
    <3> QED BY <1>1, <1>2, <1>12 DEF Converters
  <2> QED BY <1>1, <1>2, <1>3, <1>14, <2>1 DEF openBlock
<1>16. IsPrefix(d.text, g.text) /\ ~g.broken /\ Reaches(c, x.buffer, d)
  BY <1>1, <1>11, <1>13, PrefixSelf
<1>17. Emitted(x, y) /\ Reaches(c, y.buffer, g)
  BY <1>1, <1>4, <1>10, <1>11, <1>13, <1>14, <1>16, Emits
<1>18. Writes(c, y, g)
  <2>1. n = Len(g.blocks) - 1
    BY <1>8, <1>11
  <2> QED BY <1>1, <1>6, <1>8, <1>11, <1>13, <1>17, <2>1 DEF Emitted, Writes
<1>19. SameRest(sc, y)
  BY <1>13, <1>17 DEF Emitted, SameRest
<1>20. Wrote(c, sc, y, d.text, v, TRUE) /\ y.curIndex = n
  BY <1>11, <1>13, <1>17, <1>18, <1>19 DEF Wrote, Emitted
<1> QED BY <1>2, <1>5, <1>7, <1>15, <1>20

LEMMA DeltaWrites ==
    ASSUME NEW c, NEW sc, NEW d, Writes(c, sc, d), d.open,
           NEW type \in BlockTypes, Last(d.blocks).type = type, NEW piece \in Bodies,
           NEW n, n = Len(d.blocks) - 1
    PROVE  Wrote(c, sc, BlockDelta(sc, n, type, piece),
                 IF type = "text" THEN d.text \o piece ELSE d.text,
                 [d.blocks EXCEPT ![Len(d.blocks)].body = @ \o piece], TRUE)
<1>1. /\ sc \in Converters /\ d \in Clients /\ ~d.broken /\ ~d.ended /\ Reaches(c, sc.buffer, d)
      /\ d.stop = Unset /\ d.begun = sc.started /\ d.open = sc.blockOpen
      /\ d.begun /\ d.blocks # <<>> /\ sc.curIndex = Len(d.blocks) - 1
      /\ sc.blockType = Last(d.blocks).type
      /\ sc.nextIndex = Len(d.blocks) /\ Len(d.blocks) \in Nat
      /\ d.text \in Bodies /\ d.blocks \in Seq(ShownBlocks)
  BY WritesFacts
<1>2. PICK e : e = [type |-> "content_block_delta", index |-> n, block |-> type, piece |-> piece]
  OBVIOUS
<1>3. e \in MessageEvents
  <2>1. PICK w \in Seq(ShownBlocks) : w = d.blocks
    BY <1>1
  <2>2. w # <<>> /\ n = Len(w) - 1
    BY <1>1, <2>1
  <2>3. n \in Nat
    BY <2>2
  <2> QED BY <1>2, <2>3 DEF MessageEvents
<1>4. PICK g, text, v : /\ g = MessagesRead(d, e)
                        /\ text = (IF type = "text" THEN d.text \o piece ELSE d.text)
                        /\ v = [d.blocks EXCEPT ![Len(d.blocks)].body = @ \o piece]
  OBVIOUS
<1>5. TextOf(d, g, text, v)
  BY <1>1, <1>2, <1>4, ReadsBlockDelta
<1>6. /\ Len(v) = Len(d.blocks) /\ v # <<>> /\ Last(v).type = Last(d.blocks).type
  <2>1. ShownBlocks \in {ShownBlocks, CallBodies}
    OBVIOUS
  <2>2. PICK w \in Seq(ShownBlocks) : w = d.blocks
    BY <1>1
  <2>3. w # <<>> /\ v = [w EXCEPT ![Len(w)].body = @ \o piece]
    BY <1>1, <1>4, <2>2
  <2>4. /\ Len(v) = Len(w) /\ v # <<>> /\ Last(v) = v[Len(w)] /\ Last(w) = w[Len(w)]
        /\ w[Len(w)] \in ShownBlocks /\ v[Len(w)] = [w[Len(w)] EXCEPT !.body = @ \o piece]
    BY ZenonT(90), <2>1, <2>3, GrowLast
  <2>5. v[Len(w)].type = w[Len(w)].type
    BY <2>4 DEF ShownBlocks
  <2> QED BY <2>2, <2>4, <2>5
<1>7. /\ g \in Clients /\ ~g.broken /\ IsPrefix(d.text, g.text)
  <2>1. IsPrefix(d.text, text)
    BY <1>1, <1>4, PrefixSelf, PrefixCat
  <2> QED BY <1>1, <1>5, <2>1 DEF TextOf
<1>8. PICK y : y = BlockDelta(sc, n, type, piece)
  OBVIOUS
<1>9. y = emit(sc, e)
  BY <1>2, <1>8 DEF BlockDelta
<1>10. Emitted(sc, y) /\ Reaches(c, y.buffer, g)
  BY <1>1, <1>3, <1>4, <1>7, <1>9, Emits
<1>11. Writes(c, y, g)
  BY <1>1, <1>5, <1>6, <1>10 DEF Emitted, Writes, TextOf
<1>12. SameRest(sc, y)
  BY <1>10 DEF Emitted, SameRest
<1>13. Wrote(c, sc, y, text, v, TRUE)
  BY <1>1, <1>5, <1>11, <1>12 DEF Wrote, TextOf
<1> QED BY <1>4, <1>8, <1>13

\* A block begins, and has its first piece.
BegunWith(w, type, id, v) == v = Append(w, Block(type, id, <<>>))
GrownBy(v, piece, x) == x = [v EXCEPT ![Len(v)].body = @ \o piece]

LEMMA GrowAppended ==
    ASSUME NEW w \in Seq(ShownBlocks), NEW type \in BlockTypes, NEW id \in Nat, NEW piece \in Bodies,
           NEW v, BegunWith(w, type, id, v), NEW x, GrownBy(v, piece, x)
    PROVE  /\ v \in Seq(ShownBlocks) /\ v # <<>> /\ Len(v) = Len(w) + 1 /\ Last(v).type = type
           /\ x = Append(w, Block(type, id, piece))
<1>1. PICK b : b = Block(type, id, <<>>)
  OBVIOUS
<1>2. b \in ShownBlocks /\ b.type = type /\ b.id = id /\ b.body = <<>>
  <2>1. <<>> \in Bodies
    BY DEF Bodies
  <2> QED BY <1>1, <2>1 DEF Block, ShownBlocks
<1>3. v = Append(w, b) /\ x = [v EXCEPT ![Len(v)].body = @ \o piece]
  BY <1>1 DEF BegunWith, GrownBy
<1>4. /\ Len(w) \in Nat /\ v \in Seq(ShownBlocks) /\ Len(v) = Len(w) + 1 /\ v # <<>>
      /\ v[Len(w) + 1] = b /\ (\A k \in 1..Len(w) : v[k] = w[k]) /\ Last(v) = b
  BY <1>2, <1>3, AppendIs
<1>6. /\ x \in Seq(ShownBlocks) /\ Len(x) = Len(v) /\ x[Len(v)] = [b EXCEPT !.body = @ \o piece]
      /\ \A k \in 1..(Len(v) - 1) : x[k] = v[k]
  <2>1. ShownBlocks \in {ShownBlocks, CallBodies}
    OBVIOUS
  <2>2. v[Len(v)] = b
    BY <1>4
  <2>3. /\ x \in Seq(ShownBlocks) /\ Len(x) = Len(v) /\ x[Len(v)] = [v[Len(v)] EXCEPT !.body = @ \o piece]
        /\ \A k \in 1..(Len(v) - 1) : x[k] = v[k]
    <3>1. PICK u \in Seq(ShownBlocks) : u = v
      BY <1>4
    <3>2. u # <<>> /\ x = [u EXCEPT ![Len(u)].body = @ \o piece]
      BY <1>3, <1>4, <3>1
    <3>3. /\ x \in Seq(ShownBlocks) /\ Len(x) = Len(u) /\ x[Len(u)] = [u[Len(u)] EXCEPT !.body = @ \o piece]
          /\ \A k \in 1..(Len(u) - 1) : x[k] = u[k]
      <4> DEFINE y == [u EXCEPT ![Len(u)].body = @ \o piece]
      <4>1. /\ y \in Seq(ShownBlocks) /\ Len(y) = Len(u) /\ y[Len(u)] = [u[Len(u)] EXCEPT !.body = @ \o piece]
            /\ \A k \in 1..(Len(u) - 1) : y[k] = u[k]
        BY ZenonT(30), <2>1, <3>2, GrowLast
      <4> HIDE DEF y
      <4>2. x = y
        BY <3>2 DEF y
      <4> QED BY <4>1, <4>2
    <3> QED BY <3>1, <3>3
  <2> QED BY <2>2, <2>3
<1>7. PICK p : p = Block(type, id, piece)
  OBVIOUS
<1>8. p \in ShownBlocks
  BY <1>7 DEF Block, ShownBlocks
<1>9. [b EXCEPT !.body = @ \o piece] = p
  <2>1. b.body \o piece = piece
    BY <1>2, CatEmpty
  <2>2. b = [type |-> type, id |-> id, body |-> <<>>]
    BY <1>1 DEF Block
  <2>3. p = [type |-> type, id |-> id, body |-> piece]
    BY <1>7 DEF Block
  <2> QED BY <2>1, <2>2, <2>3
<1>10. PICK y : y = Append(w, p)
  OBVIOUS
<1>11. /\ y \in Seq(ShownBlocks) /\ Len(y) = Len(w) + 1 /\ y[Len(w) + 1] = p
       /\ \A k \in 1..Len(w) : y[k] = w[k]
  BY <1>8, <1>10, AppendIs
<1>12. \A k \in 1..Len(y) : x[k] = y[k]
  <2>1. \A k \in 1..Len(y) : k \in 1..Len(w) \/ k = Len(w) + 1
    BY <1>4, <1>11
  <2>2. x[Len(w) + 1] = p
    BY <1>4, <1>6, <1>9
  <2>3. \A k \in 1..Len(w) : x[k] = w[k]
    BY <1>4, <1>6
  <2> QED BY <1>11, <2>1, <2>2, <2>3
<1>13. x = y
  <2>1. x \in Seq(ShownBlocks) /\ y \in Seq(ShownBlocks) /\ Len(x) = Len(y)
    BY <1>4, <1>6, <1>11
  <2> QED BY <1>12, <2>1, SameSequence
<1> QED BY <1>2, <1>4, <1>7, <1>10, <1>13

LEMMA WroteThen ==
    ASSUME NEW c, NEW sc, NEW sd, NEW se, NEW text, NEW blocks, NEW open, SameRest(sc, sd),
           Wrote(c, sd, se, text, blocks, open)
    PROVE  Wrote(c, sc, se, text, blocks, open)
<1>1. SameRest(sd, se) /\ \E g : Writes(c, se, g) /\ g.begun /\ g.text = text /\ g.blocks = blocks /\ g.open = open
  BY DEF Wrote
<1>2. SameRest(sc, se)
  BY <1>1 DEF SameRest
<1> QED BY <1>1, <1>2 DEF Wrote

LEMMA TextWrites ==
    ASSUME NEW c, NEW sc, NEW d, Writes(c, sc, d), d.begun, d.blocks # <<>> => d.open,
           NEW type \in {"thinking", "text"}, NEW piece \in Bodies
    PROVE  Wrote(c, sc, handleText(sc, type, piece),
                 IF type = "text" THEN d.text \o piece ELSE d.text,
                 IF piece = <<>> THEN d.blocks ELSE Shown(d.blocks, Block(type, NoId, piece)),
                 IF piece = <<>> THEN d.open ELSE TRUE)
<1> DEFINE text == IF type = "text" THEN d.text \o piece ELSE d.text
<1>0. type \in BlockTypes /\ type # "tool" /\ NoId \in Nat
  BY DEF BlockTypes, NoId
<1>1. /\ sc \in Converters /\ d \in Clients
      /\ d.begun = sc.started /\ d.open = sc.blockOpen
      /\ d.open => d.begun /\ d.blocks # <<>> /\ sc.curIndex = Len(d.blocks) - 1
                   /\ sc.blockType = Last(d.blocks).type
      /\ sc.nextIndex = Len(d.blocks)
      /\ d.text \in Bodies /\ d.blocks \in Seq(ShownBlocks)
  BY WritesFacts
<1>2. CASE piece = <<>>
  <2>1. handleText(sc, type, piece) = sc
    BY <1>2 DEF handleText
  <2>2. text = d.text
    BY <1>1, <1>2, CatEmpty
  <2>3. Wrote(c, sc, sc, d.text, d.blocks, d.open)
    BY <1>1 DEF Wrote, SameRest
  <2> QED BY <1>2, <2>1, <2>2, <2>3
<1>3. CASE piece # <<>>
  <2>1. PICK w \in Seq(ShownBlocks) : w = d.blocks
    BY <1>1
  <2>2. PICK opened : opened = ensureBlock(sc, type)
    OBVIOUS
  <2>3. handleText(sc, type, piece) = BlockDelta(opened, opened.curIndex, type, piece)
    BY <1>3, <2>2 DEF handleText
  <2>4. PICK b : b = Block(type, NoId, piece)
    OBVIOUS
  <2>5. b.type = type /\ b.id = NoId /\ b.body = piece /\ Block(b.type, b.id, b.body) = b
    BY <2>4 DEF Block
  <2>6. CASE sc.blockOpen /\ sc.blockType = type
    <3>1. opened = sc
      BY <2>2, <2>6 DEF ensureBlock
    <3>2. w # <<>> /\ Last(w).type = type /\ opened.curIndex = Len(w) - 1 /\ d.open
      BY <1>1, <2>1, <2>6, <3>1
    <3>3. Wrote(c, sc, BlockDelta(sc, opened.curIndex, type, piece), text,
                [d.blocks EXCEPT ![Len(d.blocks)].body = @ \o piece], TRUE)
      BY <1>0, <2>1, <3>1, <3>2, DeltaWrites
    <3>4. Shown(w, b) = [w EXCEPT ![Len(w)].body = @ \o piece]
      BY <1>0, <1>3, <2>5, <3>2 DEF Shown
    <3> QED BY <1>3, <2>1, <2>3, <2>4, <3>1, <3>3, <3>4
  <2>7. CASE ~(sc.blockOpen /\ sc.blockType = type)
    <3>1. PICK x : x = closeBlock(sc)
      OBVIOUS
    <3>2. opened = openBlock(x, type, NoId)
      BY <2>2, <2>7, <3>1 DEF ensureBlock
    <3>3. Wrote(c, sc, x, d.text, w, FALSE)
      BY <2>1, <3>1, CloseWrites
    <3>4. PICK g : Writes(c, x, g) /\ g.begun /\ g.text = d.text /\ g.blocks = w /\ g.open = FALSE
      BY <3>3 DEF Wrote
    <3>5. PICK id \in Nat : id = NoId
      BY <1>0
    <3>6. /\ Wrote(c, x, opened, g.text, Append(g.blocks, Block(type, id, <<>>)), TRUE)
          /\ opened.curIndex = Len(g.blocks)
      BY <1>0, <3>2, <3>4, <3>5, OpenWrites
    <3>7. PICK v : v = Append(w, Block(type, id, <<>>))
      OBVIOUS
    <3>8. PICK h : Writes(c, opened, h) /\ h.begun /\ h.text = d.text /\ h.blocks = v /\ h.open = TRUE
      BY <3>4, <3>6, <3>7 DEF Wrote
    <3>16. PICK grown : grown = [v EXCEPT ![Len(v)].body = @ \o piece]
      OBVIOUS
    <3>9. /\ v \in Seq(ShownBlocks) /\ v # <<>> /\ Len(v) = Len(w) + 1 /\ Last(v).type = type
          /\ grown = Append(w, Block(type, id, piece))
      <4>1. BegunWith(w, type, id, v) /\ GrownBy(v, piece, grown)
        BY <3>7, <3>16 DEF BegunWith, GrownBy
      <4> QED BY <1>0, <4>1, GrowAppended
    <3>10. opened.curIndex = Len(h.blocks) - 1
      BY <3>4, <3>6, <3>8, <3>9
    <3>11. Wrote(c, opened, BlockDelta(opened, opened.curIndex, type, piece),
                 IF type = "text" THEN h.text \o piece ELSE h.text,
                 [h.blocks EXCEPT ![Len(h.blocks)].body = @ \o piece], TRUE)
      BY <1>0, <3>8, <3>9, <3>10, DeltaWrites
    <3>12. Wrote(c, opened, BlockDelta(opened, opened.curIndex, type, piece), text,
                 Append(w, Block(type, id, piece)), TRUE)
      BY <3>8, <3>9, <3>11, <3>16
    <3>13. SameRest(sc, opened)
      BY <3>3, <3>6 DEF Wrote, SameRest
    <3>14. Shown(w, b) = Append(w, b)
      <4>1. ~(w # <<>> /\ Last(w).type = type)
        BY <1>1, <2>1, <2>7
      <4> QED BY <1>0, <1>3, <2>5, <4>1 DEF Shown
    <3>15. Wrote(c, sc, BlockDelta(opened, opened.curIndex, type, piece), text, Shown(w, b), TRUE)
      BY <2>4, <3>5, <3>12, <3>13, <3>14, WroteThen
    <3> QED BY <1>3, <2>1, <2>3, <2>4, <3>15
  <2> QED BY <2>6, <2>7
<1> QED BY <1>2, <1>3

LEMMA NewCallWrites ==
    ASSUME NEW c, NEW sc, NEW d, Writes(c, sc, d), d.begun,
           NEW k \in Nat, k \notin DOMAIN sc.toolBlock, NEW id \in Nat, NEW arguments \in Bodies
    PROVE  Wrote(c, [sc EXCEPT !.toolBlock = Put(@, k, Len(d.blocks))],
                 handleToolCall(sc, CallDelta(k, id, arguments)), d.text,
                 Append(d.blocks, Block("tool", id, arguments)), TRUE)
<1> DEFINE sm == [sc EXCEPT !.toolBlock = Put(@, k, Len(d.blocks))]
<1>1. sc \in Converters /\ d \in Clients /\ d.text \in Bodies /\ d.blocks \in Seq(ShownBlocks)
  BY WritesFacts
<1>2. PICK w \in Seq(ShownBlocks) : w = d.blocks
  BY <1>1
<1>3. PICK n \in Nat : n = Len(w)
  OBVIOUS
<1>4. PICK delta : delta = CallDelta(k, id, arguments)
  OBVIOUS
<1>5. delta.index = k /\ delta.id = id /\ delta.arguments = arguments
  BY <1>4 DEF CallDelta
<1>6. PICK x, y : x = closeBlock(sc) /\ y = openBlock(x, "tool", id)
  OBVIOUS
<1>7. Wrote(c, sc, x, d.text, d.blocks, FALSE)
  BY <1>6, CloseWrites
<1>8. PICK g : Writes(c, x, g) /\ g.begun /\ g.text = d.text /\ g.blocks = w /\ g.open = FALSE
  BY <1>2, <1>7 DEF Wrote
<1>9. PICK type \in BlockTypes : type = "tool"
  BY DEF BlockTypes
<1>10. /\ Wrote(c, x, y, g.text, Append(g.blocks, Block(type, id, <<>>)), TRUE)
       /\ y.curIndex = Len(g.blocks)
  BY <1>6, <1>8, <1>9, OpenWrites
<1>11. PICK v : v = Append(w, Block(type, id, <<>>))
  OBVIOUS
<1>12. PICK h : Writes(c, y, h) /\ h.begun /\ h.text = d.text /\ h.blocks = v /\ h.open = TRUE
  BY <1>8, <1>10, <1>11 DEF Wrote
<1>25. PICK grown : grown = [v EXCEPT ![Len(v)].body = @ \o arguments]
  OBVIOUS
<1>13. /\ v \in Seq(ShownBlocks) /\ v # <<>> /\ Len(v) = n + 1 /\ Last(v).type = type
       /\ grown = Append(w, Block(type, id, arguments))
  <2>1. BegunWith(w, type, id, v) /\ GrownBy(v, arguments, grown)
    BY <1>11, <1>25 DEF BegunWith, GrownBy
  <2> QED BY <1>3, <2>1, GrowAppended
<1>14. PICK blocks : blocks = Put(sc.toolBlock, k, n)
  OBVIOUS
<1>15. blocks \in Partial(Nat) /\ k \in DOMAIN blocks /\ blocks[k] = n
  <2>1. PICK f \in Partial(Nat) : f = sc.toolBlock
    <3> HIDE DEF MessageEvents
    <3> QED BY <1>1 DEF Converters
  <2>2. PutIs(Nat, f, k, n, Put(f, k, n))
    BY PartialWith
  <2> QED BY <1>14, <2>1, <2>2 DEF PutIs
<1>16. PICK z : z = [y EXCEPT !.toolBlock = blocks]
  OBVIOUS
<1>17. SameRest(sc, y)
  BY <1>7, <1>10 DEF Wrote, SameRest
<1>18. y \in Converters /\ sm \in Converters /\ y.curIndex = n
       /\ sm.toolBlock = blocks /\ sm.stopReason = sc.stopReason /\ sm.usage = sc.usage
       /\ sm.finalized = sc.finalized /\ sm.closed = sc.closed
  <2>1. y \in Converters
    BY <1>12 DEF Writes
  <2>2. sm = [sc EXCEPT !.toolBlock = blocks]
    <3> HIDE DEF MessageEvents
    <3> QED BY <1>1, <1>2, <1>3, <1>14 DEF Converters
  <2>3. /\ sm \in Converters /\ sm.toolBlock = blocks /\ sm.stopReason = sc.stopReason
        /\ sm.usage = sc.usage /\ sm.finalized = sc.finalized /\ sm.closed = sc.closed
    <3> HIDE DEF sm, MessageEvents
    <3> QED BY <1>1, <1>15, <2>2 DEF Converters
  <2> QED BY <1>3, <1>8, <1>10, <2>1, <2>3
<1> HIDE DEF sm
<1>19. /\ z \in Converters /\ z.buffer = y.buffer /\ z.started = y.started /\ z.blockOpen = y.blockOpen
       /\ z.blockType = y.blockType /\ z.curIndex = y.curIndex /\ z.nextIndex = y.nextIndex
       /\ z.toolBlock = blocks /\ z.stopReason = y.stopReason /\ z.usage = y.usage
       /\ z.finalized = y.finalized /\ z.closed = y.closed
  <2> HIDE DEF MessageEvents
  <2> QED BY <1>15, <1>16, <1>18 DEF Converters
<1>20. Writes(c, z, h)
  BY <1>12, <1>19 DEF Writes
<1>21. SameRest(sm, z)
  BY <1>17, <1>18, <1>19 DEF SameRest
<1>22. PICK r : r = handleToolCall(sc, delta)
  OBVIOUS
<1>23. r = IF arguments = <<>> THEN z ELSE BlockDelta(z, n, "tool", arguments)
  <2>1. [y EXCEPT !.toolBlock = Put(@, k, y.curIndex)] = z
    <3>1. y.toolBlock = sc.toolBlock
      BY <1>17 DEF SameRest
    <3> HIDE DEF MessageEvents
    <3> QED BY <1>14, <1>16, <1>18, <3>1 DEF Converters
  <2>2. z.toolBlock[k] = n
    BY <1>15, <1>19
  <2>3. PICK known : known = IF delta.index \in DOMAIN sc.toolBlock THEN sc
                             ELSE [y EXCEPT !.toolBlock = Put(@, delta.index, y.curIndex)]
    OBVIOUS
  <2>4. known = z
    BY <1>5, <2>1, <2>3
  <2>5. r = IF delta.arguments = <<>> THEN known
            ELSE BlockDelta(known, known.toolBlock[delta.index], "tool", delta.arguments)
    <3>1. y = openBlock(closeBlock(sc), "tool", delta.id)
      BY <1>5, <1>6
    <3> QED BY <1>22, <2>3, <3>1 DEF handleToolCall
  <2> QED BY <1>5, <2>2, <2>4, <2>5
<1>24. Wrote(c, sm, r, d.text, Append(w, Block(type, id, arguments)), TRUE)
  <2>1. CASE arguments = <<>>
    <3>1. r = z /\ v = Append(w, Block(type, id, arguments))
      BY <1>11, <1>23, <2>1
    <3> QED BY <1>12, <1>20, <1>21, <3>1 DEF Wrote
  <2>2. CASE arguments # <<>>
    <3>1. r = BlockDelta(z, n, type, arguments)
      BY <1>9, <1>23, <2>2
    <3>2. n = Len(h.blocks) - 1 /\ h.open /\ Last(h.blocks).type = type
      BY <1>12, <1>13
    <3>3. Wrote(c, z, BlockDelta(z, n, type, arguments),
                IF type = "text" THEN h.text \o arguments ELSE h.text,
                [h.blocks EXCEPT ![Len(h.blocks)].body = @ \o arguments], TRUE)
      BY <1>20, <3>2, DeltaWrites
    <3>4. type # "text"
      BY <1>9
    <3>5. Wrote(c, z, r, d.text, Append(w, Block(type, id, arguments)), TRUE)
      BY <1>12, <1>13, <1>25, <3>1, <3>3, <3>4
    <3> QED BY <1>21, <3>5, WroteThen
  <2> QED BY <2>1, <2>2
<1> QED BY <1>2, <1>4, <1>9, <1>22, <1>24 DEF sm

LEMMA MoreOfCallWrites ==
    ASSUME NEW c, NEW sc, NEW d, Writes(c, sc, d), d.open, Last(d.blocks).type = "tool",
           NEW k \in DOMAIN sc.toolBlock, sc.toolBlock[k] = Len(d.blocks) - 1,
           NEW arguments \in Bodies, arguments # <<>>
    PROVE  Wrote(c, sc, handleToolCall(sc, CallDelta(k, NoId, arguments)), d.text,
                 [d.blocks EXCEPT ![Len(d.blocks)].body = @ \o arguments], TRUE)
<1>1. PICK delta : delta = CallDelta(k, NoId, arguments)
  OBVIOUS
<1>2. delta.index = k /\ delta.arguments = arguments
  BY <1>1 DEF CallDelta
<1>3. PICK n : n = Len(d.blocks) - 1
  OBVIOUS
<1>4. handleToolCall(sc, delta) = BlockDelta(sc, n, "tool", arguments)
  BY <1>2, <1>3 DEF handleToolCall
<1>5. PICK type \in BlockTypes : type = "tool"
  BY DEF BlockTypes
<1>6. Wrote(c, sc, BlockDelta(sc, n, type, arguments),
            IF type = "text" THEN d.text \o arguments ELSE d.text,
            [d.blocks EXCEPT ![Len(d.blocks)].body = @ \o arguments], TRUE)
  BY <1>3, <1>5, DeltaWrites
<1>7. type # "text"
  BY <1>5
<1> QED BY <1>1, <1>4, <1>5, <1>6, <1>7

LEMMA FinalizeWrites ==
    ASSUME NEW c, NEW sc, NEW d, Writes(c, sc, d), ~sc.finalized
    PROVE  /\ finalize(sc) \in Converters /\ finalize(sc).finalized /\ finalize(sc).closed = sc.closed
           /\ \E g : /\ Reaches(c, finalize(sc).buffer, g) /\ g.ended
                     /\ g.blocks = d.blocks /\ g.text = d.text /\ g.usage = sc.usage
                     /\ g.stop = IF sc.stopReason = Unset THEN "end_turn" ELSE sc.stopReason
<1>1. sc \in Converters /\ d \in Clients /\ d.text \in Bodies
  BY WritesFacts
<1>2. PICK x : x = [sc EXCEPT !.finalized = TRUE]
  OBVIOUS
<1>3. /\ x \in Converters /\ x.buffer = sc.buffer /\ x.started = sc.started /\ x.blockOpen = sc.blockOpen
      /\ x.blockType = sc.blockType /\ x.curIndex = sc.curIndex /\ x.nextIndex = sc.nextIndex
      /\ x.toolBlock = sc.toolBlock /\ x.stopReason = sc.stopReason /\ x.usage = sc.usage
      /\ x.finalized = TRUE /\ x.closed = sc.closed
  <2> HIDE DEF MessageEvents
  <2> QED BY <1>1, <1>2 DEF Converters
<1>4. Writes(c, x, d)
  BY <1>3 DEF Writes
<1>5. PICK y, z : y = ensureStarted(x) /\ z = closeBlock(y)
  OBVIOUS
<1>6. Wrote(c, x, y, d.text, d.blocks, d.open)
  BY <1>4, <1>5, StartWrites
<1>7. PICK g : Writes(c, y, g) /\ g.begun /\ g.text = d.text /\ g.blocks = d.blocks
  BY <1>6 DEF Wrote
<1>8. Wrote(c, y, z, d.text, d.blocks, FALSE)
  <2>1. Wrote(c, y, z, g.text, g.blocks, FALSE)
    BY <1>5, <1>7, CloseWrites
  <2> QED BY <1>7, <2>1
<1>9. PICK h : Writes(c, z, h) /\ h.begun /\ h.text = d.text /\ h.blocks = d.blocks /\ h.open = FALSE
  BY <1>8 DEF Wrote
<1>10. /\ z \in Converters /\ h \in Clients /\ ~h.broken /\ ~h.ended /\ Reaches(c, z.buffer, h)
       /\ h.stop = Unset
  BY <1>9, WritesFacts
<1>11. z.finalized = TRUE /\ z.closed = sc.closed
  BY <1>3, <1>6, <1>8 DEF Wrote, SameRest
<1>12. PICK reason : reason = IF sc.stopReason = Unset THEN "end_turn" ELSE sc.stopReason
  OBVIOUS
<1>13. reason \in Words /\ reason # Unset /\ sc.usage \in Usages
  <2>1. sc.stopReason \in Words /\ sc.usage \in Usages
    <3> HIDE DEF MessageEvents
    <3> QED BY <1>1 DEF Converters
  <2>2. "end_turn" \in Words /\ "end_turn" # Unset
    BY Zenon DEF Words, Unset
  <2> QED BY <1>12, <2>1, <2>2
<1>14. PICK e : e = [type |-> "message_delta", usage |-> sc.usage, stop |-> reason]
  OBVIOUS
<1>15. e \in MessageEvents
  BY <1>13, <1>14 DEF MessageEvents
<1>16. PICK k : k = [h EXCEPT !.stop = reason, !.usage = sc.usage]
  OBVIOUS
<1>17. /\ k \in Clients /\ k.stop = reason /\ k.usage = sc.usage /\ k.text = h.text /\ k.blocks = h.blocks
       /\ k.ended = h.ended /\ k.broken = h.broken
  BY <1>10, <1>13, <1>16 DEF Clients
<1>18. k = MessagesRead(h, e)
  <2>1. h.begun /\ ~h.open
    BY <1>9
  <2>3. MessageDelta(e, reason, sc.usage) /\ StoppedFor(h, reason, sc.usage, k)
    BY <1>14, <1>16 DEF MessageDelta, StoppedFor
  <2> QED BY <1>10, <2>1, <2>3, ReadsMessageDelta
<1>19. PICK v : v = emit(z, e)
  OBVIOUS
<1>20. Emitted(z, v) /\ Reaches(c, v.buffer, k)
  <2>1. IsPrefix(h.text, k.text)
    BY <1>1, <1>9, <1>17, PrefixSelf
  <2> QED BY <1>10, <1>15, <1>17, <1>18, <1>19, <2>1, Emits
<1>21. v \in Converters /\ v.finalized = TRUE /\ v.closed = sc.closed
  BY <1>11, <1>20 DEF Emitted
<1>22. PICK a : a = [type |-> "message_stop"]
  OBVIOUS
<1>23. a \in MessageEvents
  BY <1>22 DEF MessageEvents
<1>24. PICK m : m = [k EXCEPT !.ended = TRUE]
  OBVIOUS
<1>25. /\ m \in Clients /\ m.stop = reason /\ m.usage = sc.usage /\ m.text = k.text /\ m.blocks = k.blocks
       /\ m.ended = TRUE /\ m.broken = k.broken
  BY <1>17, <1>24 DEF Clients
<1>26. m = MessagesRead(k, a)
  BY <1>10, <1>13, <1>17, <1>22, <1>24, ReadsMessageStop
<1>27. PICK w : w = emit(v, a)
  OBVIOUS
<1>28. Emitted(v, w) /\ Reaches(c, w.buffer, m)
  <2>1. IsPrefix(k.text, m.text)
    BY <1>1, <1>9, <1>17, <1>25, PrefixSelf
  <2> QED BY <1>10, <1>17, <1>20, <1>21, <1>23, <1>25, <1>26, <1>27, <2>1, Emits
<1>29. w \in Converters /\ w.finalized /\ w.closed = sc.closed
  BY <1>21, <1>28 DEF Emitted
<1>30. finalize(sc) = w
  <2>1. w = emit(emit(z, e), a)
    BY <1>19, <1>27
  <2>2. finalize(sc) = emit(emit(z, [type |-> "message_delta", usage |-> sc.usage, stop |-> reason]),
                            [type |-> "message_stop"])
    BY <1>2, <1>5, <1>12 DEF finalize
  <2> QED BY <1>14, <1>22, <2>1, <2>2
<1> QED BY <1>9, <1>12, <1>17, <1>25, <1>28, <1>29, <1>30

\* The parts of a chunk.
MessageCounted(sc, e) ==
  [ensureStarted(sc) EXCEPT !.usage = IF e.usage = NoUsage THEN @ ELSE e.usage]
MessageTexts(sc, e) ==
  handleText(handleText(MessageCounted(sc, e), "thinking", e.reasoning), "text", e.content)
MessageFinished(sc, e) ==
  IF e.finish = Unset THEN sc
  ELSE [sc EXCEPT !.stopReason = stopReasonFromFinish(e.finish, sc.toolBlock # <<>>)]

LEMMA HandledFirst ==
    ASSUME NEW sc, NEW e, e.calls = <<>>
    PROVE  handleChunk(sc, e) = MessageFinished(MessageTexts(sc, e), e)
<1> DEFINE A == MessageTexts(sc, e)
           Step(g, n) == IF n = 0 THEN A ELSE handleToolCall(g[n - 1], e.calls[n])
<1>1. Len(e.calls) = 0
  OBVIOUS
<1>2. PICK after : after = CHOOSE g : g = [n \in 0..Len(e.calls) |-> Step(g, n)]
  OBVIOUS
<1>3. handleChunk(sc, e) = MessageFinished(after[Len(e.calls)], e)
  BY <1>2 DEF handleChunk, MessageFinished, MessageTexts, MessageCounted
<1> HIDE DEF A
<1>4. \E g : g = [n \in 0..0 |-> Step(g, n)]
  <2> DEFINE h == [n \in 0..0 |-> A]
  <2>1. h = [n \in 0..0 |-> Step(h, n)]
    OBVIOUS
  <2> QED BY <2>1
<1>5. after = [n \in 0..0 |-> Step(after, n)]
  <2> HIDE DEF Step
  <2>1. 0..Len(e.calls) = 0..0
    BY <1>1
  <2> QED BY <1>2, <1>4, <2>1
<1>6. after[0] = A
  BY <1>5
<1> QED BY <1>1, <1>3, <1>6 DEF A

LEMMA HandledSecond ==
    ASSUME NEW sc, NEW e, NEW delta, e.calls = <<delta>>
    PROVE  handleChunk(sc, e) = MessageFinished(handleToolCall(MessageTexts(sc, e), delta), e)
<1> DEFINE A == MessageTexts(sc, e)
           Step(g, n) == IF n = 0 THEN A ELSE handleToolCall(g[n - 1], e.calls[n])
<1>1. Len(e.calls) = 1 /\ e.calls[1] = delta
  OBVIOUS
<1>2. PICK after : after = CHOOSE g : g = [n \in 0..Len(e.calls) |-> Step(g, n)]
  OBVIOUS
<1>3. handleChunk(sc, e) = MessageFinished(after[Len(e.calls)], e)
  BY <1>2 DEF handleChunk, MessageFinished, MessageTexts, MessageCounted
<1> HIDE DEF A
<1>4. \E g : g = [n \in 0..1 |-> Step(g, n)]
  <2>1. PICK B : B = handleToolCall(A, delta)
    OBVIOUS
  <2> DEFINE h == [n \in 0..1 |-> IF n = 0 THEN A ELSE B]
  <2>2. h[0] = A
    OBVIOUS
  <2>3. Step(h, 0) = A /\ Step(h, 1) = B
    <3> HIDE DEF h
    <3> QED BY <1>1, <2>1, <2>2
  <2>4. \A n \in 0..1 : h[n] = Step(h, n)
    <3>1. \A n \in 0..1 : n = 0 \/ n = 1
      OBVIOUS
    <3>2. h[1] = B
      OBVIOUS
    <3> HIDE DEF Step, h
    <3> QED BY <2>2, <2>3, <3>1, <3>2
  <2>5. h = [n \in 0..1 |-> h[n]]
    OBVIOUS
  <2> HIDE DEF Step, h
  <2> QED BY <2>4, <2>5
<1>5. after = [n \in 0..1 |-> Step(after, n)]
  <2> HIDE DEF Step
  <2>1. 0..Len(e.calls) = 0..1
    BY <1>1
  <2> QED BY <1>2, <1>4, <2>1
<1>6. after[0] = A /\ after[1] = Step(after, 1)
  <2>1. after[1] = Step(after, 1)
    <3> HIDE DEF Step
    <3> QED BY <1>5
  <2>2. after[0] = Step(after, 0)
    <3> HIDE DEF Step
    <3> QED BY <1>5
  <2> QED BY <2>1, <2>2
<1>7. after[1] = handleToolCall(A, delta)
  BY <1>1, <1>6
<1> QED BY <1>1, <1>3, <1>7 DEF A

LEMMA ReasonFacts ==
    ASSUME NEW finish \in Words \ {Unset}, NEW called \in BOOLEAN
    PROVE  stopReasonFromFinish(finish, called) \in Words \ {Unset}
<1>1. {"tool_use", "end_turn", "max_tokens"} \subseteq Words \ {Unset}
  BY Zenon DEF Words, Unset
<1>2. "tool_use" \in Words \ {Unset} /\ "end_turn" \in Words \ {Unset} /\ "max_tokens" \in Words \ {Unset}
  BY <1>1, Zenon
<1>3. CASE called \/ finish = "tool_calls"
  <2>1. stopReasonFromFinish(finish, called) = "tool_use"
    BY <1>3 DEF stopReasonFromFinish
  <2> QED BY <1>2, <2>1
<1>4. CASE ~called /\ finish # "tool_calls" /\ finish \in {"stop", "content_filter"}
  <2>1. stopReasonFromFinish(finish, called) = "end_turn"
    BY <1>4 DEF stopReasonFromFinish
  <2> QED BY <1>2, <2>1
<1>5. CASE ~called /\ finish # "tool_calls" /\ finish \notin {"stop", "content_filter"} /\ finish = "length"
  <2>1. stopReasonFromFinish(finish, called) = "max_tokens"
    BY <1>5 DEF stopReasonFromFinish
  <2> QED BY <1>2, <2>1
<1>6. CASE ~called /\ finish # "tool_calls" /\ finish \notin {"stop", "content_filter"} /\ finish # "length"
  <2>1. stopReasonFromFinish(finish, called) = finish
    BY <1>6 DEF stopReasonFromFinish
  <2> QED BY <2>1
<1> QED BY <1>3, <1>4, <1>5, <1>6

\* The converter and its client with a text and blocks, and the usage that is
\* counted; the rest is as before.
MessagesAt(c, sc, sd, usage, text, blocks, open) ==
  /\ sd.toolBlock = sc.toolBlock /\ sd.stopReason = sc.stopReason /\ sd.usage = usage
  /\ sd.finalized = sc.finalized /\ sd.closed = sc.closed
  /\ \E g : Writes(c, sd, g) /\ g.begun /\ g.text = text /\ g.blocks = blocks /\ g.open = open

LEMMA CountedWrites ==
    ASSUME NEW c, NEW sc, NEW d, Writes(c, sc, d), NEW e, e.usage \in Usages
    PROVE  MessagesAt(c, sc, MessageCounted(sc, e), IF e.usage = NoUsage THEN sc.usage ELSE e.usage,
                      d.text, d.blocks, d.open)
<1>1. PICK y : y = ensureStarted(sc)
  OBVIOUS
<1>2. Wrote(c, sc, y, d.text, d.blocks, d.open)
  BY <1>1, StartWrites
<1>3. PICK g : Writes(c, y, g) /\ g.begun /\ g.text = d.text /\ g.blocks = d.blocks /\ g.open = d.open
  BY <1>2 DEF Wrote
<1>4. SameRest(sc, y)
  BY <1>2 DEF Wrote
<1>5. y \in Converters
  BY <1>3 DEF Writes
<1>6. PICK usage : usage = IF e.usage = NoUsage THEN sc.usage ELSE e.usage
  OBVIOUS
<1>7. y.usage = sc.usage /\ y.usage \in Usages
  <2> HIDE DEF MessageEvents
  <2> QED BY <1>4, <1>5 DEF SameRest, Converters
<1>8. usage \in Usages
  BY <1>6, <1>7
<1>9. PICK z : z = [y EXCEPT !.usage = usage]
  OBVIOUS
<1>10. MessageCounted(sc, e) = z
  <2> HIDE DEF MessageEvents
  <2> QED BY <1>1, <1>5, <1>6, <1>7, <1>9 DEF MessageCounted, Converters
<1>11. /\ z \in Converters /\ z.buffer = y.buffer /\ z.started = y.started /\ z.blockOpen = y.blockOpen
       /\ z.blockType = y.blockType /\ z.curIndex = y.curIndex /\ z.nextIndex = y.nextIndex
       /\ z.toolBlock = y.toolBlock /\ z.stopReason = y.stopReason /\ z.usage = usage
       /\ z.finalized = y.finalized /\ z.closed = y.closed
  <2> HIDE DEF MessageEvents
  <2> QED BY <1>5, <1>8, <1>9 DEF Converters
<1>12. Writes(c, z, g)
  BY <1>3, <1>11 DEF Writes
<1>13. /\ z.toolBlock = sc.toolBlock /\ z.stopReason = sc.stopReason /\ z.finalized = sc.finalized /\ z.closed = sc.closed
  BY <1>4, <1>11 DEF SameRest
<1>14. MessagesAt(c, sc, z, usage, d.text, d.blocks, d.open)
  BY <1>3, <1>11, <1>12, <1>13 DEF MessagesAt
<1> QED BY <1>6, <1>10, <1>14

LEMMA AtThen ==
    ASSUME NEW c, NEW sc, NEW sd, NEW se, NEW usage, NEW text, NEW blocks, NEW open,
           sd.toolBlock = sc.toolBlock, sd.stopReason = sc.stopReason, sd.usage = usage,
           sd.finalized = sc.finalized, sd.closed = sc.closed, Wrote(c, sd, se, text, blocks, open)
    PROVE  MessagesAt(c, sc, se, usage, text, blocks, open)
BY DEF Wrote, SameRest, MessagesAt

LEMMA TextsWrite ==
    ASSUME NEW c, NEW sc, NEW d, Writes(c, sc, d), d.blocks # <<>> => d.open,
           NEW e, e.usage \in Usages, e.content \in Bodies, e.reasoning \in Bodies,
           NEW usage, usage = IF e.usage = NoUsage THEN sc.usage ELSE e.usage
    PROVE  /\ e.reasoning = <<>> /\ e.content = <<>> =>
                MessagesAt(c, sc, MessageTexts(sc, e), usage, d.text, d.blocks, d.open)
           /\ e.reasoning # <<>> /\ e.content = <<>> =>
                MessagesAt(c, sc, MessageTexts(sc, e), usage, d.text,
                           Shown(d.blocks, Block("thinking", NoId, e.reasoning)), TRUE)
           /\ e.reasoning = <<>> /\ e.content # <<>> =>
                MessagesAt(c, sc, MessageTexts(sc, e), usage, d.text \o e.content,
                           Shown(d.blocks, Block("text", NoId, e.content)), TRUE)
<1>1. PICK k, x, y : /\ k = MessageCounted(sc, e) /\ x = handleText(k, "thinking", e.reasoning)
                     /\ y = handleText(x, "text", e.content)
  OBVIOUS
<1>2. y = MessageTexts(sc, e)
  BY <1>1 DEF MessageTexts
<1>3. MessagesAt(c, sc, k, usage, d.text, d.blocks, d.open)
  <2>1. MessagesAt(c, sc, k, IF e.usage = NoUsage THEN sc.usage ELSE e.usage, d.text, d.blocks, d.open)
    BY <1>1, CountedWrites
  <2> QED BY <2>1
<1>4. PICK g : Writes(c, k, g) /\ g.begun /\ g.text = d.text /\ g.blocks = d.blocks /\ g.open = d.open
  BY <1>3 DEF MessagesAt
<1>5. d.text \in Bodies /\ d.blocks \in Seq(ShownBlocks)
  BY WritesFacts
<1>6. PICK thinking \in {"thinking", "text"} : thinking = "thinking"
  OBVIOUS
<1>7. PICK plain \in {"thinking", "text"} : plain = "text"
  OBVIOUS
<1>8. PICK p \in Bodies : p = e.reasoning
  OBVIOUS
<1>9. PICK q \in Bodies : q = e.content
  OBVIOUS
<1>10. x = handleText(k, thinking, p) /\ y = handleText(x, plain, q)
  BY <1>1, <1>6, <1>7, <1>8, <1>9
<1>11. Wrote(c, k, x, d.text, IF p = <<>> THEN d.blocks ELSE Shown(d.blocks, Block(thinking, NoId, p)),
             IF p = <<>> THEN d.open ELSE TRUE)
  <2>1. Wrote(c, k, handleText(k, thinking, p), IF thinking = "text" THEN g.text \o p ELSE g.text,
              IF p = <<>> THEN g.blocks ELSE Shown(g.blocks, Block(thinking, NoId, p)),
              IF p = <<>> THEN g.open ELSE TRUE)
    BY <1>4, TextWrites
  <2>2. thinking # "text"
    BY <1>6
  <2> QED BY <1>4, <1>10, <2>1, <2>2
<1>12. PICK blocks : blocks = IF p = <<>> THEN d.blocks ELSE Shown(d.blocks, Block(thinking, NoId, p))
  OBVIOUS
<1>13. PICK open : open = IF p = <<>> THEN d.open ELSE TRUE
  OBVIOUS
<1>14. PICK h : Writes(c, x, h) /\ h.begun /\ h.text = d.text /\ h.blocks = blocks /\ h.open = open
  BY <1>11, <1>12, <1>13 DEF Wrote
<1>15. blocks # <<>> => open
  BY <1>12, <1>13
<1>16. Wrote(c, x, y, d.text \o q, IF q = <<>> THEN blocks ELSE Shown(blocks, Block(plain, NoId, q)),
             IF q = <<>> THEN open ELSE TRUE)
  <2>1. Wrote(c, x, handleText(x, plain, q), IF plain = "text" THEN h.text \o q ELSE h.text,
              IF q = <<>> THEN h.blocks ELSE Shown(h.blocks, Block(plain, NoId, q)),
              IF q = <<>> THEN h.open ELSE TRUE)
    BY <1>14, <1>15, TextWrites
  <2> QED BY <1>7, <1>10, <1>14, <2>1
<1>17. Wrote(c, k, y, d.text \o q, IF q = <<>> THEN blocks ELSE Shown(blocks, Block(plain, NoId, q)),
             IF q = <<>> THEN open ELSE TRUE)
  <2>1. SameRest(k, x)
    BY <1>11 DEF Wrote
  <2> QED BY <1>16, <2>1, WroteThen
<1>18. MessagesAt(c, sc, y, usage, d.text \o q, IF q = <<>> THEN blocks ELSE Shown(blocks, Block(plain, NoId, q)),
                  IF q = <<>> THEN open ELSE TRUE)
  <2>1. /\ k.toolBlock = sc.toolBlock /\ k.stopReason = sc.stopReason /\ k.usage = usage
        /\ k.finalized = sc.finalized /\ k.closed = sc.closed
    BY <1>3 DEF MessagesAt
  <2> QED BY <1>17, <2>1, AtThen
<1>19. d.text \o <<>> = d.text
  BY <1>5, CatEmpty
<1>20. CASE p = <<>> /\ q = <<>>
  <2>1. blocks = d.blocks /\ open = d.open
    BY <1>12, <1>13, <1>20
  <2> QED BY <1>2, <1>8, <1>9, <1>18, <1>19, <1>20, <2>1
<1>21. CASE p # <<>> /\ q = <<>>
  <2>1. blocks = Shown(d.blocks, Block("thinking", NoId, e.reasoning)) /\ open = TRUE
    BY <1>6, <1>8, <1>12, <1>13, <1>21
  <2> QED BY <1>2, <1>8, <1>9, <1>18, <1>19, <1>21, <2>1
<1>22. CASE p = <<>> /\ q # <<>>
  <2>1. blocks = d.blocks
    BY <1>12, <1>22
  <2> QED BY <1>2, <1>7, <1>8, <1>9, <1>18, <1>22, <2>1
<1>23. CASE p # <<>> /\ q # <<>>
  BY <1>8, <1>9, <1>23
<1> QED BY <1>20, <1>21, <1>22, <1>23

LEMMA FinishWrites ==
    ASSUME NEW c, NEW sc, NEW d, Writes(c, sc, d), NEW e, e.finish \in Words
    PROVE  /\ Writes(c, MessageFinished(sc, e), d)
           /\ MessageFinished(sc, e).toolBlock = sc.toolBlock /\ MessageFinished(sc, e).usage = sc.usage
           /\ MessageFinished(sc, e).finalized = sc.finalized /\ MessageFinished(sc, e).closed = sc.closed
           /\ MessageFinished(sc, e).stopReason
                = IF e.finish = Unset THEN sc.stopReason
                  ELSE stopReasonFromFinish(e.finish, sc.toolBlock # <<>>)
<1>1. CASE e.finish = Unset
  BY <1>1 DEF MessageFinished
<1>2. CASE e.finish # Unset
  <2>1. PICK called \in BOOLEAN : called = (sc.toolBlock # <<>>)
    OBVIOUS
  <2>2. PICK finish \in Words \ {Unset} : finish = e.finish
    BY <1>2
  <2>3. PICK reason : reason = stopReasonFromFinish(finish, called)
    OBVIOUS
  <2>4. reason \in Words
    <3>1. stopReasonFromFinish(finish, called) \in Words \ {Unset}
      BY ReasonFacts
    <3> QED BY <2>3, <3>1
  <2>5. PICK x : x = [sc EXCEPT !.stopReason = reason]
    OBVIOUS
  <2>6. MessageFinished(sc, e) = x
    BY <1>2, <2>1, <2>2, <2>3, <2>5 DEF MessageFinished
  <2>7. sc \in Converters
    BY DEF Writes
  <2>8. /\ x \in Converters /\ x.buffer = sc.buffer /\ x.started = sc.started /\ x.blockOpen = sc.blockOpen
        /\ x.blockType = sc.blockType /\ x.curIndex = sc.curIndex /\ x.nextIndex = sc.nextIndex
        /\ x.toolBlock = sc.toolBlock /\ x.stopReason = reason /\ x.usage = sc.usage
        /\ x.finalized = sc.finalized /\ x.closed = sc.closed
    <3> HIDE DEF MessageEvents
    <3> QED BY <2>4, <2>5, <2>7 DEF Converters
  <2>9. Writes(c, x, d)
    BY <2>8 DEF Writes
  <2> QED BY <1>2, <2>1, <2>2, <2>3, <2>6, <2>8, <2>9
<1> QED BY <1>1, <1>2

LEMMA NoneThere ==
    ASSUME NEW S, NEW f \in Partial(S), NEW n \in Nat, DOMAIN f = 0..(n - 1)
    PROVE  f = <<>> <=> n = 0
<1>1. PICK D \in SUBSET Nat : f \in [D -> S]
  BY DEF Partial
<1>2. <<>> \in [{} -> S] /\ DOMAIN <<>> = {}
  OBVIOUS
<1>3. ASSUME f = <<>> PROVE n = 0
  <2>1. 0..(n - 1) = {}
    BY <1>2, <1>3
  <2> QED BY <2>1
<1>4. ASSUME n = 0 PROVE f = <<>>
  <2>1. D = {}
    BY <1>1, <1>4
  <2>2. f \in [{} -> S]
    BY <1>1, <2>1
  <2> QED BY <1>2, <2>2
<1> QED BY <1>3, <1>4

\* The client of /v1/messages will have read what is told, once it has read
\* what is written.
MessagesTold(c, sc, d, t) ==
  /\ sc \in Converters /\ ~sc.closed /\ Reaches(c, sc.buffer, d)
  /\ d.blocks = t.answer.shown /\ d.text = t.answer.text
  /\ ~t.ended =>
       /\ ~sc.finalized /\ Writes(c, sc, d)
       /\ d.blocks # <<>> => d.open
       /\ DOMAIN sc.toolBlock = 0..(Len(t.answer.calls) - 1)
       /\ t.answer.calls # <<>> /\ t.answer.shown # <<>> /\ Last(t.answer.shown).type = "tool"
            => sc.toolBlock[Len(t.answer.calls) - 1] = Len(t.answer.shown) - 1
       /\ sc.usage = t.usage
       /\ sc.stopReason = IF t.stop = Unset THEN Unset ELSE stopReasonFromFinish(t.stop, t.answer.calls # <<>>)
  /\ t.ended =>
       /\ sc.finalized /\ d.ended /\ d.usage = t.usage
       /\ d.stop = IF t.stop = Unset THEN "end_turn" ELSE stopReasonFromFinish(t.stop, t.answer.calls # <<>>)

LEMMA MessagesSayEnd ==
    ASSUME NEW c, NEW sc, NEW d, NEW e, NEW t \in Told, NEW u \in Told, MessagesTold(c, sc, d, t),
           SaysEnd(e, t, u)
    PROVE  \E g : MessagesTold(c, MessagesFromChat(sc, e), g, u)
<1>1. u.ended /\ u.answer = t.answer /\ u.stop = t.stop /\ u.usage = t.usage
  BY DEF SaysEnd
<1>2. MessagesFromChat(sc, e) = finalize(sc)
  <2>1. e = [type |-> "[DONE]"] \/ e = [type |-> "EOF"]
    BY DEF SaysEnd, Done
  <2>2. e.type # "chunk"
    BY <2>1
  <2> QED BY <2>2 DEF MessagesFromChat
<1>3. CASE t.ended
  <2>1. finalize(sc) = sc
    BY <1>3 DEF finalize, MessagesTold
  <2>2. MessagesTold(c, sc, d, u)
    BY <1>1, <1>3 DEF MessagesTold
  <2> QED BY <1>2, <2>1, <2>2
<1>4. CASE ~t.ended
  <2>1. /\ ~sc.finalized /\ Writes(c, sc, d) /\ sc.usage = t.usage
        /\ sc.stopReason = IF t.stop = Unset THEN Unset ELSE stopReasonFromFinish(t.stop, t.answer.calls # <<>>)
    BY <1>4 DEF MessagesTold
  <2>2. PICK y : y = finalize(sc)
    OBVIOUS
  <2>3. y \in Converters /\ y.finalized /\ ~y.closed
    <3>1. ~sc.closed
      BY DEF MessagesTold
    <3> QED BY <2>1, <2>2, <3>1, FinalizeWrites
  <2>4. PICK g : /\ Reaches(c, y.buffer, g) /\ g.ended
                 /\ g.blocks = d.blocks /\ g.text = d.text /\ g.usage = sc.usage
                 /\ g.stop = IF sc.stopReason = Unset THEN "end_turn" ELSE sc.stopReason
    BY <2>1, <2>2, FinalizeWrites
  <2>5. g.stop = IF t.stop = Unset THEN "end_turn" ELSE stopReasonFromFinish(t.stop, t.answer.calls # <<>>)
    <3>1. CASE t.stop = Unset
      BY <2>1, <2>4, <3>1
    <3>2. CASE t.stop # Unset
      <4>1. PICK called \in BOOLEAN : called = (t.answer.calls # <<>>)
        OBVIOUS
      <4>2. PICK finish \in Words \ {Unset} : finish = t.stop
        BY <3>2 DEF Told
      <4>3. stopReasonFromFinish(finish, called) # Unset
        BY ReasonFacts
      <4> QED BY <2>1, <2>4, <3>2, <4>1, <4>2, <4>3
    <3> QED BY <3>1, <3>2
  <2>6. d.blocks = t.answer.shown /\ d.text = t.answer.text
    BY DEF MessagesTold
  <2>7. MessagesTold(c, y, g, u)
    BY <1>1, <2>1, <2>3, <2>4, <2>5, <2>6 DEF MessagesTold
  <2> QED BY <1>2, <2>2, <2>7
<1> QED BY <1>3, <1>4

\* What a chunk leaves, from what its texts and calls leave.
LEMMA MessagesSayMore ==
    ASSUME NEW c, NEW sc, NEW d, NEW e, NEW t \in Told, NEW u \in Told, MessagesTold(c, sc, d, t),
           SaysChunk(e, t, u), NEW y, NEW g, Writes(c, y, g),
           g.text = u.answer.text, g.blocks = u.answer.shown, g.blocks # <<>> => g.open,
           y.finalized = sc.finalized, y.closed = sc.closed, y.stopReason = sc.stopReason, y.usage = u.usage,
           DOMAIN y.toolBlock = 0..(Len(u.answer.calls) - 1),
           u.answer.calls # <<>> /\ u.answer.shown # <<>> /\ Last(u.answer.shown).type = "tool"
             => y.toolBlock[Len(u.answer.calls) - 1] = Len(u.answer.shown) - 1
    PROVE  MessagesTold(c, MessageFinished(y, e), g, u)
<1>1. /\ ~t.ended /\ ~u.ended /\ e.finish \in Words
      /\ t.stop # Unset => e.finish = Unset /\ u.answer = t.answer
      /\ u.stop = IF e.finish = Unset THEN t.stop ELSE e.finish
  BY DEF SaysChunk, Chunks
<1>2. PICK z : z = MessageFinished(y, e)
  OBVIOUS
<1>3. /\ Writes(c, z, g) /\ z.toolBlock = y.toolBlock /\ z.usage = y.usage /\ z.finalized = y.finalized
      /\ z.closed = y.closed
      /\ z.stopReason = IF e.finish = Unset THEN y.stopReason
                        ELSE stopReasonFromFinish(e.finish, y.toolBlock # <<>>)
  BY <1>1, <1>2, FinishWrites
<1>4. y.toolBlock # <<>> <=> u.answer.calls # <<>>
  <2>1. y.toolBlock \in Partial(Nat)
    <3>1. y \in Converters
      BY DEF Writes
    <3> HIDE DEF MessageEvents
    <3> QED BY <3>1 DEF Converters
  <2>2. u.answer.calls \in Seq(CallBodies)
    BY DEF Told, Answers
  <2>3. PICK n \in Nat : n = Len(u.answer.calls)
    BY <2>2
  <2>4. y.toolBlock = <<>> <=> n = 0
    BY <2>1, <2>3, NoneThere
  <2> QED BY <2>2, <2>3, <2>4
<1>5. /\ ~sc.finalized /\ ~sc.closed
      /\ sc.stopReason = IF t.stop = Unset THEN Unset ELSE stopReasonFromFinish(t.stop, t.answer.calls # <<>>)
  BY <1>1 DEF MessagesTold
<1>6. z.stopReason = IF u.stop = Unset THEN Unset ELSE stopReasonFromFinish(u.stop, u.answer.calls # <<>>)
  <2>1. CASE e.finish = Unset /\ t.stop = Unset
    BY <1>1, <1>3, <1>5, <2>1
  <2>2. CASE t.stop # Unset
    BY <1>1, <1>3, <1>5, <2>2
  <2>3. CASE e.finish # Unset
    <3>1. u.stop = e.finish
      BY <1>1, <2>3
    <3>2. z.stopReason = stopReasonFromFinish(e.finish, y.toolBlock # <<>>)
      BY <1>3, <2>3
    <3>3. CASE u.answer.calls = <<>>
      <4>1. (y.toolBlock # <<>>) = FALSE /\ (u.answer.calls # <<>>) = FALSE
        BY <1>4, <3>3
      <4> QED BY <2>3, <3>1, <3>2, <4>1
    <3>4. CASE u.answer.calls # <<>>
      <4>1. (y.toolBlock # <<>>) = TRUE /\ (u.answer.calls # <<>>) = TRUE
        BY <1>4, <3>4
      <4> QED BY <2>3, <3>1, <3>2, <4>1
    <3> QED BY <3>3, <3>4
  <2> QED BY <2>1, <2>2, <2>3
<1>7. z \in Converters /\ Reaches(c, z.buffer, g)
  BY <1>3 DEF Writes
<1>8. MessagesTold(c, z, g, u)
  BY <1>1, <1>3, <1>5, <1>6, <1>7 DEF MessagesTold
<1> QED BY <1>2, <1>8

LEMMA MessagesSay ==
    ASSUME NEW c, NEW sc, NEW d, NEW e, NEW t \in Told, NEW u \in Told, MessagesTold(c, sc, d, t),
           SaysChunk(e, t, u)
    PROVE  \E g : MessagesTold(c, MessagesFromChat(sc, e), g, u)
<1> DEFINE a == t.answer
           b == u.answer
<1>0. NoId \in Nat
  BY DEF NoId
<1>1. /\ a \in Answers /\ b \in Answers /\ a.calls \in Seq(CallBodies) /\ a.text \in Bodies
      /\ a.shown \in Seq(ShownBlocks) /\ Len(a.calls) \in Nat /\ Len(a.shown) \in Nat
  BY DEF Told, Answers
<1>2. /\ e \in Chunks /\ ChunkSays(e, a, b) /\ ~t.ended
      /\ u.usage = (IF e.usage = NoUsage THEN t.usage ELSE e.usage)
  BY DEF SaysChunk
<1>3. /\ e.type = "chunk" /\ e.usage \in Usages /\ e.content \in Bodies /\ e.reasoning \in Bodies
  BY <1>2 DEF Chunks
<1>4. /\ Writes(c, sc, d) /\ d.blocks = a.shown /\ d.text = a.text
      /\ d.blocks # <<>> => d.open
      /\ DOMAIN sc.toolBlock = 0..(Len(a.calls) - 1)
      /\ a.calls # <<>> /\ a.shown # <<>> /\ Last(a.shown).type = "tool"
           => sc.toolBlock[Len(a.calls) - 1] = Len(a.shown) - 1
      /\ sc.usage = t.usage
  BY <1>2 DEF MessagesTold
<1> HIDE DEF a, b
<1>5. MessagesFromChat(sc, e) = handleChunk(sc, e)
  BY <1>3 DEF MessagesFromChat
<1>6. PICK y : y = MessageTexts(sc, e)
  OBVIOUS
<1>7. /\ e.reasoning = <<>> /\ e.content = <<>> =>
           MessagesAt(c, sc, y, u.usage, d.text, d.blocks, d.open)
      /\ e.reasoning # <<>> /\ e.content = <<>> =>
           MessagesAt(c, sc, y, u.usage, d.text,
                      Shown(d.blocks, Block("thinking", NoId, e.reasoning)), TRUE)
      /\ e.reasoning = <<>> /\ e.content # <<>> =>
           MessagesAt(c, sc, y, u.usage, d.text \o e.content,
                      Shown(d.blocks, Block("text", NoId, e.content)), TRUE)
  <2>1. PICK usage : usage = IF e.usage = NoUsage THEN sc.usage ELSE e.usage
    OBVIOUS
  <2>2. /\ e.reasoning = <<>> /\ e.content = <<>> =>
             MessagesAt(c, sc, MessageTexts(sc, e), usage, d.text, d.blocks, d.open)
        /\ e.reasoning # <<>> /\ e.content = <<>> =>
             MessagesAt(c, sc, MessageTexts(sc, e), usage, d.text,
                        Shown(d.blocks, Block("thinking", NoId, e.reasoning)), TRUE)
        /\ e.reasoning = <<>> /\ e.content # <<>> =>
             MessagesAt(c, sc, MessageTexts(sc, e), usage, d.text \o e.content,
                        Shown(d.blocks, Block("text", NoId, e.content)), TRUE)
    BY <1>3, <1>4, <2>1, TextsWrite
  <2>3. usage = u.usage
    BY <1>2, <1>4, <2>1
  <2> QED BY <1>6, <2>2, <2>3
<1>8. CASE SaysNothing(e, a, b)
  <2>1. e.reasoning = <<>> /\ e.content = <<>> /\ e.calls = <<>> /\ b = a
    BY <1>8 DEF SaysNothing
  <2>2. MessagesAt(c, sc, y, u.usage, d.text, d.blocks, d.open)
    BY <1>7, <2>1
  <2>3. PICK g : Writes(c, y, g) /\ g.begun /\ g.text = d.text /\ g.blocks = d.blocks /\ g.open = d.open
    BY <2>2 DEF MessagesAt
  <2>4. /\ y.toolBlock = sc.toolBlock /\ y.stopReason = sc.stopReason /\ y.usage = u.usage /\ y.finalized = sc.finalized
        /\ y.closed = sc.closed
    BY <2>2 DEF MessagesAt
  <2>5. /\ g.text = u.answer.text /\ g.blocks = u.answer.shown /\ (g.blocks # <<>> => g.open)
        /\ DOMAIN y.toolBlock = 0..(Len(u.answer.calls) - 1)
        /\ (u.answer.calls # <<>> /\ u.answer.shown # <<>> /\ Last(u.answer.shown).type = "tool"
              => y.toolBlock[Len(u.answer.calls) - 1] = Len(u.answer.shown) - 1)
    BY <1>4, <2>1, <2>3, <2>4 DEF b
  <2>6. MessagesTold(c, MessageFinished(y, e), g, u)
    BY <2>3, <2>4, <2>5, MessagesSayMore
  <2>7. handleChunk(sc, e) = MessageFinished(y, e)
    BY <1>6, <2>1, HandledFirst
  <2> QED BY <1>5, <2>6, <2>7
<1>9. CASE SaysThought(e, a, b)
  <2>1. e.reasoning # <<>> /\ e.content = <<>> /\ e.calls = <<>>
        /\ b = Said(a, Block("thinking", NoId, e.reasoning))
    BY <1>9 DEF SaysThought
  <2>2. MessagesAt(c, sc, y, u.usage, d.text, Shown(d.blocks, Block("thinking", NoId, e.reasoning)), TRUE)
    BY <1>7, <2>1
  <2>3. PICK g : Writes(c, y, g) /\ g.begun /\ g.text = d.text
                 /\ g.blocks = Shown(d.blocks, Block("thinking", NoId, e.reasoning)) /\ g.open = TRUE
    BY <2>2 DEF MessagesAt
  <2>4. /\ y.toolBlock = sc.toolBlock /\ y.stopReason = sc.stopReason /\ y.usage = u.usage /\ y.finalized = sc.finalized
        /\ y.closed = sc.closed
    BY <2>2 DEF MessagesAt
  <2>5. PICK id \in Nat, piece \in Bodies : id = NoId /\ piece = e.reasoning
    BY <1>0, <1>3
  <2>6. /\ b.text = a.text /\ b.calls = a.calls /\ b.shown = Shown(a.shown, Block("thinking", id, piece))
    <3>1. b = Said(a, Block("thinking", id, piece))
      BY <2>1, <2>5
    <3>2. /\ Said(a, Block("thinking", id, piece)).text = a.text
          /\ Said(a, Block("thinking", id, piece)).calls = a.calls
          /\ Said(a, Block("thinking", id, piece)).shown = Shown(a.shown, Block("thinking", id, piece))
      BY <1>1, SaidThought
    <3> QED BY <3>1, <3>2
  <2>7. Last(b.shown).type # "tool"
    <3>1. PICK type \in {"thinking", "text"} : type = "thinking"
      OBVIOUS
    <3>2. Last(Shown(a.shown, Block(type, NoId, piece))).type = type
      BY <1>1, <2>1, <2>5, ShownLast
    <3> QED BY <2>5, <2>6, <3>1, <3>2
  <2>8. g.text = b.text /\ g.blocks = b.shown /\ DOMAIN y.toolBlock = 0..(Len(b.calls) - 1)
    BY <1>4, <2>3, <2>4, <2>5, <2>6
  <2>9. /\ g.text = u.answer.text /\ g.blocks = u.answer.shown /\ (g.blocks # <<>> => g.open)
        /\ DOMAIN y.toolBlock = 0..(Len(u.answer.calls) - 1)
        /\ (u.answer.calls # <<>> /\ u.answer.shown # <<>> /\ Last(u.answer.shown).type = "tool"
              => y.toolBlock[Len(u.answer.calls) - 1] = Len(u.answer.shown) - 1)
    BY <2>3, <2>7, <2>8 DEF b
  <2>10. MessagesTold(c, MessageFinished(y, e), g, u)
    BY <2>3, <2>4, <2>9, MessagesSayMore
  <2>11. handleChunk(sc, e) = MessageFinished(y, e)
    BY <1>6, <2>1, HandledFirst
  <2> QED BY <1>5, <2>10, <2>11
<1>10. CASE SaysText(e, a, b)
  <2>1. e.reasoning = <<>> /\ e.content # <<>> /\ e.calls = <<>>
        /\ b = Said(a, Block("text", NoId, e.content))
    BY <1>10 DEF SaysText
  <2>2. MessagesAt(c, sc, y, u.usage, d.text \o e.content, Shown(d.blocks, Block("text", NoId, e.content)), TRUE)
    BY <1>7, <2>1
  <2>3. PICK g : Writes(c, y, g) /\ g.begun /\ g.text = d.text \o e.content
                 /\ g.blocks = Shown(d.blocks, Block("text", NoId, e.content)) /\ g.open = TRUE
    BY <2>2 DEF MessagesAt
  <2>4. /\ y.toolBlock = sc.toolBlock /\ y.stopReason = sc.stopReason /\ y.usage = u.usage /\ y.finalized = sc.finalized
        /\ y.closed = sc.closed
    BY <2>2 DEF MessagesAt
  <2>5. PICK id \in Nat, piece \in Bodies : id = NoId /\ piece = e.content
    BY <1>0, <1>3
  <2>6. /\ b.text = a.text \o piece /\ b.calls = a.calls /\ b.shown = Shown(a.shown, Block("text", id, piece))
    <3>1. b = Said(a, Block("text", id, piece))
      BY <2>1, <2>5
    <3>2. /\ Said(a, Block("text", id, piece)).text = a.text \o piece
          /\ Said(a, Block("text", id, piece)).calls = a.calls
          /\ Said(a, Block("text", id, piece)).shown = Shown(a.shown, Block("text", id, piece))
      BY <1>1, SaidText
    <3> QED BY <3>1, <3>2
  <2>7. Last(b.shown).type # "tool"
    <3>1. PICK type \in {"thinking", "text"} : type = "text"
      OBVIOUS
    <3>2. Last(Shown(a.shown, Block(type, NoId, piece))).type = type
      BY <1>1, <2>1, <2>5, ShownLast
    <3> QED BY <2>5, <2>6, <3>1, <3>2
  <2>8. g.text = b.text /\ g.blocks = b.shown /\ DOMAIN y.toolBlock = 0..(Len(b.calls) - 1)
    BY <1>4, <2>3, <2>4, <2>5, <2>6
  <2>9. /\ g.text = u.answer.text /\ g.blocks = u.answer.shown /\ (g.blocks # <<>> => g.open)
        /\ DOMAIN y.toolBlock = 0..(Len(u.answer.calls) - 1)
        /\ (u.answer.calls # <<>> /\ u.answer.shown # <<>> /\ Last(u.answer.shown).type = "tool"
              => y.toolBlock[Len(u.answer.calls) - 1] = Len(u.answer.shown) - 1)
    BY <2>3, <2>7, <2>8 DEF b
  <2>10. MessagesTold(c, MessageFinished(y, e), g, u)
    BY <2>3, <2>4, <2>9, MessagesSayMore
  <2>11. handleChunk(sc, e) = MessageFinished(y, e)
    BY <1>6, <2>1, HandledFirst
  <2> QED BY <1>5, <2>10, <2>11
<1>11. CASE SaysCall(e, a, b)
  <2>1. PICK id \in Nat \ {NoId} : \E arguments \in Bodies :
           /\ e.calls = <<CallDelta(Len(a.calls), id, arguments)>>
           /\ b = Said(a, Block("tool", id, arguments))
    BY <1>11 DEF SaysCall
  <2>2. PICK arguments \in Bodies :
           /\ e.calls = <<CallDelta(Len(a.calls), id, arguments)>>
           /\ b = Said(a, Block("tool", id, arguments))
    BY <2>1
  <2>3. e.reasoning = <<>> /\ e.content = <<>>
    BY <1>11 DEF SaysCall
  <2>4. MessagesAt(c, sc, y, u.usage, d.text, d.blocks, d.open)
    BY <1>7, <2>3
  <2>5. PICK g : Writes(c, y, g) /\ g.begun /\ g.text = d.text /\ g.blocks = d.blocks /\ g.open = d.open
    BY <2>4 DEF MessagesAt
  <2>6. /\ y.toolBlock = sc.toolBlock /\ y.stopReason = sc.stopReason /\ y.usage = u.usage /\ y.finalized = sc.finalized
        /\ y.closed = sc.closed
    BY <2>4 DEF MessagesAt
  <2>7. PICK k \in Nat : k = Len(a.calls)
    BY <1>1
  <2>8. PICK n \in Nat : n = Len(a.shown)
    BY <1>1
  <2>9. PICK i \in Nat : i = id
    OBVIOUS
  <2>10. PICK delta : delta = CallDelta(k, i, arguments)
    OBVIOUS
  <2>11. PICK z : z = handleToolCall(y, delta)
    OBVIOUS
  <2>12. DOMAIN y.toolBlock = 0..(k - 1) /\ k \notin DOMAIN y.toolBlock
    BY <1>4, <2>6, <2>7
  <2>13. PICK m : m = [y EXCEPT !.toolBlock = Put(@, k, Len(g.blocks))]
    OBVIOUS
  <2>14. Wrote(c, m, z, g.text, Append(g.blocks, Block("tool", i, arguments)), TRUE)
    BY <2>5, <2>10, <2>11, <2>12, <2>13, NewCallWrites
  <2>15. PICK blocks : blocks = Put(y.toolBlock, k, n)
    OBVIOUS
  <2>16. /\ m.toolBlock = blocks /\ m.stopReason = y.stopReason /\ m.usage = y.usage /\ m.finalized = y.finalized
         /\ m.closed = y.closed
    <3>1. y \in Converters
      BY <2>5 DEF Writes
    <3>2. Len(g.blocks) = n
      BY <1>4, <2>5, <2>8
    <3> HIDE DEF MessageEvents
    <3> QED BY <2>13, <2>15, <3>1, <3>2 DEF Converters
  <2>17. DOMAIN blocks = 0..k /\ blocks[k] = n
    <3>1. y.toolBlock \in Partial(Nat)
      <4>1. y \in Converters
        BY <2>5 DEF Writes
      <4> HIDE DEF MessageEvents
      <4> QED BY <4>1 DEF Converters
    <3>2. PICK f \in Partial(Nat) : f = y.toolBlock
      BY <3>1
    <3>3. PutIs(Nat, f, k, n, Put(f, k, n))
      BY PartialWith
    <3>4. DOMAIN blocks = (0..(k - 1)) \cup {k} /\ blocks[k] = n
      BY <2>12, <2>15, <3>2, <3>3 DEF PutIs
    <3> QED BY <3>4
  <2>18. PICK h : Writes(c, z, h) /\ h.begun /\ h.text = g.text
                  /\ h.blocks = Append(g.blocks, Block("tool", i, arguments)) /\ h.open = TRUE
    BY <2>14 DEF Wrote
  <2>19. SameRest(m, z)
    BY <2>14 DEF Wrote
  <2>20. /\ z.toolBlock = blocks /\ z.stopReason = sc.stopReason /\ z.usage = u.usage /\ z.finalized = sc.finalized
         /\ z.closed = sc.closed
    BY <2>6, <2>16, <2>19 DEF SameRest
  <2>21. /\ b.text = a.text /\ b.calls = Append(a.calls, [id |-> i, body |-> arguments])
         /\ b.shown = Append(a.shown, Block("tool", i, arguments))
    <3>1. /\ Said(a, Block("tool", i, arguments)).text = a.text
          /\ Said(a, Block("tool", i, arguments)).calls = Append(a.calls, [id |-> i, body |-> arguments])
          /\ Said(a, Block("tool", i, arguments)).shown = Append(a.shown, Block("tool", i, arguments))
      BY SMTT(30), <1>1, SaidTool
    <3> QED BY <2>2, <2>9, <3>1
  <2>22. Len(b.calls) = k + 1
    <3>1. [id |-> i, body |-> arguments] \in CallBodies
      BY DEF CallBodies
    <3> QED BY <1>1, <2>7, <2>21, <3>1, AppendIs
  <2>23. Len(b.shown) = n + 1
    <3>1. Block("tool", i, arguments) \in ShownBlocks
      <4>1. "tool" \in BlockTypes
        BY DEF BlockTypes
      <4> QED BY <4>1 DEF Block, ShownBlocks
    <3> QED BY <1>1, <2>8, <2>21, <3>1, AppendIs
  <2>24. h.text = b.text /\ h.blocks = b.shown
    BY <1>4, <2>5, <2>18, <2>21
  <2>25. /\ DOMAIN z.toolBlock = 0..(Len(b.calls) - 1)
         /\ z.toolBlock[Len(b.calls) - 1] = Len(b.shown) - 1
    BY <2>17, <2>20, <2>22, <2>23
  <2>26. /\ h.text = u.answer.text /\ h.blocks = u.answer.shown /\ (h.blocks # <<>> => h.open)
         /\ DOMAIN z.toolBlock = 0..(Len(u.answer.calls) - 1)
         /\ (u.answer.calls # <<>> /\ u.answer.shown # <<>> /\ Last(u.answer.shown).type = "tool"
              => z.toolBlock[Len(u.answer.calls) - 1] = Len(u.answer.shown) - 1)
    BY <2>18, <2>24, <2>25 DEF b
  <2>27. MessagesTold(c, MessageFinished(z, e), h, u)
    BY <2>18, <2>20, <2>26, MessagesSayMore
  <2>28. handleChunk(sc, e) = MessageFinished(z, e)
    <3>1. e.calls = <<delta>>
      BY <2>2, <2>7, <2>9, <2>10
    <3> QED BY <1>6, <2>11, <3>1, HandledSecond
  <2> QED BY <1>5, <2>27, <2>28
<1>12. CASE SaysMore(e, a, b)
  <2>1. PICK arguments \in Bodies : arguments # <<>>
           /\ e.calls = <<CallDelta(Len(a.calls) - 1, NoId, arguments)>>
           /\ b = Further(a, arguments)
    BY <1>12 DEF SaysMore
  <2>2. /\ a.calls # <<>> /\ a.shown # <<>> /\ Last(a.shown).type = "tool"
        /\ e.reasoning = <<>> /\ e.content = <<>>
    BY <1>12 DEF SaysMore
  <2>3. MessagesAt(c, sc, y, u.usage, d.text, d.blocks, d.open)
    BY <1>7, <2>2
  <2>4. PICK g : Writes(c, y, g) /\ g.begun /\ g.text = d.text /\ g.blocks = d.blocks /\ g.open = d.open
    BY <2>3 DEF MessagesAt
  <2>5. /\ y.toolBlock = sc.toolBlock /\ y.stopReason = sc.stopReason /\ y.usage = u.usage /\ y.finalized = sc.finalized
        /\ y.closed = sc.closed
    BY <2>3 DEF MessagesAt
  <2>6. PICK k \in Nat : k = Len(a.calls) - 1
    <3>1. Len(a.calls) # 0
      BY <1>1, <2>2
    <3>2. Len(a.calls) - 1 \in Nat
      BY <1>1, <3>1
    <3> QED BY <3>2
  <2>7. k \in DOMAIN y.toolBlock /\ y.toolBlock[k] = Len(g.blocks) - 1
    BY <1>1, <1>4, <2>2, <2>4, <2>5, <2>6
  <2>8. g.open /\ Last(g.blocks).type = "tool"
    BY <1>4, <2>2, <2>4
  <2>9. PICK delta : delta = CallDelta(k, NoId, arguments)
    OBVIOUS
  <2>10. PICK z : z = handleToolCall(y, delta)
    OBVIOUS
  <2>11. Wrote(c, y, z, g.text, [g.blocks EXCEPT ![Len(g.blocks)].body = @ \o arguments], TRUE)
    BY <2>1, <2>4, <2>7, <2>8, <2>9, <2>10, MoreOfCallWrites
  <2>12. PICK h : Writes(c, z, h) /\ h.begun /\ h.text = g.text
                  /\ h.blocks = [g.blocks EXCEPT ![Len(g.blocks)].body = @ \o arguments] /\ h.open = TRUE
    BY <2>11 DEF Wrote
  <2>13. SameRest(y, z)
    BY <2>11 DEF Wrote
  <2>14. /\ z.toolBlock = sc.toolBlock /\ z.stopReason = sc.stopReason /\ z.usage = u.usage /\ z.finalized = sc.finalized
         /\ z.closed = sc.closed
    BY <2>5, <2>13 DEF SameRest
  <2>15. /\ b.text = a.text
         /\ b.calls = [a.calls EXCEPT ![Len(a.calls)].body = @ \o arguments]
         /\ b.shown = [a.shown EXCEPT ![Len(a.shown)].body = @ \o arguments]
    <3>1. /\ Further(a, arguments).text = a.text
          /\ Further(a, arguments).calls = [a.calls EXCEPT ![Len(a.calls)].body = @ \o arguments]
          /\ Further(a, arguments).shown = [a.shown EXCEPT ![Len(a.shown)].body = @ \o arguments]
      BY <1>1, <2>2, FurtherFacts
    <3> QED BY <2>1, <3>1
  <2>16. Len(b.calls) = Len(a.calls) /\ Len(b.shown) = Len(a.shown)
    BY <1>1, <2>15
  <2>17. h.text = b.text /\ h.blocks = b.shown
    BY <1>4, <2>4, <2>12, <2>15
  <2>18. /\ DOMAIN z.toolBlock = 0..(Len(b.calls) - 1)
         /\ z.toolBlock[Len(b.calls) - 1] = Len(b.shown) - 1
    BY <1>4, <2>2, <2>14, <2>16
  <2>19. /\ h.text = u.answer.text /\ h.blocks = u.answer.shown /\ (h.blocks # <<>> => h.open)
         /\ DOMAIN z.toolBlock = 0..(Len(u.answer.calls) - 1)
         /\ (u.answer.calls # <<>> /\ u.answer.shown # <<>> /\ Last(u.answer.shown).type = "tool"
              => z.toolBlock[Len(u.answer.calls) - 1] = Len(u.answer.shown) - 1)
    BY <2>12, <2>17, <2>18 DEF b
  <2>20. MessagesTold(c, MessageFinished(z, e), h, u)
    BY <2>12, <2>14, <2>19, MessagesSayMore
  <2>21. handleChunk(sc, e) = MessageFinished(z, e)
    <3>1. e.calls = <<delta>>
      BY <2>1, <2>6, <2>9
    <3> QED BY <1>6, <2>10, <3>1, HandledSecond
  <2> QED BY <1>5, <2>20, <2>21
<1> QED BY <1>2, <1>8, <1>9, <1>10, <1>11, <1>12 DEF ChunkSays

LEMMA MessagesSays ==
    ASSUME NEW c, NEW sc, NEW d, NEW e, NEW t \in Told, NEW u \in Told, MessagesTold(c, sc, d, t),
           Says(e, t, u)
    PROVE  \E g : MessagesTold(c, MessagesFromChat(sc, e), g, u)
BY MessagesSay, MessagesSayEnd DEF Says

-----------------------------------------------------------------------------
(* The provider. *)

\* What one more block, and another last block, make of a sequence of blocks.
Appended(s, b, r) ==
  /\ r \in Seq(SentBlocks) /\ Len(r) = Len(s) + 1 /\ r # <<>> /\ Last(r) = b /\ Front(r) = s
  /\ r[Len(r)] = b
  /\ \A n \in 1..Len(s) : r[n] = s[n]

LEMMA AppendedIs ==
    ASSUME NEW s \in Seq(SentBlocks), NEW b \in SentBlocks
    PROVE  Appended(s, b, Append(s, b))
<1>1. PICK r : r = Append(s, b)
  OBVIOUS
<1>2. /\ r \in Seq(SentBlocks) /\ Len(r) = Len(s) + 1 /\ r # <<>> /\ Last(r) = b /\ r[Len(r)] = b
      /\ \A n \in 1..Len(s) : r[n] = s[n]
  BY <1>1 DEF Last
<1>3. Front(r) = s
  <2>1. Front(r) = SubSeq(r, 1, Len(s))
    BY <1>2 DEF Front
  <2>2. Len(s) \in Nat /\ Len(s) <= Len(r)
    BY <1>2
  <2>3. SubSeq(r, 1, Len(s)) \in Seq(SentBlocks) /\ Len(SubSeq(r, 1, Len(s))) = Len(s)
        /\ \A n \in 1..Len(s) : SubSeq(r, 1, Len(s))[n] = r[n]
    BY <1>2, <2>2
  <2> QED BY <1>2, <2>1, <2>3, SameSequence
<1> QED BY <1>1, <1>2, <1>3 DEF Appended

LEMMA LastChanged ==
    ASSUME NEW s \in Seq(SentBlocks), s # <<>>, NEW b \in SentBlocks
    PROVE  /\ Front(s) \in Seq(SentBlocks) /\ Len(Front(s)) = Len(s) - 1 /\ Last(s) \in SentBlocks
           /\ Len(s) \in Nat /\ Len(s) > 0
           /\ Last(s) = s[Len(s)]
           /\ s = Append(Front(s), Last(s))
           /\ [s EXCEPT ![Len(s)] = b] = Append(Front(s), b)
<1> DEFINE f == Front(s)
           r == [s EXCEPT ![Len(s)] = b]
<1>1. Len(s) \in Nat /\ Len(s) > 0 /\ Len(s) - 1 \in Nat
  OBVIOUS
<1>2. f = SubSeq(s, 1, Len(s) - 1)
  BY DEF Front
<1>3. f \in Seq(SentBlocks) /\ Len(f) = Len(s) - 1 /\ \A n \in 1..(Len(s) - 1) : f[n] = s[n]
  <2>1. PICK m \in Nat : m = Len(s) - 1
    BY <1>1
  <2>2. m <= Len(s)
    BY <1>1, <2>1
  <2>3. /\ SubSeq(s, 1, m) \in Seq(SentBlocks) /\ Len(SubSeq(s, 1, m)) = m
        /\ \A n \in 1..m : SubSeq(s, 1, m)[n] = s[n]
    BY <2>2
  <2> HIDE DEF f
  <2> QED BY <1>2, <2>1, <2>3
<1>4. Last(s) \in SentBlocks /\ Last(s) = s[Len(s)]
  BY <1>1 DEF Last
<1> HIDE DEF f
<1>5. PICK v, w : v = Append(f, Last(s)) /\ w = Append(f, b)
  OBVIOUS
<1>6. /\ v \in Seq(SentBlocks) /\ Len(v) = Len(s) /\ v[Len(s)] = Last(s)
      /\ \A n \in 1..(Len(s) - 1) : v[n] = f[n]
  BY <1>1, <1>3, <1>4, <1>5
<1>7. /\ w \in Seq(SentBlocks) /\ Len(w) = Len(s) /\ w[Len(s)] = b
      /\ \A n \in 1..(Len(s) - 1) : w[n] = f[n]
  BY <1>1, <1>3, <1>5
<1>8. \A n \in 1..Len(s) : n = Len(s) \/ n \in 1..(Len(s) - 1)
  BY <1>1
<1>9. v = s
  <2>1. \A n \in 1..Len(s) : v[n] = s[n]
    BY <1>3, <1>4, <1>6, <1>8
  <2> QED BY <1>6, <2>1, SameSequence
<1>10. r = w
  <2>1. r \in Seq(SentBlocks) /\ Len(r) = Len(s) /\ r[Len(s)] = b /\ \A n \in 1..(Len(s) - 1) : r[n] = s[n]
    BY <1>1
  <2>2. \A n \in 1..Len(s) : r[n] = w[n]
    BY <1>3, <1>7, <1>8, <2>1
  <2> HIDE DEF r
  <2> QED BY <1>7, <2>1, <2>2, SameSequence
<1> QED BY <1>1, <1>3, <1>4, <1>5, <1>9, <1>10 DEF f, r

\* The blocks a provider can have sent.
SentOk(s, d) ==
  /\ s \in Seq(SentBlocks) /\ Len(s) <= MaxBlocks
  /\ \A n \in 1..Len(s) :
       /\ s[n].id = IF s[n].type = "tool" THEN n ELSE NoId
       /\ s[n].body = <<Empty>> => s[n].type = "tool" /\ d = "anthropic"
       /\ s[n].open => n = Len(s) /\ d = "anthropic"

OpenIn(s) == s # <<>> /\ Last(s).open

LEMMA SentBegins ==
    ASSUME NEW d, NEW s, SentOk(s, d), Len(s) < MaxBlocks, ~OpenIn(s), NEW type \in BlockTypes, NEW body \in Bodies,
           NEW open \in BOOLEAN, body = <<Empty>> => type = "tool" /\ d = "anthropic", open => d = "anthropic",
           NEW id, id = IF type = "tool" THEN Len(s) + 1 ELSE NoId,
           NEW b, b = [type |-> type, id |-> id, body |-> body, open |-> open]
    PROVE  /\ id \in Nat /\ b \in SentBlocks /\ Appended(s, b, Append(s, b)) /\ SentOk(Append(s, b), d)
           /\ AnswerOf(Append(s, b)) = Said(AnswerOf(s), Block(type, id, body))
<1>1. s \in Seq(SentBlocks) /\ Len(s) \in Nat /\ MaxBlocks \in Nat
  BY StreamsAssumption DEF SentOk
<1>2. id \in Nat
  BY <1>1 DEF NoId
<1>3. b \in SentBlocks /\ b.type = type /\ b.id = id /\ b.body = body /\ b.open = open
  BY <1>2 DEF SentBlocks
<1>4. PICK r : r = Append(s, b)
  OBVIOUS
<1>5. Appended(s, b, r)
  BY <1>1, <1>3, <1>4, AppendedIs
<1>6. SentOk(r, d)
  <2>1. Len(r) = Len(s) + 1 /\ r \in Seq(SentBlocks) /\ r[Len(r)] = b /\ \A n \in 1..Len(s) : r[n] = s[n]
    BY <1>5 DEF Appended
  <2>2. \A n \in 1..Len(r) : n = Len(s) + 1 \/ n \in 1..Len(s)
    BY <1>1, <2>1
  <2>3. ASSUME NEW n \in 1..Len(s)
        PROVE  /\ r[n].id = IF r[n].type = "tool" THEN n ELSE NoId
               /\ r[n].body = <<Empty>> => r[n].type = "tool" /\ d = "anthropic"
               /\ ~r[n].open
    <3>1. /\ s[n].id = IF s[n].type = "tool" THEN n ELSE NoId
          /\ s[n].body = <<Empty>> => s[n].type = "tool" /\ d = "anthropic"
          /\ s[n].open => n = Len(s)
      BY DEF SentOk
    <3>2. n = Len(s) => ~s[n].open
      <4>1. ASSUME n = Len(s) PROVE ~s[n].open
        <5>1. s # <<>> /\ Last(s) = s[n]
          BY <1>1, <4>1 DEF Last
        <5> QED BY <5>1 DEF OpenIn
      <4> QED BY <4>1
    <3> QED BY <2>1, <3>1, <3>2
  <2>4. /\ r[Len(s) + 1].id = (IF r[Len(s) + 1].type = "tool" THEN Len(s) + 1 ELSE NoId)
        /\ r[Len(s) + 1].body = <<Empty>> => r[Len(s) + 1].type = "tool" /\ d = "anthropic"
        /\ r[Len(s) + 1].open => d = "anthropic"
    BY <1>3, <2>1
  <2>5. Len(r) <= MaxBlocks
    BY <1>1, <2>1
  <2> QED BY <2>1, <2>2, <2>3, <2>4, <2>5 DEF SentOk
<1>7. AnswerOf(r) = Said(AnswerOf(s), Block(type, id, body))
  <2>1. AnswerOf(r) = Said(AnswerOf(s), b)
    BY <1>1, <1>3, <1>4, AnswerGrows
  <2>2. Said(AnswerOf(s), b) = Said(AnswerOf(s), Block(b.type, b.id, b.body))
    BY SaidSame
  <2> QED BY <1>3, <2>1, <2>2
<1> QED BY <1>2, <1>3, <1>4, <1>5, <1>6, <1>7

\* Another body or another end of the last block.
Changed(s, f, z, b, r) ==
  /\ f \in Seq(SentBlocks) /\ Len(f) = Len(s) - 1 /\ z \in SentBlocks /\ b \in SentBlocks
  /\ z.type \in BlockTypes /\ z.id \in Nat /\ z.body \in Bodies /\ z.open \in BOOLEAN
  /\ r = Append(f, b) /\ Appended(f, b, r) /\ s[Len(s)] = z /\ Len(r) = Len(s)
  /\ \A n \in 1..Len(s) : r[n].type = s[n].type
  /\ AnswerOf(f) \in Answers /\ Len(AnswerOf(f).calls) <= Len(f)
  /\ AnswerOf(s) = Said(AnswerOf(f), Block(z.type, z.id, z.body))
  /\ AnswerOf(r) = Said(AnswerOf(f), Block(z.type, z.id, b.body))

LEMMA SentChanges ==
    ASSUME NEW d, NEW s, SentOk(s, d), s # <<>>, NEW z, z = Last(s), NEW body \in Bodies, NEW open \in BOOLEAN,
           body = <<Empty>> => z.type = "tool" /\ d = "anthropic", open => z.open,
           NEW b, b = [type |-> z.type, id |-> z.id, body |-> body, open |-> open]
    PROVE  /\ SentOk([s EXCEPT ![Len(s)] = b], d)
           /\ Changed(s, Front(s), z, b, [s EXCEPT ![Len(s)] = b])
<1>1. s \in Seq(SentBlocks) /\ Len(s) \in Nat
  BY DEF SentOk
<1>2. z \in SentBlocks /\ Len(s) > 0 /\ z = s[Len(s)]
  BY <1>1 DEF Last
<1>3. z.type \in BlockTypes /\ z.id \in Nat /\ z.body \in Bodies /\ z.open \in BOOLEAN
  BY <1>2 DEF SentBlocks
<1>4. b \in SentBlocks /\ b.type = z.type /\ b.id = z.id /\ b.body = body /\ b.open = open
  BY <1>3 DEF SentBlocks
<1>5. PICK f : f = Front(s)
  OBVIOUS
<1>6. PICK r : r = [s EXCEPT ![Len(s)] = b]
  OBVIOUS
<1>7. f \in Seq(SentBlocks) /\ Len(f) = Len(s) - 1 /\ s = Append(f, z) /\ r = Append(f, b)
  BY <1>1, <1>4, <1>5, <1>6, LastChanged
<1>8. Appended(f, b, r) /\ Appended(f, z, s)
  BY <1>2, <1>4, <1>7, AppendedIs
<1>9. AnswerOf(s) = Said(AnswerOf(f), Block(z.type, z.id, z.body))
  <2>1. AnswerOf(s) = Said(AnswerOf(f), z)
    BY <1>2, <1>7, AnswerGrows
  <2>2. Said(AnswerOf(f), z) = Said(AnswerOf(f), Block(z.type, z.id, z.body))
    BY SaidSame
  <2> QED BY <2>1, <2>2
<1>10. AnswerOf(r) = Said(AnswerOf(f), Block(z.type, z.id, body))
  <2>1. AnswerOf(r) = Said(AnswerOf(f), b)
    BY <1>4, <1>7, AnswerGrows
  <2>2. Said(AnswerOf(f), b) = Said(AnswerOf(f), Block(b.type, b.id, b.body))
    BY SaidSame
  <2> QED BY <1>4, <2>1, <2>2
<1>11. AnswerOf(f) \in Answers /\ Len(AnswerOf(f).calls) <= Len(f)
  BY <1>7, AnswerFacts
<1>12. Len(r) = Len(s) /\ r \in Seq(SentBlocks) /\ r[Len(s)] = b /\ \A n \in 1..(Len(s) - 1) : r[n] = s[n]
  <2>1. Len(r) = Len(s) /\ r \in Seq(SentBlocks)
    BY <1>1, <1>7, <1>8 DEF Appended
  <2>2. Len(s) \in DOMAIN s
    BY <1>1, <1>2
  <2>3. r[Len(s)] = b
    BY <1>6, <2>2
  <2>4. ASSUME NEW n \in 1..(Len(s) - 1) PROVE r[n] = s[n]
    <3>1. n \in DOMAIN s /\ n # Len(s)
      BY <1>1, <1>2
    <3> QED BY <1>6, <3>1
  <2> QED BY <2>1, <2>3, <2>4
<1>13. \A n \in 1..Len(s) : n = Len(s) \/ n \in 1..(Len(s) - 1)
  BY <1>1, <1>2
<1>14. \A n \in 1..Len(s) : r[n].type = s[n].type
  BY <1>2, <1>4, <1>12, <1>13
<1>15. Changed(s, f, z, b, r)
  BY <1>2, <1>3, <1>4, <1>7, <1>8, <1>9, <1>10, <1>11, <1>12, <1>14 DEF Changed
<1>16. SentOk(r, d)
  <2>1. ASSUME NEW n \in 1..(Len(s) - 1)
        PROVE  /\ r[n].id = IF r[n].type = "tool" THEN n ELSE NoId
               /\ r[n].body = <<Empty>> => r[n].type = "tool" /\ d = "anthropic"
               /\ r[n].open => n = Len(s) /\ d = "anthropic"
    <3>1. n \in 1..Len(s)
      BY <1>1
    <3> QED BY <1>12, <3>1 DEF SentOk
  <2>2. /\ z.id = (IF z.type = "tool" THEN Len(s) ELSE NoId)
        /\ z.open => d = "anthropic"
    <3>1. Len(s) \in 1..Len(s)
      BY <1>1, <1>2
    <3> QED BY <1>2, <3>1 DEF SentOk
  <2>3. /\ r[Len(s)].id = (IF r[Len(s)].type = "tool" THEN Len(s) ELSE NoId)
        /\ r[Len(s)].body = <<Empty>> => r[Len(s)].type = "tool" /\ d = "anthropic"
        /\ r[Len(s)].open => d = "anthropic"
    BY <1>4, <1>12, <2>2
  <2>4. Len(s) <= MaxBlocks
    BY DEF SentOk
  <2> QED BY <1>12, <1>13, <2>1, <2>3, <2>4 DEF SentOk
<1> QED BY <1>5, <1>6, <1>15, <1>16

\* What the provider has told so far: a tool call that the adapter holds back
\* is not told yet.
HeldIn(s) == s # <<>> /\ Last(s).open /\ Last(s).type = "tool" /\ Last(s).body = <<Empty>>
ToldOf(s) == IF HeldIn(s) THEN AnswerOf(Front(s)) ELSE AnswerOf(s)
EndsAt(d, src) == src \in {"ended", "cut"} \/ (d = "openai" /\ src = "done")
Counted(src) == src \in {"counted", "done", "ended"}
StopReasons == {"end_turn", "max_tokens", "tool_use"}

Tells(t, d, src, s, st) ==
  /\ t \in Told /\ t.answer = ToldOf(s)
  /\ t.stop = IF st = Unset THEN Unset ELSE Finish[st]
  /\ t.ended <=> EndsAt(d, src)
  /\ t.usage \in {NoUsage, Total}
  /\ Counted(src) => t.usage = Total

LEMMA FinishFacts ==
    ASSUME NEW st \in StopReasons
    PROVE  st # Unset /\ Finish[st] # Unset /\ Finish[st] \in Words
<1>1. /\ Finish["end_turn"] = "stop" /\ Finish["max_tokens"] = "length" /\ Finish["tool_use"] = "tool_calls"
  BY DEF Finish
<1>2. /\ "stop" \in Words /\ "length" \in Words /\ "tool_calls" \in Words
      /\ "stop" # Unset /\ "length" # Unset /\ "tool_calls" # Unset
      /\ "end_turn" # Unset /\ "max_tokens" # Unset /\ "tool_use" # Unset
  BY Zenon DEF Words, Unset
<1>3. st = "end_turn" \/ st = "max_tokens" \/ st = "tool_use"
  BY DEF StopReasons
<1> QED BY <1>1, <1>2, <1>3

LEMMA UsageFacts == NoUsage \in Usages /\ Total \in Usages /\ NoUsage # Total
<1>1. NoUsage \in Usages /\ Total \in Usages
  BY DEF NoUsage, Total, Usages
<1>2. NoUsage.input = 0 /\ Total.input = 3
  BY DEF NoUsage, Total
<1>3. NoUsage # Total
  BY <1>2
<1> QED BY <1>1, <1>3

LEMMA TellsMore ==
    ASSUME NEW d, NEW src, NEW s, NEW st, NEW t, Tells(t, d, src, s, st), ~t.ended,
           NEW r, ToldOf(r) \in Answers, NEW e \in Chunks, ChunkSays(e, t.answer, ToldOf(r)),
           st # Unset => e.finish = Unset /\ ToldOf(r) = t.answer,
           NEW su, IF e.finish = Unset THEN su = st ELSE su \in StopReasons /\ e.finish = Finish[su],
           e.usage \in {NoUsage, Total},
           NEW srd, ~EndsAt(d, srd), Counted(srd) => e.usage = Total \/ Counted(src)
    PROVE  \E u \in Told : Says(e, t, u) /\ Tells(u, d, srd, r, su)
<1>1. /\ t \in Told /\ t.answer = ToldOf(s)
      /\ t.stop = (IF st = Unset THEN Unset ELSE Finish[st])
      /\ t.usage \in {NoUsage, Total}
      /\ Counted(src) => t.usage = Total
  BY DEF Tells
<1>2. PICK stopped : stopped = IF e.finish = Unset THEN t.stop ELSE e.finish
  OBVIOUS
<1>3. PICK usage : usage = IF e.usage = NoUsage THEN t.usage ELSE e.usage
  OBVIOUS
<1>4. PICK b \in Answers : b = ToldOf(r)
  OBVIOUS
<1>5. PICK u : u = [answer |-> b, stop |-> stopped, usage |-> usage, ended |-> FALSE]
  OBVIOUS
<1>6. /\ u.answer = b /\ u.stop = stopped /\ u.usage = usage /\ ~u.ended
  BY <1>5
<1>7. stopped \in Words
  <2>1. t.stop \in Words
    BY <1>1 DEF Told
  <2>2. e.finish \in Words
    BY DEF Chunks
  <2> QED BY <1>2, <2>1, <2>2
<1>8. usage \in {NoUsage, Total} /\ usage \in Usages /\ (Counted(srd) => usage = Total)
  <2>1. usage \in {NoUsage, Total}
    BY <1>1, <1>3
  <2>2. usage \in Usages
    BY <2>1, UsageFacts
  <2>3. ASSUME Counted(srd) PROVE usage = Total
    BY <1>1, <1>3, <2>3, UsageFacts
  <2> QED BY <2>1, <2>2, <2>3
<1>9. u \in Told
  BY <1>5, <1>7, <1>8 DEF Told
<1>10. stopped = IF su = Unset THEN Unset ELSE Finish[su]
  <2>1. CASE e.finish = Unset
    <3>1. stopped = t.stop /\ su = st
      BY <1>2, <2>1
    <3> QED BY <1>1, <3>1
  <2>2. CASE e.finish # Unset
    <3>1. su \in StopReasons /\ stopped = Finish[su]
      BY <1>2, <2>2
    <3>2. su # Unset
      BY <3>1, FinishFacts
    <3> QED BY <3>1, <3>2
  <2> QED BY <2>1, <2>2
<1>11. Tells(u, d, srd, r, su)
  BY <1>4, <1>6, <1>8, <1>9, <1>10 DEF Tells
<1>12. t.stop # Unset => st # Unset
  BY <1>1
<1>13. SaysChunk(e, t, u)
  BY <1>2, <1>3, <1>4, <1>6, <1>12 DEF SaysChunk
<1> QED BY <1>9, <1>11, <1>13 DEF Says

\* The same, where the provers need its conditions in one.
MayTell(d, src, s, st, t, r, e, srd, su) ==
  /\ Tells(t, d, src, s, st) /\ ~t.ended /\ ToldOf(r) \in Answers /\ e \in Chunks /\ ChunkSays(e, t.answer, ToldOf(r))
  /\ st # Unset => e.finish = Unset /\ ToldOf(r) = t.answer
  /\ IF e.finish = Unset THEN su = st ELSE su \in StopReasons /\ e.finish = Finish[su]
  /\ e.usage \in {NoUsage, Total}
  /\ ~EndsAt(d, srd)
  /\ Counted(srd) => e.usage = Total \/ Counted(src)

LEMMA TellsOn ==
    ASSUME NEW d, NEW src, NEW s, NEW st, NEW t, NEW r, NEW e, NEW srd, NEW su,
           MayTell(d, src, s, st, t, r, e, srd, su)
    PROVE  \E u \in Told : Says(e, t, u) /\ Tells(u, d, srd, r, su)
BY TellsMore DEF MayTell

LEMMA TellsEnd ==
    ASSUME NEW d, NEW src, NEW s, NEW st, NEW t, Tells(t, d, src, s, st),
           NEW e, (e = Done /\ ~t.ended) \/ e = [type |-> "EOF"],
           NEW srd, EndsAt(d, srd), Counted(srd) => Counted(src)
    PROVE  \E u \in Told : Says(e, t, u) /\ Tells(u, d, srd, s, st)
<1>1. /\ t \in Told /\ t.answer = ToldOf(s)
      /\ t.stop = (IF st = Unset THEN Unset ELSE Finish[st])
      /\ t.usage \in {NoUsage, Total}
      /\ Counted(src) => t.usage = Total
  BY DEF Tells
<1>2. PICK u : u = [t EXCEPT !.ended = TRUE]
  OBVIOUS
<1>3. u \in Told /\ u.answer = t.answer /\ u.stop = t.stop /\ u.usage = t.usage /\ u.ended
  BY <1>1, <1>2 DEF Told
<1>4. SaysEnd(e, t, u)
  <2>1. e = Done => ~t.ended
    <3>1. Done.type # [type |-> "EOF"].type
      BY DEF Done
    <3> QED BY <3>1
  <2> QED BY <1>3, <2>1 DEF SaysEnd
<1>5. Tells(u, d, srd, s, st)
  BY <1>1, <1>3 DEF Tells
<1> QED BY <1>3, <1>4, <1>5 DEF Says

\* The chunks of a provider.
ChunkIs(e, reasoning, content, calls, finish, usage) ==
  /\ e \in Chunks /\ e.type = "chunk" /\ e.reasoning = reasoning /\ e.content = content /\ e.calls = calls
  /\ e.finish = finish /\ e.usage = usage

LEMMA ChunkMade ==
    ASSUME NEW reasoning \in Bodies, NEW content \in Bodies, NEW calls \in Seq(CallDeltas),
           NEW finish \in Words, NEW usage \in Usages,
           NEW e, e = [type |-> "chunk", reasoning |-> reasoning, content |-> content, calls |-> calls,
                       finish |-> finish, usage |-> usage]
    PROVE  ChunkIs(e, reasoning, content, calls, finish, usage)
<1>1. e \in Chunks
  BY DEF Chunks
<1>2. e.type = "chunk" /\ e.reasoning = reasoning /\ e.content = content /\ e.calls = calls
      /\ e.finish = finish /\ e.usage = usage
  OBVIOUS
<1> QED BY <1>1, <1>2 DEF ChunkIs

LEMMA ChunksMade ==
    /\ ChunkIs(NoChunk, <<>>, <<>>, <<>>, Unset, NoUsage)
    /\ \A piece \in Bodies : /\ ChunkIs([NoChunk EXCEPT !.reasoning = piece], piece, <<>>, <<>>, Unset, NoUsage)
                             /\ ChunkIs([NoChunk EXCEPT !.content = piece], <<>>, piece, <<>>, Unset, NoUsage)
    /\ \A delta \in CallDeltas :
         ChunkIs([NoChunk EXCEPT !.calls = <<delta>>], <<>>, <<>>, <<delta>>, Unset, NoUsage)
    /\ \A delta \in CallDeltas, finish \in Words :
         ChunkIs([NoChunk EXCEPT !.calls = <<delta>>, !.finish = finish], <<>>, <<>>, <<delta>>, finish, NoUsage)
    /\ \A finish \in Words : ChunkIs([NoChunk EXCEPT !.finish = finish], <<>>, <<>>, <<>>, finish, NoUsage)
    /\ \A finish \in Words, usage \in Usages :
         ChunkIs([NoChunk EXCEPT !.finish = finish, !.usage = usage], <<>>, <<>>, <<>>, finish, usage)
    /\ \A usage \in Usages : ChunkIs([NoChunk EXCEPT !.usage = usage], <<>>, <<>>, <<>>, Unset, usage)
<1>1. <<>> \in Bodies /\ <<>> \in Seq(CallDeltas) /\ Unset \in Words /\ NoUsage \in Usages
  BY UsageFacts DEF Bodies, Words
<1>2. \A delta \in CallDeltas : <<delta>> \in Seq(CallDeltas)
  OBVIOUS
<1>3. ChunkIs(NoChunk, <<>>, <<>>, <<>>, Unset, NoUsage)
  BY <1>1, ChunkMade DEF NoChunk
<1>4. ASSUME NEW piece \in Bodies
      PROVE  /\ ChunkIs([NoChunk EXCEPT !.reasoning = piece], piece, <<>>, <<>>, Unset, NoUsage)
             /\ ChunkIs([NoChunk EXCEPT !.content = piece], <<>>, piece, <<>>, Unset, NoUsage)
  <2>1. ChunkIs([NoChunk EXCEPT !.reasoning = piece], piece, <<>>, <<>>, Unset, NoUsage)
    <3>1. PICK e : e = [type |-> "chunk", reasoning |-> piece, content |-> <<>>, calls |-> <<>>,
                      finish |-> Unset, usage |-> NoUsage]
      OBVIOUS
    <3>2. e = [NoChunk EXCEPT !.reasoning = piece]
      BY <3>1 DEF NoChunk
    <3>3. ChunkIs(e, piece, <<>>, <<>>, Unset, NoUsage)
      BY <1>1, <1>2, <3>1, ChunkMade
    <3> QED BY <3>2, <3>3
  <2>2. ChunkIs([NoChunk EXCEPT !.content = piece], <<>>, piece, <<>>, Unset, NoUsage)
    <3>1. PICK e : e = [type |-> "chunk", reasoning |-> <<>>, content |-> piece, calls |-> <<>>,
                      finish |-> Unset, usage |-> NoUsage]
      OBVIOUS
    <3>2. e = [NoChunk EXCEPT !.content = piece]
      BY <3>1 DEF NoChunk
    <3>3. ChunkIs(e, <<>>, piece, <<>>, Unset, NoUsage)
      BY <1>1, <1>2, <3>1, ChunkMade
    <3> QED BY <3>2, <3>3
  <2> QED BY <2>1, <2>2
<1>5. ASSUME NEW delta \in CallDeltas
      PROVE  ChunkIs([NoChunk EXCEPT !.calls = <<delta>>], <<>>, <<>>, <<delta>>, Unset, NoUsage)
  <2>1. PICK e : e = [type |-> "chunk", reasoning |-> <<>>, content |-> <<>>, calls |-> <<delta>>,
                    finish |-> Unset, usage |-> NoUsage]
    OBVIOUS
  <2>2. e = [NoChunk EXCEPT !.calls = <<delta>>]
    BY <2>1 DEF NoChunk
  <2>3. ChunkIs(e, <<>>, <<>>, <<delta>>, Unset, NoUsage)
    BY <1>1, <1>2, <2>1, ChunkMade
  <2> QED BY <2>2, <2>3
<1>6. ASSUME NEW delta \in CallDeltas, NEW finish \in Words
      PROVE  ChunkIs([NoChunk EXCEPT !.calls = <<delta>>, !.finish = finish], <<>>, <<>>, <<delta>>, finish, NoUsage)
  <2>1. PICK e : e = [type |-> "chunk", reasoning |-> <<>>, content |-> <<>>, calls |-> <<delta>>,
                    finish |-> finish, usage |-> NoUsage]
    OBVIOUS
  <2>2. e = [NoChunk EXCEPT !.calls = <<delta>>, !.finish = finish]
    <3>1. PICK x : x = [NoChunk EXCEPT !.calls = <<delta>>]
      OBVIOUS
    <3>2. x = [type |-> "chunk", reasoning |-> <<>>, content |-> <<>>, calls |-> <<delta>>, finish |-> Unset, usage |-> NoUsage]
      BY <3>1 DEF NoChunk
    <3>3. e = [x EXCEPT !.finish = finish]
      BY <2>1, <3>2
    <3>4. [x EXCEPT !.finish = finish] = [NoChunk EXCEPT !.calls = <<delta>>, !.finish = finish]
      BY <3>1
    <3> QED BY <3>3, <3>4
  <2>3. ChunkIs(e, <<>>, <<>>, <<delta>>, finish, NoUsage)
    BY <1>1, <1>2, <2>1, ChunkMade
  <2> QED BY <2>2, <2>3
<1>7. ASSUME NEW finish \in Words
      PROVE  ChunkIs([NoChunk EXCEPT !.finish = finish], <<>>, <<>>, <<>>, finish, NoUsage)
  <2>1. PICK e : e = [type |-> "chunk", reasoning |-> <<>>, content |-> <<>>, calls |-> <<>>,
                    finish |-> finish, usage |-> NoUsage]
    OBVIOUS
  <2>2. e = [NoChunk EXCEPT !.finish = finish]
    BY <2>1 DEF NoChunk
  <2>3. ChunkIs(e, <<>>, <<>>, <<>>, finish, NoUsage)
    BY <1>1, <1>2, <2>1, ChunkMade
  <2> QED BY <2>2, <2>3
<1>8. ASSUME NEW finish \in Words, NEW usage \in Usages
      PROVE  ChunkIs([NoChunk EXCEPT !.finish = finish, !.usage = usage], <<>>, <<>>, <<>>, finish, usage)
  <2>1. PICK e : e = [type |-> "chunk", reasoning |-> <<>>, content |-> <<>>, calls |-> <<>>,
                    finish |-> finish, usage |-> usage]
    OBVIOUS
  <2>2. e = [NoChunk EXCEPT !.finish = finish, !.usage = usage]
    <3>1. PICK x : x = [NoChunk EXCEPT !.finish = finish]
      OBVIOUS
    <3>2. x = [type |-> "chunk", reasoning |-> <<>>, content |-> <<>>, calls |-> <<>>, finish |-> finish, usage |-> NoUsage]
      BY <3>1 DEF NoChunk
    <3>3. e = [x EXCEPT !.usage = usage]
      BY <2>1, <3>2
    <3>4. [x EXCEPT !.usage = usage] = [NoChunk EXCEPT !.finish = finish, !.usage = usage]
      BY <3>1
    <3> QED BY <3>3, <3>4
  <2>3. ChunkIs(e, <<>>, <<>>, <<>>, finish, usage)
    BY <1>1, <1>2, <2>1, ChunkMade
  <2> QED BY <2>2, <2>3
<1>9. ASSUME NEW usage \in Usages
      PROVE  ChunkIs([NoChunk EXCEPT !.usage = usage], <<>>, <<>>, <<>>, Unset, usage)
  <2>1. PICK e : e = [type |-> "chunk", reasoning |-> <<>>, content |-> <<>>, calls |-> <<>>,
                    finish |-> Unset, usage |-> usage]
    OBVIOUS
  <2>2. e = [NoChunk EXCEPT !.usage = usage]
    BY <2>1 DEF NoChunk
  <2>3. ChunkIs(e, <<>>, <<>>, <<>>, Unset, usage)
    BY <1>1, <1>2, <2>1, ChunkMade
  <2> QED BY <2>2, <2>3
<1> QED BY <1>3, <1>4, <1>5, <1>6, <1>7, <1>8, <1>9

LEMMA SaidEmpty ==
    ASSUME NEW a \in Answers, NEW type \in {"thinking", "text"}
    PROVE  Said(a, Block(type, NoId, <<>>)) = a
<1>1. PICK body \in Bodies : body = <<>>
  <2>1. <<>> \in Bodies
    BY DEF Bodies
  <2> QED BY <2>1
<1>2. NoId \in Nat /\ type \in BlockTypes /\ type # "tool"
  BY DEF NoId, BlockTypes
<1>3. PICK x : x = Said(a, Block(type, NoId, body))
  OBVIOUS
<1>4. /\ x \in Answers
      /\ x.text = IF type = "text" THEN a.text \o body ELSE a.text
      /\ x.calls = IF type = "tool" THEN Append(a.calls, [id |-> NoId, body |-> body]) ELSE a.calls
      /\ x.shown = Shown(a.shown, Block(type, NoId, body))
      /\ x.size = IF type = "thinking" THEN a.size ELSE a.size + Len(body)
      /\ x.pieces = a.pieces + Len(body)
  <2>1. /\ Said(a, Block(type, NoId, body)) \in Answers
        /\ Said(a, Block(type, NoId, body)).text = IF type = "text" THEN a.text \o body ELSE a.text
        /\ Said(a, Block(type, NoId, body)).calls
             = IF type = "tool" THEN Append(a.calls, [id |-> NoId, body |-> body]) ELSE a.calls
        /\ Said(a, Block(type, NoId, body)).shown = Shown(a.shown, Block(type, NoId, body))
        /\ Said(a, Block(type, NoId, body)).size = IF type = "thinking" THEN a.size ELSE a.size + Len(body)
        /\ Said(a, Block(type, NoId, body)).pieces = a.pieces + Len(body)
    BY <1>2, SaidBlock
  <2> QED BY <1>3, <2>1
<1>5. a.text \in Bodies /\ a.size \in Nat /\ a.pieces \in Nat
  BY DEF Answers
<1>6. a.text \o body = a.text /\ Len(body) = 0
  BY <1>1, <1>5, CatEmpty
<1>7. Shown(a.shown, Block(type, NoId, body)) = a.shown
  BY <1>1, <1>2 DEF Shown, Block
<1>8. x.text = a.text /\ x.calls = a.calls /\ x.shown = a.shown /\ x.size = a.size /\ x.pieces = a.pieces
  BY <1>2, <1>4, <1>5, <1>6, <1>7
<1>9. x = a
  BY <1>4, <1>8, SameAnswer
<1> QED BY <1>1, <1>3, <1>9

LEMMA MergeIs ==
    ASSUME NEW usage \in Usages, NEW new \in Usages
    PROVE  mergeAnthropicUsage(usage, new) = [input |-> IF new.input # 0 THEN new.input ELSE usage.input,
                                              output |-> IF new.output # 0 THEN new.output ELSE usage.output]
BY DEF mergeAnthropicUsage, Usages

-----------------------------------------------------------------------------
(* The adapter that makes a chat stream of an Anthropic one. *)

AdapterCalls == [index: Nat, id: Nat, started: BOOLEAN]
Adapters(b) == [buffer: {b}, calls: Partial(AdapterCalls), next: Nat, thinking: SUBSET Nat, usage: Usages,
                emittedToolCalls: BOOLEAN]

\* The adapter knows which block is open, and what it holds back.
AdapterTells(sc, src, s) ==
  /\ sc \in Adapters(sc.buffer)
  /\ sc.next = Len(AnswerOf(s).calls)
  /\ src = "blocks" => sc.usage.input = 3
  /\ \A k \in DOMAIN sc.calls : k < Len(s)
  /\ OpenIn(s) =>
       /\ (Len(s) - 1 \in DOMAIN sc.calls) <=> Last(s).type = "tool"
       /\ Last(s).type = "thinking" => Len(s) - 1 \in sc.thinking
       /\ Last(s).type = "tool" =>
            /\ sc.calls[Len(s) - 1].index = Len(AnswerOf(s).calls) - 1 /\ sc.calls[Len(s) - 1].id = Len(s)
            /\ sc.calls[Len(s) - 1].started <=> ~HeldIn(s)
  /\ sc.emittedToolCalls <=> ToldOf(s).calls # <<>>

FeedsTo(sd, t, d, src, s, st) ==
  \/ sd.buffer = <<>> /\ Tells(t, d, src, s, st)
  \/ \E e, u : sd.buffer = <<e>> /\ u \in Told /\ Says(e, t, u) /\ Tells(u, d, src, s, st)
               /\ (e = [type |-> "EOF"] => d = "openai")

LEMMA FeedsChunk ==
    ASSUME NEW d, NEW src, NEW s, NEW st, NEW t, NEW sd, NEW e \in Chunks, sd.buffer = <<e>>,
           \E u \in Told : Says(e, t, u) /\ Tells(u, d, src, s, st)
    PROVE  FeedsTo(sd, t, d, src, s, st)
<1>1. e # [type |-> "EOF"]
  <2>1. e.type = "chunk"
    BY DEF Chunks
  <2> QED BY <2>1
<1> QED BY <1>1 DEF FeedsTo

LEMMA AnthropicStartTells ==
    ASSUME NEW sc, NEW t, AdapterTells(sc, "fresh", <<>>), sc.buffer = <<>>,
           Tells(t, "anthropic", "fresh", <<>>, Unset), NEW st, st = Unset,
           NEW e, e = [type |-> "message_start", usage |-> [input |-> 3, output |-> 1]]
    PROVE  /\ AdapterTells(ChatFromAnthropic(sc, e), "blocks", <<>>)
           /\ FeedsTo(ChatFromAnthropic(sc, e), t, "anthropic", "blocks", <<>>, Unset)
<1>1. PICK new \in Usages : new = [input |-> 3, output |-> 1]
  BY DEF Usages
<1>2. e.type = "message_start" /\ e.usage = new
  BY <1>1
<1>3. /\ sc \in Adapters(<<>>) /\ sc.usage \in Usages
  BY DEF AdapterTells, Adapters
<1>4. PICK usage : usage = mergeAnthropicUsage(sc.usage, new)
  OBVIOUS
<1>5. usage \in Usages /\ usage.input = 3
  <2>1. usage = [input |-> IF new.input # 0 THEN new.input ELSE sc.usage.input,
                 output |-> IF new.output # 0 THEN new.output ELSE sc.usage.output]
    BY <1>3, <1>4, MergeIs
  <2>2. new.input = 3 /\ new.output = 1
    BY <1>1
  <2> QED BY <1>3, <2>1, <2>2 DEF Usages
<1>6. PICK x : x = NoChunk
  OBVIOUS
<1>7. PICK sd : sd = [sc EXCEPT !.buffer = <<x>>, !.usage = usage]
  OBVIOUS
<1>8. ChatFromAnthropic(sc, e) = sd
  <2>1. ChatFromAnthropic(sc, e) = emit([sc EXCEPT !.usage = usage], x)
    BY <1>2, <1>4, <1>6 DEF ChatFromAnthropic, ChatMessageStart
  <2>2. PICK y : y = [sc EXCEPT !.usage = usage]
    OBVIOUS
  <2>3. y.buffer = <<>> /\ y \in Adapters(<<>>)
    BY <1>3, <1>5, <2>2 DEF Adapters
  <2>4. Append(y.buffer, x) = <<x>>
    BY <2>3
  <2>5. emit(y, x) = [y EXCEPT !.buffer = <<x>>]
    BY <2>3, <2>4 DEF emit
  <2>6. [y EXCEPT !.buffer = <<x>>] = sd
    BY <1>3, <1>7, <2>2 DEF Adapters
  <2> QED BY <2>1, <2>2, <2>5, <2>6
<1>9. /\ sd \in Adapters(<<x>>) /\ sd.buffer = <<x>> /\ sd.calls = sc.calls /\ sd.next = sc.next
      /\ sd.thinking = sc.thinking /\ sd.usage = usage /\ sd.emittedToolCalls = sc.emittedToolCalls
  BY <1>3, <1>5, <1>7 DEF Adapters
<1>10. AdapterTells(sd, "blocks", <<>>)
  BY <1>5, <1>9 DEF AdapterTells
<1>11. FeedsTo(sd, t, "anthropic", "blocks", <<>>, Unset)
  <2>1. ChunkIs(x, <<>>, <<>>, <<>>, Unset, NoUsage)
    BY <1>6, ChunksMade
  <2>2. x \in Chunks /\ x.reasoning = <<>> /\ x.content = <<>> /\ x.calls = <<>> /\ x.finish = Unset /\ x.usage = NoUsage
    BY <2>1 DEF ChunkIs
  <2>3. t \in Told /\ t.answer = ToldOf(<<>>) /\ ~t.ended
    BY DEF Tells, EndsAt
  <2>4. ToldOf(<<>>) \in Answers
    BY <2>3 DEF Told
  <2>5. ChunkSays(x, t.answer, ToldOf(<<>>))
    BY <2>2, <2>3 DEF ChunkSays, SaysNothing
  <2>6. ~EndsAt("anthropic", "blocks") /\ ~Counted("blocks")
    BY DEF EndsAt, Counted
  <2>7. \E u \in Told : Says(x, t, u) /\ Tells(u, "anthropic", "blocks", <<>>, Unset)
    BY <2>2, <2>3, <2>4, <2>5, <2>6, TellsMore
  <2> QED BY <1>9, <2>2, <2>7, FeedsChunk
<1> QED BY <1>8, <1>10, <1>11

\* An adapter by its parts.
AdapterIs(sd, b, calls, next, thinking, usage, emitted) ==
  /\ sd \in Adapters(b) /\ sd.buffer = b /\ sd.calls = calls /\ sd.next = next
  /\ sd.thinking = thinking /\ sd.usage = usage /\ (sd.emittedToolCalls <=> emitted)

LEMMA EmitsCall ==
    ASSUME NEW sc \in Adapters(<<>>), NEW delta, NEW x, x = [NoChunk EXCEPT !.calls = <<delta>>]
    PROVE  AdapterIs(emitCall(sc, delta), <<x>>, sc.calls, sc.next, sc.thinking, sc.usage, TRUE)
<1>1. PICK y : y = [sc EXCEPT !.emittedToolCalls = TRUE]
  OBVIOUS
<1>2. /\ y \in Adapters(<<>>) /\ y.buffer = <<>> /\ y.calls = sc.calls /\ y.next = sc.next
      /\ y.thinking = sc.thinking /\ y.usage = sc.usage /\ y.emittedToolCalls = TRUE
  BY <1>1 DEF Adapters
<1>3. PICK sd : sd = [y EXCEPT !.buffer = <<x>>]
  OBVIOUS
<1>4. /\ sd \in Adapters(<<x>>) /\ sd.buffer = <<x>> /\ sd.calls = sc.calls /\ sd.next = sc.next
      /\ sd.thinking = sc.thinking /\ sd.usage = sc.usage /\ sd.emittedToolCalls = TRUE
  BY <1>2, <1>3 DEF Adapters
<1>5. emitCall(sc, delta) = sd
  <2>1. Append(y.buffer, x) = <<x>>
    BY <1>2
  <2>2. emit(y, x) = sd
    BY <1>2, <1>3, <2>1 DEF emit
  <2> QED BY <1>1, <2>2 DEF emitCall
<1> QED BY <1>4, <1>5 DEF AdapterIs

\* A call that is told with its first delta.
LEMMA FeedsCall ==
    ASSUME NEW src, NEW s, NEW t, Tells(t, "anthropic", src, s, Unset), ~t.ended,
           NEW a \in Answers, t.answer = a, Len(a.calls) < MaxBlocks,
           NEW k \in Nat, k = Len(a.calls), NEW id \in Nat \ {NoId}, NEW arguments \in Bodies,
           NEW r, ToldOf(r) = Said(a, Block("tool", id, arguments)),
           NEW srd, ~EndsAt("anthropic", srd), ~Counted(srd),
           NEW sd, sd.buffer = <<[NoChunk EXCEPT !.calls = <<CallDelta(k, id, arguments)>>]>>
    PROVE  FeedsTo(sd, t, "anthropic", srd, r, Unset)
<1>1. PICK x : x = [NoChunk EXCEPT !.calls = <<CallDelta(k, id, arguments)>>]
  OBVIOUS
<1>2. PICK delta \in CallDeltas : delta = CallDelta(k, id, arguments)
  BY DEF CallDelta, CallDeltas
<1>3. x \in Chunks /\ x.reasoning = <<>> /\ x.content = <<>> /\ x.calls = <<delta>> /\ x.finish = Unset /\ x.usage = NoUsage
  <2>1. ChunkIs([NoChunk EXCEPT !.calls = <<delta>>], <<>>, <<>>, <<delta>>, Unset, NoUsage)
    BY ChunksMade
  <2> QED BY <1>1, <1>2, <2>1 DEF ChunkIs
<1>4. ToldOf(r) \in Answers
  <2>1. PICK i \in Nat : i = id
    OBVIOUS
  <2>2. Said(a, Block("tool", i, arguments)) \in Answers
    BY SaidTool
  <2> QED BY <2>1, <2>2
<1>5. ChunkSays(x, t.answer, ToldOf(r))
  <2>1. SaysCall(x, a, ToldOf(r))
    BY <1>2, <1>3 DEF SaysCall
  <2> QED BY <2>1 DEF ChunkSays
<1>6. \E u \in Told : Says(x, t, u) /\ Tells(u, "anthropic", srd, r, Unset)
  BY <1>3, <1>4, <1>5, TellsMore
<1> QED BY <1>1, <1>3, <1>6, FeedsChunk

\* Nothing is told.
LEMMA FeedsNothing ==
    ASSUME NEW d, NEW src, NEW s, NEW st, NEW t, Tells(t, d, src, s, st), NEW r, ToldOf(r) = ToldOf(s),
           NEW srd, ~EndsAt(d, src), ~EndsAt(d, srd), ~Counted(srd), NEW sd, sd.buffer = <<>>
    PROVE  FeedsTo(sd, t, d, srd, r, st)
BY DEF Tells, FeedsTo

\* A block that an Anthropic provider opens.
Opens(s, r, type, id, body) ==
  /\ SentOk(r, "anthropic") /\ Len(s) \in Nat /\ Len(r) = Len(s) + 1 /\ OpenIn(r)
  /\ Last(r).type = type /\ Last(r).id = id /\ Last(r).body = body
  /\ id \in Nat /\ (type = "tool" => id = Len(s) + 1)
  /\ AnswerOf(s) \in Answers /\ Len(AnswerOf(s).calls) \in Nat /\ Len(AnswerOf(s).calls) <= Len(s)
  /\ AnswerOf(r) \in Answers /\ AnswerOf(r) = Said(AnswerOf(s), Block(type, id, body))
  /\ ToldOf(s) = AnswerOf(s)
  /\ (HeldIn(r) <=> type = "tool" /\ body = <<Empty>>)
  /\ ToldOf(r) = IF HeldIn(r) THEN AnswerOf(s) ELSE AnswerOf(r)

LEMMA SentOpens ==
    ASSUME NEW s, SentOk(s, "anthropic"), ~OpenIn(s), Len(s) < MaxBlocks,
           NEW type \in BlockTypes, NEW body \in Bodies, body = <<Empty>> => type = "tool",
           NEW id, id = IF type = "tool" THEN Len(s) + 1 ELSE NoId,
           NEW r, r = Append(s, [type |-> type, id |-> id, body |-> body, open |-> TRUE])
    PROVE  Opens(s, r, type, id, body)
<1>1. PICK b : b = [type |-> type, id |-> id, body |-> body, open |-> TRUE]
  OBVIOUS
<1>2. /\ id \in Nat /\ b \in SentBlocks /\ Appended(s, b, r) /\ SentOk(r, "anthropic")
      /\ AnswerOf(r) = Said(AnswerOf(s), Block(type, id, body))
  <2>0. PICK d : d = "anthropic"
    OBVIOUS
  <2>5. PICK o \in BOOLEAN : o = TRUE
    OBVIOUS
  <2>1. d = "anthropic" /\ o = TRUE
    BY <2>0, <2>5
  <2>2. SentOk(s, d) /\ (body = <<Empty>> => type = "tool" /\ d = "anthropic") /\ (o => d = "anthropic")
    BY <2>1
  <2>3. b = [type |-> type, id |-> id, body |-> body, open |-> o]
    BY <1>1, <2>1
  <2>4. /\ id \in Nat /\ b \in SentBlocks /\ Appended(s, b, Append(s, b)) /\ SentOk(Append(s, b), d)
        /\ AnswerOf(Append(s, b)) = Said(AnswerOf(s), Block(type, id, body))
    BY <2>2, <2>3, SentBegins
  <2> QED BY <1>1, <2>1, <2>4
<1>3. s \in Seq(SentBlocks) /\ r \in Seq(SentBlocks)
  BY <1>2 DEF SentOk
<1>4. AnswerOf(s) \in Answers /\ Len(AnswerOf(s).calls) <= Len(s) /\ AnswerOf(r) \in Answers
  BY <1>3, AnswerFacts
<1>5. Len(AnswerOf(s).calls) \in Nat /\ Len(s) \in Nat
  <2>1. AnswerOf(s).calls \in Seq(CallBodies)
    BY <1>4 DEF Answers
  <2> QED BY <1>3, <2>1
<1>6. r # <<>> /\ Last(r) = b /\ Front(r) = s /\ Len(r) = Len(s) + 1
  BY <1>2 DEF Appended
<1>7. b.type = type /\ b.id = id /\ b.body = body /\ b.open = TRUE
  BY <1>1
<1>8. OpenIn(r)
  BY <1>6, <1>7 DEF OpenIn
<1>9. HeldIn(r) <=> type = "tool" /\ body = <<Empty>>
  BY <1>6, <1>7 DEF HeldIn
<1>10. ToldOf(s) = AnswerOf(s)
  BY DEF ToldOf, HeldIn, OpenIn
<1>11. ToldOf(r) = IF HeldIn(r) THEN AnswerOf(s) ELSE AnswerOf(r)
  BY <1>6 DEF ToldOf
<1> QED BY <1>2, <1>4, <1>5, <1>6, <1>7, <1>8, <1>9, <1>10, <1>11 DEF Opens

\* Thinking and text tell nothing where they begin.
LEMMA BeginsText ==
    ASSUME NEW sc, NEW s, AdapterTells(sc, "blocks", s), sc.buffer = <<>>,
           NEW t, Tells(t, "anthropic", "blocks", s, Unset),
           NEW type \in {"thinking", "text"}, NEW r, Opens(s, r, type, NoId, <<>>),
           NEW e, e = [type |-> "content_block_start", index |-> Len(s), block |-> type, id |-> NoId, input |-> <<>>]
    PROVE  /\ AdapterTells(ChatFromAnthropic(sc, e), "blocks", r)
           /\ FeedsTo(ChatFromAnthropic(sc, e), t, "anthropic", "blocks", r, Unset)
<1>1. e.type = "content_block_start" /\ e.index = Len(s) /\ e.block = type
  OBVIOUS
<1>2. PICK n \in Nat : n = Len(s)
  BY DEF Opens
<1>3. /\ sc \in Adapters(<<>>) /\ sc.next = Len(AnswerOf(s).calls) /\ sc.usage.input = 3
      /\ \A k \in DOMAIN sc.calls : k < n
      /\ (sc.emittedToolCalls <=> ToldOf(s).calls # <<>>)
  BY <1>2 DEF AdapterTells
<1>4. PICK thinking : thinking = IF type = "thinking" THEN sc.thinking \cup {n} ELSE sc.thinking
  OBVIOUS
<1>5. PICK sd : sd = [sc EXCEPT !.thinking = thinking]
  OBVIOUS
<1>6. /\ sd \in Adapters(<<>>) /\ sd.buffer = <<>> /\ sd.calls = sc.calls /\ sd.next = sc.next
      /\ sd.thinking = thinking /\ sd.usage = sc.usage /\ sd.emittedToolCalls = sc.emittedToolCalls
  <2>1. thinking \in SUBSET Nat
    BY <1>3, <1>4 DEF Adapters
  <2> QED BY <1>3, <1>5, <2>1 DEF Adapters
<1>7. ChatFromAnthropic(sc, e) = sd
  <2>1. ChatFromAnthropic(sc, e) = ChatBlockStart(sc, e)
    BY <1>1 DEF ChatFromAnthropic
  <2>2. CASE type = "thinking"
    <3>1. ChatBlockStart(sc, e) = [sc EXCEPT !.thinking = @ \cup {n}]
      BY <1>1, <1>2, <2>2 DEF ChatBlockStart
    <3> QED BY <1>4, <1>5, <2>1, <2>2, <3>1
  <2>3. CASE type = "text"
    <3>1. ChatBlockStart(sc, e) = sc
      BY <1>1, <2>3 DEF ChatBlockStart
    <3>2. [sc EXCEPT !.thinking = sc.thinking] = sc
      BY <1>3 DEF Adapters
    <3> QED BY <1>4, <1>5, <2>1, <2>3, <3>1, <3>2
  <2> QED BY <2>2, <2>3
<1>8. ToldOf(r) = AnswerOf(s) /\ AnswerOf(r) = AnswerOf(s) /\ ToldOf(s) = AnswerOf(s)
  <2>1. ToldOf(r) = AnswerOf(r) /\ AnswerOf(r) = Said(AnswerOf(s), Block(type, NoId, <<>>))
        /\ AnswerOf(s) \in Answers /\ ToldOf(s) = AnswerOf(s)
    BY DEF Opens
  <2>2. Said(AnswerOf(s), Block(type, NoId, <<>>)) = AnswerOf(s)
    BY <2>1, SaidEmpty
  <2> QED BY <2>1, <2>2
<1>9. Len(r) = n + 1 /\ Last(r).type = type
  BY <1>2 DEF Opens
<1>10. AdapterTells(sd, "blocks", r)
  <2>1. sd.next = Len(AnswerOf(r).calls) /\ sd.usage.input = 3 /\ (sd.emittedToolCalls <=> ToldOf(r).calls # <<>>)
    BY <1>3, <1>6, <1>8
  <2>2. \A k \in DOMAIN sd.calls : k < n
    BY <1>3, <1>6
  <2>3. DOMAIN sd.calls \subseteq Nat
    BY <1>6, PartialFacts DEF Adapters
  <2>4. \A k \in DOMAIN sd.calls : k < Len(r)
    BY <1>2, <1>9, <2>2, <2>3
  <2>5. Len(r) - 1 = n /\ n \notin DOMAIN sd.calls
    BY <1>2, <1>9, <2>2
  <2>6. Last(r).type = "thinking" => n \in sd.thinking
    BY <1>4, <1>6, <1>9
  <2>7. sd \in Adapters(sd.buffer) /\ Last(r).type # "tool"
    BY <1>6, <1>9
  <2> QED BY <2>1, <2>4, <2>5, <2>6, <2>7 DEF AdapterTells
<1>11. FeedsTo(sd, t, "anthropic", "blocks", r, Unset)
  <2>1. ~EndsAt("anthropic", "blocks") /\ ~Counted("blocks")
    BY DEF EndsAt, Counted
  <2> QED BY <1>6, <1>8, <2>1, FeedsNothing
<1> QED BY <1>7, <1>10, <1>11

\* A call is told where it begins, unless it begins with the placeholder.
LEMMA BeginsCall ==
    ASSUME NEW sc, NEW s, AdapterTells(sc, "blocks", s), sc.buffer = <<>>, Len(s) < MaxBlocks,
           NEW t, Tells(t, "anthropic", "blocks", s, Unset),
           NEW body \in Bodies, NEW id, NEW r, Opens(s, r, "tool", id, body),
           NEW e, e = [type |-> "content_block_start", index |-> Len(s), block |-> "tool", id |-> id, input |-> body]
    PROVE  /\ AdapterTells(ChatFromAnthropic(sc, e), "blocks", r)
           /\ FeedsTo(ChatFromAnthropic(sc, e), t, "anthropic", "blocks", r, Unset)
<1>1. e.type = "content_block_start" /\ e.index = Len(s) /\ e.block = "tool" /\ e.id = id /\ e.input = body
  OBVIOUS
<1>2. PICK n \in Nat : n = Len(s)
  BY DEF Opens
<1>3. /\ sc \in Adapters(<<>>) /\ sc.next = Len(AnswerOf(s).calls) /\ sc.usage.input = 3
      /\ \A k \in DOMAIN sc.calls : k < n
      /\ (sc.emittedToolCalls <=> ToldOf(s).calls # <<>>)
  BY <1>2 DEF AdapterTells
<1>4. /\ id \in Nat /\ id = n + 1 /\ Len(r) = n + 1 /\ Last(r).type = "tool" /\ AnswerOf(s) \in Answers
      /\ AnswerOf(r) = Said(AnswerOf(s), Block("tool", id, body)) /\ ToldOf(s) = AnswerOf(s)
      /\ (HeldIn(r) <=> body = <<Empty>>)
      /\ ToldOf(r) = (IF HeldIn(r) THEN AnswerOf(s) ELSE AnswerOf(r)) /\ AnswerOf(r) \in Answers
      /\ Len(AnswerOf(s).calls) \in Nat /\ Len(AnswerOf(s).calls) <= n
  BY <1>2 DEF Opens
<1>5. Len(AnswerOf(r).calls) = Len(AnswerOf(s).calls) + 1 /\ AnswerOf(r).calls # <<>>
  <2>1. AnswerOf(r).calls = Append(AnswerOf(s).calls, [id |-> id, body |-> body])
    BY <1>4, SaidTool
  <2>2. AnswerOf(s).calls \in Seq(CallBodies) /\ [id |-> id, body |-> body] \in CallBodies
    BY <1>4 DEF Answers, CallBodies
  <2> QED BY <2>1, <2>2, AppendIs
<1>6. PICK started \in BOOLEAN : started <=> body # <<Empty>>
  OBVIOUS
<1>7. PICK call : call = [index |-> sc.next, id |-> id, started |-> started]
  OBVIOUS
<1>8. call \in AdapterCalls
  BY <1>3, <1>4, <1>7 DEF AdapterCalls
<1>9. PICK calls : calls = Put(sc.calls, n, call)
  OBVIOUS
<1>10. /\ calls \in Partial(AdapterCalls) /\ DOMAIN sc.calls \subseteq Nat
       /\ DOMAIN calls = DOMAIN sc.calls \cup {n} /\ calls[n] = call
  <2>1. sc.calls \in Partial(AdapterCalls)
    BY <1>3 DEF Adapters
  <2>2. PutIs(AdapterCalls, sc.calls, n, call, calls)
    BY <1>8, <1>9, <2>1, PartialWith
  <2> QED BY <2>2 DEF PutIs
<1>11. PICK opened : opened = [sc EXCEPT !.next = @ + 1, !.calls = calls]
  OBVIOUS
<1>12. /\ opened \in Adapters(<<>>) /\ opened.buffer = <<>> /\ opened.calls = calls /\ opened.next = sc.next + 1
       /\ opened.thinking = sc.thinking /\ opened.usage = sc.usage /\ opened.emittedToolCalls = sc.emittedToolCalls
  <2>1. PICK y : y = [sc EXCEPT !.next = @ + 1]
    OBVIOUS
  <2>2. /\ y \in Adapters(<<>>) /\ y.buffer = <<>> /\ y.calls = sc.calls /\ y.next = sc.next + 1
        /\ y.thinking = sc.thinking /\ y.usage = sc.usage /\ y.emittedToolCalls = sc.emittedToolCalls
    BY <1>3, <2>1 DEF Adapters
  <2>3. opened = [y EXCEPT !.calls = calls]
    BY <1>3, <1>11, <2>1 DEF Adapters
  <2> QED BY <1>10, <2>2, <2>3 DEF Adapters
<1>13. PICK x : x = [NoChunk EXCEPT !.calls = <<CallDelta(sc.next, id, body)>>]
  OBVIOUS
<1>14. PICK sd : sd = IF body = <<Empty>> THEN opened ELSE emitCall(opened, CallDelta(sc.next, id, body))
  OBVIOUS
<1>15. ChatFromAnthropic(sc, e) = sd
  <2>1. ChatFromAnthropic(sc, e) = ChatBlockStart(sc, e)
    BY <1>1 DEF ChatFromAnthropic
  <2>2. [index |-> sc.next, id |-> id, started |-> ~(body = <<Empty>>)] = call
    BY <1>6, <1>7
  <2>3. [sc EXCEPT !.next = @ + 1, !.calls = Put(@, n, [index |-> sc.next, id |-> id, started |-> ~(body = <<Empty>>)])]
          = opened
    BY <1>9, <1>11, <2>2
  <2>4. ChatBlockStart(sc, e)
          = IF body = <<Empty>>
            THEN [sc EXCEPT !.next = @ + 1, !.calls = Put(@, n, [index |-> sc.next, id |-> id, started |-> ~(body = <<Empty>>)])]
            ELSE emitCall([sc EXCEPT !.next = @ + 1, !.calls = Put(@, n, [index |-> sc.next, id |-> id, started |-> ~(body = <<Empty>>)])],
                          CallDelta(sc.next, id, body))
    BY <1>1, <1>2 DEF ChatBlockStart
  <2> QED BY <1>14, <2>1, <2>3, <2>4
<1>16. AdapterIs(sd, IF body = <<Empty>> THEN <<>> ELSE <<x>>, calls, sc.next + 1, sc.thinking, sc.usage,
                 IF body = <<Empty>> THEN sc.emittedToolCalls ELSE TRUE)
  <2>1. CASE body = <<Empty>>
    BY <1>12, <1>14, <2>1 DEF AdapterIs
  <2>2. CASE body # <<Empty>>
    <3>1. AdapterIs(emitCall(opened, CallDelta(sc.next, id, body)), <<x>>, opened.calls, opened.next,
                    opened.thinking, opened.usage, TRUE)
      BY <1>12, <1>13, EmitsCall
    <3> QED BY <1>12, <1>14, <2>2, <3>1
  <2> QED BY <2>1, <2>2
<1>17. AdapterTells(sd, "blocks", r)
  <2>1. /\ sd \in Adapters(sd.buffer) /\ sd.calls = calls /\ sd.next = sc.next + 1 /\ sd.usage = sc.usage
        /\ sd.thinking = sc.thinking /\ (body = <<Empty>> => (sd.emittedToolCalls <=> sc.emittedToolCalls))
        /\ (body # <<Empty>> => sd.emittedToolCalls)
    BY <1>16 DEF AdapterIs
  <2>2. sd.next = Len(AnswerOf(r).calls) /\ sd.usage.input = 3
    BY <1>3, <1>5, <2>1
  <2>3. \A k \in DOMAIN sd.calls : k < Len(r)
    BY <1>3, <1>4, <1>10, <2>1
  <2>4. Len(r) - 1 = n /\ n \in DOMAIN sd.calls
    BY <1>2, <1>4, <1>10, <2>1
  <2>5. /\ sd.calls[n].index = Len(AnswerOf(r).calls) - 1 /\ sd.calls[n].id = Len(r)
        /\ sd.calls[n].started <=> ~HeldIn(r)
    <3>1. sc.next = Len(AnswerOf(r).calls) - 1
      BY <1>3, <1>4, <1>5
    <3>2. started <=> ~HeldIn(r)
      BY <1>4, <1>6
    <3> QED BY <1>4, <1>7, <1>10, <2>1, <3>1, <3>2
  <2>6. sd.emittedToolCalls <=> ToldOf(r).calls # <<>>
    BY <1>3, <1>4, <1>5, <2>1
  <2> QED BY <1>4, <2>1, <2>2, <2>3, <2>4, <2>5, <2>6 DEF AdapterTells
<1>18. FeedsTo(sd, t, "anthropic", "blocks", r, Unset)
  <2>1. ~EndsAt("anthropic", "blocks") /\ ~Counted("blocks")
    BY DEF EndsAt, Counted
  <2>2. CASE body = <<Empty>>
    <3>1. sd.buffer = <<>>
      BY <1>16, <2>2 DEF AdapterIs
    <3>2. ToldOf(r) = ToldOf(s)
      BY <1>4, <2>2
    <3> QED BY <2>1, <3>1, <3>2, FeedsNothing
  <2>3. CASE body # <<Empty>>
    <3>1. sd.buffer = <<x>>
      BY <1>16, <2>3 DEF AdapterIs
    <3>2. ToldOf(r) = Said(AnswerOf(s), Block("tool", id, body))
      BY <1>4, <2>3
    <3>3. t.answer = AnswerOf(s) /\ ~t.ended
      BY <1>4, <2>1 DEF Tells
    <3>4. Len(AnswerOf(s).calls) < MaxBlocks /\ id \in Nat \ {NoId}
      BY <1>2, <1>4, StreamsAssumption DEF NoId
    <3>5. sd.buffer = <<[NoChunk EXCEPT !.calls = <<CallDelta(sc.next, id, body)>>]>>
      BY <1>13, <3>1
    <3> QED BY <1>3, <1>4, <2>1, <3>2, <3>3, <3>4, <3>5, FeedsCall
  <2> QED BY <2>2, <2>3
<1> QED BY <1>15, <1>17, <1>18

\* A last block that goes on or ends.
Turns(d, s, r, z, body, open) ==
  /\ SentOk(r, d) /\ Len(r) = Len(s) /\ Len(s) \in Nat /\ Len(s) > 0 /\ r # <<>>
  /\ Last(r).type = z.type /\ Last(r).id = z.id /\ Last(r).body = body /\ (Last(r).open <=> open)
  /\ z = Last(s) /\ z.type \in BlockTypes /\ z.id \in Nat /\ z.body \in Bodies /\ body \in Bodies
  /\ (z.type = "tool" => z.id = Len(s)) /\ (z.type # "tool" => z.id = NoId /\ z.body # <<Empty>>)
  /\ AnswerOf(Front(s)) \in Answers
  /\ Len(AnswerOf(Front(s)).calls) \in Nat /\ Len(AnswerOf(Front(s)).calls) < Len(s)
  /\ AnswerOf(s) \in Answers /\ AnswerOf(s) = Said(AnswerOf(Front(s)), Block(z.type, z.id, z.body))
  /\ AnswerOf(r) \in Answers /\ AnswerOf(r) = Said(AnswerOf(Front(s)), Block(z.type, z.id, body))
  /\ (HeldIn(s) <=> z.open /\ z.type = "tool" /\ z.body = <<Empty>>)
  /\ (HeldIn(r) <=> open /\ z.type = "tool" /\ body = <<Empty>>)
  /\ ToldOf(s) = IF HeldIn(s) THEN AnswerOf(Front(s)) ELSE AnswerOf(s)
  /\ ToldOf(r) = IF HeldIn(r) THEN AnswerOf(Front(s)) ELSE AnswerOf(r)
  /\ (OpenIn(r) <=> open) /\ \A n \in 1..Len(s) : r[n].type = s[n].type

LEMMA SentTurns ==
    ASSUME NEW d, NEW s, SentOk(s, d), s # <<>>, NEW z, z = Last(s), NEW body \in Bodies, NEW open \in BOOLEAN,
           body = <<Empty>> => z.type = "tool" /\ d = "anthropic", open => z.open,
           NEW r, r = [s EXCEPT ![Len(s)] = [type |-> z.type, id |-> z.id, body |-> body, open |-> open]]
    PROVE  Turns(d, s, r, z, body, open)
<1>1. PICK b : b = [type |-> z.type, id |-> z.id, body |-> body, open |-> open]
  OBVIOUS
<1>2. PICK f : f = Front(s)
  OBVIOUS
<1>3. SentOk(r, d) /\ Changed(s, f, z, b, r)
  BY <1>1, <1>2, SentChanges
<1>4. /\ f \in Seq(SentBlocks) /\ Len(f) = Len(s) - 1
      /\ z.type \in BlockTypes /\ z.id \in Nat /\ z.body \in Bodies /\ z.open \in BOOLEAN
      /\ Appended(f, b, r) /\ Len(r) = Len(s) /\ s[Len(s)] = z
      /\ \A n \in 1..Len(s) : r[n].type = s[n].type
      /\ AnswerOf(f) \in Answers /\ Len(AnswerOf(f).calls) <= Len(f)
      /\ AnswerOf(s) = Said(AnswerOf(f), Block(z.type, z.id, z.body))
      /\ AnswerOf(r) = Said(AnswerOf(f), Block(z.type, z.id, b.body))
  BY <1>3 DEF Changed
<1>5. b.type = z.type /\ b.id = z.id /\ b.body = body /\ b.open = open
  BY <1>1
<1>6. s \in Seq(SentBlocks) /\ r \in Seq(SentBlocks) /\ r # <<>> /\ Last(r) = b /\ Front(r) = f
  BY <1>3, <1>4 DEF SentOk, Appended
<1>7. Len(s) \in Nat /\ Len(s) > 0
  BY <1>6
<1>8. (z.type = "tool" => z.id = Len(s)) /\ (z.type # "tool" => z.id = NoId /\ z.body # <<Empty>>)
  <2>1. Len(s) \in 1..Len(s)
    BY <1>7
  <2>2. /\ s[Len(s)].id = (IF s[Len(s)].type = "tool" THEN Len(s) ELSE NoId)
        /\ s[Len(s)].body = <<Empty>> => s[Len(s)].type = "tool"
    BY <2>1 DEF SentOk
  <2> QED BY <1>4, <2>2
<1>9. Len(AnswerOf(f).calls) \in Nat /\ Len(AnswerOf(f).calls) < Len(s)
  <2>1. AnswerOf(f).calls \in Seq(CallBodies)
    BY <1>4 DEF Answers
  <2>2. Len(AnswerOf(f).calls) \in Nat
    BY <2>1
  <2> QED BY <1>4, <1>7, <2>2
<1>10. AnswerOf(s) \in Answers /\ AnswerOf(r) \in Answers
  BY <1>6, AnswerFacts
<1>11. HeldIn(s) <=> z.open /\ z.type = "tool" /\ z.body = <<Empty>>
  BY DEF HeldIn
<1>12. HeldIn(r) <=> open /\ z.type = "tool" /\ body = <<Empty>>
  BY <1>5, <1>6 DEF HeldIn
<1>13. /\ ToldOf(s) = IF HeldIn(s) THEN AnswerOf(f) ELSE AnswerOf(s)
       /\ ToldOf(r) = IF HeldIn(r) THEN AnswerOf(f) ELSE AnswerOf(r)
  BY <1>2, <1>6 DEF ToldOf
<1>14. OpenIn(r) <=> open
  BY <1>5, <1>6 DEF OpenIn
<1>15. AnswerOf(r) = Said(AnswerOf(f), Block(z.type, z.id, body))
  BY <1>4, <1>5
<1> QED BY <1>2, <1>3, <1>4, <1>5, <1>6, <1>7, <1>8, <1>9, <1>10, <1>11, <1>12, <1>13, <1>14, <1>15 DEF Turns

\* The piece that continues a block.
Continues(z, piece) == IF z.body = <<Empty>> THEN piece ELSE z.body \o piece

LEMMA SentContinues ==
    ASSUME NEW d, NEW s, SentOk(s, d), s # <<>>, NEW z, z = Last(s), NEW n \in Nat, NEW piece, piece = <<n + 1>>,
           NEW r, r = [s EXCEPT ![Len(s)].body = IF @ = <<Empty>> THEN piece ELSE @ \o piece]
    PROVE  /\ piece \in Bodies /\ piece # <<>> /\ Continues(z, piece) # <<Empty>>
           /\ Turns(d, s, r, z, Continues(z, piece), z.open)
<1>1. s \in Seq(SentBlocks) /\ Len(s) \in Nat /\ Len(s) > 0 /\ s[Len(s)] = z /\ z \in SentBlocks
  BY DEF SentOk, Last
<1>2. z.body \in Bodies /\ z.open \in BOOLEAN
  BY <1>1 DEF SentBlocks
<1>3. piece \in Bodies /\ piece # <<>> /\ Len(piece) = 1 /\ piece[1] = n + 1
  BY DEF Bodies
<1>4. PICK body : body = Continues(z, piece)
  OBVIOUS
<1>5. body \in Bodies /\ body # <<Empty>>
  <2>1. <<Empty>>[1] = 0 /\ Len(<<Empty>>) = 1
    BY DEF Empty
  <2>2. CASE z.body = <<Empty>>
    <3>1. body = piece
      BY <1>4, <2>2 DEF Continues
    <3> QED BY <1>3, <2>1, <3>1
  <2>3. CASE z.body # <<Empty>>
    <3>1. body = z.body \o piece
      BY <1>4, <2>3 DEF Continues
    <3>2. PICK v \in Bodies : v = z.body \o piece
      BY <1>2, <1>3, PrefixCat
    <3>3. Len(v) = Len(z.body) + 1 /\ v[Len(v)] = n + 1
      BY <1>2, <1>3, <3>2 DEF Bodies
    <3>4. v # <<Empty>>
      BY <2>1, <3>3
    <3> QED BY <3>1, <3>2, <3>4
  <2> QED BY <2>2, <2>3
<1>6. r = [s EXCEPT ![Len(s)] = [type |-> z.type, id |-> z.id, body |-> body, open |-> z.open]]
  <2>1. r = [s EXCEPT ![Len(s)] = [s[Len(s)] EXCEPT !.body = body]]
    <3>1. s[Len(s)].body = z.body
      BY <1>1
    <3> QED BY <1>1, <1>4, <3>1 DEF Continues
  <2>2. [z EXCEPT !.body = body] = [type |-> z.type, id |-> z.id, body |-> body, open |-> z.open]
    BY SMTT(30), <1>1 DEF SentBlocks
  <2> QED BY <1>1, <2>1, <2>2
<1>7. Turns(d, s, r, z, body, z.open)
  <2>1. body = <<Empty>> => z.type = "tool" /\ d = "anthropic"
    BY <1>5
  <2>2. PICK o \in BOOLEAN : o = z.open
    BY <1>2
  <2>3. r = [s EXCEPT ![Len(s)] = [type |-> z.type, id |-> z.id, body |-> body, open |-> o]] /\ (o => z.open)
    BY <1>6, <2>2
  <2>4. Turns(d, s, r, z, body, o)
    <3>1. body # <<Empty>> /\ body \in Bodies
      BY <1>5
    <3>2. \A c \in Bodies, p \in BOOLEAN : \A x :
            (c = <<Empty>> => z.type = "tool" /\ d = "anthropic") /\ (p => z.open)
              /\ x = [s EXCEPT ![Len(s)] = [type |-> z.type, id |-> z.id, body |-> c, open |-> p]]
            => Turns(d, s, x, z, c, p)
      BY ZenonT(90), SentTurns
    <3> QED BY <2>3, <3>1, <3>2
  <2> QED BY <2>2, <2>4
<1> QED BY <1>3, <1>4, <1>5, <1>7

LEMMA EmitsChunk ==
    ASSUME NEW sc \in Adapters(<<>>), NEW x
    PROVE  AdapterIs(emit(sc, x), <<x>>, sc.calls, sc.next, sc.thinking, sc.usage, sc.emittedToolCalls)
<1>1. sc.buffer = <<>>
  BY DEF Adapters
<1>2. Append(sc.buffer, x) = <<x>>
  BY <1>1
<1>3. PICK sd : sd = [sc EXCEPT !.buffer = <<x>>]
  OBVIOUS
<1>4. emit(sc, x) = sd
  BY <1>2, <1>3 DEF emit
<1>5. /\ sd \in Adapters(<<x>>) /\ sd.buffer = <<x>> /\ sd.calls = sc.calls /\ sd.next = sc.next
      /\ sd.thinking = sc.thinking /\ sd.usage = sc.usage /\ sd.emittedToolCalls = sc.emittedToolCalls
  BY <1>3 DEF Adapters
<1> QED BY <1>4, <1>5 DEF AdapterIs

LEMMA CallStarts ==
    ASSUME NEW sc \in Adapters(<<>>), NEW k \in DOMAIN sc.calls, NEW delta,
           NEW x, x = [NoChunk EXCEPT !.calls = <<delta>>]
    PROVE  \E calls : /\ AdapterIs(emitCall([sc EXCEPT !.calls[k].started = TRUE], delta), <<x>>, calls, sc.next,
                                   sc.thinking, sc.usage, TRUE)
                      /\ DOMAIN calls = DOMAIN sc.calls
                      /\ calls[k].index = sc.calls[k].index /\ calls[k].id = sc.calls[k].id /\ calls[k].started
<1>1. sc.calls \in Partial(AdapterCalls)
  BY DEF Adapters
<1>2. sc.calls[k] \in AdapterCalls
  BY <1>1, PartialFacts
<1>3. PICK old \in AdapterCalls : old = sc.calls[k]
  BY <1>2
<1>4. PICK call : call = [old EXCEPT !.started = TRUE]
  OBVIOUS
<1>11. call \in AdapterCalls /\ call.index = old.index /\ call.id = old.id /\ call.started
  BY <1>4 DEF AdapterCalls
<1>5. PICK calls : calls = [sc.calls EXCEPT ![k] = call]
  OBVIOUS
<1>6. calls \in Partial(AdapterCalls) /\ DOMAIN calls = DOMAIN sc.calls /\ calls[k] = call
  <2>1. PutIs(AdapterCalls, sc.calls, k, call, calls)
    BY <1>1, <1>5, <1>11, PartialExcept
  <2> QED BY <2>1 DEF PutIs
<1>7. PICK y : y = [sc EXCEPT !.calls = calls]
  OBVIOUS
<1>8. [sc EXCEPT !.calls[k].started = TRUE] = y
  BY <1>3, <1>4, <1>5, <1>7
<1>9. /\ y \in Adapters(<<>>) /\ y.calls = calls /\ y.next = sc.next /\ y.thinking = sc.thinking
      /\ y.usage = sc.usage
  BY <1>6, <1>7 DEF Adapters
<1>10. AdapterIs(emitCall(y, delta), <<x>>, y.calls, y.next, y.thinking, y.usage, TRUE)
  BY <1>9, EmitsCall
<1> QED BY <1>3, <1>6, <1>8, <1>9, <1>10, <1>11

LEMMA DeltasText ==
    ASSUME NEW sc, NEW s, AdapterTells(sc, "blocks", s), sc.buffer = <<>>, OpenIn(s),
           NEW t, Tells(t, "anthropic", "blocks", s, Unset),
           NEW type \in {"thinking", "text"}, NEW z, z.type = type, NEW piece \in Bodies, piece # <<>>,
           NEW r, Turns("anthropic", s, r, z, Continues(z, piece), z.open), z.open,
           NEW e, e = [type |-> "content_block_delta", index |-> Len(s) - 1, block |-> type, piece |-> piece]
    PROVE  /\ AdapterTells(ChatFromAnthropic(sc, e), "blocks", r)
           /\ FeedsTo(ChatFromAnthropic(sc, e), t, "anthropic", "blocks", r, Unset)
<1>1. e.type = "content_block_delta" /\ e.index = Len(s) - 1 /\ e.block = z.type /\ e.piece = piece
  OBVIOUS
<1>2. /\ z = Last(s) /\ z.id = NoId /\ z.body \in Bodies /\ z.body # <<Empty>> /\ Len(r) = Len(s)
      /\ Last(r).type = z.type /\ OpenIn(r) /\ ~HeldIn(s) /\ ~HeldIn(r)
      /\ AnswerOf(Front(s)) \in Answers /\ AnswerOf(s) \in Answers /\ AnswerOf(r) \in Answers
      /\ AnswerOf(s) = Said(AnswerOf(Front(s)), Block(z.type, z.id, z.body))
      /\ AnswerOf(r) = Said(AnswerOf(Front(s)), Block(z.type, z.id, Continues(z, piece)))
      /\ ToldOf(s) = AnswerOf(s) /\ ToldOf(r) = AnswerOf(r) /\ z.type # "tool"
  BY DEF Turns
<1>3. AnswerOf(r) = Said(AnswerOf(s), Block(z.type, NoId, piece))
  <2>1. Continues(z, piece) = z.body \o piece
    BY <1>2 DEF Continues
  <2>2. PICK kind \in {"thinking", "text"} : kind = z.type
    OBVIOUS
  <2>3. PICK body \in Bodies : body = z.body
    BY <1>2
  <2>4. PICK a \in Answers : a = AnswerOf(Front(s))
    BY <1>2
  <2>5. Said(a, Block(kind, NoId, body \o piece)) = Said(Said(a, Block(kind, NoId, body)), Block(kind, NoId, piece))
    BY SaidAgain
  <2> QED BY <1>2, <2>1, <2>2, <2>3, <2>4, <2>5
<1>4. AnswerOf(r).calls = AnswerOf(s).calls
  <2>1. PICK kind \in {"thinking", "text"} : kind = z.type
    OBVIOUS
  <2>2. NoId \in Nat /\ kind \in BlockTypes
    BY DEF NoId, BlockTypes
  <2>3. Said(AnswerOf(s), Block(kind, NoId, piece)).calls
          = IF kind = "tool" THEN Append(AnswerOf(s).calls, [id |-> NoId, body |-> piece]) ELSE AnswerOf(s).calls
    BY <1>2, <2>2, SaidBlock
  <2> QED BY <1>2, <1>3, <2>1, <2>3
<1>5. PICK x : x = IF z.type = "thinking" THEN [NoChunk EXCEPT !.reasoning = piece] ELSE [NoChunk EXCEPT !.content = piece]
  OBVIOUS
<1>6. PICK sd : sd = emit(sc, x)
  OBVIOUS
<1>7. sc \in Adapters(<<>>)
  BY DEF AdapterTells
<1>8. ChatFromAnthropic(sc, e) = sd
  <2>1. ChatFromAnthropic(sc, e) = ChatBlockDelta(sc, e)
    BY <1>1 DEF ChatFromAnthropic
  <2>2. CASE z.type = "thinking"
    <3>1. Len(s) - 1 \in sc.thinking
      BY <1>2, <2>2 DEF AdapterTells
    <3> QED BY <1>1, <1>5, <1>6, <2>1, <2>2, <3>1 DEF ChatBlockDelta
  <2>3. CASE z.type = "text"
    BY <1>1, <1>5, <1>6, <2>1, <2>3 DEF ChatBlockDelta
  <2> QED BY <2>2, <2>3
<1>9. AdapterIs(sd, <<x>>, sc.calls, sc.next, sc.thinking, sc.usage, sc.emittedToolCalls)
  BY <1>6, <1>7, EmitsChunk
<1>10. AdapterTells(sd, "blocks", r)
  <2>1. /\ sd \in Adapters(sd.buffer) /\ sd.calls = sc.calls /\ sd.next = sc.next /\ sd.usage = sc.usage
        /\ sd.thinking = sc.thinking /\ (sd.emittedToolCalls <=> sc.emittedToolCalls)
    BY <1>9 DEF AdapterIs
  <2>2. /\ sc.next = Len(AnswerOf(s).calls) /\ sc.usage.input = 3 /\ (\A k \in DOMAIN sc.calls : k < Len(s))
        /\ ((Len(s) - 1 \in DOMAIN sc.calls) <=> Last(s).type = "tool")
        /\ (Last(s).type = "thinking" => Len(s) - 1 \in sc.thinking)
        /\ (sc.emittedToolCalls <=> ToldOf(s).calls # <<>>)
    BY DEF AdapterTells
  <2> QED BY <1>2, <1>4, <2>1, <2>2 DEF AdapterTells
<1>11. FeedsTo(sd, t, "anthropic", "blocks", r, Unset)
  <2>1. ~EndsAt("anthropic", "blocks") /\ ~Counted("blocks")
    BY DEF EndsAt, Counted
  <2>2. ChunkIs(x, IF z.type = "thinking" THEN piece ELSE <<>>, IF z.type = "thinking" THEN <<>> ELSE piece,
                <<>>, Unset, NoUsage)
    <3>1. CASE z.type = "thinking"
      BY <1>5, <3>1, ChunksMade
    <3>2. CASE z.type # "thinking"
      BY <1>5, <3>2, ChunksMade
    <3> QED BY <3>1, <3>2
  <2>3. /\ x \in Chunks /\ x.calls = <<>> /\ x.finish = Unset /\ x.usage = NoUsage
        /\ (z.type = "thinking" => x.reasoning = piece /\ x.content = <<>>)
        /\ (z.type # "thinking" => x.reasoning = <<>> /\ x.content = piece)
    BY <2>2 DEF ChunkIs
  <2>4. t.answer = AnswerOf(s) /\ ~t.ended
    BY <1>2, <2>1 DEF Tells
  <2>5. ChunkSays(x, t.answer, ToldOf(r))
    <3>1. CASE z.type = "thinking"
      BY <1>2, <1>3, <2>3, <2>4, <3>1 DEF ChunkSays, SaysThought
    <3>2. CASE z.type = "text"
      BY <1>2, <1>3, <2>3, <2>4, <3>2 DEF ChunkSays, SaysText
    <3> QED BY <3>1, <3>2
  <2>6. ToldOf(r) \in Answers
    BY <1>2
  <2>7. \E u \in Told : Says(x, t, u) /\ Tells(u, "anthropic", "blocks", r, Unset)
    BY <2>1, <2>3, <2>4, <2>5, <2>6, TellsMore
  <2>8. sd.buffer = <<x>>
    BY <1>9 DEF AdapterIs
  <2> QED BY <2>3, <2>7, <2>8, FeedsChunk
<1> QED BY <1>8, <1>10, <1>11

\* The last call of an answer goes on.
LEMMA FeedsMore ==
    ASSUME NEW d, NEW src, NEW s, NEW t, Tells(t, d, src, s, Unset), ~t.ended,
           NEW a \in Answers, NEW id \in Nat, NEW body \in Bodies, t.answer = Said(a, Block("tool", id, body)),
           NEW k \in Nat, k = Len(a.calls), k < MaxBlocks, NEW piece \in Bodies, piece # <<>>,
           NEW r, ToldOf(r) = Said(a, Block("tool", id, body \o piece)),
           NEW srd, ~EndsAt(d, srd), ~Counted(srd),
           NEW sd, sd.buffer = <<[NoChunk EXCEPT !.calls = <<CallDelta(k, NoId, piece)>>]>>
    PROVE  FeedsTo(sd, t, d, srd, r, Unset)
<1>1. PICK x : x = [NoChunk EXCEPT !.calls = <<CallDelta(k, NoId, piece)>>]
  OBVIOUS
<1>2. PICK delta \in CallDeltas : delta = CallDelta(k, NoId, piece)
  BY DEF CallDelta, CallDeltas, NoId
<1>3. x \in Chunks /\ x.reasoning = <<>> /\ x.content = <<>> /\ x.calls = <<delta>> /\ x.finish = Unset /\ x.usage = NoUsage
  <2>1. ChunkIs([NoChunk EXCEPT !.calls = <<delta>>], <<>>, <<>>, <<delta>>, Unset, NoUsage)
    BY ChunksMade
  <2> QED BY <1>1, <1>2, <2>1 DEF ChunkIs
<1>4. PICK b : b = Said(a, Block("tool", id, body))
  OBVIOUS
<1>5. /\ b \in Answers /\ b.calls = Append(a.calls, [id |-> id, body |-> body])
      /\ b.shown = Append(a.shown, Block("tool", id, body))
  BY <1>4, SaidTool
<1>6. Len(b.calls) = k + 1 /\ b.calls # <<>> /\ b.shown # <<>> /\ Last(b.shown).type = "tool"
  <2>1. a.calls \in Seq(CallBodies) /\ a.shown \in Seq(ShownBlocks)
    BY DEF Answers
  <2>2. [id |-> id, body |-> body] \in CallBodies
    BY DEF CallBodies
  <2>3. Block("tool", id, body) \in ShownBlocks /\ Block("tool", id, body).type = "tool"
    BY DEF ShownBlocks, Block, BlockTypes
  <2>4. Len(b.calls) = Len(a.calls) + 1 /\ b.calls # <<>>
    BY SMTT(30), <1>5, <2>1, <2>2, AppendIs
  <2>5. b.shown # <<>> /\ Last(b.shown) = Block("tool", id, body)
    BY <1>5, <2>1, <2>3, AppendIs
  <2> QED BY <2>3, <2>4, <2>5
<1>7. ToldOf(r) = Further(b, piece) /\ ToldOf(r) \in Answers
  <2>1. ToldOf(r) = Further(b, piece)
    BY <1>4, SaidFurther
  <2>2. Further(b, piece) \in Answers
    BY <1>5, <1>6, FurtherFacts
  <2> QED BY <2>1, <2>2
<1>8. ChunkSays(x, t.answer, ToldOf(r))
  <2>1. Len(b.calls) - 1 = k /\ Len(b.calls) <= MaxBlocks
    BY <1>6, StreamsAssumption
  <2>2. x.calls = <<CallDelta(Len(b.calls) - 1, NoId, piece)>>
    BY <1>2, <1>3, <2>1
  <2>3. SaysMore(x, b, ToldOf(r))
    BY <1>3, <1>6, <1>7, <2>1, <2>2 DEF SaysMore
  <2> QED BY <1>4, <2>3 DEF ChunkSays
<1>9. \E u \in Told : Says(x, t, u) /\ Tells(u, d, srd, r, Unset)
  BY <1>3, <1>7, <1>8, TellsMore
<1> QED BY <1>1, <1>3, <1>9, FeedsChunk

LEMMA DeltasCall ==
    ASSUME NEW sc, NEW s, AdapterTells(sc, "blocks", s), sc.buffer = <<>>, OpenIn(s), Len(s) <= MaxBlocks,
           NEW t, Tells(t, "anthropic", "blocks", s, Unset),
           NEW z, z.type = "tool", NEW piece \in Bodies, piece # <<>>, Continues(z, piece) # <<Empty>>,
           NEW r, Turns("anthropic", s, r, z, Continues(z, piece), z.open), z.open,
           NEW e, e = [type |-> "content_block_delta", index |-> Len(s) - 1, block |-> z.type, piece |-> piece]
    PROVE  /\ AdapterTells(ChatFromAnthropic(sc, e), "blocks", r)
           /\ FeedsTo(ChatFromAnthropic(sc, e), t, "anthropic", "blocks", r, Unset)
<1>1. e.type = "content_block_delta" /\ e.index = Len(s) - 1 /\ e.block = "tool" /\ e.piece = piece
  OBVIOUS
<1>2. /\ z = Last(s) /\ z.id \in Nat /\ z.id = Len(s) /\ z.body \in Bodies /\ Len(r) = Len(s) /\ Len(s) \in Nat /\ Len(s) > 0
      /\ Last(r).type = z.type /\ OpenIn(r) /\ (HeldIn(s) <=> z.body = <<Empty>>) /\ ~HeldIn(r)
      /\ AnswerOf(Front(s)) \in Answers /\ AnswerOf(s) \in Answers /\ AnswerOf(r) \in Answers
      /\ Len(AnswerOf(Front(s)).calls) \in Nat /\ Len(AnswerOf(Front(s)).calls) < Len(s)
      /\ AnswerOf(s) = Said(AnswerOf(Front(s)), Block(z.type, z.id, z.body))
      /\ AnswerOf(r) = Said(AnswerOf(Front(s)), Block(z.type, z.id, Continues(z, piece)))
      /\ ToldOf(s) = (IF HeldIn(s) THEN AnswerOf(Front(s)) ELSE AnswerOf(s)) /\ ToldOf(r) = AnswerOf(r)
      /\ Continues(z, piece) \in Bodies
  BY DEF Turns
<1>3. PICK a \in Answers : a = AnswerOf(Front(s))
  BY <1>2
<1>4. PICK k \in Nat : k = Len(a.calls)
  BY <1>2, <1>3
<1>5. Len(AnswerOf(s).calls) = k + 1 /\ Len(AnswerOf(r).calls) = k + 1 /\ AnswerOf(r).calls # <<>>
  <2>1. AnswerOf(s).calls = Append(a.calls, [id |-> z.id, body |-> z.body])
    BY SMTT(30), <1>2, <1>3, SaidTool
  <2>2. AnswerOf(r).calls = Append(a.calls, [id |-> z.id, body |-> Continues(z, piece)])
    BY SMTT(30), <1>2, <1>3, SaidTool
  <2>3. a.calls \in Seq(CallBodies) /\ [id |-> z.id, body |-> z.body] \in CallBodies
        /\ [id |-> z.id, body |-> Continues(z, piece)] \in CallBodies
    BY <1>2 DEF Answers, CallBodies
  <2> QED BY <1>4, <2>1, <2>2, <2>3, AppendIs
<1>6. PICK m : m = Len(s) - 1
  OBVIOUS
<1>7. /\ sc \in Adapters(<<>>) /\ m \in DOMAIN sc.calls
      /\ sc.calls[m].index = k /\ sc.calls[m].id = Len(s) /\ (sc.calls[m].started <=> ~HeldIn(s))
      /\ sc.next = k + 1 /\ sc.usage.input = 3 /\ (\A j \in DOMAIN sc.calls : j < Len(s))
  <2>1. Len(AnswerOf(s).calls) - 1 = k
    BY <1>5
  <2> QED BY <1>2, <1>5, <1>6, <2>1 DEF AdapterTells
<1>8. PICK id \in Nat : id = IF HeldIn(s) THEN Len(s) ELSE NoId
  BY <1>2 DEF NoId
<1>9. PICK sd : sd = emitCall([sc EXCEPT !.calls[m].started = TRUE], CallDelta(k, id, piece))
  OBVIOUS
<1>10. ChatFromAnthropic(sc, e) = sd
  <2>1. ChatFromAnthropic(sc, e) = ChatBlockDelta(sc, e)
    BY <1>1 DEF ChatFromAnthropic
  <2>2. e.index = m /\ m \in DOMAIN sc.calls
    BY <1>1, <1>6, <1>7
  <2>3. ChatBlockDelta(sc, e) = emitCall([sc EXCEPT !.calls[m].started = TRUE],
                                         CallDelta(sc.calls[m].index, IF sc.calls[m].started THEN NoId ELSE sc.calls[m].id, piece))
    BY <1>1, <2>2 DEF ChatBlockDelta
  <2>4. (IF sc.calls[m].started THEN NoId ELSE sc.calls[m].id) = id
    BY <1>7, <1>8
  <2> QED BY <1>7, <1>9, <2>1, <2>3, <2>4
<1>11. PICK x : x = [NoChunk EXCEPT !.calls = <<CallDelta(k, id, piece)>>]
  OBVIOUS
<1>12. PICK calls : /\ AdapterIs(sd, <<x>>, calls, sc.next, sc.thinking, sc.usage, TRUE)
                    /\ DOMAIN calls = DOMAIN sc.calls
                    /\ calls[m].index = sc.calls[m].index /\ calls[m].id = sc.calls[m].id /\ calls[m].started
  BY <1>7, <1>9, <1>11, CallStarts
<1>13. AdapterTells(sd, "blocks", r)
  <2>1. /\ sd \in Adapters(sd.buffer) /\ sd.calls = calls /\ sd.next = sc.next /\ sd.usage = sc.usage
        /\ sd.thinking = sc.thinking /\ sd.emittedToolCalls
    BY <1>12 DEF AdapterIs
  <2>2. sd.next = Len(AnswerOf(r).calls) /\ ToldOf(r).calls # <<>> /\ Len(AnswerOf(r).calls) - 1 = k
    BY <1>2, <1>5, <1>7, <2>1
  <2>3. Len(r) - 1 = m /\ m \in DOMAIN sd.calls /\ Last(r).type = "tool"
    BY <1>2, <1>6, <1>7, <1>12, <2>1
  <2>4. sd.calls[m].index = k /\ sd.calls[m].id = Len(r) /\ sd.calls[m].started
    BY <1>2, <1>7, <1>12, <2>1
  <2>5. \A j \in DOMAIN sd.calls : j < Len(r)
    BY <1>2, <1>7, <1>12, <2>1
  <2> QED BY <1>2, <1>7, <2>1, <2>2, <2>3, <2>4, <2>5 DEF AdapterTells
<1>14. FeedsTo(sd, t, "anthropic", "blocks", r, Unset)
  <2>1. ~EndsAt("anthropic", "blocks") /\ ~Counted("blocks")
    BY DEF EndsAt, Counted
  <2>2. sd.buffer = <<[NoChunk EXCEPT !.calls = <<CallDelta(k, id, piece)>>]>>
    BY <1>11, <1>12 DEF AdapterIs
  <2>3. ~t.ended /\ t.answer = ToldOf(s)
    BY <2>1 DEF Tells
  <2>4. k < MaxBlocks
    BY <1>2, <1>3, <1>4, StreamsAssumption
  <2>5. CASE HeldIn(s)
    <3>1. id \in Nat \ {NoId} /\ id = z.id
      BY <1>2, <1>8, <2>5 DEF NoId
    <3>2. ToldOf(r) = Said(a, Block("tool", id, piece))
      BY <1>2, <1>3, <2>5, <3>1 DEF Continues
    <3>3. t.answer = a
      BY <1>2, <1>3, <2>3, <2>5
    <3>4. Len(a.calls) < MaxBlocks
      BY <1>4, <2>4
    <3> QED BY <1>4, <2>1, <2>2, <2>3, <3>1, <3>2, <3>3, <3>4, FeedsCall
  <2>6. CASE ~HeldIn(s)
    <3>1. Continues(z, piece) = z.body \o piece
      BY <1>2, <2>6 DEF Continues
    <3>2. ToldOf(r) = Said(a, Block("tool", z.id, z.body \o piece))
      BY <1>2, <1>3, <3>1
    <3>3. t.answer = Said(a, Block("tool", z.id, z.body))
      BY <1>2, <1>3, <2>3, <2>6
    <3>4. id = NoId
      BY <1>8, <2>6
    <3>5. sd.buffer = <<[NoChunk EXCEPT !.calls = <<CallDelta(k, NoId, piece)>>]>>
      BY <2>2, <3>4
    <3>6. PICK body \in Bodies : body = z.body
      BY <1>2
    <3>7. PICK i \in Nat : i = z.id
      BY <1>2
    <3>8. ToldOf(r) = Said(a, Block("tool", i, body \o piece)) /\ t.answer = Said(a, Block("tool", i, body))
      BY <3>2, <3>3, <3>6, <3>7
    <3> QED BY <1>4, <2>1, <2>3, <2>4, <3>5, <3>8, FeedsMore
  <2> QED BY <2>5, <2>6
<1> QED BY <1>10, <1>13, <1>14

LEMMA SentStops ==
    ASSUME NEW d, NEW s, SentOk(s, d), s # <<>>, NEW z, z = Last(s),
           NEW r, r = [s EXCEPT ![Len(s)].open = FALSE]
    PROVE  Turns(d, s, r, z, z.body, FALSE)
<1>1. s \in Seq(SentBlocks) /\ Len(s) \in Nat /\ Len(s) > 0 /\ s[Len(s)] = z /\ z \in SentBlocks
  BY DEF SentOk, Last
<1>2. z.body \in Bodies /\ (z.body = <<Empty>> => z.type = "tool" /\ d = "anthropic")
  <2>1. Len(s) \in 1..Len(s)
    BY <1>1
  <2>2. z.body \in Bodies
    BY <1>1 DEF SentBlocks
  <2> QED BY <1>1, <2>1, <2>2 DEF SentOk
<1>3. PICK body \in Bodies : body = z.body
  BY <1>2
<1>4. PICK o \in BOOLEAN : o = FALSE
  OBVIOUS
<1>5. r = [s EXCEPT ![Len(s)] = [type |-> z.type, id |-> z.id, body |-> body, open |-> o]]
  <2>1. r = [s EXCEPT ![Len(s)] = [s[Len(s)] EXCEPT !.open = o]]
    BY <1>4
  <2>2. [z EXCEPT !.open = o] = [type |-> z.type, id |-> z.id, body |-> z.body, open |-> o]
    BY <1>1 DEF SentBlocks
  <2> QED BY <1>1, <1>3, <2>1, <2>2
<1>6. (body = <<Empty>> => z.type = "tool" /\ d = "anthropic") /\ (o => z.open)
  BY <1>2, <1>3, <1>4
<1>7. Turns(d, s, r, z, body, o)
  <2>1. \A c \in Bodies, p \in BOOLEAN : \A x :
          (c = <<Empty>> => z.type = "tool" /\ d = "anthropic") /\ (p => z.open)
            /\ x = [s EXCEPT ![Len(s)] = [type |-> z.type, id |-> z.id, body |-> c, open |-> p]]
          => Turns(d, s, x, z, c, p)
    BY ZenonT(90), SentTurns
  <2> QED BY <1>5, <1>6, <2>1
<1> QED BY <1>3, <1>4, <1>7

LEMMA StopsBlock ==
    ASSUME NEW sc, NEW s, AdapterTells(sc, "blocks", s), sc.buffer = <<>>, OpenIn(s), Len(s) <= MaxBlocks,
           NEW t, Tells(t, "anthropic", "blocks", s, Unset),
           NEW z, NEW r, Turns("anthropic", s, r, z, z.body, FALSE), z.open,
           NEW e, e = [type |-> "content_block_stop", index |-> Len(s) - 1]
    PROVE  /\ AdapterTells(ChatFromAnthropic(sc, e), "blocks", r)
           /\ FeedsTo(ChatFromAnthropic(sc, e), t, "anthropic", "blocks", r, Unset)
<1>1. e.type = "content_block_stop" /\ e.index = Len(s) - 1
  OBVIOUS
<1>2. /\ z = Last(s) /\ z.id \in Nat /\ (z.type = "tool" => z.id = Len(s)) /\ z.body \in Bodies
      /\ Len(r) = Len(s) /\ Len(s) \in Nat /\ Len(s) > 0
      /\ ~OpenIn(r) /\ (HeldIn(s) <=> z.type = "tool" /\ z.body = <<Empty>>) /\ ~HeldIn(r)
      /\ AnswerOf(Front(s)) \in Answers
      /\ Len(AnswerOf(Front(s)).calls) \in Nat /\ Len(AnswerOf(Front(s)).calls) < Len(s)
      /\ AnswerOf(s) = Said(AnswerOf(Front(s)), Block(z.type, z.id, z.body)) /\ AnswerOf(r) = AnswerOf(s)
      /\ ToldOf(s) = (IF HeldIn(s) THEN AnswerOf(Front(s)) ELSE AnswerOf(s)) /\ ToldOf(r) = AnswerOf(s)
  BY DEF Turns
<1>3. PICK m : m = Len(s) - 1
  OBVIOUS
<1>4. sc \in Adapters(<<>>)
  BY DEF AdapterTells
<1>5. /\ ((m \in DOMAIN sc.calls) <=> z.type = "tool")
      /\ z.type = "tool" => /\ sc.calls[m].index = Len(AnswerOf(s).calls) - 1 /\ sc.calls[m].id = Len(s)
                            /\ sc.calls[m].started <=> ~HeldIn(s)
      /\ sc.next = Len(AnswerOf(s).calls) /\ sc.usage.input = 3 /\ (\A j \in DOMAIN sc.calls : j < Len(s))
      /\ (sc.emittedToolCalls <=> ToldOf(s).calls # <<>>)
  BY <1>2, <1>3 DEF AdapterTells
<1>6. ChatFromAnthropic(sc, e) = ChatBlockStop(sc, e)
  BY <1>1 DEF ChatFromAnthropic
<1>7. CASE ~HeldIn(s)
  <2>1. ChatFromAnthropic(sc, e) = sc
    <3>1. e.index = m /\ (m \in DOMAIN sc.calls => sc.calls[m].started)
      BY <1>1, <1>3, <1>5, <1>7
    <3> QED BY <1>6, <3>1 DEF ChatBlockStop
  <2>2. AdapterTells(sc, "blocks", r)
    BY <1>2, <1>4, <1>5, <1>7 DEF AdapterTells
  <2>3. ~EndsAt("anthropic", "blocks") /\ ~Counted("blocks")
    BY DEF EndsAt, Counted
  <2>4. FeedsTo(sc, t, "anthropic", "blocks", r, Unset)
    BY <1>2, <1>7, <2>3, FeedsNothing
  <2> QED BY <2>1, <2>2, <2>4
<1>8. CASE HeldIn(s)
  <2>1. PICK a \in Answers : a = AnswerOf(Front(s))
    BY <1>2
  <2>2. PICK k \in Nat : k = Len(a.calls)
    BY <1>2, <2>1
  <2>3. z.type = "tool" /\ z.body = <<Empty>> /\ z.id = Len(s)
    BY <1>2, <1>8
  <2>4. Len(AnswerOf(s).calls) = k + 1 /\ AnswerOf(s).calls # <<>>
    <3>1. AnswerOf(s).calls = Append(a.calls, [id |-> z.id, body |-> z.body])
      BY <1>2, <2>1, <2>3, SaidTool
    <3>2. a.calls \in Seq(CallBodies) /\ [id |-> z.id, body |-> z.body] \in CallBodies
      BY <1>2 DEF Answers, CallBodies
    <3> QED BY <2>2, <3>1, <3>2, AppendIs
  <2>5. m \in DOMAIN sc.calls /\ sc.calls[m].index = k /\ sc.calls[m].id = z.id /\ ~sc.calls[m].started
    BY <1>5, <1>8, <2>3, <2>4
  <2>6. PICK sd : sd = emitCall([sc EXCEPT !.calls[m].started = TRUE], CallDelta(k, z.id, z.body))
    OBVIOUS
  <2>7. ChatFromAnthropic(sc, e) = sd
    <3>1. e.index = m
      BY <1>1, <1>3
    <3>2. ChatBlockStop(sc, e) = emitCall([sc EXCEPT !.calls[m].started = TRUE],
                                          CallDelta(sc.calls[m].index, sc.calls[m].id, <<Empty>>))
      BY <2>5, <3>1 DEF ChatBlockStop
    <3> QED BY <1>6, <2>3, <2>5, <2>6, <3>2
  <2>8. PICK x : x = [NoChunk EXCEPT !.calls = <<CallDelta(k, z.id, z.body)>>]
    OBVIOUS
  <2>9. PICK calls : /\ AdapterIs(sd, <<x>>, calls, sc.next, sc.thinking, sc.usage, TRUE)
                     /\ DOMAIN calls = DOMAIN sc.calls
                     /\ calls[m].index = sc.calls[m].index /\ calls[m].id = sc.calls[m].id /\ calls[m].started
    BY <1>4, <2>5, <2>6, <2>8, CallStarts
  <2>10. AdapterTells(sd, "blocks", r)
    <3>1. /\ sd \in Adapters(sd.buffer) /\ sd.calls = calls /\ sd.next = sc.next /\ sd.usage = sc.usage
          /\ sd.thinking = sc.thinking /\ sd.emittedToolCalls
      BY <2>9 DEF AdapterIs
    <3>2. \A j \in DOMAIN sd.calls : j < Len(r)
      BY <1>2, <1>5, <2>9, <3>1
    <3> QED BY <1>2, <1>5, <2>4, <3>1, <3>2 DEF AdapterTells
  <2>11. FeedsTo(sd, t, "anthropic", "blocks", r, Unset)
    <3>1. ~EndsAt("anthropic", "blocks") /\ ~Counted("blocks")
      BY DEF EndsAt, Counted
    <3>2. sd.buffer = <<[NoChunk EXCEPT !.calls = <<CallDelta(k, z.id, z.body)>>]>>
      BY <2>8, <2>9 DEF AdapterIs
    <3>3. ~t.ended /\ t.answer = a
      BY <1>2, <1>8, <2>1, <3>1 DEF Tells
    <3>4. Len(a.calls) < MaxBlocks
      BY <1>2, <2>1, <2>2, StreamsAssumption
    <3>5. PICK id \in Nat \ {NoId} : id = z.id
      BY <1>2, <2>3 DEF NoId
    <3>8. PICK body \in Bodies : body = z.body
      BY <1>2
    <3>6. ToldOf(r) = Said(a, Block("tool", id, body))
      BY <1>2, <2>1, <2>3, <3>5, <3>8
    <3>7. sd.buffer = <<[NoChunk EXCEPT !.calls = <<CallDelta(k, id, body)>>]>>
      BY <3>2, <3>5, <3>8
    <3> QED BY <2>2, <3>1, <3>3, <3>4, <3>6, <3>7, FeedsCall
  <2> QED BY <2>7, <2>10, <2>11
<1> QED BY <1>7, <1>8

\* The stop reasons of an answer.
ReasonsOf(a) == IF a.calls = <<>> THEN {"end_turn", "max_tokens"} ELSE {"tool_use", "max_tokens"}

LEMMA StopsMessage ==
    ASSUME NEW sc, NEW s, AdapterTells(sc, "blocks", s), sc.buffer = <<>>, ~OpenIn(s),
           NEW t, Tells(t, "anthropic", "blocks", s, Unset),
           NEW reason, reason \in ReasonsOf(AnswerOf(s)), AnswerOf(s) \in Answers,
           NEW e, e = [type |-> "message_delta", stop |-> reason, usage |-> [input |-> 0, output |-> 2]]
    PROVE  /\ reason \in StopReasons
           /\ AdapterTells(ChatFromAnthropic(sc, e), "done", s)
           /\ FeedsTo(ChatFromAnthropic(sc, e), t, "anthropic", "done", s, reason)
<1>1. PICK new \in Usages : new = [input |-> 0, output |-> 2]
  BY DEF Usages
<1>2. e.type = "message_delta" /\ e.stop = reason /\ e.usage = new
  BY <1>1
<1>3. reason \in StopReasons /\ (reason = "tool_use" => AnswerOf(s).calls # <<>>)
  BY DEF ReasonsOf, StopReasons
<1>4. ToldOf(s) = AnswerOf(s)
  BY DEF ToldOf, HeldIn, OpenIn
<1>5. /\ sc \in Adapters(<<>>) /\ sc.usage \in Usages /\ sc.usage.input = 3
      /\ sc.next = Len(AnswerOf(s).calls) /\ (\A j \in DOMAIN sc.calls : j < Len(s))
      /\ (sc.emittedToolCalls <=> ToldOf(s).calls # <<>>)
  BY DEF AdapterTells, Adapters
<1>6. PICK usage : usage = Total
  OBVIOUS
<1>7. mergeAnthropicUsage(sc.usage, new) = usage
  <2>1. mergeAnthropicUsage(sc.usage, new) = [input |-> IF new.input # 0 THEN new.input ELSE sc.usage.input,
                                              output |-> IF new.output # 0 THEN new.output ELSE sc.usage.output]
    BY <1>5, MergeIs
  <2>2. new.input = 0 /\ new.output = 2
    BY <1>1
  <2> QED BY <1>5, <1>6, <2>1, <2>2 DEF Total
<1>8. usage \in Usages /\ usage # NoUsage
  BY <1>6, UsageFacts
<1>9. PICK finish \in Words : finish = Finish[reason]
  BY <1>3, FinishFacts
<1>10. finish # Unset
  BY <1>3, <1>9, FinishFacts
<1>11. mapStreamStopReason(sc, reason) = finish
  <2>1. reason = "tool_use" => sc.emittedToolCalls
    BY <1>3, <1>4, <1>5
  <2>2. normalizeAnthropicStopReason(reason) = Finish[reason]
    BY <1>3 DEF normalizeAnthropicStopReason, Finish, StopReasons
  <2> QED BY <1>9, <2>1, <2>2 DEF mapStreamStopReason
<1>12. PICK x : x = [NoChunk EXCEPT !.finish = finish, !.usage = usage]
  OBVIOUS
<1>13. PICK y : y = [sc EXCEPT !.usage = usage]
  OBVIOUS
<1>14. /\ y \in Adapters(<<>>) /\ y.calls = sc.calls /\ y.next = sc.next /\ y.thinking = sc.thinking
       /\ y.usage = usage /\ y.emittedToolCalls = sc.emittedToolCalls
  BY <1>5, <1>8, <1>13 DEF Adapters
<1>15. PICK sd : sd = emit(y, x)
  OBVIOUS
<1>16. ChatFromAnthropic(sc, e) = sd
  <2>1. ChatFromAnthropic(sc, e) = ChatMessageDelta(sc, e)
    BY <1>2 DEF ChatFromAnthropic
  <2>2. ChatMessageDelta(sc, e) = emit([sc EXCEPT !.usage = usage], [NoChunk EXCEPT !.finish = finish, !.usage = usage])
    BY <1>2, <1>7, <1>11 DEF ChatMessageDelta
  <2> QED BY <1>12, <1>13, <1>15, <2>1, <2>2
<1>17. AdapterIs(sd, <<x>>, y.calls, y.next, y.thinking, y.usage, y.emittedToolCalls)
  BY <1>14, <1>15, EmitsChunk
<1>18. AdapterTells(sd, "done", s)
  <2>1. /\ sd \in Adapters(sd.buffer) /\ sd.calls = sc.calls /\ sd.next = sc.next
        /\ (sd.emittedToolCalls <=> sc.emittedToolCalls)
    BY <1>14, <1>17 DEF AdapterIs
  <2> QED BY <1>5, <2>1 DEF AdapterTells
<1>19. FeedsTo(sd, t, "anthropic", "done", s, reason)
  <2>1. ~EndsAt("anthropic", "blocks") /\ ~EndsAt("anthropic", "done")
    BY DEF EndsAt
  <2>2. ChunkIs(x, <<>>, <<>>, <<>>, finish, usage)
    BY <1>8, <1>12, ChunksMade
  <2>3. /\ x \in Chunks /\ x.reasoning = <<>> /\ x.content = <<>> /\ x.calls = <<>> /\ x.finish = finish
        /\ x.usage = Total
    BY <1>6, <2>2 DEF ChunkIs
  <2>4. t.answer = ToldOf(s) /\ ~t.ended /\ ToldOf(s) \in Answers
    BY <1>4, <2>1 DEF Tells
  <2>5. ChunkSays(x, t.answer, ToldOf(s))
    BY <2>3, <2>4 DEF ChunkSays, SaysNothing
  <2>6. x.finish # Unset /\ reason \in StopReasons /\ x.finish = Finish[reason]
    BY <1>3, <1>9, <1>10, <2>3
  <2>7. IF x.finish = Unset THEN reason = Unset ELSE reason \in StopReasons /\ x.finish = Finish[reason]
    BY <2>6
  <2>8. \E u \in Told : Says(x, t, u) /\ Tells(u, "anthropic", "done", s, reason)
    BY <2>1, <2>3, <2>4, <2>5, <2>7, TellsMore
  <2>9. sd.buffer = <<x>>
    BY <1>17 DEF AdapterIs
  <2> QED BY <2>3, <2>8, <2>9, FeedsChunk
<1> QED BY <1>3, <1>16, <1>18, <1>19

LEMMA AdapterEnds ==
    ASSUME NEW sc, NEW s, NEW src, AdapterTells(sc, src, s), sc.buffer = <<>>,
           NEW st, NEW t, Tells(t, "anthropic", src, s, st), ~EndsAt("anthropic", src),
           NEW srd, srd = IF src = "done" THEN "ended" ELSE "cut",
           NEW e, e = [type |-> "EOF"]
    PROVE  /\ AdapterTells(ChatFromAnthropic(sc, e), srd, s)
           /\ FeedsTo(ChatFromAnthropic(sc, e), t, "anthropic", srd, s, st)
<1>1. PICK sd : sd = emit(sc, Done)
  OBVIOUS
<1>2. ChatFromAnthropic(sc, e) = sd
  BY <1>1 DEF ChatFromAnthropic
<1>3. sc \in Adapters(<<>>)
  BY DEF AdapterTells
<1>4. AdapterIs(sd, <<Done>>, sc.calls, sc.next, sc.thinking, sc.usage, sc.emittedToolCalls)
  BY <1>1, <1>3, EmitsChunk
<1>5. srd # "blocks"
  OBVIOUS
<1>6. AdapterTells(sd, srd, s)
  <2>1. /\ sd \in Adapters(sd.buffer) /\ sd.calls = sc.calls /\ sd.next = sc.next /\ sd.thinking = sc.thinking
        /\ (sd.emittedToolCalls <=> sc.emittedToolCalls)
    BY <1>4 DEF AdapterIs
  <2> QED BY <1>5, <2>1 DEF AdapterTells
<1>7. FeedsTo(sd, t, "anthropic", srd, s, st)
  <2>1. EndsAt("anthropic", srd) /\ (Counted(srd) => Counted(src))
    BY DEF EndsAt, Counted
  <2>2. ~t.ended
    BY DEF Tells
  <2>3. PICK f : f = Done
    OBVIOUS
  <2>4. \E u \in Told : Says(f, t, u) /\ Tells(u, "anthropic", srd, s, st)
    BY <2>1, <2>2, <2>3, TellsEnd
  <2>5. Done # [type |-> "EOF"]
    <3>1. Done.type # [type |-> "EOF"].type
      BY DEF Done
    <3> QED BY <3>1
  <2>6. sd.buffer = <<f>>
    BY <1>4, <2>3 DEF AdapterIs
  <2> QED BY <2>3, <2>4, <2>5, <2>6 DEF FeedsTo
<1> QED BY <1>2, <1>6, <1>7

-----------------------------------------------------------------------------
(* A provider of chat completions. *)

Chunk(x) == [buffer |-> <<x>>]

LEMMA ChunkFed ==
    ASSUME NEW x, NEW sc, sc = [buffer |-> <<>>]
    PROVE  emit(sc, x) = Chunk(x) /\ Chunk(x).buffer = <<x>> /\ [Chunk(x) EXCEPT !.buffer = Tail(@)] = sc
BY DEF emit, Chunk

LEMMA SentPlain ==
    ASSUME NEW s, SentOk(s, "openai")
    PROVE  /\ ~OpenIn(s) /\ ~HeldIn(s) /\ ToldOf(s) = AnswerOf(s) /\ AnswerOf(s) \in Answers
           /\ s \in Seq(SentBlocks) /\ Len(s) \in Nat /\ Len(AnswerOf(s).calls) \in Nat
           /\ Len(AnswerOf(s).calls) <= Len(s)
<1>1. s \in Seq(SentBlocks)
  BY DEF SentOk
<1>2. ~OpenIn(s)
  <2>1. ASSUME s # <<>> PROVE ~Last(s).open
    <3>1. Len(s) \in 1..Len(s)
      BY <1>1, <2>1
    <3>2. "openai" # "anthropic"
      OBVIOUS
    <3> QED BY <3>1, <3>2 DEF SentOk, Last
  <2> QED BY <2>1 DEF OpenIn
<1>3. ~HeldIn(s) /\ ToldOf(s) = AnswerOf(s)
  BY <1>2 DEF HeldIn, OpenIn, ToldOf
<1>4. AnswerOf(s) \in Answers /\ Len(AnswerOf(s).calls) <= Len(s)
  BY <1>1, AnswerFacts
<1>5. AnswerOf(s).calls \in Seq(CallBodies)
  BY <1>4 DEF Answers
<1> QED BY <1>1, <1>2, <1>3, <1>4, <1>5

\* A text, or a thought, that begins or goes on.
LEMMA OpenAITextTells ==
    ASSUME NEW s, SentOk(s, "openai"), NEW t, Tells(t, "openai", "blocks", s, Unset),
           NEW type \in {"thinking", "text"}, NEW n \in Nat, NEW piece, piece = <<n + 1>>,
           NEW r, IF s # <<>> /\ Last(s).type = type
                  THEN r = [s EXCEPT ![Len(s)].body = IF @ = <<Empty>> THEN piece ELSE @ \o piece]
                  ELSE Len(s) < MaxBlocks
                       /\ r = Append(s, [type |-> type, id |-> NoId, body |-> piece, open |-> FALSE]),
           NEW x, x = IF type = "text" THEN [NoChunk EXCEPT !.content = piece] ELSE [NoChunk EXCEPT !.reasoning = piece]
    PROVE  SentOk(r, "openai") /\ FeedsTo(Chunk(x), t, "openai", "blocks", r, Unset)
<1>1. /\ ~OpenIn(s) /\ ToldOf(s) = AnswerOf(s) /\ AnswerOf(s) \in Answers
  BY SentPlain
<1>2. piece \in Bodies /\ piece # <<>> /\ piece # <<Empty>>
  <2>1. piece \in Bodies /\ Len(piece) = 1 /\ piece[1] = n + 1
    BY DEF Bodies
  <2>2. <<Empty>>[1] = 0
    BY DEF Empty
  <2> QED BY <2>1, <2>2
<1>3. type \in BlockTypes /\ type # "tool" /\ NoId \in Nat
  BY DEF BlockTypes, NoId
<1>4. SentOk(r, "openai") /\ AnswerOf(r) = Said(AnswerOf(s), Block(type, NoId, piece))
  <2>1. CASE s # <<>> /\ Last(s).type = type
    <3>1. PICK z : z = Last(s)
      OBVIOUS
    <3>2. Turns("openai", s, r, z, Continues(z, piece), z.open)
      BY <2>1, <3>1, SentContinues
    <3>3. /\ SentOk(r, "openai") /\ z.type = type /\ z.id = NoId /\ z.body \in Bodies /\ z.body # <<Empty>>
          /\ AnswerOf(Front(s)) \in Answers /\ AnswerOf(s) = Said(AnswerOf(Front(s)), Block(z.type, z.id, z.body))
          /\ AnswerOf(r) = Said(AnswerOf(Front(s)), Block(z.type, z.id, Continues(z, piece)))
      BY <1>3, <2>1, <3>1, <3>2 DEF Turns
    <3>4. Continues(z, piece) = z.body \o piece
      BY <3>3 DEF Continues
    <3>5. PICK body \in Bodies : body = z.body
      BY <3>3
    <3>6. PICK a \in Answers : a = AnswerOf(Front(s))
      BY <3>3
    <3>7. Said(a, Block(type, NoId, body \o piece)) = Said(Said(a, Block(type, NoId, body)), Block(type, NoId, piece))
      BY <1>2, SaidAgain
    <3> QED BY <3>3, <3>4, <3>5, <3>6, <3>7
  <2>2. CASE ~(s # <<>> /\ Last(s).type = type)
    <3>1. PICK d : d = "openai"
      OBVIOUS
    <3>2. PICK o \in BOOLEAN : o = FALSE
      OBVIOUS
    <3>3. PICK id : id = IF type = "tool" THEN Len(s) + 1 ELSE NoId
      OBVIOUS
    <3>4. PICK b : b = [type |-> type, id |-> id, body |-> piece, open |-> o]
      OBVIOUS
    <3>5. id = NoId /\ r = Append(s, b) /\ Len(s) < MaxBlocks
      BY <1>3, <2>2, <3>2, <3>3, <3>4
    <3>6. SentOk(s, d) /\ (piece = <<Empty>> => type = "tool" /\ d = "anthropic") /\ (o => d = "anthropic")
      BY <1>2, <3>1, <3>2
    <3>7. SentOk(Append(s, b), d) /\ AnswerOf(Append(s, b)) = Said(AnswerOf(s), Block(type, id, piece))
      BY <1>1, <1>2, <1>3, <3>3, <3>4, <3>5, <3>6, SentBegins
    <3> QED BY <3>1, <3>5, <3>7
  <2> QED BY <2>1, <2>2
<1>5. /\ ToldOf(r) = AnswerOf(r) /\ AnswerOf(r) \in Answers
  BY <1>4, SentPlain
<1>6. ~EndsAt("openai", "blocks") /\ ~Counted("blocks")
  BY DEF EndsAt, Counted
<1>7. ChunkIs(x, IF type = "thinking" THEN piece ELSE <<>>, IF type = "thinking" THEN <<>> ELSE piece,
              <<>>, Unset, NoUsage)
  <2>1. CASE type = "thinking"
    BY <1>2, <2>1, ChunksMade
  <2>2. CASE type = "text"
    BY <1>2, <2>2, ChunksMade
  <2> QED BY <2>1, <2>2
<1>8. /\ x \in Chunks /\ x.calls = <<>> /\ x.finish = Unset /\ x.usage = NoUsage
      /\ (type = "thinking" => x.reasoning = piece /\ x.content = <<>>)
      /\ (type # "thinking" => x.reasoning = <<>> /\ x.content = piece)
  BY <1>7 DEF ChunkIs
<1>9. t.answer = AnswerOf(s) /\ ~t.ended
  BY <1>1, <1>6 DEF Tells
<1>10. ChunkSays(x, t.answer, ToldOf(r))
  <2>1. CASE type = "thinking"
    BY <1>2, <1>4, <1>5, <1>8, <1>9, <2>1 DEF ChunkSays, SaysThought
  <2>2. CASE type = "text"
    BY <1>2, <1>4, <1>5, <1>8, <1>9, <2>2 DEF ChunkSays, SaysText
  <2> QED BY <2>1, <2>2
<1>11. ToldOf(r) \in Answers
  BY <1>5
<1>12. \E u \in Told : Says(x, t, u) /\ Tells(u, "openai", "blocks", r, Unset)
  BY ZenonT(90), <1>6, <1>8, <1>9, <1>10, <1>11, TellsMore
<1>13. Chunk(x).buffer = <<x>>
  BY DEF Chunk
<1> QED BY <1>4, <1>8, <1>12, <1>13, FeedsChunk

LEMMA OpenAICallTells ==
    ASSUME NEW s, SentOk(s, "openai"), Len(s) < MaxBlocks, NEW t, Tells(t, "openai", "blocks", s, Unset),
           NEW arguments \in Bodies, arguments # <<Empty>>, NEW last \in BOOLEAN, NEW id, id = Len(s) + 1,
           NEW r, r = Append(s, [type |-> "tool", id |-> id, body |-> arguments, open |-> FALSE]),
           NEW k, k = Len(AnswerOf(s).calls),
           NEW srd, srd = IF last THEN "stopped" ELSE "blocks", NEW std, std = IF last THEN "tool_use" ELSE Unset,
           NEW x, x = [NoChunk EXCEPT !.calls = <<CallDelta(k, id, arguments)>>,
                                      !.finish = IF last THEN Finish["tool_use"] ELSE Unset]
    PROVE  SentOk(r, "openai") /\ AnswerOf(r).calls # <<>> /\ FeedsTo(Chunk(x), t, "openai", srd, r, std)
<1>1. /\ ~OpenIn(s) /\ ToldOf(s) = AnswerOf(s) /\ AnswerOf(s) \in Answers /\ k \in Nat /\ k <= Len(s) /\ Len(s) \in Nat
  BY SentPlain
<1>2. PICK type \in BlockTypes : type = "tool"
  BY DEF BlockTypes
<1>3. SentOk(r, "openai") /\ AnswerOf(r) = Said(AnswerOf(s), Block("tool", id, arguments)) /\ id \in Nat \ {NoId}
  <3>1. PICK d : d = "openai"
    OBVIOUS
  <3>2. PICK o \in BOOLEAN : o = FALSE
    OBVIOUS
  <3>3. id = IF type = "tool" THEN Len(s) + 1 ELSE NoId
    BY <1>2
  <3>4. PICK b : b = [type |-> type, id |-> id, body |-> arguments, open |-> o]
    OBVIOUS
  <3>5. r = Append(s, b)
    BY <1>2, <3>2, <3>4
  <3>6. SentOk(s, d) /\ (arguments = <<Empty>> => type = "tool" /\ d = "anthropic") /\ (o => d = "anthropic")
    BY <3>1, <3>2
  <3>7. SentOk(Append(s, b), d) /\ AnswerOf(Append(s, b)) = Said(AnswerOf(s), Block(type, id, arguments))
    BY <1>1, <3>3, <3>4, <3>6, SentBegins
  <3>8. id \in Nat \ {NoId}
    BY <1>1 DEF NoId
  <3> QED BY <1>2, <3>1, <3>5, <3>7, <3>8
<1>4. PICK i \in Nat \ {NoId} : i = id
  BY <1>3
<1>5. /\ ToldOf(r) = AnswerOf(r) /\ AnswerOf(r) \in Answers
  BY <1>3, SentPlain
<1>6. AnswerOf(r).calls # <<>>
  <2>1. Said(AnswerOf(s), Block("tool", i, arguments)).calls = Append(AnswerOf(s).calls, [id |-> i, body |-> arguments])
    BY <1>1, SaidTool
  <2>2. AnswerOf(s).calls \in Seq(CallBodies) /\ [id |-> i, body |-> arguments] \in CallBodies
    BY <1>1 DEF Answers, CallBodies
  <2> QED BY <1>3, <1>4, <2>1, <2>2, AppendIs
<1>7. ~EndsAt("openai", "blocks") /\ ~EndsAt("openai", srd) /\ ~Counted(srd)
  BY DEF EndsAt, Counted
<1>8. PICK finish \in Words : finish = IF last THEN Finish["tool_use"] ELSE Unset
  <2>1. "tool_use" \in StopReasons
    BY DEF StopReasons
  <2>2. Finish["tool_use"] \in Words /\ Unset \in Words
    BY <2>1, FinishFacts DEF Words
  <2> QED BY <2>2
<1>9. PICK delta \in CallDeltas : delta = CallDelta(k, id, arguments)
  BY <1>1, <1>3 DEF CallDelta, CallDeltas
<1>10. /\ x \in Chunks /\ x.reasoning = <<>> /\ x.content = <<>> /\ x.calls = <<delta>> /\ x.finish = finish
       /\ x.usage = NoUsage
  <2>1. ChunkIs([NoChunk EXCEPT !.calls = <<delta>>, !.finish = finish], <<>>, <<>>, <<delta>>, finish, NoUsage)
    BY ChunksMade
  <2> QED BY <1>8, <1>9, <2>1 DEF ChunkIs
<1>11. t.answer = AnswerOf(s) /\ ~t.ended
  BY <1>1, <1>7 DEF Tells
<1>12. ChunkSays(x, t.answer, ToldOf(r))
  <2>1. x.calls = <<CallDelta(Len(AnswerOf(s).calls), i, arguments)>>
    BY <1>4, <1>9, <1>10
  <2>2. Len(AnswerOf(s).calls) < MaxBlocks
    BY <1>1, StreamsAssumption
  <2>3. ToldOf(r) = Said(AnswerOf(s), Block("tool", i, arguments))
    BY <1>3, <1>4, <1>5
  <2>4. SaysCall(x, AnswerOf(s), ToldOf(r))
    BY <1>10, <2>1, <2>2, <2>3 DEF SaysCall
  <2> QED BY <1>11, <2>4 DEF ChunkSays
<1>13. IF x.finish = Unset THEN std = Unset ELSE std \in StopReasons /\ x.finish = Finish[std]
  <2>1. "tool_use" \in StopReasons
    BY DEF StopReasons
  <2>2. Finish["tool_use"] # Unset
    BY <2>1, FinishFacts
  <2> QED BY <1>8, <1>10, <2>1, <2>2
<1>14. ToldOf(r) \in Answers
  BY <1>5
<1>15. \E u \in Told : Says(x, t, u) /\ Tells(u, "openai", srd, r, std)
  <2>1. PICK none, d, src : none = Unset /\ d = "openai" /\ src = "blocks" /\ Tells(t, d, src, s, none)
    OBVIOUS
  <2>2. x \in Chunks /\ x.usage \in {NoUsage, Total} /\ (none # Unset => x.finish = Unset /\ ToldOf(r) = t.answer)
    BY <1>10, <2>1
  <2>3. IF x.finish = Unset THEN std = none ELSE std \in StopReasons /\ x.finish = Finish[std]
    BY <1>13, <2>1
  <2>4. ~EndsAt(d, srd) /\ (Counted(srd) => x.usage = Total \/ Counted(src))
    BY <1>7, <2>1
  <2>5. \E u \in Told : Says(x, t, u) /\ Tells(u, d, srd, r, std)
    <3>1. MayTell(d, src, s, none, t, r, x, srd, std)
      BY <1>11, <1>12, <1>14, <2>1, <2>2, <2>3, <2>4 DEF MayTell
    <3> QED BY <3>1, TellsOn
  <2> QED BY <2>1, <2>5
<1>16. Chunk(x).buffer = <<x>>
  BY DEF Chunk
<1>17. FeedsTo(Chunk(x), t, "openai", srd, r, std)
  BY <1>10, <1>15, <1>16, FeedsChunk
<1> QED BY <1>3, <1>6, <1>17

LEMMA OpenAIArgumentsTell ==
    ASSUME NEW s, SentOk(s, "openai"), s # <<>>, Last(s).type = "tool",
           NEW t, Tells(t, "openai", "blocks", s, Unset),
           NEW n \in Nat, NEW piece, piece = <<n + 1>>,
           NEW r, r = [s EXCEPT ![Len(s)].body = IF @ = <<Empty>> THEN piece ELSE @ \o piece],
           NEW k, k = Len(AnswerOf(s).calls) - 1, NEW x, x = [NoChunk EXCEPT !.calls = <<CallDelta(k, NoId, piece)>>]
    PROVE  SentOk(r, "openai") /\ FeedsTo(Chunk(x), t, "openai", "blocks", r, Unset)
<1>1. /\ ~OpenIn(s) /\ ToldOf(s) = AnswerOf(s) /\ AnswerOf(s) \in Answers
  BY SentPlain
<1>2. PICK z : z = Last(s)
  OBVIOUS
<1>3. piece \in Bodies /\ piece # <<>> /\ Turns("openai", s, r, z, Continues(z, piece), z.open)
  BY <1>2, SentContinues
<1>4. /\ SentOk(r, "openai") /\ z.type = "tool" /\ z.id \in Nat /\ z.body \in Bodies
      /\ AnswerOf(Front(s)) \in Answers /\ AnswerOf(s) = Said(AnswerOf(Front(s)), Block(z.type, z.id, z.body))
      /\ AnswerOf(r) = Said(AnswerOf(Front(s)), Block(z.type, z.id, Continues(z, piece)))
      /\ Len(AnswerOf(Front(s)).calls) \in Nat /\ Len(AnswerOf(Front(s)).calls) < Len(s) /\ Len(s) \in Nat
      /\ Len(s) <= MaxBlocks
  BY <1>2, <1>3 DEF Turns, SentOk
<1>5. Continues(z, piece) = z.body \o piece
  <2>1. z.body # <<Empty>>
    <3>1. Len(s) \in 1..Len(s) /\ s[Len(s)] = z
      BY <1>2, <1>4 DEF SentOk, Last
    <3>2. "openai" # "anthropic"
      OBVIOUS
    <3> QED BY <3>1, <3>2 DEF SentOk
  <2> QED BY <2>1 DEF Continues
<1>6. PICK a \in Answers : a = AnswerOf(Front(s))
  BY <1>4
<1>7. PICK i \in Nat : i = z.id
  BY <1>4
<1>8. PICK body \in Bodies : body = z.body
  BY <1>4
<1>9. AnswerOf(s) = Said(a, Block("tool", i, body)) /\ AnswerOf(r) = Said(a, Block("tool", i, body \o piece))
  BY <1>4, <1>5, <1>6, <1>7, <1>8
<1>10. k \in Nat /\ k = Len(a.calls) /\ k < MaxBlocks
  <2>1. AnswerOf(s).calls = Append(a.calls, [id |-> i, body |-> body])
    BY <1>9, SaidTool
  <2>2. a.calls \in Seq(CallBodies) /\ [id |-> i, body |-> body] \in CallBodies
    BY DEF Answers, CallBodies
  <2>3. Len(AnswerOf(s).calls) = Len(a.calls) + 1
    BY <2>1, <2>2, AppendIs
  <2> QED BY <1>4, <1>6, <2>3, StreamsAssumption
<1>11. ~EndsAt("openai", "blocks") /\ ~Counted("blocks")
  BY DEF EndsAt, Counted
<1>12. t.answer = Said(a, Block("tool", i, body)) /\ ~t.ended
  BY <1>1, <1>9, <1>11 DEF Tells
<1>13. ToldOf(r) = Said(a, Block("tool", i, body \o piece))
  BY <1>4, <1>9, SentPlain
<1>14. Chunk(x).buffer = <<[NoChunk EXCEPT !.calls = <<CallDelta(k, NoId, piece)>>]>>
  BY DEF Chunk
<1>15. FeedsTo(Chunk(x), t, "openai", "blocks", r, Unset)
  BY <1>3, <1>10, <1>11, <1>12, <1>13, <1>14, FeedsMore
<1> QED BY <1>4, <1>15

\* The reason of the stop, and the tokens.
LEMMA OpenAIStopTells ==
    ASSUME NEW s, SentOk(s, "openai"), NEW t, Tells(t, "openai", "blocks", s, Unset),
           NEW reason, reason \in ReasonsOf(AnswerOf(s)),
           NEW x, x = [NoChunk EXCEPT !.finish = Finish[reason]]
    PROVE  reason \in StopReasons /\ FeedsTo(Chunk(x), t, "openai", "stopped", s, reason)
<1>1. ToldOf(s) = AnswerOf(s) /\ AnswerOf(s) \in Answers
  BY SentPlain
<1>2. reason \in StopReasons
  BY DEF ReasonsOf, StopReasons
<1>3. PICK finish \in Words : finish = Finish[reason] /\ finish # Unset
  BY <1>2, FinishFacts
<1>4. /\ x \in Chunks /\ x.reasoning = <<>> /\ x.content = <<>> /\ x.calls = <<>> /\ x.finish = finish /\ x.usage = NoUsage
  <2>1. ChunkIs([NoChunk EXCEPT !.finish = finish], <<>>, <<>>, <<>>, finish, NoUsage)
    BY ChunksMade
  <2> QED BY <1>3, <2>1 DEF ChunkIs
<1>5. ~EndsAt("openai", "blocks") /\ ~EndsAt("openai", "stopped") /\ ~Counted("stopped")
  BY DEF EndsAt, Counted
<1>6. t.answer = ToldOf(s) /\ ~t.ended /\ ToldOf(s) \in Answers
  BY <1>1, <1>5 DEF Tells
<1>7. ChunkSays(x, t.answer, ToldOf(s))
  BY <1>4, <1>6 DEF ChunkSays, SaysNothing
<1>8. IF x.finish = Unset THEN reason = Unset ELSE reason \in StopReasons /\ x.finish = Finish[reason]
  BY <1>2, <1>3, <1>4
<1>9. \E u \in Told : Says(x, t, u) /\ Tells(u, "openai", "stopped", s, reason)
  BY <1>4, <1>5, <1>6, <1>7, <1>8, TellsMore
<1>10. Chunk(x).buffer = <<x>>
  BY DEF Chunk
<1> QED BY <1>2, <1>4, <1>9, <1>10, FeedsChunk

LEMMA OpenAICounts ==
    ASSUME NEW s, SentOk(s, "openai"), NEW st, NEW t, Tells(t, "openai", "stopped", s, st),
           NEW x, x = [NoChunk EXCEPT !.usage = Total]
    PROVE  FeedsTo(Chunk(x), t, "openai", "counted", s, st)
<1>1. ToldOf(s) = AnswerOf(s) /\ AnswerOf(s) \in Answers
  BY SentPlain
<1>2. /\ x \in Chunks /\ x.reasoning = <<>> /\ x.content = <<>> /\ x.calls = <<>> /\ x.finish = Unset /\ x.usage = Total
  <2>1. ChunkIs([NoChunk EXCEPT !.usage = Total], <<>>, <<>>, <<>>, Unset, Total)
    BY ChunksMade, UsageFacts
  <2> QED BY <2>1 DEF ChunkIs
<1>3. ~EndsAt("openai", "stopped") /\ ~EndsAt("openai", "counted")
  BY DEF EndsAt
<1>4. t.answer = ToldOf(s) /\ ~t.ended /\ ToldOf(s) \in Answers
  BY <1>1, <1>3 DEF Tells
<1>5. ChunkSays(x, t.answer, ToldOf(s))
  BY <1>2, <1>4 DEF ChunkSays, SaysNothing
<1>6. \E u \in Told : Says(x, t, u) /\ Tells(u, "openai", "counted", s, st)
  BY <1>2, <1>3, <1>4, <1>5, TellsMore
<1>7. Chunk(x).buffer = <<x>>
  BY DEF Chunk
<1> QED BY <1>2, <1>6, <1>7, FeedsChunk

\* The end, as the provider says it and as its connection does.
LEMMA OpenAIEnds ==
    ASSUME NEW s, NEW st, NEW src, NEW t, Tells(t, "openai", src, s, st), NEW srd, NEW x,
           \/ src = "counted" /\ srd = "done" /\ x = Done
           \/ x = [type |-> "EOF"] /\ srd = IF src = "done" THEN "ended" ELSE "cut"
    PROVE  FeedsTo(Chunk(x), t, "openai", srd, s, st)
<1>1. EndsAt("openai", srd) /\ (Counted(srd) => Counted(src))
  BY DEF EndsAt, Counted
<1>2. (x = Done /\ ~t.ended) \/ x = [type |-> "EOF"]
  <2>1. ASSUME src = "counted" PROVE ~t.ended
    BY <2>1 DEF Tells, EndsAt
  <2> QED BY <2>1
<1>3. \E u \in Told : Says(x, t, u) /\ Tells(u, "openai", srd, s, st)
  BY <1>1, <1>2, TellsEnd
<1>4. Chunk(x).buffer = <<x>>
  BY DEF Chunk
<1> QED BY <1>3, <1>4 DEF FeedsTo

-----------------------------------------------------------------------------
(* The provider and its adapter, step by step. *)

ProviderOk ==
  /\ <<dialect, endpoint>> \in Routes
  /\ SentOk(sent, dialect)
  /\ source \in {"fresh", "blocks", "stopped", "counted", "done", "ended", "cut"}
  /\ OpenIn(sent) => source \in {"blocks", "cut"}
  /\ source = "fresh" => sent = <<>> /\ dialect = "anthropic"
  /\ stop \in StopReasons \cup {Unset}
  /\ source \in {"fresh", "blocks"} => stop = Unset
  /\ source \in {"stopped", "counted", "done", "ended"} => stop # Unset
  /\ stop = "tool_use" => AnswerOf(sent).calls # <<>>
  /\ dialect = "anthropic" => source \notin {"stopped", "counted"} /\ (source = "cut" => stop = Unset)

LEMMA RouteFacts ==
    ASSUME <<dialect, endpoint>> \in Routes
    PROVE  /\ dialect \in {"anthropic", "openai"} /\ endpoint \in {"chat", "messages", "responses"}
           /\ endpoint = "chat" => dialect = "anthropic"
           /\ dialect # "anthropic" => dialect = "openai"
<1>1. \/ dialect = "anthropic" /\ endpoint = "chat"
      \/ dialect = "anthropic" /\ endpoint = "messages"
      \/ dialect = "anthropic" /\ endpoint = "responses"
      \/ dialect = "openai" /\ endpoint = "messages"
      \/ dialect = "openai" /\ endpoint = "responses"
  BY DEF Routes
<1> QED BY <1>1

LEMMA ReasonsAre == ReasonsOf(AnswerOf(sent)) = Reasons /\ (Open <=> OpenIn(sent))
BY DEF ReasonsOf, Reasons, Answer, Open, OpenIn

LEMMA PieceIs ==
    ASSUME SentOk(sent, dialect)
    PROVE  \E n \in Nat : Piece = <<n + 1>>
<1>1. AnswerOf(sent) \in Answers
  BY AnswerFacts DEF SentOk
<1>2. Answer.pieces \in Nat
  BY <1>1 DEF Answers, Answer
<1> QED BY <1>2 DEF Piece

LEMMA PieceFacts ==
    ASSUME SentOk(sent, dialect)
    PROVE  /\ Piece \in Bodies /\ Piece # <<>> /\ Piece # <<Empty>> /\ <<>> \in Bodies /\ <<Empty>> \in Bodies
           /\ <<>> # <<Empty>>
<1>1. PICK n \in Nat : Piece = <<n + 1>>
  BY PieceIs
<1>2. PICK piece : piece = <<n + 1>>
  OBVIOUS
<1>3. piece \in Bodies /\ Len(piece) = 1 /\ piece[1] = n + 1
  BY <1>2 DEF Bodies
<1>4. <<Empty>> \in Bodies /\ <<Empty>>[1] = 0 /\ Len(<<Empty>>) = 1 /\ <<>> \in Bodies /\ Len(<<>>) = 0
  BY DEF Empty, Bodies
<1> QED BY <1>1, <1>2, <1>3, <1>4

\* A block begins.
LEMMA BlockStarts ==
    ASSUME ProviderOk, dialect = "anthropic", NEW type \in BlockTypes, NEW input \in Bodies,
           input = <<Empty>> => type = "tool",
           AnthropicBlockStart(type, input)
    PROVE  \E id : /\ id = (IF type = "tool" THEN Len(sent) + 1 ELSE NoId)
                   /\ Opens(sent, sent', type, id, input)
                   /\ Feed([type |-> "content_block_start", index |-> Len(sent), block |-> type, id |-> id, input |-> input])
<1>1. PICK id : id = IF type = "tool" THEN Len(sent) + 1 ELSE NoId
  OBVIOUS
<1>2. sent' = Append(sent, [type |-> type, id |-> id, body |-> input, open |-> TRUE])
  BY <1>1 DEF AnthropicBlockStart, Begun
<1>3. SentOk(sent, "anthropic") /\ ~OpenIn(sent) /\ Len(sent) < MaxBlocks
  BY ReasonsAre DEF ProviderOk, AnthropicBlockStart
<1>4. Opens(sent, sent', type, id, input)
  BY <1>1, <1>2, <1>3, SentOpens
<1>5. Last(sent').id = id
  BY <1>4 DEF Opens
<1>6. Feed([type |-> "content_block_start", index |-> Len(sent), block |-> type, id |-> id, input |-> input])
  BY <1>5 DEF AnthropicBlockStart
<1> QED BY <1>1, <1>4, <1>6

\* A block goes on.
LEMMA BlockContinues ==
    ASSUME SentOk(sent, dialect), sent # <<>>, sent' = Continued(Piece), NEW z, z = Last(sent)
    PROVE  /\ Piece \in Bodies /\ Piece # <<>> /\ Continues(z, Piece) # <<Empty>>
           /\ Turns(dialect, sent, sent', z, Continues(z, Piece), z.open)
<1>1. PICK n \in Nat : Piece = <<n + 1>>
  BY PieceIs
<1>2. PICK piece, r, s : piece = Piece /\ r = sent' /\ s = sent
  OBVIOUS
<1>3. r = [s EXCEPT ![Len(s)].body = IF @ = <<Empty>> THEN piece ELSE @ \o piece]
  BY <1>2 DEF Continued
<1>4. SentOk(s, dialect) /\ s # <<>> /\ z = Last(s) /\ piece = <<n + 1>>
  BY <1>1, <1>2
<1>5. piece \in Bodies /\ piece # <<>> /\ Continues(z, piece) # <<Empty>>
      /\ Turns(dialect, s, r, z, Continues(z, piece), z.open)
  BY <1>3, <1>4, SentContinues
<1> QED BY <1>2, <1>5

\* What the blocks of a step leave as it was.
LEMMA SameStop ==
    ASSUME ProviderOk, SentOk(sent', dialect), source = "blocks", UNCHANGED <<dialect, endpoint, source, stop>>
    PROVE  ProviderOk'
<1>1. stop = Unset /\ Unset # "tool_use"
  BY FinishFacts DEF ProviderOk, StopReasons
<1> QED BY <1>1 DEF ProviderOk

LEMMA AnthropicKeeps ==
    ASSUME ProviderOk, dialect = "anthropic", UNCHANGED <<dialect, endpoint>>, Anthropic
    PROVE  ProviderOk'
<1>1. CASE AnthropicStart
  BY <1>1 DEF AnthropicStart, ProviderOk
<1>2. ASSUME NEW type \in {"thinking", "text"}, AnthropicBlockStart(type, <<>>) PROVE ProviderOk'
  <2>1. type \in BlockTypes /\ <<>> \in Bodies /\ <<>> # <<Empty>>
    BY PieceFacts DEF BlockTypes, ProviderOk
  <2>2. SentOk(sent', dialect)
    BY <1>2, <2>1, BlockStarts DEF Opens
  <2> QED BY <1>2, <2>2, SameStop DEF AnthropicBlockStart
<1>3. ASSUME NEW input \in {<<>>, <<Empty>>, Piece}, AnthropicBlockStart("tool", input) PROVE ProviderOk'
  <2>1. "tool" \in BlockTypes /\ input \in Bodies
    BY PieceFacts DEF BlockTypes, ProviderOk
  <2>2. SentOk(sent', dialect)
    BY <1>3, <2>1, BlockStarts DEF Opens
  <2> QED BY <1>3, <2>2, SameStop DEF AnthropicBlockStart
<1>4. CASE AnthropicBlockDelta
  <2>1. sent # <<>> /\ sent' = Continued(Piece) /\ source = "blocks" /\ SentOk(sent, dialect)
    BY <1>4, ReasonsAre DEF AnthropicBlockDelta, OpenIn, Anthropic, ProviderOk
  <2>2. SentOk(sent', dialect)
    BY <2>1, BlockContinues DEF Turns
  <2> QED BY <1>4, <2>1, <2>2, SameStop DEF AnthropicBlockDelta
<1>5. CASE AnthropicBlockStop
  <2>1. sent # <<>> /\ sent' = [sent EXCEPT ![Len(sent)].open = FALSE] /\ source = "blocks" /\ SentOk(sent, dialect)
    BY <1>5, ReasonsAre DEF AnthropicBlockStop, OpenIn, Anthropic, ProviderOk
  <2>2. SentOk(sent', dialect)
    BY <2>1, SentStops DEF Turns
  <2> QED BY <1>5, <2>1, <2>2, SameStop DEF AnthropicBlockStop
<1>6. ASSUME NEW reason \in Reasons, AnthropicStop(reason) PROVE ProviderOk'
  <2>1. reason \in ReasonsOf(AnswerOf(sent))
    BY ReasonsAre
  <2>2. reason \in StopReasons /\ (reason = "tool_use" => AnswerOf(sent).calls # <<>>)
    BY <2>1 DEF ReasonsOf, StopReasons
  <2>3. reason # Unset
    BY <2>2, FinishFacts
  <2> QED BY <1>6, <2>2, <2>3, ReasonsAre DEF AnthropicStop, ProviderOk
<1> QED BY <1>1, <1>2, <1>3, <1>4, <1>5, <1>6 DEF Anthropic

\* Each step of a provider of chat completions, by what it sends.
OpenAISends(x, srd, r, std) ==
  /\ Feed(x) /\ source' = srd /\ sent' = r /\ stop' = std
  /\ SentOk(r, "openai")
  /\ \A t : Tells(t, "openai", source, sent, stop) => FeedsTo(Chunk(x), t, "openai", srd, r, std)

LEMMA OpenAITextSends ==
    ASSUME ProviderOk, dialect = "openai", source = "blocks", NEW type \in {"thinking", "text"}, OpenAIText(type)
    PROVE  \E x : OpenAISends(x, "blocks", sent', stop) /\ stop = Unset
<1>1. PICK n \in Nat : Piece = <<n + 1>>
  BY PieceIs DEF ProviderOk
<1>2. PICK piece, r, s : piece = Piece /\ r = sent' /\ s = sent
  OBVIOUS
<1>3. PICK x : x = IF type = "text" THEN [NoChunk EXCEPT !.content = piece] ELSE [NoChunk EXCEPT !.reasoning = piece]
  OBVIOUS
<1>4. Feed(x) /\ source' = source /\ stop' = stop
  BY <1>2, <1>3 DEF OpenAIText
<1>5. piece = <<n + 1>> /\ SentOk(s, "openai") /\ stop = Unset
  BY <1>1, <1>2 DEF ProviderOk
<1>6. IF s # <<>> /\ Last(s).type = type
      THEN r = [s EXCEPT ![Len(s)].body = IF @ = <<Empty>> THEN piece ELSE @ \o piece]
      ELSE Len(s) < MaxBlocks
           /\ r = Append(s, [type |-> type, id |-> NoId, body |-> piece, open |-> FALSE])
  <2>1. CASE s # <<>> /\ Last(s).type = type
    BY <1>2, <2>1 DEF OpenAIText, Continued
  <2>2. CASE ~(s # <<>> /\ Last(s).type = type)
    <3>1. Len(s) < MaxBlocks /\ r = Begun(type, piece, FALSE)
      BY <1>2, <2>2 DEF OpenAIText
    <3>2. type # "tool"
      OBVIOUS
    <3> QED BY <1>2, <2>2, <3>1, <3>2 DEF Begun
  <2> QED BY <2>1, <2>2
<1>7. \A t : Tells(t, "openai", "blocks", s, Unset) =>
        SentOk(r, "openai") /\ FeedsTo(Chunk(x), t, "openai", "blocks", r, Unset)
  BY <1>3, <1>5, <1>6, OpenAITextTells
<1>8. SentOk(r, "openai")
  <2>1. PICK t : t = [answer |-> AnswerOf(s), stop |-> Unset, usage |-> NoUsage, ended |-> FALSE]
    OBVIOUS
  <2>2. Tells(t, "openai", "blocks", s, Unset)
    BY <1>5, <2>1, SentPlain, UsageFacts DEF Tells, Told, EndsAt, Counted, Words
  <2> QED BY <1>7, <2>2
<1> QED BY <1>2, <1>4, <1>5, <1>7, <1>8 DEF OpenAISends

LEMMA OpenAICallSends ==
    ASSUME ProviderOk, dialect = "openai", source = "blocks", NEW arguments \in {<<>>, Piece}, NEW last \in BOOLEAN,
           OpenAICall(arguments, last)
    PROVE  \E x, srd, std : OpenAISends(x, srd, sent', std)
                            /\ IF last THEN srd = "stopped" /\ std = "tool_use" /\ AnswerOf(sent').calls # <<>>
                               ELSE srd = "blocks" /\ std = Unset
<1>1. arguments \in Bodies /\ arguments # <<Empty>>
  BY PieceFacts DEF ProviderOk
<1>2. PICK r, s : r = sent' /\ s = sent
  OBVIOUS
<1>3. PICK id, k, srd, std : /\ id = Len(s) + 1 /\ k = Len(AnswerOf(s).calls)
                             /\ srd = (IF last THEN "stopped" ELSE "blocks")
                             /\ std = (IF last THEN "tool_use" ELSE Unset)
  OBVIOUS
<1>4. SentOk(s, "openai") /\ stop = Unset /\ Len(s) < MaxBlocks
  BY <1>2 DEF ProviderOk, OpenAICall
<1>5. r = Append(s, [type |-> "tool", id |-> id, body |-> arguments, open |-> FALSE])
  BY <1>2, <1>3 DEF OpenAICall, Begun
<1>6. s \in Seq(SentBlocks) /\ Len(s) \in Nat
  BY <1>4 DEF SentOk
<1>7. Last(r).id = id
  <2>1. PICK b : b = [type |-> "tool", id |-> id, body |-> arguments, open |-> FALSE]
    OBVIOUS
  <2>2. b \in SentBlocks /\ b.id = id
    BY <1>1, <1>3, <1>6, <2>1 DEF SentBlocks, BlockTypes
  <2>3. Last(Append(s, b)) = b
    BY <1>6, <2>2, AppendIs
  <2> QED BY <1>5, <2>1, <2>2, <2>3
<1>8. PICK x : x = [NoChunk EXCEPT !.calls = <<CallDelta(k, id, arguments)>>,
                                   !.finish = IF last THEN Finish["tool_use"] ELSE Unset]
  OBVIOUS
<1>9. Feed(x) /\ source' = srd /\ stop' = std
  <2>1. Feed([NoChunk EXCEPT !.calls = <<CallDelta(Len(Answer.calls), Last(sent').id, arguments)>>,
                             !.finish = IF last THEN Finish["tool_use"] ELSE Unset])
    BY DEF OpenAICall
  <2>2. Len(Answer.calls) = k /\ Last(sent').id = id
    BY <1>2, <1>3, <1>7 DEF Answer
  <2>3. source' = (IF last THEN "stopped" ELSE source) /\ stop' = (IF last THEN "tool_use" ELSE stop)
    BY DEF OpenAICall
  <2> QED BY <1>3, <1>4, <1>8, <2>1, <2>2, <2>3
<1>10. \A t : Tells(t, "openai", "blocks", s, Unset) =>
         SentOk(r, "openai") /\ AnswerOf(r).calls # <<>> /\ FeedsTo(Chunk(x), t, "openai", srd, r, std)
  BY <1>1, <1>3, <1>4, <1>5, <1>8, OpenAICallTells
<1>11. SentOk(r, "openai") /\ AnswerOf(r).calls # <<>>
  <2>1. PICK t : t = [answer |-> AnswerOf(s), stop |-> Unset, usage |-> NoUsage, ended |-> FALSE]
    OBVIOUS
  <2>2. Tells(t, "openai", "blocks", s, Unset)
    BY <1>4, <2>1, SentPlain, UsageFacts DEF Tells, Told, EndsAt, Counted, Words
  <2> QED BY <1>10, <2>2
<1>12. OpenAISends(x, srd, sent', std)
  BY <1>2, <1>4, <1>9, <1>10, <1>11 DEF OpenAISends
<1> QED BY <1>2, <1>3, <1>11, <1>12

LEMMA OpenAIArgumentsSends ==
    ASSUME ProviderOk, dialect = "openai", source = "blocks", OpenAIArguments
    PROVE  \E x : OpenAISends(x, "blocks", sent', stop) /\ stop = Unset
<1>1. PICK n \in Nat : Piece = <<n + 1>>
  BY PieceIs DEF ProviderOk
<1>2. PICK piece, r, s : piece = Piece /\ r = sent' /\ s = sent
  OBVIOUS
<1>3. PICK k : k = Len(AnswerOf(s).calls) - 1
  OBVIOUS
<1>4. PICK x : x = [NoChunk EXCEPT !.calls = <<CallDelta(k, NoId, piece)>>]
  OBVIOUS
<1>5. Feed(x) /\ source' = source /\ stop' = stop
  BY <1>2, <1>3, <1>4 DEF OpenAIArguments, Answer
<1>6. piece = <<n + 1>> /\ SentOk(s, "openai") /\ stop = Unset /\ s # <<>> /\ Last(s).type = "tool"
  BY <1>1, <1>2 DEF ProviderOk, OpenAIArguments
<1>7. r = [s EXCEPT ![Len(s)].body = IF @ = <<Empty>> THEN piece ELSE @ \o piece]
  BY <1>2 DEF OpenAIArguments, Continued
<1>8. \A t : Tells(t, "openai", "blocks", s, Unset) =>
        SentOk(r, "openai") /\ FeedsTo(Chunk(x), t, "openai", "blocks", r, Unset)
  BY <1>3, <1>4, <1>6, <1>7, OpenAIArgumentsTell
<1>9. SentOk(r, "openai")
  <2>1. PICK t : t = [answer |-> AnswerOf(s), stop |-> Unset, usage |-> NoUsage, ended |-> FALSE]
    OBVIOUS
  <2>2. Tells(t, "openai", "blocks", s, Unset)
    BY <1>6, <2>1, SentPlain, UsageFacts DEF Tells, Told, EndsAt, Counted, Words
  <2> QED BY <1>8, <2>2
<1> QED BY <1>2, <1>5, <1>6, <1>8, <1>9 DEF OpenAISends

LEMMA OpenAIStopSends ==
    ASSUME ProviderOk, dialect = "openai", source = "blocks", NEW reason \in Reasons, OpenAIStop(reason)
    PROVE  /\ \E x : OpenAISends(x, "stopped", sent, reason)
           /\ reason \in StopReasons /\ reason # Unset /\ (reason = "tool_use" => AnswerOf(sent).calls # <<>>)
<1>1. reason \in ReasonsOf(AnswerOf(sent))
  BY ReasonsAre
<1>2. reason \in StopReasons /\ (reason = "tool_use" => AnswerOf(sent).calls # <<>>)
  BY <1>1 DEF ReasonsOf, StopReasons
<1>3. reason # Unset
  BY <1>2, FinishFacts
<1>4. PICK x : x = [NoChunk EXCEPT !.finish = Finish[reason]]
  OBVIOUS
<1>5. SentOk(sent, "openai") /\ stop = Unset
  BY DEF ProviderOk
<1>6. \A t : Tells(t, "openai", "blocks", sent, Unset) => FeedsTo(Chunk(x), t, "openai", "stopped", sent, reason)
  BY <1>1, <1>4, <1>5, OpenAIStopTells
<1>7. Feed(x) /\ source' = "stopped" /\ sent' = sent /\ stop' = reason
  BY <1>4 DEF OpenAIStop
<1> QED BY <1>2, <1>3, <1>5, <1>6, <1>7 DEF OpenAISends

LEMMA OpenAIEndSends ==
    ASSUME ProviderOk, dialect = "openai", OpenAIEnd, UNCHANGED <<sent, stop>>
    PROVE  \E x, srd : OpenAISends(x, srd, sent, stop) /\ srd \in {"counted", "done"} /\ stop # Unset
<1>1. SentOk(sent, "openai")
  BY DEF ProviderOk
<1>2. CASE source = "stopped" /\ source' = "counted" /\ Feed([NoChunk EXCEPT !.usage = Total])
  <2>1. PICK x : x = [NoChunk EXCEPT !.usage = Total]
    OBVIOUS
  <2>2. \A t : Tells(t, "openai", "stopped", sent, stop) => FeedsTo(Chunk(x), t, "openai", "counted", sent, stop)
    BY <1>1, <2>1, OpenAICounts
  <2>3. stop # Unset
    BY <1>2 DEF ProviderOk
  <2>4. OpenAISends(x, "counted", sent, stop)
    BY <1>1, <1>2, <2>1, <2>2 DEF OpenAISends
  <2> QED BY <2>3, <2>4
<1>3. CASE source = "counted" /\ source' = "done" /\ Feed(Done)
  <2>1. PICK x : x = Done
    OBVIOUS
  <2>2. \A t : Tells(t, "openai", "counted", sent, stop) => FeedsTo(Chunk(x), t, "openai", "done", sent, stop)
    BY <2>1, OpenAIEnds
  <2>3. stop # Unset
    BY <1>3 DEF ProviderOk
  <2>4. OpenAISends(x, "done", sent, stop)
    BY <1>1, <1>3, <2>1, <2>2 DEF OpenAISends
  <2> QED BY <2>3, <2>4
<1> QED BY <1>2, <1>3 DEF OpenAIEnd

\* Whatever it sends.
LEMMA OpenAIKeeps ==
    ASSUME ProviderOk, dialect = "openai", UNCHANGED <<dialect, endpoint>>, OpenAI
    PROVE  ProviderOk' /\ \E x : OpenAISends(x, source', sent', stop')
<1>1. ASSUME NEW x, NEW srd, NEW r, NEW std, OpenAISends(x, srd, r, std), srd \in {"blocks", "stopped", "counted", "done"},
             std \in StopReasons \cup {Unset}, srd = "blocks" <=> std = Unset,
             std = "tool_use" => AnswerOf(r).calls # <<>>
      PROVE  ProviderOk' /\ OpenAISends(x, source', sent', stop')
  <2>1. source' = srd /\ sent' = r /\ stop' = std /\ SentOk(sent', "openai")
    BY <1>1 DEF OpenAISends
  <2>2. ~OpenIn(sent')
    BY <2>1, SentPlain
  <2> QED BY <1>1, <2>1, <2>2 DEF ProviderOk
<1>2. Unset # "tool_use" /\ Unset \in StopReasons \cup {Unset} /\ "tool_use" \in StopReasons
  BY FinishFacts DEF StopReasons
<1>3. ASSUME NEW type \in {"thinking", "text"}, source = "blocks", OpenAIText(type)
      PROVE  ProviderOk' /\ \E x : OpenAISends(x, source', sent', stop')
  <2>1. PICK x : OpenAISends(x, "blocks", sent', stop) /\ stop = Unset
    BY <1>3, OpenAITextSends
  <2> QED BY <1>1, <1>2, <2>1
<1>4. ASSUME NEW arguments \in {<<>>, Piece}, NEW last \in BOOLEAN, source = "blocks", OpenAICall(arguments, last)
      PROVE  ProviderOk' /\ \E x : OpenAISends(x, source', sent', stop')
  <2>1. PICK x, srd, std : OpenAISends(x, srd, sent', std)
                            /\ IF last THEN srd = "stopped" /\ std = "tool_use" /\ AnswerOf(sent').calls # <<>>
                               ELSE srd = "blocks" /\ std = Unset
    BY <1>4, OpenAICallSends
  <2>2. /\ srd \in {"blocks", "stopped", "counted", "done"} /\ std \in StopReasons \cup {Unset}
        /\ (srd = "blocks" <=> std = Unset) /\ (std = "tool_use" => AnswerOf(sent').calls # <<>>)
    BY <1>2, <2>1
  <2> QED BY <1>1, <2>1, <2>2
<1>5. ASSUME source = "blocks", OpenAIArguments PROVE ProviderOk' /\ \E x : OpenAISends(x, source', sent', stop')
  <2>1. PICK x : OpenAISends(x, "blocks", sent', stop) /\ stop = Unset
    BY <1>5, OpenAIArgumentsSends
  <2> QED BY <1>1, <1>2, <2>1
<1>6. ASSUME NEW reason \in Reasons, source = "blocks", OpenAIStop(reason)
      PROVE  ProviderOk' /\ \E x : OpenAISends(x, source', sent', stop')
  <2>1. PICK x : OpenAISends(x, "stopped", sent, reason) /\ reason \in StopReasons /\ reason # Unset
                 /\ (reason = "tool_use" => AnswerOf(sent).calls # <<>>)
    BY <1>6, OpenAIStopSends
  <2> QED BY <1>1, <2>1
<1>7. ASSUME OpenAIEnd, UNCHANGED <<sent, stop>> PROVE ProviderOk' /\ \E x : OpenAISends(x, source', sent', stop')
  <2>1. PICK x, srd : OpenAISends(x, srd, sent, stop) /\ srd \in {"counted", "done"} /\ stop # Unset
    BY <1>7, OpenAIEndSends
  <2>2. stop \in StopReasons \cup {Unset} /\ (stop = "tool_use" => AnswerOf(sent).calls # <<>>)
    BY DEF ProviderOk
  <2> QED BY <1>1, <2>1, <2>2
<1> QED BY <1>3, <1>4, <1>5, <1>6, <1>7 DEF OpenAI

LEMMA EndKeeps ==
    ASSUME ProviderOk, UNCHANGED <<dialect, endpoint>>, EndOfSource
    PROVE  ProviderOk'
BY DEF EndOfSource, ProviderOk

-----------------------------------------------------------------------------
(* The routes that end in a chat stream, or in one made of it. *)

\* What the adapter hands on is another part of the answer, or its end.
ChatFeeder(t) ==
  /\ FeedsTo(adapter, t, dialect, source, sent, stop)
  /\ IF dialect = "anthropic" THEN AdapterTells(adapter, source, sent) ELSE adapter = [buffer |-> adapter.buffer]

\* The observers and the client have got the same part of the answer.
ChatTeller(t) ==
  /\ t \in Told /\ ObserverTold(observed, t)
  /\ IF endpoint = "chat" THEN ChatTold(client, t) ELSE \E d : MessagesTold(client, messages, d, t)

ChatInv == \E t : ChatTeller(t) /\ ChatFeeder(t)

LEMMA FeedsWhenRead ==
    ASSUME NEW sc, NEW t, NEW d, NEW src, NEW s, NEW st, FeedsTo(sc, t, d, src, s, st), sc.buffer = <<>>
    PROVE  Tells(t, d, src, s, st)
<1>1. \A e : <<e>> # <<>>
  OBVIOUS
<1> QED BY <1>1 DEF FeedsTo

LEMMA AnthropicFeeds ==
    ASSUME ProviderOk, dialect = "anthropic", endpoint # "responses", NEW t, ChatFeeder(t),
           UNCHANGED <<dialect, endpoint>>, Anthropic
    PROVE  ChatFeeder(t)'
<1> DEFINE Fine == AdapterTells(adapter', source', sent') /\ FeedsTo(adapter', t, "anthropic", source', sent', stop')
<1>1. Fine => ChatFeeder(t)'
  BY DEF ChatFeeder
<1>2. ASSUME NEW e, Feed(e)
      PROVE  /\ adapter' = ChatFromAnthropic(adapter, e) /\ adapter.buffer = <<>>
             /\ Tells(t, "anthropic", source, sent, stop) /\ AdapterTells(adapter, source, sent)
  <2>1. adapter' = ChatFromAnthropic(adapter, e) /\ adapter.buffer = <<>>
    BY <1>2 DEF Feed, AllRead, Adapted
  <2> QED BY <2>1, FeedsWhenRead DEF ChatFeeder
<1>3. CASE AnthropicStart
  <2>1. PICK e : e = [type |-> "message_start", usage |-> [input |-> 3, output |-> 1]]
    OBVIOUS
  <2>2. Feed(e) /\ source = "fresh" /\ source' = "blocks" /\ sent' = sent /\ stop' = stop /\ sent = <<>> /\ stop = Unset
    BY <1>3, <2>1 DEF AnthropicStart, ProviderOk
  <2>3. /\ AdapterTells(ChatFromAnthropic(adapter, e), "blocks", <<>>)
        /\ FeedsTo(ChatFromAnthropic(adapter, e), t, "anthropic", "blocks", <<>>, Unset)
    BY <1>2, <2>1, <2>2, AnthropicStartTells
  <2>4. Fine
    BY <1>2, <2>2, <2>3
  <2> QED BY <1>1, <2>4
<1>4. SentOk(sent, "anthropic") /\ (source = "blocks" => stop = Unset)
  BY DEF ProviderOk
<1>10. Open => source = "blocks" /\ OpenIn(sent)
  BY ReasonsAre DEF ProviderOk, Anthropic
<1>5. ASSUME NEW type \in {"thinking", "text"}, AnthropicBlockStart(type, <<>>) PROVE Fine
  <2>1. type \in BlockTypes /\ <<>> \in Bodies /\ <<>> # <<Empty>> /\ type # "tool"
    BY <1>4, PieceFacts DEF BlockTypes, ProviderOk
  <2>2. PICK id : /\ id = (IF type = "tool" THEN Len(sent) + 1 ELSE NoId)
                  /\ Opens(sent, sent', type, id, <<>>)
                  /\ Feed([type |-> "content_block_start", index |-> Len(sent), block |-> type, id |-> id, input |-> <<>>])
    BY <1>5, <2>1, BlockStarts
  <2>3. PICK e, r, s, sc : /\ r = sent' /\ s = sent /\ sc = adapter
              /\ e = [type |-> "content_block_start", index |-> Len(s), block |-> type, id |-> NoId, input |-> <<>>]
    OBVIOUS
  <2>4. Feed(e) /\ source = "blocks" /\ source' = source /\ stop' = stop /\ stop = Unset /\ id = NoId
    BY <1>4, <1>5, <2>1, <2>2, <2>3 DEF AnthropicBlockStart
  <2>5. /\ AdapterTells(sc, "blocks", s) /\ sc.buffer = <<>> /\ Tells(t, "anthropic", "blocks", s, Unset)
        /\ Opens(s, r, type, NoId, <<>>)
    BY <1>2, <2>2, <2>3, <2>4
  <2>6. /\ AdapterTells(ChatFromAnthropic(sc, e), "blocks", r)
        /\ FeedsTo(ChatFromAnthropic(sc, e), t, "anthropic", "blocks", r, Unset)
    BY <2>3, <2>5, BeginsText
  <2> QED BY <1>2, <2>3, <2>4, <2>6
<1>6. ASSUME NEW input \in {<<>>, <<Empty>>, Piece}, AnthropicBlockStart("tool", input) PROVE Fine
  <2>1. "tool" \in BlockTypes /\ input \in Bodies
    BY <1>4, PieceFacts DEF BlockTypes, ProviderOk
  <2>2. PICK id : /\ Opens(sent, sent', "tool", id, input)
                  /\ Feed([type |-> "content_block_start", index |-> Len(sent), block |-> "tool", id |-> id, input |-> input])
    BY <1>6, <2>1, BlockStarts
  <2>3. PICK e, r, s, sc : /\ r = sent' /\ s = sent /\ sc = adapter
              /\ e = [type |-> "content_block_start", index |-> Len(s), block |-> "tool", id |-> id, input |-> input]
    OBVIOUS
  <2>4. Feed(e) /\ source = "blocks" /\ source' = source /\ stop' = stop /\ stop = Unset /\ Len(s) < MaxBlocks
    BY <1>4, <1>6, <2>2, <2>3 DEF AnthropicBlockStart
  <2>5. /\ AdapterTells(sc, "blocks", s) /\ sc.buffer = <<>> /\ Tells(t, "anthropic", "blocks", s, Unset)
        /\ Opens(s, r, "tool", id, input)
    BY <1>2, <2>2, <2>3, <2>4
  <2>6. /\ AdapterTells(ChatFromAnthropic(sc, e), "blocks", r)
        /\ FeedsTo(ChatFromAnthropic(sc, e), t, "anthropic", "blocks", r, Unset)
    BY <2>1, <2>3, <2>4, <2>5, BeginsCall
  <2> QED BY <1>2, <2>3, <2>4, <2>6
<1>7. CASE AnthropicBlockDelta
  <2>1. PICK z, e, r, s, sc, piece :
           /\ r = sent' /\ s = sent /\ sc = adapter /\ z = Last(s) /\ piece = Piece
           /\ e = [type |-> "content_block_delta", index |-> Len(s) - 1, block |-> z.type, piece |-> piece]
    OBVIOUS
  <2>2. /\ OpenIn(s) /\ s # <<>> /\ z.open /\ source = "blocks" /\ source' = source /\ stop' = stop /\ stop = Unset
        /\ sent' = Continued(Piece) /\ Len(s) <= MaxBlocks
    BY <1>4, <1>7, <1>10, <2>1 DEF AnthropicBlockDelta, OpenIn, SentOk
  <2>3. /\ piece \in Bodies /\ piece # <<>> /\ Continues(z, piece) # <<Empty>>
        /\ Turns("anthropic", s, r, z, Continues(z, piece), z.open)
    BY <1>4, <2>1, <2>2, BlockContinues
  <2>4. Last(r).type = z.type /\ z.type \in BlockTypes
    BY <2>3 DEF Turns
  <2>5. Feed(e)
    BY <1>7, <2>1, <2>4 DEF AnthropicBlockDelta
  <2>6. AdapterTells(sc, "blocks", s) /\ sc.buffer = <<>> /\ Tells(t, "anthropic", "blocks", s, Unset)
    BY <1>2, <2>1, <2>2, <2>5
  <2>7. /\ AdapterTells(ChatFromAnthropic(sc, e), "blocks", r)
        /\ FeedsTo(ChatFromAnthropic(sc, e), t, "anthropic", "blocks", r, Unset)
    <3>1. CASE z.type = "tool"
      BY <2>1, <2>2, <2>3, <2>6, <3>1, DeltasCall
    <3>2. CASE z.type # "tool"
      <4>1. PICK type \in {"thinking", "text"} : type = z.type
        BY <2>4, <3>2 DEF BlockTypes
      <4>2. OpenIn(s) /\ z.open /\ piece \in Bodies /\ piece # <<>>
            /\ e = [type |-> "content_block_delta", index |-> Len(s) - 1, block |-> type, piece |-> piece]
        BY <2>1, <2>2, <2>3, <4>1
      <4> QED BY <2>3, <2>6, <4>1, <4>2, DeltasText
    <3> QED BY <3>1, <3>2
  <2>8. Fine
    BY <1>2, <2>1, <2>2, <2>5, <2>7
  <2> QED BY <1>1, <2>8
<1>8. CASE AnthropicBlockStop
  <2>1. PICK z, e, r, s, sc :
           /\ r = sent' /\ s = sent /\ sc = adapter /\ z = Last(s)
           /\ e = [type |-> "content_block_stop", index |-> Len(s) - 1]
    OBVIOUS
  <2>2. /\ OpenIn(s) /\ s # <<>> /\ z.open /\ source = "blocks" /\ source' = source /\ stop' = stop /\ stop = Unset
        /\ r = [s EXCEPT ![Len(s)].open = FALSE] /\ Len(s) <= MaxBlocks /\ Feed(e)
    BY <1>4, <1>8, <1>10, <2>1 DEF AnthropicBlockStop, OpenIn, SentOk
  <2>3. Turns("anthropic", s, r, z, z.body, FALSE)
    BY <1>4, <2>1, <2>2, SentStops
  <2>4. AdapterTells(sc, "blocks", s) /\ sc.buffer = <<>> /\ Tells(t, "anthropic", "blocks", s, Unset)
    BY <1>2, <2>1, <2>2
  <2>5. /\ AdapterTells(ChatFromAnthropic(sc, e), "blocks", r)
        /\ FeedsTo(ChatFromAnthropic(sc, e), t, "anthropic", "blocks", r, Unset)
    BY <2>1, <2>2, <2>3, <2>4, StopsBlock
  <2>6. Fine
    BY <1>2, <2>1, <2>2, <2>5
  <2> QED BY <1>1, <2>6
<1>9. ASSUME NEW reason \in Reasons, AnthropicStop(reason) PROVE Fine
  <2>1. PICK e, s, sc :
           /\ s = sent /\ sc = adapter
           /\ e = [type |-> "message_delta", stop |-> reason, usage |-> [input |-> 0, output |-> 2]]
    OBVIOUS
  <2>2. /\ ~OpenIn(s) /\ source = "blocks" /\ source' = "done" /\ stop' = reason /\ stop = Unset /\ sent' = s
        /\ Feed(e) /\ reason \in ReasonsOf(AnswerOf(s))
    BY <1>4, <1>9, <2>1, ReasonsAre DEF AnthropicStop
  <2>3. AdapterTells(sc, "blocks", s) /\ sc.buffer = <<>> /\ Tells(t, "anthropic", "blocks", s, Unset)
    BY <1>2, <2>1, <2>2
  <2>4. AnswerOf(s) \in Answers
    BY <1>4, <2>1, AnswerFacts DEF SentOk
  <2>5. /\ AdapterTells(ChatFromAnthropic(sc, e), "done", s)
        /\ FeedsTo(ChatFromAnthropic(sc, e), t, "anthropic", "done", s, reason)
    BY <2>1, <2>2, <2>3, <2>4, StopsMessage
  <2> QED BY <1>2, <2>1, <2>2, <2>5
<1> HIDE DEF Fine
<1> QED BY <1>1, <1>3, <1>5, <1>6, <1>7, <1>8, <1>9 DEF Anthropic

LEMMA OpenAIFeeds ==
    ASSUME ProviderOk, dialect = "openai", endpoint = "messages", NEW t, ChatFeeder(t),
           UNCHANGED <<dialect, endpoint>>, OpenAI
    PROVE  ChatFeeder(t)'
<1>1. PICK x : OpenAISends(x, source', sent', stop')
  BY OpenAIKeeps
<1>2. Feed(x)
  BY <1>1 DEF OpenAISends
<1>3. adapter.buffer = <<>> /\ adapter = [buffer |-> <<>>] /\ adapter' = emit(adapter, x)
  BY <1>2 DEF Feed, AllRead, Adapted, ChatFeeder
<1>4. adapter' = Chunk(x)
  BY <1>3, ChunkFed
<1>5. Tells(t, "openai", source, sent, stop)
  BY <1>3, FeedsWhenRead DEF ChatFeeder
<1>6. FeedsTo(Chunk(x), t, "openai", source', sent', stop')
  BY <1>1, <1>5 DEF OpenAISends
<1>7. Chunk(x) = [buffer |-> Chunk(x).buffer]
  BY DEF Chunk
<1> QED BY <1>4, <1>6, <1>7 DEF ChatFeeder

LEMMA EndFeeds ==
    ASSUME ProviderOk, endpoint # "responses", NEW t, ChatFeeder(t),
           UNCHANGED <<dialect, endpoint>>, EndOfSource
    PROVE  ChatFeeder(t)'
<1>1. PICK e : e = [type |-> "EOF"]
  OBVIOUS
<1>2. /\ Feed(e) /\ sent' = sent /\ stop' = stop /\ source \notin {"ended", "cut"}
      /\ source' = IF source = "done" THEN "ended" ELSE "cut"
  BY <1>1 DEF EndOfSource
<1>3. adapter.buffer = <<>>
  BY <1>2 DEF Feed, AllRead
<1>4. Tells(t, dialect, source, sent, stop)
  BY <1>3, FeedsWhenRead DEF ChatFeeder
<1>5. CASE dialect = "anthropic"
  <2>1. PICK s, sc, src, srd : s = sent /\ sc = adapter /\ src = source /\ srd = source'
    OBVIOUS
  <2>2. adapter' = ChatFromAnthropic(sc, e)
    BY <1>2, <1>5, <2>1 DEF Feed, Adapted
  <2>3. /\ AdapterTells(sc, src, s) /\ sc.buffer = <<>> /\ Tells(t, "anthropic", src, s, stop)
        /\ ~EndsAt("anthropic", src) /\ srd = IF src = "done" THEN "ended" ELSE "cut"
    BY <1>2, <1>3, <1>4, <1>5, <2>1 DEF ChatFeeder, EndsAt
  <2>4. /\ AdapterTells(ChatFromAnthropic(sc, e), srd, s)
        /\ FeedsTo(ChatFromAnthropic(sc, e), t, "anthropic", srd, s, stop)
    BY <1>1, <2>3, AdapterEnds
  <2> QED BY <1>2, <1>5, <2>1, <2>2, <2>4 DEF ChatFeeder
<1>6. CASE dialect # "anthropic"
  <2>1. dialect = "openai"
    BY <1>6, RouteFacts DEF ProviderOk
  <2>2. adapter = [buffer |-> <<>>] /\ adapter' = emit(adapter, e)
    BY <1>2, <1>3, <1>6 DEF Feed, Adapted, ChatFeeder
  <2>3. adapter' = Chunk(e)
    BY <2>2, ChunkFed
  <2>4. FeedsTo(Chunk(e), t, "openai", source', sent, stop)
    BY <1>1, <1>2, <1>4, <2>1, OpenAIEnds
  <2>5. Chunk(e) = [buffer |-> Chunk(e).buffer]
    BY DEF Chunk
  <2> QED BY <1>2, <1>6, <2>1, <2>3, <2>4, <2>5 DEF ChatFeeder
<1> QED BY <1>5, <1>6

-----------------------------------------------------------------------------
(* What passes the observers, and reaches the client. *)

LEMMA SaysFacts ==
    ASSUME NEW e, NEW t \in Told, NEW u \in Told, Says(e, t, u)
    PROVE  /\ IsPrefix(t.answer.text, u.answer.text)
           /\ t.ended => u.ended /\ u.answer = t.answer /\ u.usage = t.usage /\ u.stop = t.stop
<1>1. PICK a \in Answers : a = t.answer
  BY DEF Told
<1>2. PICK b \in Answers : b = u.answer
  BY DEF Told
<1>3. a.text \in Bodies /\ b.text \in Bodies
  BY DEF Answers
<1>4. CASE SaysEnd(e, t, u)
  BY <1>1, <1>2, <1>3, <1>4, PrefixSelf DEF SaysEnd
<1>5. CASE SaysChunk(e, t, u)
  <2>1. ~t.ended /\ ChunkSays(e, a, b) /\ e \in Chunks
    BY <1>1, <1>2, <1>5 DEF SaysChunk
  <2>2. e.reasoning \in Bodies /\ e.content \in Bodies
    BY <2>1 DEF Chunks
  <2>3. IsPrefix(a.text, b.text)
    <3>1. CASE SaysNothing(e, a, b)
      BY <1>3, <3>1, PrefixSelf DEF SaysNothing
    <3>2. CASE SaysThought(e, a, b)
      <4>1. PICK id \in Nat : id = NoId
        BY DEF NoId
      <4>2. b = Said(a, Block("thinking", id, e.reasoning))
        BY <3>2, <4>1 DEF SaysThought
      <4>3. b.text = a.text
        BY <2>2, <4>2, SaidThought
      <4> QED BY <1>3, <4>3, PrefixSelf
    <3>3. CASE SaysText(e, a, b)
      <4>1. PICK id \in Nat : id = NoId
        BY DEF NoId
      <4>2. b = Said(a, Block("text", id, e.content))
        BY <3>3, <4>1 DEF SaysText
      <4>3. b.text = a.text \o e.content
        BY <2>2, <4>2, SaidText
      <4> QED BY <1>3, <2>2, <4>3, PrefixCat
    <3>4. CASE SaysCall(e, a, b)
      <4>1. PICK id \in Nat \ {NoId}, arguments \in Bodies : b = Said(a, Block("tool", id, arguments))
        BY <3>4 DEF SaysCall
      <4>2. b.text = a.text
        BY <4>1, SaidTool
      <4> QED BY <1>3, <4>2, PrefixSelf
    <3>5. CASE SaysMore(e, a, b)
      <4>1. PICK arguments \in Bodies : b = Further(a, arguments)
        BY <3>5 DEF SaysMore
      <4>2. b.text = a.text
        BY <4>1 DEF Further
      <4> QED BY <1>3, <4>2, PrefixSelf
    <3> QED BY <2>1, <3>1, <3>2, <3>3, <3>4, <3>5 DEF ChunkSays
  <2> QED BY <1>1, <1>2, <2>1, <2>3
<1> QED BY <1>4, <1>5 DEF Says

LEMMA HeldText ==
    ASSUME NEW d, NEW s, SentOk(s, d)
    PROVE  /\ ToldOf(s) \in Answers /\ AnswerOf(s) \in Answers /\ ToldOf(s).text = AnswerOf(s).text
           /\ ~OpenIn(s) => ToldOf(s) = AnswerOf(s)
<1>1. AnswerOf(s) \in Answers
  BY AnswerFacts DEF SentOk
<1>2. CASE ~HeldIn(s)
  BY <1>1, <1>2 DEF ToldOf
<1>3. CASE HeldIn(s)
  <2>1. PICK z : z = Last(s)
    OBVIOUS
  <2>2. s # <<>> /\ z.type = "tool" /\ OpenIn(s)
    BY <1>3, <2>1 DEF HeldIn, OpenIn
  <2>3. Turns(d, s, [s EXCEPT ![Len(s)].open = FALSE], z, z.body, FALSE)
    BY <2>1, <2>2, SentStops
  <2>4. /\ z.id \in Nat /\ z.body \in Bodies /\ AnswerOf(Front(s)) \in Answers
        /\ AnswerOf(s) = Said(AnswerOf(Front(s)), Block(z.type, z.id, z.body))
    BY <2>3 DEF Turns
  <2>5. Said(AnswerOf(Front(s)), Block("tool", z.id, z.body)).text = AnswerOf(Front(s)).text
    BY <2>4, SaidTool
  <2> QED BY <1>1, <1>3, <2>2, <2>4, <2>5 DEF ToldOf
<1> QED BY <1>2, <1>3

\* What is told of an answer is the beginning of it, and all of it at the end.
SoFar(t, s, src, st) ==
  /\ t \in Told /\ AnswerOf(s) \in Answers /\ IsPrefix(t.answer.text, AnswerOf(s).text)
  /\ t.ended /\ src # "cut" => /\ t.answer = AnswerOf(s) /\ t.usage = Total
                               /\ t.stop = IF st = Unset THEN Unset ELSE Finish[st]

LEMMA TellsSoFar ==
    ASSUME NEW t, NEW d, NEW src, NEW s, NEW st, Tells(t, d, src, s, st), SentOk(s, d),
           OpenIn(s) => src \in {"blocks", "cut"}
    PROVE  SoFar(t, s, src, st)
<1>1. /\ t \in Told /\ t.answer = ToldOf(s) /\ t.stop = (IF st = Unset THEN Unset ELSE Finish[st])
      /\ (t.ended <=> EndsAt(d, src)) /\ (Counted(src) => t.usage = Total)
  BY DEF Tells
<1>2. ToldOf(s).text = AnswerOf(s).text /\ AnswerOf(s) \in Answers /\ (~OpenIn(s) => ToldOf(s) = AnswerOf(s))
  BY HeldText
<1>3. IsPrefix(t.answer.text, AnswerOf(s).text)
  <2>1. AnswerOf(s).text \in Bodies
    BY <1>2 DEF Answers
  <2> QED BY <1>1, <1>2, <2>1, PrefixSelf
<1>4. t.ended /\ src # "cut" => ~OpenIn(s) /\ Counted(src)
  BY <1>1 DEF EndsAt, Counted
<1> QED BY <1>1, <1>2, <1>3, <1>4 DEF SoFar

LEMMA FeedsSoFar ==
    ASSUME NEW sd, NEW t \in Told, NEW d, NEW src, NEW s, NEW st, FeedsTo(sd, t, d, src, s, st), SentOk(s, d),
           OpenIn(s) => src \in {"blocks", "cut"}
    PROVE  SoFar(t, s, src, st)
<1>1. CASE Tells(t, d, src, s, st)
  BY <1>1, TellsSoFar
<1>2. ASSUME NEW e, NEW u \in Told, Says(e, t, u), Tells(u, d, src, s, st) PROVE SoFar(t, s, src, st)
  <2>1. SoFar(u, s, src, st)
    BY <1>2, TellsSoFar
  <2>2. /\ IsPrefix(t.answer.text, u.answer.text)
        /\ t.ended => u.ended /\ u.answer = t.answer /\ u.usage = t.usage /\ u.stop = t.stop
    BY <1>2, SaysFacts
  <2>3. t.answer.text \in Bodies /\ u.answer.text \in Bodies /\ AnswerOf(s).text \in Bodies
    BY <2>1 DEF SoFar, Told, Answers
  <2>4. IsPrefix(t.answer.text, AnswerOf(s).text)
    BY <2>1, <2>2, <2>3, PrefixTrans DEF SoFar
  <2> QED BY <2>1, <2>2, <2>4 DEF SoFar
<1> QED BY <1>1, <1>2 DEF FeedsTo

\* The next event of the adapter, and what it says.
LEMMA PassFeeds ==
    ASSUME ProviderOk, NEW t, t \in Told, ChatFeeder(t), ObserverTold(observed, t), Pass
    PROVE  \E e, u : /\ u \in Told /\ Says(e, t, u) /\ Head(adapter.buffer) = e
                     /\ e = [type |-> "EOF"] => dialect = "openai"
                     /\ ObserverTold(observed', u) /\ ChatFeeder(u)'
<1>1. PICK e, u : /\ adapter.buffer = <<e>> /\ u \in Told /\ Says(e, t, u) /\ Tells(u, dialect, source, sent, stop)
                  /\ e = [type |-> "EOF"] => dialect = "openai"
  BY DEF Pass, ChatFeeder, FeedsTo
<1>2. Head(adapter.buffer) = e /\ Tail(adapter.buffer) = <<>>
  BY <1>1
<1>3. /\ observed' = Observe(observed, e) /\ adapter' = [adapter EXCEPT !.buffer = <<>>]
      /\ UNCHANGED <<dialect, endpoint, source, sent, stop>>
  BY <1>2 DEF Pass, provider
<1>4. ObserverTold(observed', u)
  BY <1>1, <1>3, ObserverSays
<1>5. PICK sc, sd : sc = adapter /\ sd = [sc EXCEPT !.buffer = <<>>]
  OBVIOUS
<1>6. sd.buffer = <<>> /\ IF dialect = "anthropic" THEN AdapterTells(sd, source, sent) ELSE sd = [buffer |-> sd.buffer]
  <2>1. CASE dialect = "anthropic"
    <3>1. AdapterTells(sc, source, sent) /\ sc \in Adapters(sc.buffer)
      BY <1>5, <2>1 DEF ChatFeeder, AdapterTells
    <3>2. /\ sd \in Adapters(<<>>) /\ sd.buffer = <<>> /\ sd.calls = sc.calls /\ sd.next = sc.next
          /\ sd.thinking = sc.thinking /\ sd.usage = sc.usage /\ sd.emittedToolCalls = sc.emittedToolCalls
      BY <1>5, <3>1 DEF Adapters
    <3>3. AdapterTells(sd, source, sent)
      BY <3>1, <3>2 DEF AdapterTells
    <3> QED BY <2>1, <3>2, <3>3
  <2>2. CASE dialect # "anthropic"
    <3>1. sc = [buffer |-> sc.buffer]
      BY <1>5, <2>2 DEF ChatFeeder
    <3>2. sd = [buffer |-> <<>>]
      BY <1>5, <3>1
    <3> QED BY <2>2, <3>2
  <2> QED BY <2>1, <2>2
<1>7. FeedsTo(sd, u, dialect, source, sent, stop)
  BY <1>1, <1>6 DEF FeedsTo
<1>8. ChatFeeder(u)'
  BY <1>3, <1>5, <1>6, <1>7 DEF ChatFeeder
<1> QED BY <1>1, <1>2, <1>4, <1>8

LEMMA SaidTypes ==
    ASSUME NEW e, NEW t, NEW u, Says(e, t, u), e # [type |-> "EOF"]
    PROVE  e.type # "EOF"
<1>1. CASE e \in Chunks
  BY <1>1 DEF Chunks
<1>2. CASE e = Done
  BY <1>2 DEF Done
<1> QED BY <1>1, <1>2 DEF Says, SaysChunk, SaysEnd

LEMMA ChatPasses ==
    ASSUME ProviderOk, endpoint # "responses", NEW t, ChatTeller(t), ChatFeeder(t), Pass
    PROVE  \E u \in Told : /\ ObserverTold(observed', u) /\ ChatFeeder(u)' /\ (t.ended => u.ended)
                           /\ pipe' = "open" => ChatTeller(u)'
                           /\ endpoint = "messages" => pipe' = pipe /\ client' = client
                           /\ pipe' # "open" => client' = client
<1>1. t \in Told /\ ObserverTold(observed, t)
  BY DEF ChatTeller
<1>2. PICK e, u : /\ u \in Told /\ Says(e, t, u) /\ Head(adapter.buffer) = e
                  /\ e = [type |-> "EOF"] => dialect = "openai"
                  /\ ObserverTold(observed', u) /\ ChatFeeder(u)'
  BY <1>1, PassFeeds
<1>3. t.ended => u.ended
  BY <1>1, <1>2, SaysFacts
<1>4. endpoint' = endpoint /\ pipe = "open"
  BY DEF Pass
<1>5. CASE endpoint = "messages"
  <2>1. messages' = MessagesFromChat(messages, e) /\ client' = client /\ pipe' = pipe
    BY <1>2, <1>5 DEF Pass
  <2>2. PICK d : MessagesTold(client, messages, d, t)
    BY <1>5 DEF ChatTeller
  <2>3. \E g : MessagesTold(client, MessagesFromChat(messages, e), g, u)
    BY <1>1, <1>2, <2>2, MessagesSays
  <2>4. \E g : MessagesTold(client', messages', g, u)
    BY <2>1, <2>3
  <2>5. ChatTeller(u)'
    BY <1>2, <1>4, <1>5, <2>4 DEF ChatTeller
  <2> QED BY <1>2, <1>3, <2>1, <2>5
<1>6. CASE endpoint = "chat"
  <2>1. dialect = "anthropic"
    BY <1>6, RouteFacts DEF ProviderOk
  <2>2. e.type # "EOF"
    BY <1>2, <2>1, SaidTypes
  <2>3. Deliver(e)
    BY <1>2, <1>6 DEF Pass
  <2>4. CASE client' = Reads(client, e) /\ UNCHANGED pipe
    <3>1. client' = ChatRead(client, e)
      BY <1>6, <2>4 DEF Reads
    <3>2. ChatTold(client, t)
      BY <1>6 DEF ChatTeller
    <3>3. ChatTold(ChatRead(client, e), u)
      BY <1>1, <1>2, <2>2, <3>2, ChatSays
    <3>4. ChatTeller(u)'
      BY <1>2, <1>4, <1>6, <3>1, <3>3 DEF ChatTeller
    <3> QED BY <1>2, <1>3, <1>4, <1>6, <2>4, <3>4
  <2>5. CASE pipe' = "gone" /\ UNCHANGED client
    BY <1>2, <1>3, <1>6, <2>5
  <2> QED BY <2>3, <2>4, <2>5 DEF Deliver
<1>7. endpoint = "messages" \/ endpoint = "chat"
  BY RouteFacts DEF ProviderOk
<1> QED BY <1>5, <1>6, <1>7

\* The client reads on in what the converter has written.
LEMMA MessagesRead1 ==
    ASSUME NEW c, NEW sc, NEW d, NEW t, MessagesTold(c, sc, d, t), sc.buffer # <<>>
    PROVE  MessagesTold(MessagesRead(c, Head(sc.buffer)), [sc EXCEPT !.buffer = Tail(@)], d, t)
<1>1. sc \in Converters /\ Reaches(c, sc.buffer, d) /\ ~sc.closed
  BY DEF MessagesTold
<1>2. PICK p, rest : p = MessagesRead(c, Head(sc.buffer)) /\ rest = Tail(sc.buffer)
  OBVIOUS
<1>3. Reaches(p, rest, d)
  BY <1>1, <1>2, ReachesFirst
<1>4. rest \in Seq(MessageEvents)
  BY <1>3 DEF Reaches
<1>5. PICK sd : sd = [sc EXCEPT !.buffer = rest]
  OBVIOUS
<1> HIDE DEF MessageEvents
<1>6. Emitted(sc, sd) /\ sd.buffer = rest
  BY <1>1, <1>4, <1>5 DEF Emitted, Converters
<1>7. /\ sd \in Converters /\ sd.started = sc.started /\ sd.blockOpen = sc.blockOpen
      /\ sd.blockType = sc.blockType /\ sd.curIndex = sc.curIndex /\ sd.nextIndex = sc.nextIndex
      /\ sd.toolBlock = sc.toolBlock /\ sd.stopReason = sc.stopReason /\ sd.usage = sc.usage
      /\ sd.finalized = sc.finalized /\ sd.closed = sc.closed
  BY <1>6 DEF Emitted
<1>8. Writes(c, sc, d) => Writes(p, sd, d)
  BY <1>3, <1>6, <1>7 DEF Writes
<1>9. MessagesTold(p, sd, d, t)
  BY <1>1, <1>3, <1>6, <1>7, <1>8 DEF MessagesTold
<1> QED BY <1>2, <1>5, <1>9

LEMMA ChatWrites ==
    ASSUME ProviderOk, endpoint = "messages", NEW t, ChatTeller(t), ChatFeeder(t), Write
    PROVE  ChatFeeder(t)' /\ (pipe' = "open" => ChatTeller(t)')
<1>1. UNCHANGED <<dialect, endpoint, source, sent, stop, adapter, observed>>
  BY DEF Write, provider
<1>2. ChatFeeder(t)'
  BY <1>1 DEF ChatFeeder
<1>3. ASSUME pipe' = "open" PROVE ChatTeller(t)'
  <2>1. client' = MessagesRead(client, Head(messages.buffer)) /\ messages' = [messages EXCEPT !.buffer = Tail(@)]
        /\ messages.buffer # <<>>
    BY <1>3 DEF Write, Deliver, Reads
  <2>2. PICK d : MessagesTold(client, messages, d, t)
    BY DEF ChatTeller
  <2>3. MessagesTold(client', messages', d, t)
    BY <2>1, <2>2, MessagesRead1
  <2> QED BY <1>1, <2>3 DEF ChatTeller
<1> QED BY <1>2, <1>3

-----------------------------------------------------------------------------
(* The invariant of the chat and the messages routes. *)

\* What the observers have seen, also when the client has left.
ChatSeen ==
  \E u \in Told : ObserverTold(observed, u) /\ ChatFeeder(u) /\ (client.ended => u.ended)

ChatHolds ==
  IF pipe = "open" THEN ChatInv ELSE ChatSeen /\ StreamWellFormed /\ AnswerArrives

LEMMA ChatEnds ==
    ASSUME NEW t, ChatTeller(t)
    PROVE  /\ t \in Told /\ client \in Clients /\ ~client.broken /\ IsPrefix(client.text, t.answer.text)
           /\ client.ended =>
                /\ t.ended /\ client.blocks = t.answer.shown /\ client.usage = t.usage
                /\ client.stop = IF endpoint = "chat" THEN t.stop
                                 ELSE IF t.stop = Unset THEN "end_turn"
                                 ELSE stopReasonFromFinish(t.stop, t.answer.calls # <<>>)
<1>1. t \in Told /\ t.answer \in Answers /\ t.answer.text \in Bodies
  BY DEF ChatTeller, Told, Answers
<1>2. CASE endpoint = "chat"
  <2>1. ChatTold(client, t)
    BY <1>2 DEF ChatTeller
  <2> QED BY <1>1, <1>2, <2>1, PrefixSelf DEF ChatTold
<1>3. CASE endpoint # "chat"
  <2>1. PICK d : MessagesTold(client, messages, d, t)
    BY <1>3 DEF ChatTeller
  <2>2. Reaches(client, messages.buffer, d) /\ d.blocks = t.answer.shown /\ d.text = t.answer.text
    BY <2>1 DEF MessagesTold
  <2>3. /\ client \in Clients /\ ~client.broken /\ IsPrefix(client.text, d.text)
        /\ messages.buffer = <<>> => client = d
        /\ messages.buffer # <<>> => ~client.ended
    BY <2>2, ReachesFirst
  <2>4. ASSUME client.ended PROVE t.ended /\ client = d
    <3>1. client = d
      BY <2>3, <2>4
    <3>2. CASE ~t.ended
      <4>1. Writes(client, messages, d)
        BY <2>1, <3>2 DEF MessagesTold
      <4> QED BY <2>4, <3>1, <4>1 DEF Writes
    <3> QED BY <3>1, <3>2
  <2>5. t.ended => /\ d.usage = t.usage
                   /\ d.stop = IF t.stop = Unset THEN "end_turn"
                               ELSE stopReasonFromFinish(t.stop, t.answer.calls # <<>>)
    BY <2>1 DEF MessagesTold
  <2> QED BY <1>1, <1>3, <2>2, <2>3, <2>4, <2>5
<1> QED BY <1>2, <1>3

\* The stop reason comes back as it was sent.
LEMMA StopComesBack ==
    ASSUME NEW st \in StopReasons, NEW called \in BOOLEAN, st = "tool_use" => called
    PROVE  stopReasonFromFinish(Finish[st], called) = IF called THEN "tool_use" ELSE st
BY DEF StopReasons, Finish, stopReasonFromFinish

LEMMA ChatHoldsOpen ==
    ASSUME ProviderOk, endpoint # "responses", ChatInv
    PROVE  ChatSeen /\ StreamWellFormed /\ AnswerArrives
<1>1. PICK t : ChatTeller(t) /\ ChatFeeder(t)
  BY DEF ChatInv
<1>2. t \in Told /\ ObserverTold(observed, t)
  BY <1>1 DEF ChatTeller
<1>3. /\ client \in Clients /\ ~client.broken /\ IsPrefix(client.text, t.answer.text)
      /\ client.ended =>
           /\ t.ended /\ client.blocks = t.answer.shown /\ client.usage = t.usage
           /\ client.stop = IF endpoint = "chat" THEN t.stop
                            ELSE IF t.stop = Unset THEN "end_turn"
                            ELSE stopReasonFromFinish(t.stop, t.answer.calls # <<>>)
  BY <1>1, ChatEnds
<1>4. FeedsTo(adapter, t, dialect, source, sent, stop) /\ SentOk(sent, dialect)
      /\ (OpenIn(sent) => source \in {"blocks", "cut"})
  BY <1>1 DEF ChatFeeder, ProviderOk
<1>5. SoFar(t, sent, source, stop)
  BY <1>2, <1>4, FeedsSoFar
<1>6. /\ AnswerOf(sent) \in Answers /\ IsPrefix(t.answer.text, AnswerOf(sent).text)
      /\ t.ended /\ source # "cut" => /\ t.answer = AnswerOf(sent) /\ t.usage = Total
                                      /\ t.stop = IF stop = Unset THEN Unset ELSE Finish[stop]
  BY <1>5 DEF SoFar
<1>7. ChatSeen
  BY <1>1, <1>2, <1>3 DEF ChatSeen
<1>8. StreamWellFormed
  <2>1. client.text \in Bodies /\ t.answer.text \in Bodies /\ AnswerOf(sent).text \in Bodies
    BY <1>2, <1>3, <1>6 DEF Clients, Told, Answers
  <2>2. IsPrefix(client.text, AnswerOf(sent).text)
    BY <1>3, <1>6, <2>1, PrefixTrans
  <2>3. EndsInOrder
    BY DEF EndsInOrder
  <2> QED BY <1>3, <2>2, <2>3 DEF StreamWellFormed, Answer
<1>9. AnswerArrives
  <2>1. ASSUME client.ended, stop # Unset, source # "cut"
        PROVE  /\ client.blocks = AnswerOf(sent).shown /\ client.usage = Total
               /\ endpoint = "chat" => client.stop = Finish[stop]
               /\ endpoint = "messages" =>
                    client.stop = IF AnswerOf(sent).calls # <<>> THEN "tool_use" ELSE stop
    <3>1. t.answer = AnswerOf(sent) /\ t.usage = Total /\ t.stop = Finish[stop]
      BY <1>3, <1>6, <2>1
    <3>2. stop \in StopReasons
      BY <2>1 DEF ProviderOk
    <3>3. Finish[stop] # Unset
      BY <3>2, FinishFacts
    <3>4. PICK called \in BOOLEAN : called = (AnswerOf(sent).calls # <<>>)
      OBVIOUS
    <3>5. stop = "tool_use" => called
      BY <3>4 DEF ProviderOk
    <3>6. stopReasonFromFinish(Finish[stop], called) = IF called THEN "tool_use" ELSE stop
      BY <3>2, <3>5, StopComesBack
    <3>7. client.stop = IF endpoint = "chat" THEN Finish[stop] ELSE stopReasonFromFinish(Finish[stop], called)
      BY <1>3, <2>1, <3>1, <3>3, <3>4
    <3> QED BY <1>3, <2>1, <3>1, <3>4, <3>6, <3>7
  <2>2. endpoint \in {"chat", "messages"}
    BY RouteFacts DEF ProviderOk
  <2> QED BY <2>1, <2>2 DEF AnswerArrives, Whole, Answer
<1> QED BY <1>7, <1>8, <1>9

LEMMA ChatKept ==
    ASSUME ProviderOk, endpoint # "responses", ChatHolds
    PROVE  ChatSeen /\ StreamWellFormed /\ AnswerArrives
BY ChatHoldsOpen DEF ChatHolds

-----------------------------------------------------------------------------
(* What the observers have written. *)

\* The observers have the beginning of the text, and all they keep of an
\* answer that arrived whole.
ObserverKept ==
  /\ observed \in Seen /\ IsPrefix(observed.text, Answer.text)
  /\ Whole => /\ IF endpoint = "responses" THEN KeptOf(observed, Answer.text, <<>>, Len(Answer.text))
                 ELSE KeptOf(observed, Answer.text, Answer.calls, Answer.size)
              /\ observed.usage = Total
              /\ endpoint = "responses" => observed.completed

\* They have written at the end, and once.
Logged ==
  IF pipe # "closed" THEN log = [audit |-> <<>>, usage |-> <<>>, turns |-> <<>>]
  ELSE /\ log.audit = <<[text |-> observed.text, calls |-> observed.calls, truncated |-> observed.truncated]>>
       /\ log.usage = IF observed.usage = NoUsage THEN <<>> ELSE <<observed.usage>>
       /\ log.turns = IF endpoint = "responses" /\ observed.completed THEN <<observed.output>> ELSE <<>>

\* The converter for /v1/messages is closed at the end, and empty elsewhere.
Quiet ==
  /\ messages \in Converters
  /\ endpoint # "messages" => messages.buffer = <<>>
  /\ endpoint = "messages" /\ pipe # "closed" => ~messages.closed

LEMMA ChatObserver ==
    ASSUME ProviderOk, endpoint # "responses", ChatSeen
    PROVE  ObserverKept
<1>1. PICK u \in Told : ObserverTold(observed, u) /\ ChatFeeder(u) /\ (client.ended => u.ended)
  BY DEF ChatSeen
<1>2. KeptOf(observed, u.answer.text, u.answer.calls, u.answer.size) /\ observed.usage = u.usage
  BY <1>1 DEF ObserverTold
<1>3. SoFar(u, sent, source, stop)
  BY <1>1, FeedsSoFar DEF ChatFeeder, ProviderOk
<1>4. /\ AnswerOf(sent) \in Answers /\ IsPrefix(u.answer.text, AnswerOf(sent).text)
      /\ u.ended /\ source # "cut" => u.answer = AnswerOf(sent) /\ u.usage = Total
  BY <1>3 DEF SoFar
<1>5. observed \in Seen /\ IsPrefix(observed.text, u.answer.text)
  BY <1>2 DEF KeptOf
<1>6. observed.text \in Bodies /\ u.answer.text \in Bodies /\ AnswerOf(sent).text \in Bodies
  BY <1>4, <1>5 DEF Seen, Told, Answers
<1>7. IsPrefix(observed.text, AnswerOf(sent).text)
  BY <1>4, <1>5, <1>6, PrefixTrans
<1>8. ASSUME client.ended, source # "cut"
      PROVE  KeptOf(observed, AnswerOf(sent).text, AnswerOf(sent).calls, AnswerOf(sent).size)
             /\ observed.usage = Total
  BY <1>1, <1>2, <1>4, <1>8
<1> QED BY <1>5, <1>7, <1>8 DEF ObserverKept, Whole, Answer

LEMMA SamePieces ==
    ASSUME NEW o \in Seen, NEW entry, entry.text = o.text, entry.calls = o.calls
    PROVE  PiecesKept(entry) = PiecesKept(o)
<1>1. Len(o.text) \in Nat /\ \A k \in Nat : CallSize(o, k) \in Nat
  BY EntrySizes
<1>2. \A k \in Nat : CallSize(entry, k) = CallSize(o, k)
  BY DEF CallSize
<1>3. PICK m \in Nat : m = 0
  OBVIOUS
<1>4. LongerBy(o, entry, m, m, m)
  BY <1>1, <1>2, <1>3 DEF LongerBy
<1>5. PiecesKept(o) \in Nat /\ PiecesKept(entry) = PiecesKept(o) + m + m
  BY <1>3, <1>4, PiecesDiffer
<1> QED BY <1>3, <1>5

LEMMA RecordsFollow ==
    ASSUME Logged, ObserverKept
    PROVE  RecordedOnce
<1>1. CASE pipe # "closed"
  BY <1>1 DEF Logged, RecordedOnce
<1>2. CASE pipe = "closed"
  <2>1. PICK entry : entry = [text |-> observed.text, calls |-> observed.calls, truncated |-> observed.truncated]
    OBVIOUS
  <2>2. entry.text = observed.text /\ entry.calls = observed.calls /\ entry.truncated = observed.truncated
    BY <2>1
  <2>3. /\ log.audit = <<entry>>
        /\ log.usage = IF observed.usage = NoUsage THEN <<>> ELSE <<observed.usage>>
        /\ log.turns = IF endpoint = "responses" /\ observed.completed THEN <<observed.output>> ELSE <<>>
    BY <1>2, <2>1 DEF Logged
  <2>4. /\ Len(log.audit) = 1 /\ log.audit[1] = entry /\ Len(log.usage) <= 1 /\ Len(log.turns) <= 1
        /\ IsPrefix(log.audit[1].text, Answer.text)
    BY <2>2, <2>3 DEF ObserverKept
  <2>5. ASSUME NEW calls, NEW size, KeptOf(observed, Answer.text, calls, size), observed.usage = Total
        PROVE  /\ DOMAIN entry.calls = 0..(Len(calls) - 1)
               /\ \A k \in 1..Len(calls) : /\ entry.calls[k - 1].id = calls[k].id
                                           /\ IsPrefix(entry.calls[k - 1].body, calls[k].body)
               /\ PiecesKept(entry) = IF size <= MaxContentCapture THEN size ELSE MaxContentCapture
               /\ entry.truncated <=> size > MaxContentCapture
               /\ log.usage = <<Total>>
    <3>1. PiecesKept(entry) = PiecesKept(observed)
      BY <2>2, SamePieces DEF ObserverKept
    <3>2. log.usage = <<Total>>
      BY <2>3, <2>5, UsageFacts
    <3> QED BY <2>2, <2>5, <3>1, <3>2 DEF KeptOf
  <2>6. ASSUME Whole
        PROVE  LET size == IF endpoint = "responses" THEN Len(Answer.text) ELSE Answer.size
                   known == IF endpoint = "responses" THEN 0 ELSE Len(Answer.calls)
               IN /\ DOMAIN entry.calls = 0..(known - 1)
                  /\ \A k \in 1..known : /\ entry.calls[k - 1].id = Answer.calls[k].id
                                         /\ IsPrefix(entry.calls[k - 1].body, Answer.calls[k].body)
                  /\ PiecesKept(entry) = IF size <= MaxContentCapture THEN size ELSE MaxContentCapture
                  /\ entry.truncated <=> size > MaxContentCapture
                  /\ log.usage = <<Total>>
                  /\ Len(log.turns) = IF endpoint = "responses" THEN 1 ELSE 0
    <3>1. observed.usage = Total /\ (endpoint = "responses" => observed.completed)
      BY <2>6 DEF ObserverKept
    <3>2. Len(log.turns) = IF endpoint = "responses" THEN 1 ELSE 0
      BY <2>3, <3>1
    <3>3. CASE endpoint = "responses"
      <4>1. PICK none : none = <<>>
        OBVIOUS
      <4>2. KeptOf(observed, Answer.text, none, Len(Answer.text))
        BY <2>6, <3>3, <4>1 DEF ObserverKept
      <4>3. /\ DOMAIN entry.calls = 0..(Len(none) - 1)
            /\ PiecesKept(entry) = IF Len(Answer.text) <= MaxContentCapture THEN Len(Answer.text) ELSE MaxContentCapture
            /\ entry.truncated <=> Len(Answer.text) > MaxContentCapture
            /\ log.usage = <<Total>>
        BY <2>5, <3>1, <4>2
      <4>4. Len(none) = 0
        BY <4>1
      <4> QED BY <3>2, <3>3, <4>3, <4>4
    <3>4. CASE endpoint # "responses"
      <4>1. KeptOf(observed, Answer.text, Answer.calls, Answer.size)
        BY <2>6, <3>4 DEF ObserverKept
      <4>2. /\ DOMAIN entry.calls = 0..(Len(Answer.calls) - 1)
            /\ \A k \in 1..Len(Answer.calls) : /\ entry.calls[k - 1].id = Answer.calls[k].id
                                               /\ IsPrefix(entry.calls[k - 1].body, Answer.calls[k].body)
            /\ PiecesKept(entry) = IF Answer.size <= MaxContentCapture THEN Answer.size ELSE MaxContentCapture
            /\ entry.truncated <=> Answer.size > MaxContentCapture
            /\ log.usage = <<Total>>
        BY <2>5, <3>1, <4>1
      <4> QED BY <3>2, <3>4, <4>2
    <3> QED BY <3>3, <3>4
  <2> QED BY <1>2, <2>4, <2>6 DEF RecordedOnce
<1> QED BY <1>1, <1>2

-----------------------------------------------------------------------------
(* The steps. *)

LEMMA FedProvider ==
    ASSUME ProviderOk, UNCHANGED <<dialect, endpoint, provider>>
    PROVE  ProviderOk'
BY DEF ProviderOk, provider

LEMMA FedRest ==
    ASSUME NEW e, Feed(e)
    PROVE  pipe = "open" /\ UNCHANGED <<dialect, endpoint, messages, client, observed, log, pipe>>
BY DEF Feed, AllRead

LEMMA Sends ==
    ASSUME Anthropic \/ OpenAI \/ EndOfSource
    PROVE  pipe = "open" /\ UNCHANGED <<dialect, endpoint, messages, client, observed, log, pipe>>
<1>1. CASE Anthropic
  BY <1>1, FedRest DEF Anthropic, AnthropicStart, AnthropicBlockStart, AnthropicBlockDelta, AnthropicBlockStop,
     AnthropicStop
<1>2. CASE OpenAI
  BY <1>2, FedRest DEF OpenAI, OpenAIText, OpenAICall, OpenAIArguments, OpenAIStop, OpenAIEnd
<1>3. CASE EndOfSource
  BY <1>3, FedRest DEF EndOfSource
<1> QED BY <1>1, <1>2, <1>3

\* The provider keeps to its protocol.
LEMMA ProviderSteps ==
    ASSUME ProviderOk, StreamsNext
    PROVE  ProviderOk'
<1>1. CASE Anthropic
  BY <1>1, Sends, AnthropicKeeps DEF Anthropic
<1>2. CASE OpenAI
  BY <1>2, Sends, OpenAIKeeps DEF OpenAI
<1>3. CASE EndOfSource
  BY <1>3, Sends, EndKeeps
<1>4. CASE Pass \/ Write \/ ReadFails \/ CloseStream
  BY <1>4, FedProvider DEF Pass, Write, ReadFails, CloseStream
<1> QED BY <1>1, <1>2, <1>3, <1>4 DEF StreamsNext

\* What the provider sends reaches the observers and the client in turn.
LEMMA ChatSendSteps ==
    ASSUME ProviderOk, endpoint # "responses", ChatHolds, Anthropic \/ OpenAI \/ EndOfSource
    PROVE  ChatHolds'
<1>1. pipe = "open" /\ UNCHANGED <<dialect, endpoint, messages, client, observed, log, pipe>>
  BY Sends
<1>2. PICK t : ChatTeller(t) /\ ChatFeeder(t)
  BY <1>1 DEF ChatHolds, ChatInv
<1>3. ChatTeller(t)'
  BY <1>1, <1>2 DEF ChatTeller
<1>4. ChatFeeder(t)'
  <2>1. CASE Anthropic
    BY <1>1, <1>2, <2>1, AnthropicFeeds DEF Anthropic
  <2>2. CASE OpenAI
    BY <1>1, <1>2, <2>2, OpenAIFeeds, RouteFacts DEF OpenAI, ProviderOk
  <2>3. CASE EndOfSource
    BY <1>1, <1>2, <2>3, EndFeeds
  <2> QED BY <2>1, <2>2, <2>3
<1> QED BY <1>1, <1>3, <1>4 DEF ChatHolds, ChatInv

LEMMA ChatPassSteps ==
    ASSUME ProviderOk, endpoint # "responses", ChatHolds, Pass
    PROVE  ChatHolds'
<1>1. pipe = "open" /\ UNCHANGED <<dialect, endpoint, source, sent, stop>>
  BY DEF Pass, provider
<1>2. PICK t : ChatTeller(t) /\ ChatFeeder(t)
  BY <1>1 DEF ChatHolds, ChatInv
<1>3. PICK u \in Told : /\ ObserverTold(observed', u) /\ ChatFeeder(u)' /\ (t.ended => u.ended)
                        /\ pipe' = "open" => ChatTeller(u)'
                        /\ endpoint = "messages" => pipe' = pipe /\ client' = client
                        /\ pipe' # "open" => client' = client
  BY <1>2, ChatPasses
<1>4. CASE pipe' = "open"
  BY <1>3, <1>4 DEF ChatHolds, ChatInv
<1>5. CASE pipe' # "open"
  <2>1. client' = client
    BY <1>3, <1>5
  <2>2. client.ended => u.ended
    BY <1>2, <1>3, ChatEnds
  <2>3. ChatSeen'
    BY <1>3, <2>1, <2>2 DEF ChatSeen
  <2>4. StreamWellFormed /\ AnswerArrives
    BY ChatKept
  <2>5. (StreamWellFormed /\ AnswerArrives)'
    BY <1>1, <2>1, <2>4 DEF StreamWellFormed, EndsInOrder, AnswerArrives, Exempt, TextAfterCall, Whole, Answer
  <2> QED BY <1>5, <2>3, <2>5 DEF ChatHolds
<1> QED BY <1>4, <1>5

LEMMA ChatWriteSteps ==
    ASSUME ProviderOk, endpoint = "messages", ChatHolds, Write
    PROVE  ChatHolds'
<1>1. pipe = "open" /\ UNCHANGED <<dialect, endpoint, source, sent, stop, observed>>
  BY DEF Write, provider
<1>2. PICK t : ChatTeller(t) /\ ChatFeeder(t)
  BY <1>1 DEF ChatHolds, ChatInv
<1>3. ChatFeeder(t)' /\ (pipe' = "open" => ChatTeller(t)')
  BY <1>2, ChatWrites
<1>4. CASE pipe' = "open"
  BY <1>3, <1>4 DEF ChatHolds, ChatInv
<1>5. CASE pipe' # "open"
  <2>1. client' = client
    BY <1>1, <1>5 DEF Write, Deliver
  <2>2. t \in Told /\ ObserverTold(observed, t) /\ (client.ended => t.ended)
    BY <1>2, ChatEnds DEF ChatTeller
  <2>3. ChatSeen'
    BY <1>1, <1>3, <2>1, <2>2 DEF ChatSeen
  <2>4. StreamWellFormed /\ AnswerArrives
    BY ChatKept
  <2>5. (StreamWellFormed /\ AnswerArrives)'
    BY <1>1, <2>1, <2>4 DEF StreamWellFormed, EndsInOrder, AnswerArrives, Exempt, TextAfterCall, Whole, Answer
  <2> QED BY <1>5, <2>3, <2>5 DEF ChatHolds
<1> QED BY <1>4, <1>5

\* A failed read and Close change nothing of the answer.
LEMMA ChatCloseSteps ==
    ASSUME ProviderOk, endpoint # "responses", ChatHolds, ReadFails \/ CloseStream
    PROVE  ChatHolds'
<1>1. pipe' # "open" /\ UNCHANGED <<dialect, endpoint, source, sent, stop, adapter, client, observed>>
  BY DEF ReadFails, CloseStream, provider
<1>2. ChatSeen /\ StreamWellFormed /\ AnswerArrives
  BY ChatKept
<1>3. ChatSeen'
  BY <1>1, <1>2 DEF ChatSeen, ChatFeeder
<1>4. (StreamWellFormed /\ AnswerArrives)'
  BY <1>1, <1>2 DEF StreamWellFormed, EndsInOrder, AnswerArrives, Exempt, TextAfterCall, Whole, Answer
<1> QED BY <1>1, <1>3, <1>4 DEF ChatHolds

LEMMA ChatSame ==
    ASSUME ChatHolds, UNCHANGED streamVars
    PROVE  ChatHolds'
<1>1. UNCHANGED <<dialect, endpoint, source, sent, stop, adapter, messages, client, observed, pipe>>
  BY DEF streamVars, provider
<1>2. ChatSeen => ChatSeen'
  BY <1>1 DEF ChatSeen, ChatFeeder
<1>3. StreamWellFormed /\ AnswerArrives => (StreamWellFormed /\ AnswerArrives)'
  <2>1. EndsInOrder => EndsInOrder'
    BY <1>1 DEF EndsInOrder, CutBeforeStart, CutInCall, Open
  <2>2. StreamWellFormed => StreamWellFormed'
    BY <1>1, <2>1 DEF StreamWellFormed, Exempt, TextAfterCall, Answer
  <2>3. AnswerArrives => AnswerArrives'
    BY <1>1 DEF AnswerArrives, Exempt, TextAfterCall, Whole, Answer
  <2> QED BY <2>2, <2>3
<1>4. ChatInv => ChatInv'
  BY <1>1 DEF ChatInv, ChatTeller, ChatFeeder
<1> QED BY <1>1, <1>2, <1>3, <1>4 DEF ChatHolds

\* The observers write when the stream is closed.
LEMMA LogSteps ==
    ASSUME Quiet, Logged, StreamsNext
    PROVE  Logged'
<1>1. CASE Anthropic \/ OpenAI \/ EndOfSource
  BY <1>1, Sends DEF Logged
<1>2. CASE Pass \/ Write \/ ReadFails
  <2>1. pipe # "closed" /\ pipe' # "closed" /\ UNCHANGED log
    BY <1>2 DEF Pass, Write, ReadFails, Deliver, AllRead
  <2> QED BY <2>1 DEF Logged
<1>3. CASE CloseStream
  <2>1. pipe # "closed" /\ pipe' = "closed" /\ UNCHANGED <<endpoint, observed>>
    BY <1>3 DEF CloseStream, EndOfStream, AllRead
  <2>2. log' = OnStreamClose
    BY <1>3, <2>1 DEF CloseStream, Quiet
  <2>3. PICK none, l : none = <<>> /\ l = log /\ l = [audit |-> none, usage |-> none, turns |-> none]
    BY <2>1 DEF Logged
  <2>4. l.audit = none /\ l.usage = none /\ l.turns = none
    BY <2>3
  <2>5. PICK entry : entry = [text |-> observed.text, calls |-> observed.calls, truncated |-> observed.truncated]
    OBVIOUS
  <2>6. \A x : Append(none, x) = <<x>>
    BY <2>3
  <2>7. /\ log'.audit = <<entry>>
        /\ log'.usage = IF observed.usage = NoUsage THEN none ELSE <<observed.usage>>
        /\ log'.turns = IF endpoint = "responses" /\ observed.completed THEN <<observed.output>> ELSE none
    BY <2>2, <2>3, <2>4, <2>5, <2>6 DEF OnStreamClose
  <2> QED BY <2>1, <2>3, <2>5, <2>7 DEF Logged
<1> QED BY <1>1, <1>2, <1>3 DEF StreamsNext

LEMMA QuietSteps ==
    ASSUME ProviderOk, Quiet, endpoint # "responses" => ChatHolds, StreamsNext,
           endpoint # "responses" => ChatHolds'
    PROVE  Quiet'
<1>1. CASE Anthropic \/ OpenAI \/ EndOfSource \/ ReadFails
  <2>1. pipe # "closed" /\ UNCHANGED <<endpoint, messages>>
    BY <1>1, Sends DEF ReadFails, AllRead
  <2> QED BY <2>1 DEF Quiet
<1>2. CASE Pass
  <2>1. pipe = "open" /\ UNCHANGED endpoint
    BY <1>2 DEF Pass
  <2>2. CASE endpoint # "messages"
    BY <1>2, <2>1, <2>2 DEF Pass, Quiet
  <2>3. CASE endpoint = "messages"
    <3>1. pipe' = "open"
      BY <1>2, <2>1, <2>3 DEF Pass
    <3>2. PICK t : ChatTeller(t)'
      BY <2>3, <3>1 DEF ChatHolds, ChatInv
    <3>3. \E d : MessagesTold(client', messages', d, t)
      BY <2>1, <2>3, <3>2 DEF ChatTeller
    <3> QED BY <2>1, <2>3, <3>3 DEF Quiet, MessagesTold
  <2> QED BY <2>2, <2>3
<1>3. CASE Write
  <2>1. pipe = "open" /\ UNCHANGED endpoint /\ messages.buffer # <<>>
    BY <1>3 DEF Write
  <2>2. endpoint = "messages" /\ ~messages.closed /\ messages \in Converters
    BY <2>1 DEF Quiet
  <2>3. PICK sc, rest, sd : sc = messages /\ rest = Tail(sc.buffer) /\ sd = [sc EXCEPT !.buffer = rest]
    OBVIOUS
  <2>4. messages' = sd
    BY <1>3, <2>3 DEF Write
  <2> HIDE DEF MessageEvents
  <2>5. sc.buffer \in Seq(MessageEvents) /\ sc.buffer # <<>> /\ sc \in Converters /\ ~sc.closed
    BY <2>1, <2>2, <2>3 DEF Converters
  <2>6. rest \in Seq(MessageEvents)
    BY <2>3, <2>5
  <2>7. sd \in Converters /\ sd.closed = sc.closed
    BY <2>3, <2>5, <2>6 DEF Converters
  <2> QED BY <2>1, <2>2, <2>4, <2>5, <2>7 DEF Quiet
<1>4. CASE CloseStream
  <2>1. pipe' = "closed" /\ UNCHANGED endpoint /\ messages' = [messages EXCEPT !.closed = TRUE]
    BY <1>4 DEF CloseStream
  <2>2. PICK sc, o, sd : sc = messages /\ o \in BOOLEAN /\ o = TRUE /\ sd = [sc EXCEPT !.closed = o]
    OBVIOUS
  <2> HIDE DEF MessageEvents
  <2>3. sc \in Converters
    BY <2>2 DEF Quiet
  <2>4. sd \in Converters /\ sd.buffer = sc.buffer
    BY <2>2, <2>3 DEF Converters
  <2>5. messages' = sd
    BY <2>1, <2>2
  <2> QED BY <2>1, <2>2, <2>4, <2>5 DEF Quiet
<1> QED BY <1>1, <1>2, <1>3, <1>4 DEF StreamsNext

-----------------------------------------------------------------------------
(* The beginning. *)

LEMMA NothingTold ==
    \E t : /\ t = [answer |-> NothingSaid, stop |-> Unset, usage |-> NoUsage, ended |-> FALSE]
           /\ t \in Told /\ t.answer = NothingSaid /\ t.stop = Unset /\ t.usage = NoUsage /\ ~t.ended
           /\ NothingSaid \in Answers /\ NothingSaid.text = <<>> /\ NothingSaid.calls = <<>>
           /\ NothingSaid.shown = <<>> /\ NothingSaid.size = 0
<1>1. PICK none, a : none = <<>> /\ a = NothingSaid /\ a = [text |-> none, calls |-> none, shown |-> none, size |-> 0, pieces |-> 0]
  BY DEF NothingSaid
<1>2. none \in Bodies /\ none \in Seq(CallBodies) /\ none \in Seq(ShownBlocks)
  BY <1>1 DEF Bodies
<1>3. a \in Answers /\ a.text = none /\ a.calls = none /\ a.shown = none /\ a.size = 0
  BY <1>1, <1>2 DEF Answers
<1>4. PICK word, o : word = Unset /\ word \in Words /\ o \in BOOLEAN /\ o = FALSE
  BY DEF Words
<1>5. PICK t : t = [answer |-> a, stop |-> word, usage |-> NoUsage, ended |-> o]
  OBVIOUS
<1>6. t \in Told /\ t.answer = a /\ t.stop = word /\ t.usage = NoUsage /\ t.ended = o
  BY <1>3, <1>4, <1>5, UsageFacts DEF Told
<1> QED BY <1>1, <1>3, <1>4, <1>5, <1>6

LEMMA NothingKept ==
    /\ KeptOf(NothingSeen, <<>>, <<>>, 0) /\ NothingSeen.usage = NoUsage /\ ~NothingSeen.completed
    /\ NothingSeen.output = <<>>
<1>1. PICK none, o, x : /\ none = <<>> /\ o \in BOOLEAN /\ o = FALSE /\ x = NothingSeen
                        /\ x = [usage |-> NoUsage, text |-> none, calls |-> none, captured |-> 0, truncated |-> o,
                                completed |-> o, output |-> none]
  BY DEF NothingSeen
<1>2. none \in Bodies /\ none \in Seq(CallBodies) /\ none \in Partial(CallBodies) /\ DOMAIN none = {} /\ Len(none) = 0
  BY <1>1, EmptyPartial DEF Bodies
<1>3. x \in Seen /\ x.usage = NoUsage /\ x.text = none /\ x.calls = none /\ x.captured = 0 /\ x.truncated = o
      /\ x.completed = o /\ x.output = none
  BY <1>1, <1>2, UsageFacts DEF Seen
<1>4. PiecesKept(x) = 0
  BY <1>1, <1>3, PiecesOfNothing
<1>5. MaxContentCapture \in Nat
  BY StreamsAssumption
<1>6. KeptOf(x, none, none, 0)
  BY <1>1, <1>2, <1>3, <1>4, <1>5, PrefixSelf DEF KeptOf
<1> QED BY <1>1, <1>3, <1>6

LEMMA NothingReadFacts ==
    /\ NothingRead \in Clients /\ ~NothingRead.broken /\ ~NothingRead.ended /\ ~NothingRead.begun /\ ~NothingRead.open
    /\ NothingRead.text = <<>> /\ NothingRead.blocks = <<>> /\ NothingRead.calls = <<>> /\ NothingRead.items = <<>>
    /\ NothingRead.stop = Unset /\ NothingRead.usage = NoUsage
<1>1. PICK none, o, word, x :
        /\ none = <<>> /\ o \in BOOLEAN /\ o = FALSE /\ word = Unset /\ word \in Words /\ x = NothingRead
        /\ x = [begun |-> o, text |-> none, blocks |-> none, calls |-> none, items |-> none, open |-> o,
                stop |-> word, usage |-> NoUsage, ended |-> o, broken |-> o]
  BY DEF NothingRead, Words
<1>2. none \in Bodies /\ none \in Seq(ShownBlocks) /\ none \in Seq(Nat) /\ none \in Seq(Items)
  BY <1>1 DEF Bodies
<1>3. /\ x \in Clients /\ x.begun = o /\ x.text = none /\ x.blocks = none /\ x.calls = none /\ x.items = none
      /\ x.open = o /\ x.stop = word /\ x.usage = NoUsage /\ x.ended = o /\ x.broken = o
  BY <1>1, <1>2, UsageFacts DEF Clients
<1> QED BY <1>1, <1>3

LEMMA NewConverter ==
    /\ NewStreamConverter \in Converters /\ NewStreamConverter.buffer = <<>>
    /\ ~NewStreamConverter.started /\ ~NewStreamConverter.blockOpen /\ NewStreamConverter.nextIndex = 0
    /\ NewStreamConverter.toolBlock = <<>> /\ NewStreamConverter.stopReason = Unset
    /\ NewStreamConverter.usage = NoUsage /\ ~NewStreamConverter.finalized /\ ~NewStreamConverter.closed
<1> USE DEF Bodies
<1>1. PICK none, o, word, x :
        /\ none = <<>> /\ o \in BOOLEAN /\ o = FALSE /\ word = Unset /\ word \in Words /\ x = NewStreamConverter
        /\ x = [buffer |-> none, started |-> o, blockOpen |-> o, blockType |-> word, curIndex |-> 0,
                nextIndex |-> 0, toolBlock |-> none, stopReason |-> word, usage |-> NoUsage, finalized |-> o,
                closed |-> o]
  BY DEF NewStreamConverter, Words
<1> HIDE DEF MessageEvents
<1>2. none \in Seq(MessageEvents) /\ none \in Partial(Nat)
  BY <1>1, EmptyPartial
<1>3. /\ x \in Converters /\ x.buffer = none /\ x.started = o /\ x.blockOpen = o /\ x.nextIndex = 0
      /\ x.toolBlock = none /\ x.stopReason = word /\ x.usage = NoUsage /\ x.finalized = o /\ x.closed = o
  BY <1>1, <1>2, UsageFacts DEF Converters
<1> QED BY <1>1, <1>3

LEMMA NewAdapter ==
    AdapterTells(newStreamConverter, "fresh", <<>>) /\ newStreamConverter.buffer = <<>>
<1>1. PICK none, o, x, src :
        /\ none = <<>> /\ o \in BOOLEAN /\ o = FALSE /\ x = newStreamConverter /\ src = "fresh"
        /\ x = [buffer |-> none, calls |-> none, next |-> 0, thinking |-> {}, usage |-> NoUsage,
                emittedToolCalls |-> o]
  BY DEF newStreamConverter
<1>2. none \in Partial(AdapterCalls) /\ DOMAIN none = {}
  BY <1>1, EmptyPartial
<1>3. /\ x \in Adapters(x.buffer) /\ x.buffer = none /\ x.calls = none /\ x.next = 0 /\ x.emittedToolCalls = o
  BY <1>1, <1>2, UsageFacts DEF Adapters
<1>4. ~OpenIn(none) /\ ~HeldIn(none)
  BY <1>1 DEF OpenIn, HeldIn
<1>5. AnswerOf(none).calls = none /\ ToldOf(none).calls = none
  BY <1>1, <1>4, AnswerOfNothing DEF ToldOf, NothingSaid
<1>6. src # "blocks" /\ Len(none) = 0
  BY <1>1
<1>7. AdapterTells(x, src, none)
  BY <1>1, <1>2, <1>3, <1>4, <1>5, <1>6 DEF AdapterTells
<1> QED BY <1>1, <1>3, <1>7

LEMMA ProviderBegins ==
    ASSUME StreamsInit
    PROVE  ProviderOk
<1>1. <<dialect, endpoint>> \in Routes
  BY DEF StreamsInit, Routes
<1>2. PICK none : none = <<>> /\ sent = none
  BY DEF StreamsInit
<1>3. SentOk(none, dialect) /\ ~OpenIn(none)
  BY <1>2, StreamsAssumption DEF SentOk, OpenIn
<1>4. stop = Unset /\ source \in {"fresh", "blocks"} /\ (source = "fresh" => dialect = "anthropic")
  BY DEF StreamsInit
<1>5. Unset # "tool_use"
  BY Zenon DEF Unset
<1> QED BY <1>1, <1>2, <1>3, <1>4, <1>5 DEF ProviderOk

LEMMA ChatBegins ==
    ASSUME StreamsInit, endpoint # "responses"
    PROVE  ChatHolds
<1>1. /\ sent = <<>> /\ stop = Unset /\ messages = NewStreamConverter /\ client = NothingRead
      /\ observed = NothingSeen /\ pipe = "open" /\ source = (IF dialect = "anthropic" THEN "fresh" ELSE "blocks")
  BY DEF StreamsInit
<1>2. PICK t : /\ t \in Told /\ t.answer = NothingSaid /\ t.stop = Unset /\ t.usage = NoUsage /\ ~t.ended
               /\ NothingSaid \in Answers /\ NothingSaid.text = <<>> /\ NothingSaid.calls = <<>>
               /\ NothingSaid.shown = <<>> /\ NothingSaid.size = 0
  BY NothingTold
<1>3. ObserverTold(observed, t)
  BY <1>1, <1>2, NothingKept DEF ObserverTold
<1>4. endpoint = "chat" => ChatTold(client, t)
  <2>1. client.ended \in BOOLEAN /\ t.ended \in BOOLEAN /\ Len(client.calls) = Len(t.answer.calls)
    BY <1>1, <1>2, NothingReadFacts DEF Clients, Told
  <2>2. client.ended = t.ended
    BY <1>1, <1>2, <2>1, NothingReadFacts
  <2> QED BY <1>1, <1>2, <2>1, <2>2, NothingReadFacts DEF ChatTold
<1>5. MessagesTold(client, messages, client, t)
  <2>1. Reaches(client, messages.buffer, client)
    BY <1>1, NothingReadFacts, NewConverter, ReachesNone
  <2>2. Writes(client, messages, client)
    <3>1. /\ client.begun \in BOOLEAN /\ client.open \in BOOLEAN
          /\ messages.started \in BOOLEAN /\ messages.blockOpen \in BOOLEAN /\ messages.nextIndex = Len(client.blocks)
      BY <1>1, NothingReadFacts, NewConverter DEF Clients, Converters
    <3>2. client.begun = messages.started /\ client.open = messages.blockOpen /\ ~client.open
      BY <1>1, <3>1, NothingReadFacts, NewConverter
    <3> QED BY <1>1, <2>1, <3>1, <3>2, NothingReadFacts, NewConverter DEF Writes
  <2>3. DOMAIN messages.toolBlock = 0..(Len(t.answer.calls) - 1)
    BY <1>1, <1>2, NewConverter, EmptyPartial
  <2> QED BY <1>1, <1>2, <2>1, <2>2, <2>3, NothingReadFacts, NewConverter DEF MessagesTold
<1>6. ChatTeller(t)
  BY <1>2, <1>3, <1>4, <1>5 DEF ChatTeller
<1>7. ~HeldIn(sent) /\ ToldOf(sent) = NothingSaid
  BY <1>1, AnswerOfNothing DEF HeldIn, ToldOf
<1>8. ~EndsAt(dialect, source) /\ ~Counted(source)
  BY <1>1 DEF EndsAt, Counted
<1>9. Tells(t, dialect, source, sent, stop)
  BY <1>1, <1>2, <1>7, <1>8 DEF Tells
<1>10. /\ dialect = "anthropic" => adapter = newStreamConverter
       /\ dialect # "anthropic" => adapter = [buffer |-> <<>>]
  <2>1. <<dialect, endpoint>> \in Routes
    BY ProviderBegins DEF ProviderOk
  <2> QED BY <2>1 DEF StreamsInit, Routes
<1>11. adapter.buffer = <<>>
       /\ IF dialect = "anthropic" THEN AdapterTells(adapter, source, sent) ELSE adapter = [buffer |-> adapter.buffer]
  BY <1>1, <1>10, NewAdapter
<1>12. ChatFeeder(t)
  BY <1>9, <1>11 DEF ChatFeeder, FeedsTo
<1> QED BY <1>1, <1>6, <1>12 DEF ChatHolds, ChatInv

LEMMA OthersBegin ==
    ASSUME StreamsInit
    PROVE  Quiet /\ Logged
BY NewConverter DEF StreamsInit, Quiet, Logged

-----------------------------------------------------------------------------
(* The chat and the messages routes. *)

ChatRoutesInv ==
  /\ ProviderOk /\ Quiet /\ Logged
  /\ endpoint # "responses" => ChatHolds

LEMMA ChatRoutesStep ==
    ASSUME ChatRoutesInv, [StreamsNext]_streamVars
    PROVE  ChatRoutesInv'
<1>1. endpoint' = endpoint
  BY Sends DEF StreamsNext, Pass, Write, ReadFails, CloseStream, streamVars
<1>2. CASE StreamsNext
  <2>1. ProviderOk'
    BY <1>2, ProviderSteps DEF ChatRoutesInv
  <2>2. ASSUME endpoint # "responses" PROVE ChatHolds'
    <3>1. ChatHolds /\ ProviderOk /\ Quiet
      BY <2>2 DEF ChatRoutesInv
    <3>2. CASE Anthropic \/ OpenAI \/ EndOfSource
      BY <2>2, <3>1, <3>2, ChatSendSteps
    <3>3. CASE Pass
      BY <2>2, <3>1, <3>3, ChatPassSteps
    <3>4. CASE Write
      <4>1. endpoint = "messages"
        BY <3>1, <3>4 DEF Write, Quiet
      <4> QED BY <3>1, <3>4, <4>1, ChatWriteSteps
    <3>5. CASE ReadFails \/ CloseStream
      BY <2>2, <3>1, <3>5, ChatCloseSteps
    <3> QED BY <1>2, <3>2, <3>3, <3>4, <3>5 DEF StreamsNext
  <2>3. Logged'
    BY <1>2, LogSteps DEF ChatRoutesInv
  <2>4. Quiet'
    BY <1>2, <2>2, QuietSteps DEF ChatRoutesInv
  <2> QED BY <1>1, <2>1, <2>2, <2>3, <2>4 DEF ChatRoutesInv
<1>3. CASE UNCHANGED streamVars
  <2>1. UNCHANGED <<dialect, endpoint, source, sent, stop, adapter, messages, client, observed, log, pipe>>
    BY <1>3 DEF streamVars, provider
  <2>2. ProviderOk'
    BY <2>1, FedProvider DEF ChatRoutesInv, provider
  <2>3. ChatHolds => ChatHolds'
    BY <1>3, ChatSame
  <2>4. Quiet' /\ Logged'
    BY <2>1 DEF ChatRoutesInv, Quiet, Logged
  <2> QED BY <1>1, <2>2, <2>3, <2>4 DEF ChatRoutesInv
<1> QED BY <1>2, <1>3

\* On its way to a client of chat completions or of /v1/messages an answer
\* stays well-formed, arrives whole, and is recorded once: for every number of
\* blocks and of pieces, wherever it is cut, and for every limit of the log.
THEOREM ChatAnswersArrive ==
  StreamsSpec => [](endpoint # "responses" => StreamWellFormed /\ AnswerArrives /\ RecordedOnce)
<1>1. StreamsInit => ChatRoutesInv
  BY ProviderBegins, OthersBegin, ChatBegins DEF ChatRoutesInv
<1>2. ChatRoutesInv /\ [StreamsNext]_streamVars => ChatRoutesInv'
  BY ChatRoutesStep
<1>3. ChatRoutesInv => (endpoint # "responses" => StreamWellFormed /\ AnswerArrives /\ RecordedOnce)
  <2> SUFFICES ASSUME ChatRoutesInv, endpoint # "responses"
               PROVE  StreamWellFormed /\ AnswerArrives /\ RecordedOnce
    OBVIOUS
  <2>1. ChatSeen /\ StreamWellFormed /\ AnswerArrives
    BY ChatKept DEF ChatRoutesInv
  <2>2. RecordedOnce
    BY <2>1, ChatObserver, RecordsFollow DEF ChatRoutesInv
  <2> QED BY <2>1, <2>2
<1> QED BY <1>1, <1>2, <1>3, PTL DEF StreamsSpec
=============================================================================
