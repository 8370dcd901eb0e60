--------------------------- MODULE ResponsesProofs ---------------------------
(***************************************************************************)
(* An answer on its way to a client of /v1/responses, through either of    *)
(* the two converters, is recorded once and arrives; with what             *)
(* AnswerStreamsProofs shows of the other routes, every answer does.       *)
(*                                                                         *)
(* The first argument is about the observers, which read what the          *)
(* converter writes: a response that has not ended yet is followed item by *)
(* item (Follower), whatever order the converter writes its items in, and  *)
(* ends with the usage of the source (FollowerEnds).                       *)
(*                                                                         *)
(* The second is about the client: what the converter has written and the  *)
(* client has not read leads it to the items of the answer so far (Shows), *)
(* the message first where there is one and then the calls in the order of *)
(* the answer, each open or done as the converter has it; and after the    *)
(* end to the whole answer (Finishes).  It holds until text follows a tool *)
(* call, which the properties exempt.                                      *)
(***************************************************************************)
EXTENDS AnswerStreamsProofs

-----------------------------------------------------------------------------
(* Paths of a labelled relation R along some events, from a to b; all that is
   passed is related to the end by Q.                                        *)

PathBy(f, R, Q, a, events, b) ==
  /\ f[0] = a /\ f[Len(events)] = b
  /\ \A i \in 0..Len(events) : <<f[i], b>> \in Q
  /\ \A i \in 1..Len(events) : <<f[i - 1], events[i], f[i]>> \in R

Path(R, Q, a, events, b) == \E f : PathBy(f, R, Q, a, events, b)

LEMMA PathNone ==
    ASSUME NEW R, NEW Q, NEW a, <<a, a>> \in Q
    PROVE  Path(R, Q, a, <<>>, a)
<1> DEFINE f == [i \in 0..0 |-> a]
<1>1. f[0] = a /\ (\A i \in 0..0 : f[i] = a) /\ Len(<<>>) = 0 /\ 1..0 = {}
  OBVIOUS
<1> HIDE DEF f
<1>2. PathBy(f, R, Q, a, <<>>, a)
  BY <1>1 DEF PathBy
<1> QED BY <1>2 DEF Path

LEMMA PathMore ==
    ASSUME NEW E, NEW R, NEW Q, NEW a, NEW events \in Seq(E), NEW b, Path(R, Q, a, events, b),
           NEW e \in E, NEW g, <<b, e, g>> \in R, <<g, g>> \in Q, \A x : <<x, b>> \in Q => <<x, g>> \in Q
    PROVE  Append(events, e) \in Seq(E) /\ Path(R, Q, a, Append(events, e), g)
<1> DEFINE n == Len(events)
           more == Append(events, e)
<1>1. PICK f : PathBy(f, R, Q, a, events, b)
  BY DEF Path
<1>2. /\ n \in Nat /\ more \in Seq(E) /\ Len(more) = n + 1 /\ more[n + 1] = e
      /\ \A i \in 1..n : more[i] = events[i]
  OBVIOUS
<1>3. /\ f[0] = a /\ f[n] = b /\ \A i \in 0..n : <<f[i], b>> \in Q
      /\ \A i \in 1..n : <<f[i - 1], events[i], f[i]>> \in R
  BY <1>1 DEF PathBy
<1> HIDE DEF more
<1> DEFINE h == [i \in 0..(n + 1) |-> IF i = n + 1 THEN g ELSE f[i]]
<1>4. h[n + 1] = g /\ (\A i \in 0..n : h[i] = f[i]) /\ h[0] = a
  BY <1>2, <1>3
<1> HIDE DEF h
<1>5. \A i \in 0..(n + 1) : i \in 0..n \/ i = n + 1
  BY <1>2
<1>6. \A i \in 0..(n + 1) : <<h[i], g>> \in Q
  BY <1>3, <1>4, <1>5
<1>7. ASSUME NEW i \in 1..(n + 1) PROVE <<h[i - 1], more[i], h[i]>> \in R
  <2>1. CASE i \in 1..n
    <3>1. i - 1 \in 0..n /\ i \in 0..n
      BY <1>2, <2>1
    <3> QED BY <1>2, <1>3, <1>4, <2>1, <3>1
  <2>2. CASE i = n + 1
    <3>1. i - 1 = n /\ n \in 0..n
      BY <1>2, <2>2
    <3> QED BY <1>2, <1>3, <1>4, <2>2, <3>1
  <2>3. i \in 1..n \/ i = n + 1
    BY <1>2
  <2> QED BY <2>1, <2>2, <2>3
<1>8. PathBy(h, R, Q, a, more, g)
  BY <1>2, <1>4, <1>6, <1>7 DEF PathBy
<1>9. Path(R, Q, a, more, g)
  BY <1>8 DEF Path
<1> QED BY <1>2, <1>9 DEF more

LEMMA PathFirst ==
    ASSUME NEW E, NEW R, NEW Q, NEW a, NEW events \in Seq(E), NEW b, Path(R, Q, a, events, b)
    PROVE  /\ <<a, b>> \in Q
           /\ events = <<>> => a = b
           /\ events # <<>> => /\ Head(events) \in E /\ Tail(events) \in Seq(E)
                               /\ \E x : <<a, Head(events), x>> \in R /\ Path(R, Q, x, Tail(events), b)
<1> DEFINE n == Len(events)
           rest == Tail(events)
<1>1. PICK f : PathBy(f, R, Q, a, events, b)
  BY DEF Path
<1>2. n \in Nat /\ 0 \in 0..n
  OBVIOUS
<1>3. /\ f[0] = a /\ f[n] = b /\ \A i \in 0..n : <<f[i], b>> \in Q
      /\ \A i \in 1..n : <<f[i - 1], events[i], f[i]>> \in R
  BY <1>1 DEF PathBy
<1>4. <<a, b>> \in Q
  BY <1>2, <1>3
<1>5. ASSUME events = <<>> PROVE a = b
  BY <1>3, <1>5
<1>6. ASSUME events # <<>>
      PROVE  /\ Head(events) \in E /\ rest \in Seq(E)
             /\ \E x : <<a, Head(events), x>> \in R /\ Path(R, Q, x, rest, b)
  <2>1. /\ n \in Nat \ {0} /\ rest \in Seq(E) /\ Len(rest) = n - 1 /\ Head(events) = events[1]
        /\ Head(events) \in E /\ \A i \in 1..(n - 1) : rest[i] = events[i + 1]
    BY <1>6
  <2> HIDE DEF rest
  <2> DEFINE h == [i \in 0..(n - 1) |-> f[i + 1]]
  <2>2. \A i \in 0..(n - 1) : h[i] = f[i + 1] /\ i + 1 \in 0..n
    BY <2>1
  <2> HIDE DEF h
  <2>3. /\ 0 \in 0..(n - 1) /\ n - 1 \in 0..(n - 1) /\ 1 \in 1..n /\ (n - 1) + 1 = n /\ 1 - 1 = 0 /\ 0 + 1 = 1
    BY <2>1
  <2>4. h[0] = f[1] /\ h[n - 1] = b /\ <<a, Head(events), f[1]>> \in R
    BY <1>3, <2>1, <2>2, <2>3
  <2>5. \A i \in 0..(n - 1) : <<h[i], b>> \in Q
    BY <1>3, <2>2
  <2>6. ASSUME NEW i \in 1..(n - 1) PROVE <<h[i - 1], rest[i], h[i]>> \in R
    <3>1. i - 1 \in 0..(n - 1) /\ i \in 0..(n - 1) /\ (i - 1) + 1 = i /\ i + 1 \in 1..n /\ (i + 1) - 1 = i
      BY <2>1
    <3>2. h[i - 1] = f[i] /\ h[i] = f[i + 1]
      BY <2>2, <3>1
    <3>3. <<f[i], events[i + 1], f[i + 1]>> \in R
      BY <1>3, <3>1
    <3> QED BY <2>1, <3>2, <3>3
  <2>7. PathBy(h, R, Q, f[1], rest, b)
    BY <2>1, <2>4, <2>5, <2>6 DEF PathBy
  <2>8. Path(R, Q, f[1], rest, b)
    BY <2>7 DEF Path
  <2> QED BY <2>1, <2>4, <2>8
<1> QED BY <1>4, <1>5, <1>6

LEMMA PathEmpty ==
    ASSUME NEW R, NEW Q, NEW a, NEW b, Path(R, Q, a, <<>>, b)
    PROVE  a = b
<1>1. PICK f : PathBy(f, R, Q, a, <<>>, b)
  BY DEF Path
<1>2. Len(<<>>) = 0
  OBVIOUS
<1> QED BY <1>1, <1>2 DEF PathBy

-----------------------------------------------------------------------------
(* The events of a response, and a converter to them. *)

ResponseEvents ==
  [type: {"response.created", "[DONE]"}]
    \cup [type: {"item.added", "item.done"}, item: {"message", "function_call"}, index: Nat, id: Nat, body: Bodies]
    \cup [type: {"text.delta"}, piece: Bodies]
    \cup [type: {"arguments.delta"}, index: Nat, piece: Bodies]
    \cup [type: {"arguments.done"}, index: Nat, body: Bodies]
    \cup [type: {"response.completed"}, usage: Usages, output: {<<>>}]

\* The observers pass over such an event.
Unheard(e) == e \in ResponseEvents /\ e.type \notin {"text.delta", "response.completed", "[DONE]", "chunk"}

CallStates ==
  [index: Nat, id: Nat, arguments: Bodies, placeholder: BOOLEAN, started: BOOLEAN, completed: BOOLEAN]

Responders ==
  [buffer: Seq(ResponseEvents), calls: Partial(CallStates), next: Nat, reserved: BOOLEAN, started: BOOLEAN,
   done: BOOLEAN, text: Bodies, usage: Usages, sentDone: BOOLEAN]

LEMMA ItemMade ==
    ASSUME NEW type \in {"item.added", "item.done"}, NEW item \in {"message", "function_call"},
           NEW index \in Nat, NEW id \in Nat, NEW body \in Bodies
    PROVE  Unheard(Item(type, item, index, id, body))
<1>1. PICK e : e = [type |-> type, item |-> item, index |-> index, id |-> id, body |-> body]
  OBVIOUS
<1>2. e \in [type: {"item.added", "item.done"}, item: {"message", "function_call"}, index: Nat, id: Nat, body: Bodies]
  BY <1>1
<1>3. e \in ResponseEvents
  BY <1>2 DEF ResponseEvents
<1>4. e.type = type
  BY <1>1
<1> QED BY <1>1, <1>3, <1>4 DEF Unheard, Item

LEMMA ArgumentsMade ==
    ASSUME NEW index \in Nat, NEW piece \in Bodies
    PROVE  /\ Unheard([type |-> "arguments.delta", index |-> index, piece |-> piece])
           /\ Unheard([type |-> "arguments.done", index |-> index, body |-> piece])
<1>1. PICK e : e = [type |-> "arguments.delta", index |-> index, piece |-> piece]
  OBVIOUS
<1>2. e \in [type: {"arguments.delta"}, index: Nat, piece: Bodies]
  BY <1>1
<1>3. e \in ResponseEvents
  BY <1>2 DEF ResponseEvents
<1>4. e.type = "arguments.delta"
  BY <1>1
<1>5. PICK x : x = [type |-> "arguments.done", index |-> index, body |-> piece]
  OBVIOUS
<1>6. x \in [type: {"arguments.done"}, index: Nat, body: Bodies]
  BY <1>5
<1>7. x \in ResponseEvents
  BY <1>6 DEF ResponseEvents
<1>8. x.type = "arguments.done"
  BY <1>5
<1> QED BY <1>1, <1>3, <1>4, <1>5, <1>7, <1>8 DEF Unheard

LEMMA OthersMade ==
    /\ Unheard([type |-> "response.created"])
    /\ Done \in ResponseEvents /\ Done.type = "[DONE]"
    /\ \A piece \in Bodies : [type |-> "text.delta", piece |-> piece] \in ResponseEvents
    /\ \A usage \in Usages :
         [type |-> "response.completed", usage |-> usage, output |-> <<>>] \in ResponseEvents
<1>1. PICK e : e = [type |-> "response.created"]
  OBVIOUS
<1>2. e \in [type: {"response.created", "[DONE]"}] /\ e.type = "response.created"
  BY <1>1
<1>3. Unheard(e)
  BY <1>2 DEF Unheard, ResponseEvents
<1>4. PICK x : x = [type |-> "[DONE]"]
  OBVIOUS
<1>5. x \in [type: {"response.created", "[DONE]"}] /\ x.type = "[DONE]"
  BY <1>4
<1>6. x \in ResponseEvents
  BY <1>5 DEF ResponseEvents
<1>7. ASSUME NEW piece \in Bodies PROVE [type |-> "text.delta", piece |-> piece] \in ResponseEvents
  <2>1. [type |-> "text.delta", piece |-> piece] \in [type: {"text.delta"}, piece: Bodies]
    OBVIOUS
  <2> QED BY <2>1 DEF ResponseEvents
<1>8. ASSUME NEW usage \in Usages
      PROVE  [type |-> "response.completed", usage |-> usage, output |-> <<>>] \in ResponseEvents
  <2>1. [type |-> "response.completed", usage |-> usage, output |-> <<>>]
          \in [type: {"response.completed"}, usage: Usages, output: {<<>>}]
    OBVIOUS
  <2> QED BY <2>1 DEF ResponseEvents
<1> QED BY <1>1, <1>3, <1>4, <1>5, <1>6, <1>7, <1>8 DEF Done

LEMMA UnheardSame ==
    ASSUME NEW o, NEW e, Unheard(e)
    PROVE  Observe(o, e) = o
<1>1. e.type # "chunk" /\ e.type # "text.delta" /\ e.type # "response.completed"
  BY DEF Unheard
<1> QED BY <1>1 DEF Observe

SameButBuffer(sc, sd) ==
  /\ sd \in Responders /\ sd.calls = sc.calls /\ sd.next = sc.next /\ sd.reserved = sc.reserved
  /\ sd.started = sc.started /\ sd.done = sc.done /\ sd.text = sc.text /\ sd.usage = sc.usage
  /\ sd.sentDone = sc.sentDone

LEMMA EmitIs ==
    ASSUME NEW sc \in Responders, NEW e \in ResponseEvents
    PROVE  SameButBuffer(sc, emit(sc, e)) /\ emit(sc, e).buffer = Append(sc.buffer, e)
<1> HIDE DEF ResponseEvents
<1>1. PICK events : events = Append(sc.buffer, e)
  OBVIOUS
<1>2. events \in Seq(ResponseEvents)
  BY <1>1 DEF Responders
<1>3. PICK sd : sd = [sc EXCEPT !.buffer = events]
  OBVIOUS
<1>4. emit(sc, e) = sd
  BY <1>1, <1>3 DEF emit, Responders
<1>5. sd \in Responders /\ sd.buffer = events
  BY <1>2, <1>3 DEF Responders
<1>6. /\ sd.calls = sc.calls /\ sd.next = sc.next /\ sd.reserved = sc.reserved
      /\ sd.started = sc.started /\ sd.done = sc.done /\ sd.text = sc.text /\ sd.usage = sc.usage
      /\ sd.sentDone = sc.sentDone
  BY <1>3 DEF Responders
<1> QED BY <1>1, <1>4, <1>5, <1>6 DEF SameButBuffer

-----------------------------------------------------------------------------
(* What the observers make of such a stream.  Its [DONE] is the last event. *)

Watchers == [seen: Seen, over: BOOLEAN]
Watcher(o, over) == [seen |-> o, over |-> over]

Hears ==
  {r \in Watchers \X ResponseEvents \X Watchers :
     ~r[1].over /\ r[3] = Watcher(Observe(r[1].seen, r[2]), r[2].type = "[DONE]")}

Upto == {r \in Watchers \X Watchers : IsPrefix(r[1].seen.text, r[2].seen.text)}

Follows(o, over, sc, p) ==
  /\ sc \in Responders
  /\ Path(Hears, Upto, Watcher(o, over), sc.buffer, Watcher(p, sc.sentDone))
  /\ KeptOf(p, sc.text, <<>>, Len(sc.text))
  /\ (p.completed <=> sc.sentDone)
  /\ p.usage = IF sc.sentDone THEN sc.usage ELSE NoUsage

LEMMA WatcherIs ==
    ASSUME NEW o \in Seen, NEW over \in BOOLEAN
    PROVE  Watcher(o, over) \in Watchers /\ Watcher(o, over).seen = o /\ Watcher(o, over).over = over
BY DEF Watchers, Watcher

LEMMA UptoIs ==
    ASSUME NEW x \in Watchers, NEW y \in Watchers
    PROVE  <<x, y>> \in Upto <=> IsPrefix(x.seen.text, y.seen.text)
BY DEF Upto

LEMMA UptoGrows ==
    ASSUME NEW x \in Watchers, NEW y \in Watchers, IsPrefix(x.seen.text, y.seen.text)
    PROVE  <<y, y>> \in Upto /\ \A w : <<w, x>> \in Upto => <<w, y>> \in Upto
<1>1. x.seen.text \in Bodies /\ y.seen.text \in Bodies
  BY DEF Watchers, Seen
<1>2. <<y, y>> \in Upto
  BY <1>1, PrefixSelf, UptoIs
<1>3. ASSUME NEW w, <<w, x>> \in Upto PROVE <<w, y>> \in Upto
  <2>1. w \in Watchers
    BY <1>3 DEF Upto
  <2>2. IsPrefix(w.seen.text, x.seen.text)
    BY <1>3, <2>1, UptoIs
  <2>3. w.seen.text \in Bodies
    BY <2>1 DEF Watchers, Seen
  <2>4. IsPrefix(w.seen.text, y.seen.text)
    BY <1>1, <2>2, <2>3, PrefixTrans
  <2> QED BY <2>1, <2>4, UptoIs
<1> QED BY <1>2, <1>3

LEMMA HearsIs ==
    ASSUME NEW x \in Watchers, NEW e \in ResponseEvents, NEW y \in Watchers
    PROVE  <<x, e, y>> \in Hears <=> ~x.over /\ y = Watcher(Observe(x.seen, e), e.type = "[DONE]")
BY DEF Hears

\* One more event at the end.
LEMMA Hearing ==
    ASSUME NEW o, NEW over, NEW sc \in Responders, NEW p \in Seen,
           Path(Hears, Upto, Watcher(o, over), sc.buffer, Watcher(p, FALSE)),
           NEW e \in ResponseEvents, NEW q \in Seen, q = Observe(p, e), IsPrefix(p.text, q.text),
           NEW ends \in BOOLEAN, ends <=> e.type = "[DONE]"
    PROVE  Path(Hears, Upto, Watcher(o, over), emit(sc, e).buffer, Watcher(q, ends))
<1> HIDE DEF ResponseEvents
<1> DEFINE x == Watcher(p, FALSE)
           y == Watcher(q, ends)
<1>1. x \in Watchers /\ x.seen = p /\ x.over = FALSE /\ y \in Watchers /\ y.seen = q /\ y.over = ends
  BY WatcherIs
<1>2. y = Watcher(Observe(x.seen, e), e.type = "[DONE]")
  <2>1. ends = (e.type = "[DONE]")
    OBVIOUS
  <2> QED BY <1>1, <2>1
<1> HIDE DEF x, y
<1>3. <<x, e, y>> \in Hears
  BY <1>1, <1>2, HearsIs
<1>4. <<y, y>> \in Upto /\ \A w : <<w, x>> \in Upto => <<w, y>> \in Upto
  BY <1>1, UptoGrows
<1>5. sc.buffer \in Seq(ResponseEvents)
  BY DEF Responders
<1>6. Path(Hears, Upto, Watcher(o, over), Append(sc.buffer, e), y)
  <2>1. Path(Hears, Upto, Watcher(o, over), sc.buffer, x)
    BY DEF x
  <2> QED BY <1>3, <1>4, <1>5, <2>1, PathMore
<1> QED BY <1>6, EmitIs DEF y

LEMMA FollowsFacts ==
    ASSUME NEW o, NEW over, NEW sc, NEW p, Follows(o, over, sc, p)
    PROVE  /\ sc \in Responders /\ p \in Seen /\ sc.text \in Bodies /\ sc.usage \in Usages /\ sc.sentDone \in BOOLEAN
           /\ KeptOf(p, sc.text, <<>>, Len(sc.text))
<1>1. sc \in Responders /\ KeptOf(p, sc.text, <<>>, Len(sc.text))
  BY DEF Follows
<1>2. p \in Seen
  BY <1>1 DEF KeptOf
<1>3. sc.text \in Bodies /\ sc.usage \in Usages /\ sc.sentDone \in BOOLEAN
  BY <1>1 DEF Responders
<1> QED BY <1>1, <1>2, <1>3

\* The state of the items is nothing to the observers.
LEMMA FollowsSame ==
    ASSUME NEW o, NEW over, NEW sc, NEW p, Follows(o, over, sc, p), ~sc.sentDone,
           NEW sd \in Responders, sd.buffer = sc.buffer, sd.text = sc.text, ~sd.sentDone
    PROVE  Follows(o, over, sd, p)
<1>1. sd.sentDone = sc.sentDone
  <2>1. sc.sentDone = FALSE /\ sd.sentDone = FALSE
    BY DEF Follows, Responders
  <2> QED BY <2>1
<1> QED BY <1>1 DEF Follows

LEMMA FollowsEmit ==
    ASSUME NEW o, NEW over, NEW sc, NEW p, Follows(o, over, sc, p), ~sc.sentDone,
           NEW e, Unheard(e)
    PROVE  Follows(o, over, emit(sc, e), p) /\ SameButBuffer(sc, emit(sc, e))
<1>1. e \in ResponseEvents /\ e.type # "[DONE]"
  BY DEF Unheard
<1>2. /\ sc \in Responders /\ p \in Seen /\ p.text \in Bodies
      /\ Path(Hears, Upto, Watcher(o, over), sc.buffer, Watcher(p, sc.sentDone))
  BY FollowsFacts DEF Follows, Seen
<1>3. sc.sentDone = FALSE
  BY <1>2 DEF Responders
<1>4. Observe(p, e) = p /\ IsPrefix(p.text, p.text)
  BY <1>2, UnheardSame, PrefixSelf
<1>5. PICK ends \in BOOLEAN : ends = FALSE
  OBVIOUS
<1>6. Path(Hears, Upto, Watcher(o, over), emit(sc, e).buffer, Watcher(p, ends))
  BY <1>1, <1>2, <1>3, <1>4, <1>5, Hearing
<1>7. SameButBuffer(sc, emit(sc, e))
  BY <1>1, <1>2, EmitIs
<1>8. Follows(o, over, emit(sc, e), p)
  BY <1>3, <1>5, <1>6, <1>7 DEF Follows, SameButBuffer
<1> QED BY <1>7, <1>8

-----------------------------------------------------------------------------
(* A client that reads a response. *)

SameReader(c, p) ==
  /\ p \in Clients /\ p.begun = c.begun /\ p.text = c.text /\ p.items = c.items /\ p.stop = c.stop
  /\ p.usage = c.usage /\ p.ended = c.ended

LEMMA Expected ==
    ASSUME NEW c \in Clients, NEW condition
    PROVE  SameReader(c, Expect(c, condition))
<1>1. PICK b \in BOOLEAN : b = (c.broken \/ ~condition \/ c.ended)
  OBVIOUS
<1>2. Expect(c, condition) = [c EXCEPT !.broken = b]
  BY <1>1 DEF Expect
<1>3. PICK p : p = [c EXCEPT !.broken = b]
  OBVIOUS
<1>4. p \in Clients
  BY <1>3 DEF Clients
<1>5. /\ p.begun = c.begun /\ p.text = c.text /\ p.items = c.items /\ p.stop = c.stop
      /\ p.usage = c.usage /\ p.ended = c.ended
  BY <1>3 DEF Clients
<1> QED BY <1>2, <1>3, <1>4, <1>5 DEF SameReader

\* The sequence of items m with another body and another state for the n-th.
ItemIs(items, n, m, body, done) ==
  /\ m \in Seq(Items) /\ Len(m) = Len(items) /\ n \in 1..Len(items)
  /\ \A k \in 1..Len(items) : k # n => m[k] = items[k]
  /\ m[n].item = items[n].item /\ m[n].id = items[n].id /\ m[n].announced = items[n].announced
  /\ m[n].body = body /\ (m[n].done <=> done)

LEMMA ItemTurns ==
    ASSUME NEW items \in Seq(Items), NEW n \in 1..Len(items), NEW body \in Bodies, NEW done \in BOOLEAN,
           NEW i, i = [items[n] EXCEPT !.body = body, !.done = done]
    PROVE  ItemIs(items, n, [items EXCEPT ![n] = i], body, done)
<1>1. items[n] \in Items
  OBVIOUS
<1>2. /\ i \in Items /\ i.item = items[n].item /\ i.id = items[n].id /\ i.announced = items[n].announced
      /\ i.body = body /\ i.done = done
  BY <1>1 DEF Items
<1>3. PICK m : m = [items EXCEPT ![n] = i]
  OBVIOUS
<1>4. m \in Seq(Items) /\ Len(m) = Len(items)
  BY <1>2, <1>3
<1>5. m[n] = i /\ \A k \in 1..Len(items) : k # n => m[k] = items[k]
  <2>1. DOMAIN items = 1..Len(items)
    OBVIOUS
  <2> QED BY <1>3, <2>1
<1> QED BY <1>2, <1>3, <1>4, <1>5 DEF ItemIs

LEMMA ReaderTextIs ==
    ASSUME NEW c \in Clients, NEW piece \in Bodies
    PROVE  /\ TextRead(c, "text", piece) \in Clients /\ TextRead(c, "text", piece).text = c.text \o piece
           /\ TextRead(c, "text", piece).items = c.items /\ TextRead(c, "text", piece).begun = c.begun
           /\ TextRead(c, "text", piece).stop = c.stop /\ TextRead(c, "text", piece).ended = c.ended
           /\ TextRead(c, "text", piece).broken = c.broken /\ TextRead(c, "text", piece).usage = c.usage
<1>1. "text" \in BlockTypes
  BY DEF BlockTypes
<1> QED BY <1>1, ReadsText DEF TextOf

\* A piece of an item.
FeedsItem(c, g, index, item, piece) ==
  OpenAt(c, index, item) /\ ~c.broken /\ ~c.ended
  => /\ ItemIs(c.items, index + 1, g.items, c.items[index + 1].body \o piece, FALSE)
     /\ ~g.broken /\ g.begun = c.begun /\ g.stop = c.stop /\ g.usage = c.usage

LEMMA FedIs ==
    ASSUME NEW c \in Clients, NEW index \in Nat, NEW item, NEW piece \in Bodies
    PROVE  /\ Fed(c, index, item, piece) \in Clients /\ Fed(c, index, item, piece).ended = c.ended
           /\ Fed(c, index, item, piece).text = c.text
           /\ FeedsItem(c, Fed(c, index, item, piece), index, item, piece)
<1>1. CASE ~OpenAt(c, index, item)
  <2>1. Fed(c, index, item, piece) = Expect(c, FALSE)
    BY <1>1 DEF Fed
  <2> QED BY ZenonT(40), <1>1, <2>1, Expected DEF SameReader, FeedsItem
<1>2. CASE OpenAt(c, index, item)
  <2>1. PICK d : d = Expect(c, TRUE)
    OBVIOUS
  <2>2. SameReader(c, d) /\ (~c.broken /\ ~c.ended => d = c)
    BY <2>1, Expected, ExpectMet
  <2>3. PICK n : n = index + 1
    OBVIOUS
  <2>4. /\ c.items \in Seq(Items) /\ n \in 1..Len(c.items) /\ c.items[n].item = item /\ ~c.items[n].done
        /\ d.items = c.items /\ d \in Clients
    BY <1>2, <2>2, <2>3 DEF OpenAt, Clients, SameReader
  <2>5. c.items[n] \in Items
    BY <2>4
  <2>6. PICK i : i = [c.items[n] EXCEPT !.body = c.items[n].body \o piece]
    OBVIOUS
  <2>7. c.items[n].body \o piece \in Bodies /\ c.items[n].done = FALSE
    BY <2>4, <2>5 DEF Items, Bodies
  <2>8. i = [c.items[n] EXCEPT !.body = c.items[n].body \o piece, !.done = FALSE]
    BY <2>5, <2>6, <2>7 DEF Items
  <2>9. PICK m : m = [c.items EXCEPT ![n] = i]
    OBVIOUS
  <2>10. ItemIs(c.items, n, m, c.items[n].body \o piece, FALSE)
    BY <2>4, <2>7, <2>8, <2>9, ItemTurns
  <2>11. PICK g : g = [d EXCEPT !.items = m]
    OBVIOUS
  <2>12. Fed(c, index, item, piece) = g
    <3>1. Fed(c, index, item, piece) = [d EXCEPT !.items[n].body = @ \o piece]
      BY <1>2, <2>1, <2>3 DEF Fed
    <3>2. [d EXCEPT !.items[n].body = @ \o piece] = [d EXCEPT !.items = [d.items EXCEPT ![n].body = @ \o piece]]
      BY <2>4 DEF Clients
    <3>3. [d.items EXCEPT ![n].body = @ \o piece] = m
      BY <2>4, <2>5, <2>6, <2>9
    <3> QED BY <2>11, <3>1, <3>2, <3>3
  <2>13. m \in Seq(Items)
    BY <2>10 DEF ItemIs
  <2>14. g \in Clients /\ g.items = m /\ g.ended = d.ended /\ g.text = d.text /\ g.broken = d.broken
         /\ g.begun = d.begun /\ g.stop = d.stop /\ g.usage = d.usage
    BY <2>4, <2>11, <2>13 DEF Clients
  <2> QED BY <2>2, <2>3, <2>10, <2>12, <2>14 DEF SameReader, FeedsItem
<1> QED BY <1>1, <1>2

\* An item that ends.
EndsItem(c, g, item, index, id, body) ==
  /\ OpenAt(c, index, item) /\ ~c.broken /\ ~c.ended /\ id = c.items[index + 1].id
  /\ body \in {c.items[index + 1].body, c.items[index + 1].announced \o c.items[index + 1].body}
  => /\ ItemIs(c.items, index + 1, g.items, body, TRUE)
     /\ ~g.broken /\ g.begun = c.begun /\ g.stop = c.stop /\ g.usage = c.usage /\ g.text = c.text

LEMMA ItemDoneIs ==
    ASSUME NEW c \in Clients, NEW item, NEW index \in Nat, NEW id, NEW body \in Bodies,
           NEW e, e = Item("item.done", item, index, id, body)
    PROVE  /\ ItemDone(c, e) \in Clients /\ ItemDone(c, e).ended = c.ended
           /\ EndsItem(c, ItemDone(c, e), item, index, id, body)
<1>0. e.item = item /\ e.index = index /\ e.id = id /\ e.body = body
  BY DEF Item
<1>1. CASE ~OpenAt(c, index, item)
  <2>1. ItemDone(c, e) = Expect(c, FALSE)
    BY <1>0, <1>1 DEF ItemDone
  <2> QED BY ZenonT(40), <1>1, <2>1, Expected DEF SameReader, EndsItem
<1>2. CASE OpenAt(c, index, item)
  <2>3. PICK n : n = index + 1
    OBVIOUS
  <2>0. PICK met \in BOOLEAN :
          met = (e.id = c.items[n].id /\ e.body \in {c.items[n].body, c.items[n].announced \o c.items[n].body})
    OBVIOUS
  <2>1. PICK d : d = Expect(c, met)
    OBVIOUS
  <2>2. SameReader(c, d) /\ (met /\ ~c.broken /\ ~c.ended => d = c)
    BY <2>1, Expected, ExpectMet
  <2>4. /\ c.items \in Seq(Items) /\ n \in 1..Len(c.items) /\ d.items = c.items /\ d \in Clients
    BY <1>2, <2>2, <2>3 DEF OpenAt, Clients, SameReader
  <2>5. c.items[n] \in Items
    BY <2>4
  <2>6. PICK i : i = [c.items[n] EXCEPT !.body = body, !.done = TRUE]
    OBVIOUS
  <2>9. PICK m : m = [c.items EXCEPT ![n] = i]
    OBVIOUS
  <2>10. ItemIs(c.items, n, m, body, TRUE)
    BY <2>4, <2>6, <2>9, ItemTurns
  <2>11. PICK g : g = [d EXCEPT !.items = m]
    OBVIOUS
  <2>12. ItemDone(c, e) = g
    <3>1. ItemDone(c, e) = [d EXCEPT !.items[n].body = body, !.items[n].done = TRUE]
      BY <1>0, <1>2, <2>0, <2>1, <2>3 DEF ItemDone
    <3>2. [d EXCEPT !.items[n].body = body, !.items[n].done = TRUE]
            = [d EXCEPT !.items = [[d.items EXCEPT ![n].body = body] EXCEPT ![n].done = TRUE]]
      BY <2>4 DEF Clients
    <3>3. [[d.items EXCEPT ![n].body = body] EXCEPT ![n].done = TRUE] = m
      BY <2>4, <2>5, <2>6, <2>9
    <3> QED BY <2>11, <3>1, <3>2, <3>3
  <2>13. m \in Seq(Items)
    BY <2>10 DEF ItemIs
  <2>14. g \in Clients /\ g.items = m /\ g.ended = d.ended /\ g.text = d.text /\ g.broken = d.broken
         /\ g.begun = d.begun /\ g.stop = d.stop /\ g.usage = d.usage
    BY <2>4, <2>11, <2>13 DEF Clients
  <2>15. ASSUME id = c.items[n].id, body \in {c.items[n].body, c.items[n].announced \o c.items[n].body}
         PROVE  met
    BY <1>0, <2>0, <2>15
  <2> QED BY <2>2, <2>3, <2>10, <2>12, <2>14, <2>15 DEF SameReader, EndsItem
<1> QED BY <1>1, <1>2

LEMMA ResponseEventIs ==
    ASSUME NEW e \in ResponseEvents
    PROVE  \/ e.type = "response.created"
           \/ e.type = "[DONE]"
           \/ /\ e.type \in {"item.added", "item.done"} /\ e.item \in {"message", "function_call"}
              /\ e.index \in Nat /\ e.id \in Nat /\ e.body \in Bodies
              /\ e = Item(e.type, e.item, e.index, e.id, e.body)
           \/ e.type = "text.delta" /\ e.piece \in Bodies
           \/ e.type = "arguments.delta" /\ e.index \in Nat /\ e.piece \in Bodies
           \/ e.type = "arguments.done" /\ e.index \in Nat
           \/ e.type = "response.completed" /\ e.usage \in Usages
BY DEF ResponseEvents, Item

LEMMA NewItem ==
    ASSUME NEW item \in {"message", "function_call"}, NEW id \in Nat, NEW body \in Bodies,
           NEW i, i = [item |-> item, id |-> id, announced |-> body, body |-> <<>>, done |-> FALSE]
    PROVE  /\ i \in Items /\ i.item = item /\ i.id = id /\ i.announced = body /\ i.body = <<>> /\ ~i.done
           /\ \A items \in Seq(Items) : Append(items, i) \in Seq(Items)
<1>1. <<>> \in Bodies
  BY DEF Bodies
<1>2. i \in Items /\ i.item = item /\ i.id = id /\ i.announced = body /\ i.body = <<>> /\ ~i.done
  BY <1>1 DEF Items
<1>3. ASSUME NEW items \in Seq(Items) PROVE Append(items, i) \in Seq(Items)
  BY <1>2
<1> QED BY <1>2, <1>3

AddedItem(item, id, body) == [item |-> item, id |-> id, announced |-> body, body |-> <<>>, done |-> FALSE]

AddsItem(c, g, item, index, id, body) ==
  c.begun /\ c.stop = Unset /\ index = Len(c.items) /\ (item = "message" => index = 0) /\ ~c.broken /\ ~c.ended
  => /\ g.items = Append(c.items, AddedItem(item, id, body))
     /\ ~g.broken /\ g.begun = c.begun /\ g.stop = c.stop /\ g.usage = c.usage /\ g.text = c.text

LEMMA ItemAddedIs ==
    ASSUME NEW c \in Clients, NEW item \in {"message", "function_call"}, NEW index \in Nat, NEW id \in Nat,
           NEW body \in Bodies, NEW e, e = Item("item.added", item, index, id, body)
    PROVE  /\ ItemAdded(c, e) \in Clients /\ ItemAdded(c, e).ended = c.ended
           /\ AddsItem(c, ItemAdded(c, e), item, index, id, body)
<1>0. e.item = item /\ e.index = index /\ e.id = id /\ e.body = body
  BY DEF Item
<1>1. PICK met \in BOOLEAN :
        met = (c.begun /\ c.stop = Unset /\ e.index = Len(c.items) /\ (e.item = "message" => e.index = 0))
  OBVIOUS
<1>2. PICK d : d = Expect(c, met)
  OBVIOUS
<1>3. SameReader(c, d) /\ (met /\ ~c.broken /\ ~c.ended => d = c)
  BY <1>2, Expected, ExpectMet
<1>4. PICK i : i = AddedItem(item, id, body)
  OBVIOUS
<1>5. c.items \in Seq(Items) /\ d.items = c.items /\ d \in Clients
  BY <1>3 DEF Clients, SameReader
<1>6. PICK m : m = Append(c.items, i)
  OBVIOUS
<1>7. m \in Seq(Items)
  BY <1>4, <1>5, <1>6, NewItem DEF AddedItem
<1>8. PICK g : g = [d EXCEPT !.items = m]
  OBVIOUS
<1>9. ItemAdded(c, e) = g
  <2>1. ItemAdded(c, e) = [d EXCEPT !.items = Append(@, i)]
    BY <1>0, <1>1, <1>2, <1>4 DEF ItemAdded, AddedItem
  <2> QED BY <1>5, <1>6, <1>8, <2>1 DEF Clients
<1>10. g \in Clients /\ g.items = m /\ g.ended = d.ended /\ g.text = d.text /\ g.broken = d.broken
       /\ g.begun = d.begun /\ g.stop = d.stop /\ g.usage = d.usage
  BY <1>5, <1>7, <1>8 DEF Clients
<1>11. c.begun /\ c.stop = Unset /\ index = Len(c.items) /\ (item = "message" => index = 0) => met
  BY <1>0, <1>1
<1> QED BY <1>3, <1>4, <1>6, <1>9, <1>10, <1>11 DEF SameReader, AddsItem

\* The other events.
LEMMA ReadsOthers ==
    ASSUME NEW c \in Clients
    PROVE  /\ \A e : e.type = "response.created" =>
                LET g == ResponsesRead(c, e) IN
                /\ g \in Clients /\ g.ended = c.ended
                /\ ~c.begun /\ c.stop = Unset /\ ~c.broken /\ ~c.ended =>
                     ~g.broken /\ g.begun /\ g.items = c.items /\ g.stop = c.stop /\ g.text = c.text
           /\ \A e : e.type = "[DONE]" =>
                LET g == ResponsesRead(c, e) IN
                /\ g \in Clients /\ g.ended
                /\ c.stop # Unset /\ ~c.broken /\ ~c.ended =>
                     /\ ~g.broken /\ g.items = c.items /\ g.stop = c.stop /\ g.text = c.text
                     /\ g.usage = c.usage /\ g.begun = c.begun
           /\ \A e : e.type = "response.completed" /\ e.usage \in Usages =>
                LET g == ResponsesRead(c, e) IN
                /\ g \in Clients /\ g.ended = c.ended
                /\ c.stop = Unset /\ ~c.broken /\ ~c.ended =>
                     /\ ~g.broken /\ g.items = c.items /\ g.stop = "completed" /\ g.text = c.text
                     /\ g.usage = e.usage /\ g.begun = c.begun
           /\ \A e : e.type = "arguments.done" =>
                LET g == ResponsesRead(c, e) IN
                /\ g \in Clients /\ g.ended = c.ended
                /\ OpenAt(c, e.index, "function_call") /\ ~c.broken /\ ~c.ended => g = c
<1>1. ASSUME NEW e, e.type = "response.created", NEW g, g = ResponsesRead(c, e)
      PROVE  /\ g \in Clients /\ g.ended = c.ended
             /\ ~c.begun /\ c.stop = Unset /\ ~c.broken /\ ~c.ended =>
                  ~g.broken /\ g.begun /\ g.items = c.items /\ g.stop = c.stop /\ g.text = c.text
  <2>0. PICK met \in BOOLEAN : met = (~c.begun /\ c.stop = Unset)
    OBVIOUS
  <2>1. PICK d : d = Expect(c, met)
    OBVIOUS
  <2>2. SameReader(c, d) /\ (~c.begun /\ c.stop = Unset /\ ~c.broken /\ ~c.ended => d = c)
    BY <2>0, <2>1, Expected, ExpectMet
  <2>3. g = [d EXCEPT !.begun = TRUE]
    BY <1>1, <2>0, <2>1 DEF ResponsesRead
  <2>4. /\ g \in Clients /\ g.ended = d.ended /\ g.begun /\ g.items = d.items /\ g.stop = d.stop /\ g.text = d.text
        /\ g.broken = d.broken
    BY <2>2, <2>3 DEF SameReader, Clients
  <2> QED BY <2>2, <2>4 DEF SameReader
<1>2. ASSUME NEW e, e.type = "[DONE]", NEW g, g = ResponsesRead(c, e)
      PROVE  /\ g \in Clients /\ g.ended
             /\ c.stop # Unset /\ ~c.broken /\ ~c.ended =>
                  /\ ~g.broken /\ g.items = c.items /\ g.stop = c.stop /\ g.text = c.text
                  /\ g.usage = c.usage /\ g.begun = c.begun
  <2>1. PICK d : d = Expect(c, c.stop # Unset)
    OBVIOUS
  <2>2. SameReader(c, d) /\ (c.stop # Unset /\ ~c.broken /\ ~c.ended => d = c)
    BY <2>1, Expected, ExpectMet
  <2>3. g = [d EXCEPT !.ended = TRUE]
    BY <1>2, <2>1 DEF ResponsesRead
  <2>4. /\ g \in Clients /\ g.ended /\ g.items = d.items /\ g.stop = d.stop /\ g.text = d.text
        /\ g.broken = d.broken /\ g.usage = d.usage /\ g.begun = d.begun
    BY <2>2, <2>3 DEF SameReader, Clients
  <2> QED BY <2>2, <2>4 DEF SameReader
<1>3. ASSUME NEW e, e.type = "response.completed", e.usage \in Usages, NEW g, g = ResponsesRead(c, e)
      PROVE  /\ g \in Clients /\ g.ended = c.ended
             /\ c.stop = Unset /\ ~c.broken /\ ~c.ended =>
                  /\ ~g.broken /\ g.items = c.items /\ g.stop = "completed" /\ g.text = c.text
                  /\ g.usage = e.usage /\ g.begun = c.begun
  <2>1. PICK d : d = Expect(c, c.stop = Unset)
    OBVIOUS
  <2>2. SameReader(c, d) /\ (c.stop = Unset /\ ~c.broken /\ ~c.ended => d = c)
    BY <2>1, Expected, ExpectMet
  <2>3. g = [d EXCEPT !.stop = "completed", !.usage = e.usage]
    BY <1>3, <2>1 DEF ResponsesRead
  <2>4. "completed" \in Words
    BY Zenon DEF Words
  <2>5. PICK w \in Words : w = "completed"
    BY <2>4
  <2>6. PICK usage \in Usages : usage = e.usage
    BY <1>3
  <2>7. g = [d EXCEPT !.stop = w, !.usage = usage]
    BY <2>3, <2>5, <2>6
  <2>8. /\ g \in Clients /\ g.ended = d.ended /\ g.items = d.items /\ g.stop = w /\ g.text = d.text
        /\ g.broken = d.broken /\ g.usage = usage /\ g.begun = d.begun
    BY <2>2, <2>7 DEF SameReader, Clients
  <2> QED BY <2>2, <2>5, <2>6, <2>8 DEF SameReader
<1>4. ASSUME NEW e, e.type = "arguments.done", NEW g, g = ResponsesRead(c, e)
      PROVE  /\ g \in Clients /\ g.ended = c.ended
             /\ OpenAt(c, e.index, "function_call") /\ ~c.broken /\ ~c.ended => g = c
  <2>1. PICK met \in BOOLEAN : met = OpenAt(c, e.index, "function_call")
    BY DEF OpenAt
  <2>2. g = Expect(c, met)
    BY <1>4, <2>1 DEF ResponsesRead
  <2> QED BY <2>1, <2>2, Expected, ExpectMet DEF SameReader
<1> QED BY <1>1, <1>2, <1>3, <1>4

\* Whatever is written, the client has a state.
LEMMA ClientReads ==
    ASSUME NEW c \in Clients, NEW e \in ResponseEvents
    PROVE  ResponsesRead(c, e) \in Clients /\ (ResponsesRead(c, e).ended <=> c.ended \/ e.type = "[DONE]")
<1> HIDE DEF ResponseEvents
<1>1. CASE e.type \in {"response.created", "[DONE]", "arguments.done"}
  BY <1>1, ReadsOthers
<1>2. CASE e.type = "response.completed" /\ e.usage \in Usages
  BY <1>2, ReadsOthers
<1>3. CASE e.type = "text.delta" /\ e.piece \in Bodies
  <2>1. PICK d : d = Fed(c, 0, "message", e.piece)
    OBVIOUS
  <2>2. d \in Clients /\ d.ended = c.ended
    BY <1>3, <2>1, FedIs
  <2>3. ResponsesRead(c, e) = TextRead(d, "text", e.piece)
    BY <1>3, <2>1 DEF ResponsesRead
  <2> QED BY <1>3, <2>2, <2>3, ReaderTextIs
<1>4. CASE e.type = "arguments.delta" /\ e.index \in Nat /\ e.piece \in Bodies
  <2>1. ResponsesRead(c, e) = Fed(c, e.index, "function_call", e.piece)
    BY <1>4 DEF ResponsesRead
  <2>2. Fed(c, e.index, "function_call", e.piece) \in Clients /\ Fed(c, e.index, "function_call", e.piece).ended = c.ended
    BY <1>4, FedIs
  <2> QED BY <1>4, <2>1, <2>2
<1>5. CASE /\ e.type \in {"item.added", "item.done"} /\ e.item \in {"message", "function_call"}
           /\ e.index \in Nat /\ e.id \in Nat /\ e.body \in Bodies
           /\ e = Item(e.type, e.item, e.index, e.id, e.body)
  <2>1. CASE e.type = "item.added"
    <3>1. ResponsesRead(c, e) = ItemAdded(c, e)
      BY <2>1 DEF ResponsesRead
    <3>2. PICK item \in {"message", "function_call"}, index \in Nat, id \in Nat, body \in Bodies :
            item = e.item /\ index = e.index /\ id = e.id /\ body = e.body
      BY <1>5
    <3>4. e = Item("item.added", item, index, id, body)
      BY <1>5, <2>1, <3>2
    <3>3. ItemAdded(c, e) \in Clients /\ ItemAdded(c, e).ended = c.ended
      BY <3>4, ItemAddedIs
    <3> QED BY <2>1, <3>1, <3>3
  <2>2. CASE e.type = "item.done"
    <3>1. ResponsesRead(c, e) = ItemDone(c, e)
      BY <2>2 DEF ResponsesRead
    <3>2. PICK item \in {"message", "function_call"}, index \in Nat, id \in Nat, body \in Bodies :
            item = e.item /\ index = e.index /\ id = e.id /\ body = e.body
      BY <1>5
    <3>4. e = Item("item.done", item, index, id, body)
      BY <1>5, <2>2, <3>2
    <3>3. ItemDone(c, e) \in Clients /\ ItemDone(c, e).ended = c.ended
      BY <3>4, ItemDoneIs
    <3> QED BY <2>2, <3>1, <3>3
  <2> QED BY <1>5, <2>1, <2>2
<1> QED BY <1>1, <1>2, <1>3, <1>4, <1>5, ResponseEventIs

-----------------------------------------------------------------------------
(* What is written and not read yet is a path of the client's states. *)

Reading ==
  {r \in Clients \X ResponseEvents \X Clients :
     ~r[1].ended /\ ~r[3].broken /\ r[3] = ResponsesRead(r[1], r[2])}

Texts == {r \in Clients \X Clients : ~r[1].broken /\ IsPrefix(r[1].text, r[2].text)}

ReadsTo(c, events, d) == Path(Reading, Texts, c, events, d)

\* The response is running, and the client will have these items and this text.
At(c, events, begun, items, text) ==
  \E d \in Clients : /\ ReadsTo(c, events, d) /\ ~d.broken /\ ~d.ended /\ (d.begun <=> begun) /\ d.stop = Unset
                     /\ d.items = items /\ d.text = text

LEMMA TextsIs ==
    ASSUME NEW x \in Clients, NEW y \in Clients
    PROVE  <<x, y>> \in Texts <=> ~x.broken /\ IsPrefix(x.text, y.text)
BY DEF Texts

LEMMA ReadingIs ==
    ASSUME NEW x \in Clients, NEW e \in ResponseEvents, NEW y \in Clients
    PROVE  <<x, e, y>> \in Reading <=> ~x.ended /\ ~y.broken /\ y = ResponsesRead(x, e)
BY DEF Reading

LEMMA ReadsNone ==
    ASSUME NEW c \in Clients, ~c.broken
    PROVE  ReadsTo(c, <<>>, c)
<1>1. c.text \in Bodies
  BY DEF Clients
<1>2. <<c, c>> \in Texts
  BY <1>1, PrefixSelf, TextsIs
<1> QED BY <1>2, PathNone DEF ReadsTo

LEMMA ReadsMore ==
    ASSUME NEW c, NEW events \in Seq(ResponseEvents), NEW d \in Clients, ReadsTo(c, events, d),
           ~d.broken, ~d.ended, NEW e \in ResponseEvents,
           NEW g, g = ResponsesRead(d, e), ~g.broken, IsPrefix(d.text, g.text)
    PROVE  /\ Append(events, e) \in Seq(ResponseEvents) /\ g \in Clients
           /\ ReadsTo(c, Append(events, e), g)
<1> HIDE DEF ResponseEvents
<1>1. g \in Clients
  BY ClientReads
<1>2. <<d, e, g>> \in Reading
  BY <1>1, ReadingIs
<1>3. d.text \in Bodies /\ g.text \in Bodies
  BY <1>1 DEF Clients
<1>4. <<g, g>> \in Texts
  BY <1>1, <1>3, PrefixSelf, TextsIs
<1>5. ASSUME NEW x, <<x, d>> \in Texts PROVE <<x, g>> \in Texts
  <2>1. x \in Clients
    BY <1>5 DEF Texts
  <2>2. ~x.broken /\ IsPrefix(x.text, d.text)
    BY <1>5, <2>1, TextsIs
  <2>3. x.text \in Bodies
    BY <2>1 DEF Clients
  <2>4. IsPrefix(x.text, g.text)
    BY <1>3, <2>2, <2>3, PrefixTrans
  <2> QED BY <1>1, <2>1, <2>2, <2>4, TextsIs
<1>6. Append(events, e) \in Seq(ResponseEvents) /\ Path(Reading, Texts, c, Append(events, e), g)
  <2>1. Path(Reading, Texts, c, events, d)
    BY DEF ReadsTo
  <2> QED BY <1>2, <1>4, <1>5, <2>1, PathMore
<1> QED BY <1>1, <1>6 DEF ReadsTo

LEMMA ReadsFirst ==
    ASSUME NEW c \in Clients, NEW events \in Seq(ResponseEvents), NEW d \in Clients, ReadsTo(c, events, d)
    PROVE  /\ ~c.broken /\ IsPrefix(c.text, d.text)
           /\ events = <<>> => c = d
           /\ events # <<>> => /\ ~c.ended
                               /\ ReadsTo(ResponsesRead(c, Head(events)), Tail(events), d)
<1> HIDE DEF ResponseEvents
<1>1. Path(Reading, Texts, c, events, d)
  BY DEF ReadsTo
<1>2. <<c, d>> \in Texts
  BY <1>1, PathFirst
<1>3. ~c.broken /\ IsPrefix(c.text, d.text)
  BY <1>2, TextsIs
<1>4. ASSUME events = <<>> PROVE c = d
  <2>1. Path(Reading, Texts, c, <<>>, d)
    BY <1>1, <1>4
  <2> QED BY <2>1, PathEmpty
<1>5. ASSUME events # <<>>
      PROVE  ~c.ended /\ ReadsTo(ResponsesRead(c, Head(events)), Tail(events), d)
  <2>1. PICK x : <<c, Head(events), x>> \in Reading /\ Path(Reading, Texts, x, Tail(events), d)
    BY ZenonT(90), <1>1, <1>5, PathFirst
  <2>2. ~c.ended /\ x = ResponsesRead(c, Head(events))
    BY <2>1 DEF Reading
  <2> QED BY <2>1, <2>2 DEF ReadsTo
<1> QED BY <1>3, <1>4, <1>5

\* One more event of a running response.
LEMMA AtMore ==
    ASSUME NEW c, NEW events \in Seq(ResponseEvents), NEW d \in Clients, ReadsTo(c, events, d), ~d.broken, ~d.ended,
           NEW e \in ResponseEvents, e.type # "[DONE]",
           NEW g, g = ResponsesRead(d, e), ~g.broken, g.stop = Unset, IsPrefix(d.text, g.text)
    PROVE  At(c, Append(events, e), g.begun, g.items, g.text)
<1> HIDE DEF ResponseEvents
<1>1. g \in Clients /\ ReadsTo(c, Append(events, e), g)
  BY ReadsMore
<1>2. ~g.ended
  BY ClientReads
<1> QED BY <1>1, <1>2 DEF At

LEMMA AtBegun ==
    ASSUME NEW c, NEW events \in Seq(ResponseEvents), NEW items, NEW text, At(c, events, FALSE, items, text),
           NEW e, e = [type |-> "response.created"]
    PROVE  At(c, Append(events, e), TRUE, items, text)
<1>1. PICK d \in Clients : /\ ReadsTo(c, events, d) /\ ~d.broken /\ ~d.ended /\ ~d.begun /\ d.stop = Unset
                           /\ d.items = items /\ d.text = text
  BY DEF At
<1>2. e \in ResponseEvents /\ e.type = "response.created"
  BY OthersMade DEF Unheard
<1>3. e.type # "[DONE]"
  BY <1>2
<1>4. PICK g : g = ResponsesRead(d, e)
  OBVIOUS
<1>5. ~g.broken /\ g.begun /\ g.items = items /\ g.stop = Unset /\ g.text = text
  BY <1>1, <1>2, <1>4, ReadsOthers
<1>6. IsPrefix(d.text, g.text)
  BY <1>1, <1>5, PrefixSelf DEF Clients
<1>7. At(c, Append(events, e), g.begun, g.items, g.text)
  BY <1>1, <1>2, <1>3, <1>4, <1>5, <1>6, AtMore
<1> QED BY <1>5, <1>7 DEF At

LEMMA AtAdds ==
    ASSUME NEW c, NEW events \in Seq(ResponseEvents), NEW items, NEW text, At(c, events, TRUE, items, text),
           NEW item \in {"message", "function_call"}, NEW index \in Nat, NEW id \in Nat, NEW body \in Bodies,
           index = Len(items), item = "message" => index = 0,
           NEW e, e = Item("item.added", item, index, id, body)
    PROVE  At(c, Append(events, e), TRUE, Append(items, AddedItem(item, id, body)), text)
<1>1. PICK d \in Clients : /\ ReadsTo(c, events, d) /\ ~d.broken /\ ~d.ended /\ d.begun /\ d.stop = Unset
                           /\ d.items = items /\ d.text = text
  BY DEF At
<1>2. Unheard(e)
  BY ItemMade
<1>3. e \in ResponseEvents /\ e.type # "[DONE]"
  BY <1>2 DEF Unheard
<1>4. PICK g : g = ItemAdded(d, e)
  OBVIOUS
<1>5. g = ResponsesRead(d, e)
  BY <1>4 DEF ResponsesRead, Item
<1>6. /\ g.items = Append(d.items, AddedItem(item, id, body))
      /\ ~g.broken /\ g.begun = d.begun /\ g.stop = d.stop /\ g.text = d.text
  <2>1. AddsItem(d, g, item, index, id, body)
    BY <1>4, ItemAddedIs
  <2> QED BY <1>1, <2>1 DEF AddsItem
<1>7. IsPrefix(d.text, g.text)
  BY <1>1, <1>6, PrefixSelf DEF Clients
<1>8. At(c, Append(events, e), g.begun, g.items, g.text)
  BY <1>1, <1>3, <1>5, <1>6, <1>7, AtMore
<1> QED BY <1>1, <1>6, <1>8 DEF At

LEMMA AtEnds ==
    ASSUME NEW c, NEW events \in Seq(ResponseEvents), NEW items, NEW text, At(c, events, TRUE, items, text),
           NEW item \in {"message", "function_call"}, NEW index \in Nat, NEW id \in Nat, NEW body \in Bodies,
           NEW n, n = index + 1, n \in 1..Len(items), items[n].item = item, ~items[n].done, items[n].id = id,
           body \in {items[n].body, items[n].announced \o items[n].body},
           NEW e, e = Item("item.done", item, index, id, body)
    PROVE  \E m : ItemIs(items, n, m, body, TRUE) /\ At(c, Append(events, e), TRUE, m, text)
<1>1. PICK d \in Clients : /\ ReadsTo(c, events, d) /\ ~d.broken /\ ~d.ended /\ d.begun /\ d.stop = Unset
                           /\ d.items = items /\ d.text = text
  BY DEF At
<1>2. Unheard(e)
  BY ItemMade
<1>3. e \in ResponseEvents /\ e.type # "[DONE]"
  BY <1>2 DEF Unheard
<1>4. PICK g : g = ItemDone(d, e)
  OBVIOUS
<1>5. g = ResponsesRead(d, e)
  BY <1>4 DEF ResponsesRead, Item
<1>6. items \in Seq(Items)
  BY <1>1 DEF Clients
<1>7. OpenAt(d, index, item)
  BY <1>1, <1>6 DEF OpenAt
<1>8. EndsItem(d, g, item, index, id, body)
  BY <1>4, ItemDoneIs
<1>9. /\ ItemIs(items, n, g.items, body, TRUE)
      /\ ~g.broken /\ g.begun = d.begun /\ g.stop = d.stop /\ g.text = d.text
  BY <1>1, <1>7, <1>8 DEF EndsItem
<1>10. IsPrefix(d.text, g.text)
  BY <1>1, <1>9, PrefixSelf DEF Clients
<1>11. At(c, Append(events, e), g.begun, g.items, g.text)
  BY <1>1, <1>3, <1>5, <1>9, <1>10, AtMore
<1>12. At(c, Append(events, e), TRUE, g.items, text)
  BY <1>1, <1>9, <1>11 DEF At
<1> QED BY <1>9, <1>12

LEMMA AtArguments ==
    ASSUME NEW c, NEW events \in Seq(ResponseEvents), NEW items, NEW text, At(c, events, TRUE, items, text),
           NEW index \in Nat, NEW piece \in Bodies,
           NEW n, n = index + 1, n \in 1..Len(items), items[n].item = "function_call", ~items[n].done,
           NEW e, e = [type |-> "arguments.delta", index |-> index, piece |-> piece]
    PROVE  \E m : ItemIs(items, n, m, items[n].body \o piece, FALSE) /\ At(c, Append(events, e), TRUE, m, text)
<1>1. PICK d \in Clients : /\ ReadsTo(c, events, d) /\ ~d.broken /\ ~d.ended /\ d.begun /\ d.stop = Unset
                           /\ d.items = items /\ d.text = text
  BY DEF At
<1>2. Unheard(e)
  BY ArgumentsMade
<1>3. e \in ResponseEvents /\ e.type # "[DONE]"
  BY <1>2 DEF Unheard
<1>4. PICK g : g = Fed(d, index, "function_call", piece)
  OBVIOUS
<1>5. g = ResponsesRead(d, e)
  BY <1>4 DEF ResponsesRead
<1>6. items \in Seq(Items)
  BY <1>1 DEF Clients
<1>7. OpenAt(d, index, "function_call")
  BY <1>1, <1>6 DEF OpenAt
<1>8. /\ ItemIs(items, n, g.items, items[n].body \o piece, FALSE)
      /\ ~g.broken /\ g.begun = d.begun /\ g.stop = d.stop /\ g.text = d.text
  <2>1. FeedsItem(d, g, index, "function_call", piece) /\ g.text = d.text
    BY <1>4, FedIs
  <2> QED BY <1>1, <1>7, <2>1 DEF FeedsItem
<1>10. IsPrefix(d.text, g.text)
  BY <1>1, <1>8, PrefixSelf DEF Clients
<1>11. At(c, Append(events, e), g.begun, g.items, g.text)
  BY <1>1, <1>3, <1>5, <1>8, <1>10, AtMore
<1>12. At(c, Append(events, e), TRUE, g.items, text)
  BY <1>1, <1>8, <1>11 DEF At
<1> QED BY <1>8, <1>12

LEMMA AtRepeats ==
    ASSUME NEW c, NEW events \in Seq(ResponseEvents), NEW items, NEW text, At(c, events, TRUE, items, text),
           NEW index \in Nat, NEW body \in Bodies,
           NEW n, n = index + 1, n \in 1..Len(items), items[n].item = "function_call", ~items[n].done,
           NEW e, e = [type |-> "arguments.done", index |-> index, body |-> body]
    PROVE  At(c, Append(events, e), TRUE, items, text)
<1>1. PICK d \in Clients : /\ ReadsTo(c, events, d) /\ ~d.broken /\ ~d.ended /\ d.begun /\ d.stop = Unset
                           /\ d.items = items /\ d.text = text
  BY DEF At
<1>2. Unheard(e) /\ e.type = "arguments.done" /\ e.index = index
  BY ArgumentsMade
<1>3. e \in ResponseEvents /\ e.type # "[DONE]"
  BY <1>2 DEF Unheard
<1>6. items \in Seq(Items)
  BY <1>1 DEF Clients
<1>7. OpenAt(d, e.index, "function_call")
  BY <1>1, <1>2, <1>6 DEF OpenAt
<1>8. d = ResponsesRead(d, e)
  BY <1>1, <1>2, <1>7, ReadsOthers
<1>10. IsPrefix(d.text, d.text)
  BY <1>1, PrefixSelf DEF Clients
<1>11. At(c, Append(events, e), d.begun, d.items, d.text)
  BY <1>1, <1>3, <1>8, <1>10, AtMore
<1> QED BY <1>1, <1>11 DEF At

LEMMA AtText ==
    ASSUME NEW c, NEW events \in Seq(ResponseEvents), NEW items, NEW text, At(c, events, TRUE, items, text),
           NEW piece \in Bodies, 1 \in 1..Len(items), items[1].item = "message", ~items[1].done,
           NEW e, e = [type |-> "text.delta", piece |-> piece]
    PROVE  \E m : /\ ItemIs(items, 1, m, items[1].body \o piece, FALSE)
                  /\ At(c, Append(events, e), TRUE, m, text \o piece)
<1>1. PICK d \in Clients : /\ ReadsTo(c, events, d) /\ ~d.broken /\ ~d.ended /\ d.begun /\ d.stop = Unset
                           /\ d.items = items /\ d.text = text
  BY DEF At
<1>2. e \in ResponseEvents
  BY OthersMade
<1>3. e.type # "[DONE]"
  OBVIOUS
<1>4. PICK f : f = Fed(d, 0, "message", piece)
  OBVIOUS
<1>6. items \in Seq(Items)
  BY <1>1 DEF Clients
<1>7. OpenAt(d, 0, "message")
  BY <1>1, <1>6 DEF OpenAt
<1>8. /\ ItemIs(items, 1, f.items, items[1].body \o piece, FALSE) /\ f \in Clients /\ f.text = d.text
      /\ ~f.broken /\ f.begun = d.begun /\ f.stop = d.stop
  <2>1. FeedsItem(d, f, 0, "message", piece) /\ f.text = d.text /\ f \in Clients
    BY <1>4, FedIs
  <2>2. 0 + 1 = 1
    OBVIOUS
  <2> QED BY <1>1, <1>7, <2>1, <2>2 DEF FeedsItem
<1>9. PICK g : g = TextRead(f, "text", piece)
  OBVIOUS
<1>5. g = ResponsesRead(d, e)
  BY <1>4, <1>9 DEF ResponsesRead
<1>12. /\ g.text = d.text \o piece /\ g.items = f.items /\ ~g.broken /\ g.begun = d.begun /\ g.stop = d.stop
  <2>1. f \in Clients
    BY <1>8
  <2>2. g.text = f.text \o piece /\ g.items = f.items /\ g.broken = f.broken /\ g.begun = f.begun /\ g.stop = f.stop
    BY <1>9, <2>1, ReaderTextIs
  <2> QED BY <1>8, <2>2
<1>10. IsPrefix(d.text, g.text)
  BY <1>1, <1>12, PrefixCat DEF Clients
<1>11. At(c, Append(events, e), g.begun, g.items, g.text)
  BY <1>1, <1>2, <1>3, <1>5, <1>10, <1>12, AtMore
<1>13. At(c, Append(events, e), TRUE, g.items, text \o piece)
  BY <1>1, <1>11, <1>12 DEF At
<1> QED BY <1>8, <1>12, <1>13

\* The end: the client has it all.
AtLast(c, events, begun, usage, items, text) ==
  \E d \in Clients : /\ ReadsTo(c, events, d) /\ d.ended /\ ~d.broken /\ (d.begun <=> begun)
                     /\ d.stop = "completed" /\ d.usage = usage /\ d.items = items /\ d.text = text

LEMMA AtTheEnd ==
    ASSUME NEW c, NEW events \in Seq(ResponseEvents), NEW begun, NEW items, NEW text, At(c, events, begun, items, text),
           NEW usage \in Usages,
           NEW e, e = [type |-> "response.completed", usage |-> usage, output |-> <<>>]
    PROVE  AtLast(c, Append(Append(events, e), Done), begun, usage, items, text)
<1>1. PICK d \in Clients : /\ ReadsTo(c, events, d) /\ ~d.broken /\ ~d.ended /\ d.stop = Unset
                           /\ d.items = items /\ d.text = text /\ (d.begun <=> begun)
  BY DEF At
<1>2. /\ e \in ResponseEvents /\ e.type = "response.completed" /\ e.usage = usage
      /\ Done \in ResponseEvents /\ Done.type = "[DONE]"
  BY OthersMade
<1>3. PICK f : f = ResponsesRead(d, e)
  OBVIOUS
<1>4. /\ f \in Clients /\ ~f.ended /\ ~f.broken /\ f.items = items /\ f.stop = "completed" /\ f.text = text
      /\ f.usage = usage /\ f.begun = d.begun
  BY SMTT(60), <1>1, <1>2, <1>3, ReadsOthers
<1>5. d.text \in Bodies
  BY <1>1 DEF Clients
<1>6. IsPrefix(d.text, f.text) /\ IsPrefix(f.text, f.text)
  BY <1>1, <1>4, <1>5, PrefixSelf
<1>7. Append(events, e) \in Seq(ResponseEvents) /\ ReadsTo(c, Append(events, e), f)
  BY <1>1, <1>2, <1>3, <1>4, <1>6, ReadsMore
<1>8. PICK g : g = ResponsesRead(f, Done)
  OBVIOUS
<1>9. "completed" # Unset
  BY Zenon DEF Unset
<1>10. /\ g \in Clients /\ g.ended /\ ~g.broken /\ g.items = items /\ g.stop = "completed" /\ g.text = text
       /\ g.usage = usage /\ g.begun = f.begun
  BY <1>2, <1>4, <1>8, <1>9, ReadsOthers
<1>11. ReadsTo(c, Append(Append(events, e), Done), g)
  <2>1. IsPrefix(f.text, g.text)
    BY <1>4, <1>6, <1>10
  <2> QED BY <1>2, <1>4, <1>7, <1>8, <1>10, <2>1, ReadsMore
<1>12. g.begun <=> begun
  BY <1>1, <1>4, <1>10
<1> QED BY <1>10, <1>11, <1>12 DEF AtLast

-----------------------------------------------------------------------------
(* What the operators make of a converter. *)

\* All but the calls and the next index.
SameRestOf(sc, sf) ==
  /\ sf \in Responders /\ sf.buffer = sc.buffer /\ sf.reserved = sc.reserved /\ sf.started = sc.started
  /\ sf.done = sc.done /\ sf.text = sc.text /\ sf.usage = sc.usage /\ sf.sentDone = sc.sentDone

CallPut(sc, k, call, sf) == SameRestOf(sc, sf) /\ PutIs(CallStates, sc.calls, k, call, sf.calls)

LEMMA CallFacts ==
    ASSUME NEW sc \in Responders, NEW k \in DOMAIN sc.calls
    PROVE  /\ k \in Nat /\ sc.calls[k] \in CallStates /\ sc.calls \in Partial(CallStates)
           /\ sc.calls[k].index \in Nat /\ sc.calls[k].id \in Nat /\ sc.calls[k].arguments \in Bodies
           /\ ToolCallArguments(sc.calls[k]) \in Bodies
<1>1. sc.calls \in Partial(CallStates)
  BY DEF Responders
<1>2. k \in Nat /\ sc.calls[k] \in CallStates
  BY <1>1, PartialFacts
<1>3. sc.calls[k].index \in Nat /\ sc.calls[k].id \in Nat /\ sc.calls[k].arguments \in Bodies
  BY <1>2 DEF CallStates
<1>4. <<Empty>> \in Bodies
  BY DEF Bodies, Empty
<1>5. ToolCallArguments(sc.calls[k]) \in Bodies
  BY <1>3, <1>4 DEF ToolCallArguments
<1> QED BY <1>1, <1>2, <1>3, <1>5

LEMMA CallTurns ==
    ASSUME NEW sc \in Responders, NEW k \in DOMAIN sc.calls, NEW call \in CallStates,
           NEW sf, sf = [sc EXCEPT !.calls = [sc.calls EXCEPT ![k] = call]]
    PROVE  CallPut(sc, k, call, sf) /\ sf.next = sc.next
<1>1. sc.calls \in Partial(CallStates)
  BY CallFacts
<1>2. PICK calls : calls = [sc.calls EXCEPT ![k] = call]
  OBVIOUS
<1>3. PutIs(CallStates, sc.calls, k, call, calls)
  BY <1>1, <1>2, PartialExcept
<1>4. calls \in Partial(CallStates)
  BY <1>3 DEF PutIs
<1>5. sf = [sc EXCEPT !.calls = calls]
  BY <1>2
<1>6. sf.calls = calls /\ SameRestOf(sc, sf) /\ sf.next = sc.next
  BY <1>4, <1>5 DEF SameRestOf, Responders
<1> QED BY <1>3, <1>6 DEF CallPut

Announced(sc, k, call, sd) ==
  \E sf : /\ CallPut(sc, k, call, sf) /\ sf.next = sc.next
          /\ sd = emit(sf, Item("item.added", "function_call", call.index, call.id, ToolCallArguments(call)))

LEMMA StartToolCallIs ==
    ASSUME NEW sc \in Responders, NEW k \in DOMAIN sc.calls,
           NEW call, call = [sc.calls[k] EXCEPT !.started = TRUE]
    PROVE  /\ call \in CallStates /\ call.started
           /\ IF sc.calls[k].started \/ sc.calls[k].id = NoId THEN StartToolCall(sc, k) = sc
              ELSE Announced(sc, k, call, StartToolCall(sc, k))
<1>1. sc.calls[k] \in CallStates
  BY CallFacts
<1>2. /\ call \in CallStates /\ call.started /\ call.index = sc.calls[k].index /\ call.id = sc.calls[k].id
      /\ call.placeholder = sc.calls[k].placeholder /\ call.arguments = sc.calls[k].arguments
  BY <1>1 DEF CallStates
<1>3. ToolCallArguments(call) = ToolCallArguments(sc.calls[k])
  BY <1>2 DEF ToolCallArguments
<1>4. PICK sf : sf = [sc EXCEPT !.calls = [sc.calls EXCEPT ![k] = call]]
  OBVIOUS
<1>5. CallPut(sc, k, call, sf) /\ sf.next = sc.next
  <2>1. PICK x \in CallStates : x = call
    BY <1>2
  <2>2. sf = [sc EXCEPT !.calls = [sc.calls EXCEPT ![k] = x]]
    BY <1>4, <2>1
  <2>3. CallPut(sc, k, x, sf) /\ sf.next = sc.next
    BY <2>2, CallTurns
  <2> QED BY <2>1, <2>3
<1>6. sf = [sc EXCEPT !.calls[k].started = TRUE]
  BY <1>1, <1>4 DEF Responders
<1>7. ~(sc.calls[k].started \/ sc.calls[k].id = NoId) => Announced(sc, k, call, StartToolCall(sc, k))
  BY <1>2, <1>3, <1>5, <1>6 DEF StartToolCall, Announced
<1> QED BY <1>2, <1>7 DEF StartToolCall

Finished(sc, k, call, sd) ==
  \E sf : /\ CallPut(sc, k, call, sf) /\ sf.next = sc.next
          /\ sd = emit(emit(sf, [type |-> "arguments.done", index |-> call.index, body |-> ToolCallArguments(call)]),
                       Item("item.done", "function_call", call.index, call.id, ToolCallArguments(call)))

LEMMA CompleteToolCallIs ==
    ASSUME NEW sc \in Responders, NEW k \in DOMAIN sc.calls,
           NEW call, call = [sc.calls[k] EXCEPT !.completed = TRUE]
    PROVE  /\ call \in CallStates /\ call.completed
           /\ IF sc.calls[k].completed THEN CompleteToolCall(sc, k) = sc
              ELSE Finished(sc, k, call, CompleteToolCall(sc, k))
<1>1. sc.calls[k] \in CallStates
  BY CallFacts
<1>2. /\ call \in CallStates /\ call.completed /\ call.index = sc.calls[k].index /\ call.id = sc.calls[k].id
      /\ call.placeholder = sc.calls[k].placeholder /\ call.arguments = sc.calls[k].arguments
  BY <1>1 DEF CallStates
<1>3. ToolCallArguments(call) = ToolCallArguments(sc.calls[k])
  BY <1>2 DEF ToolCallArguments
<1>4. PICK sf : sf = [sc EXCEPT !.calls = [sc.calls EXCEPT ![k] = call]]
  OBVIOUS
<1>5. CallPut(sc, k, call, sf) /\ sf.next = sc.next
  <2>1. PICK x \in CallStates : x = call
    BY <1>2
  <2>2. sf = [sc EXCEPT !.calls = [sc.calls EXCEPT ![k] = x]]
    BY <1>4, <2>1
  <2>3. CallPut(sc, k, x, sf) /\ sf.next = sc.next
    BY <2>2, CallTurns
  <2> QED BY <2>1, <2>3
<1>6. sf = [sc EXCEPT !.calls[k].completed = TRUE]
  BY <1>1, <1>4 DEF Responders
<1>7. ~sc.calls[k].completed => Finished(sc, k, call, CompleteToolCall(sc, k))
  BY <1>2, <1>3, <1>5, <1>6 DEF CompleteToolCall, Finished
<1> QED BY <1>2, <1>7 DEF CompleteToolCall

\* The state of the message changes.
MessageIs(sc, sf, reserved, started, done) ==
  /\ sf \in Responders /\ sf.buffer = sc.buffer /\ sf.calls = sc.calls
  /\ (sf.reserved <=> reserved) /\ (sf.started <=> started) /\ (sf.done <=> done)
  /\ sf.text = sc.text /\ sf.usage = sc.usage /\ sf.sentDone = sc.sentDone

LEMMA MessageTurns ==
    ASSUME NEW sc \in Responders
    PROVE  /\ MessageIs(sc, [sc EXCEPT !.started = TRUE], sc.reserved, TRUE, sc.done)
           /\ [sc EXCEPT !.started = TRUE].next = sc.next
           /\ MessageIs(sc, [sc EXCEPT !.done = TRUE], sc.reserved, sc.started, TRUE)
           /\ [sc EXCEPT !.done = TRUE].next = sc.next
           /\ MessageIs(sc, [sc EXCEPT !.reserved = TRUE, !.next = @ + 1], TRUE, sc.started, sc.done)
           /\ [sc EXCEPT !.reserved = TRUE, !.next = @ + 1].next = sc.next + 1
<1>1. MessageIs(sc, [sc EXCEPT !.started = TRUE], sc.reserved, TRUE, sc.done) /\ [sc EXCEPT !.started = TRUE].next = sc.next
  BY DEF Responders, MessageIs
<1>2. MessageIs(sc, [sc EXCEPT !.done = TRUE], sc.reserved, sc.started, TRUE) /\ [sc EXCEPT !.done = TRUE].next = sc.next
  BY DEF Responders, MessageIs
<1>3. PICK n : n = sc.next + 1
  OBVIOUS
<1>4. n \in Nat
  BY <1>3 DEF Responders
<1>5. [sc EXCEPT !.reserved = TRUE, !.next = @ + 1] = [sc EXCEPT !.reserved = TRUE, !.next = n]
  BY <1>3 DEF Responders
<1>6. MessageIs(sc, [sc EXCEPT !.reserved = TRUE, !.next = n], TRUE, sc.started, sc.done)
      /\ [sc EXCEPT !.reserved = TRUE, !.next = n].next = n
  BY <1>4 DEF Responders, MessageIs
<1> QED BY <1>1, <1>2, <1>3, <1>5, <1>6

TextMore(sc, piece, sf) ==
  /\ sf \in Responders /\ sf.buffer = sc.buffer /\ sf.calls = sc.calls /\ sf.next = sc.next
  /\ sf.reserved = sc.reserved /\ sf.started = sc.started /\ sf.done = sc.done
  /\ sf.text = sc.text \o piece /\ sf.usage = sc.usage /\ sf.sentDone = sc.sentDone

LEMMA TextTurns ==
    ASSUME NEW sc \in Responders, NEW piece \in Bodies
    PROVE  TextMore(sc, piece, [sc EXCEPT !.text = @ \o piece])
<1>1. PICK text : text = sc.text \o piece
  OBVIOUS
<1>2. text \in Bodies
  BY <1>1, PrefixCat DEF Responders
<1>3. PICK sf : sf = [sc EXCEPT !.text = text]
  OBVIOUS
<1>4. [sc EXCEPT !.text = @ \o piece] = sf
  BY <1>1, <1>3 DEF Responders
<1>5. TextMore(sc, piece, sf)
  BY <1>1, <1>2, <1>3 DEF Responders, TextMore
<1> QED BY <1>4, <1>5

LEMMA UsageTurns ==
    ASSUME NEW sc \in Responders, NEW usage \in Usages, NEW sf, sf = [sc EXCEPT !.usage = usage]
    PROVE  /\ sf \in Responders /\ sf.buffer = sc.buffer /\ sf.calls = sc.calls /\ sf.next = sc.next
           /\ sf.reserved = sc.reserved /\ sf.started = sc.started /\ sf.done = sc.done
           /\ sf.text = sc.text /\ sf.usage = usage /\ sf.sentDone = sc.sentDone
BY DEF Responders

-----------------------------------------------------------------------------
(* The observers are told the texts and the end, and nothing else. *)

Passes(sc, sd) ==
  /\ sd \in Responders /\ sd.text = sc.text /\ sd.usage = sc.usage /\ ~sd.sentDone
  /\ \A o, over, p : Follows(o, over, sc, p) => Follows(o, over, sd, p)

LEMMA PassesSelf ==
    ASSUME NEW sc \in Responders, ~sc.sentDone
    PROVE  Passes(sc, sc)
BY DEF Passes

LEMMA PassesThen ==
    ASSUME NEW sc, NEW sd, NEW se, Passes(sc, sd), Passes(sd, se)
    PROVE  Passes(sc, se)
BY DEF Passes

LEMMA PassesSet ==
    ASSUME NEW sc \in Responders, ~sc.sentDone, NEW sd \in Responders, sd.buffer = sc.buffer, sd.text = sc.text,
           sd.usage = sc.usage, ~sd.sentDone
    PROVE  Passes(sc, sd)
BY FollowsSame DEF Passes

LEMMA PassesEmit ==
    ASSUME NEW sc \in Responders, ~sc.sentDone, NEW e, Unheard(e)
    PROVE  Passes(sc, emit(sc, e))
<1>1. e \in ResponseEvents
  BY DEF Unheard
<1>2. SameButBuffer(sc, emit(sc, e))
  BY <1>1, EmitIs
<1> QED BY <1>2, FollowsEmit DEF Passes, SameButBuffer

LEMMA StartPasses ==
    ASSUME NEW sc \in Responders, ~sc.sentDone
    PROVE  /\ Passes(sc, StartAssistantOutput(sc)) /\ StartAssistantOutput(sc).calls = sc.calls
           /\ StartAssistantOutput(sc).next = sc.next /\ StartAssistantOutput(sc).reserved = sc.reserved
           /\ StartAssistantOutput(sc).started /\ StartAssistantOutput(sc).done = sc.done
<1>1. CASE sc.started
  BY <1>1, PassesSelf DEF StartAssistantOutput
<1>2. CASE ~sc.started
  <2>1. PICK sf : sf = [sc EXCEPT !.started = TRUE]
    OBVIOUS
  <2>2. MessageIs(sc, sf, sc.reserved, TRUE, sc.done) /\ sf.next = sc.next
    BY <2>1, MessageTurns
  <2>3. PICK e : e = Item("item.added", "message", 0, NoId, <<>>)
    OBVIOUS
  <2>4. StartAssistantOutput(sc) = emit(sf, e)
    BY <1>2, <2>1, <2>3 DEF StartAssistantOutput
  <2>5. Unheard(e)
    <3>1. 0 \in Nat /\ NoId \in Nat /\ <<>> \in Bodies
      BY DEF NoId, Bodies
    <3> QED BY <2>3, <3>1, ItemMade
  <2>6. Passes(sc, sf)
    BY <2>2, PassesSet DEF MessageIs
  <2>7. Passes(sf, emit(sf, e))
    BY <2>2, <2>5, PassesEmit DEF MessageIs
  <2>8. SameButBuffer(sf, emit(sf, e))
    BY <2>2, <2>5, EmitIs DEF MessageIs, Unheard
  <2>9. sf.reserved = sc.reserved /\ sf.started /\ sf.done = sc.done /\ sf.calls = sc.calls
    BY <2>2 DEF MessageIs, Responders
  <2> QED BY <2>2, <2>4, <2>6, <2>7, <2>8, <2>9, PassesThen DEF SameButBuffer
<1> QED BY <1>1, <1>2

LEMMA CompletePasses ==
    ASSUME NEW sc \in Responders, ~sc.sentDone
    PROVE  /\ Passes(sc, CompleteAssistantOutput(sc)) /\ CompleteAssistantOutput(sc).calls = sc.calls
           /\ CompleteAssistantOutput(sc).next = sc.next /\ CompleteAssistantOutput(sc).reserved = sc.reserved
<1>1. CASE ~sc.reserved \/ sc.done
  BY <1>1, PassesSelf DEF CompleteAssistantOutput
<1>2. CASE sc.reserved /\ ~sc.done
  <2>1. PICK sf : sf = [sc EXCEPT !.done = TRUE]
    OBVIOUS
  <2>2. MessageIs(sc, sf, sc.reserved, sc.started, TRUE) /\ sf.next = sc.next
    BY <2>1, MessageTurns
  <2>3. PICK sg : sg = StartAssistantOutput(sf)
    OBVIOUS
  <2>4. Passes(sc, sf)
    BY <2>2, PassesSet DEF MessageIs
  <2>5. Passes(sf, sg) /\ sg.calls = sf.calls /\ sg.next = sf.next /\ sg.reserved = sf.reserved
    BY <2>2, <2>3, StartPasses DEF MessageIs
  <2>6. PICK e : e = Item("item.done", "message", 0, NoId, sc.text)
    OBVIOUS
  <2>7. Unheard(e)
    <3>1. 0 \in Nat /\ NoId \in Nat /\ sc.text \in Bodies
      BY DEF NoId, Responders
    <3> QED BY <2>6, <3>1, ItemMade
  <2>8. CompleteAssistantOutput(sc) = emit(sg, e)
    BY <1>2, <2>1, <2>3, <2>6 DEF CompleteAssistantOutput
  <2>9. Passes(sg, emit(sg, e)) /\ SameButBuffer(sg, emit(sg, e))
    BY <2>5, <2>7, PassesEmit, EmitIs DEF Passes, Unheard
  <2>10. sf.reserved = sc.reserved /\ sf.calls = sc.calls
    BY <2>2 DEF MessageIs, Responders
  <2> QED BY <2>2, <2>4, <2>5, <2>8, <2>9, <2>10, PassesThen DEF SameButBuffer
<1> QED BY <1>1, <1>2

LEMMA EndTextPasses ==
    ASSUME NEW sc \in Responders, ~sc.sentDone
    PROVE  /\ Passes(sc, EndAssistantText(sc)) /\ EndAssistantText(sc).calls = sc.calls
           /\ EndAssistantText(sc).next = sc.next /\ EndAssistantText(sc).reserved = sc.reserved
BY PassesSelf, CompletePasses DEF EndAssistantText

LEMMA StartCallPasses ==
    ASSUME NEW sc \in Responders, ~sc.sentDone, NEW k \in DOMAIN sc.calls
    PROVE  Passes(sc, StartToolCall(sc, k)) /\ DOMAIN StartToolCall(sc, k).calls = DOMAIN sc.calls
<1>1. PICK call : call = [sc.calls[k] EXCEPT !.started = TRUE]
  OBVIOUS
<1>2. call \in CallStates
  BY <1>1, StartToolCallIs
<1>3. CASE StartToolCall(sc, k) = sc
  BY <1>3, PassesSelf
<1>4. CASE Announced(sc, k, call, StartToolCall(sc, k))
  <2>1. PICK sf : /\ CallPut(sc, k, call, sf)
                  /\ StartToolCall(sc, k)
                       = emit(sf, Item("item.added", "function_call", call.index, call.id, ToolCallArguments(call)))
    BY <1>4 DEF Announced
  <2>2. sf \in Responders /\ SameRestOf(sc, sf) /\ PutIs(CallStates, sc.calls, k, call, sf.calls)
    BY <2>1 DEF CallPut, SameRestOf
  <2>3. k \in DOMAIN sf.calls /\ sf.calls[k] = call /\ DOMAIN sf.calls = DOMAIN sc.calls
    BY <2>2 DEF PutIs
  <2>4. PICK e : e = Item("item.added", "function_call", call.index, call.id, ToolCallArguments(call))
    OBVIOUS
  <2>5. Unheard(e)
    BY <2>2, <2>3, <2>4, CallFacts, ItemMade
  <2>6. Passes(sc, sf)
    BY <2>2, PassesSet DEF SameRestOf
  <2>7. Passes(sf, emit(sf, e)) /\ SameButBuffer(sf, emit(sf, e))
    BY <2>5, <2>6, PassesEmit, EmitIs DEF Passes, Unheard
  <2> QED BY <2>1, <2>3, <2>4, <2>6, <2>7, PassesThen DEF SameButBuffer
<1> QED BY <1>1, <1>3, <1>4, StartToolCallIs

LEMMA ArgumentsPass ==
    ASSUME NEW sc \in Responders, ~sc.sentDone, NEW k \in DOMAIN sc.calls, NEW piece \in Bodies
    PROVE  Passes(sc, ArgumentsDelta(sc, k, piece)) /\ ArgumentsDelta(sc, k, piece).calls = sc.calls
<1>1. PICK e : e = [type |-> "arguments.delta", index |-> sc.calls[k].index, piece |-> piece]
  OBVIOUS
<1>2. Unheard(e)
  BY <1>1, CallFacts, ArgumentsMade
<1>3. Passes(sc, emit(sc, e)) /\ SameButBuffer(sc, emit(sc, e))
  BY <1>2, PassesEmit, EmitIs DEF Unheard
<1> QED BY <1>1, <1>3 DEF ArgumentsDelta, SameButBuffer

LEMMA CompleteCallPasses ==
    ASSUME NEW sc \in Responders, ~sc.sentDone, NEW k \in DOMAIN sc.calls
    PROVE  Passes(sc, CompleteToolCall(sc, k)) /\ DOMAIN CompleteToolCall(sc, k).calls = DOMAIN sc.calls
<1>1. PICK call : call = [sc.calls[k] EXCEPT !.completed = TRUE]
  OBVIOUS
<1>2. call \in CallStates
  BY <1>1, CompleteToolCallIs
<1>3. CASE CompleteToolCall(sc, k) = sc
  BY <1>3, PassesSelf
<1>4. CASE Finished(sc, k, call, CompleteToolCall(sc, k))
  <2>1. PICK sf : /\ CallPut(sc, k, call, sf)
                  /\ CompleteToolCall(sc, k)
                       = emit(emit(sf, [type |-> "arguments.done", index |-> call.index, body |-> ToolCallArguments(call)]),
                              Item("item.done", "function_call", call.index, call.id, ToolCallArguments(call)))
    BY <1>4 DEF Finished
  <2>2. sf \in Responders /\ SameRestOf(sc, sf) /\ PutIs(CallStates, sc.calls, k, call, sf.calls)
    BY <2>1 DEF CallPut, SameRestOf
  <2>3. k \in DOMAIN sf.calls /\ sf.calls[k] = call /\ DOMAIN sf.calls = DOMAIN sc.calls
    BY <2>2 DEF PutIs
  <2>4. PICK e, f : /\ e = [type |-> "arguments.done", index |-> call.index, body |-> ToolCallArguments(call)]
                    /\ f = Item("item.done", "function_call", call.index, call.id, ToolCallArguments(call))
    OBVIOUS
  <2>5. Unheard(e) /\ Unheard(f)
    BY <2>2, <2>3, <2>4, CallFacts, ItemMade, ArgumentsMade
  <2>6. Passes(sc, sf)
    BY <2>2, PassesSet DEF SameRestOf
  <2>7. PICK sg : sg = emit(sf, e)
    OBVIOUS
  <2>8. Passes(sf, sg) /\ SameButBuffer(sf, sg)
    BY <2>5, <2>6, <2>7, PassesEmit, EmitIs DEF Passes, Unheard
  <2>9. Passes(sg, emit(sg, f)) /\ SameButBuffer(sg, emit(sg, f))
    BY <2>5, <2>8, PassesEmit, EmitIs DEF Passes, Unheard
  <2>10. Passes(sc, emit(sg, f))
    BY <2>6, <2>8, <2>9, PassesThen
  <2> QED BY <2>1, <2>3, <2>4, <2>7, <2>8, <2>9, <2>10 DEF SameButBuffer
<1> QED BY <1>1, <1>3, <1>4, CompleteToolCallIs

-----------------------------------------------------------------------------
(* What a handler makes of a converter, for the observers. *)

Followed(o, over, sc) == \E p : Follows(o, over, sc, p)

Heard(sc, sd, text, usage) ==
  /\ sd \in Responders /\ sd.text = text /\ sd.usage = usage /\ ~sd.sentDone
  /\ \A o, over : Followed(o, over, sc) => Followed(o, over, sd)

LEMMA HeardPasses ==
    ASSUME NEW sc, NEW sd, Passes(sc, sd)
    PROVE  Heard(sc, sd, sc.text, sc.usage)
BY DEF Passes, Heard, Followed

LEMMA HeardThen ==
    ASSUME NEW sc, NEW sd, NEW se, NEW text, NEW usage, NEW more, NEW count, Heard(sc, sd, text, usage),
           Heard(sd, se, more, count)
    PROVE  Heard(sc, se, more, count)
BY DEF Heard

LEMMA HeardUsage ==
    ASSUME NEW sc \in Responders, ~sc.sentDone, NEW usage \in Usages, NEW sf, sf = [sc EXCEPT !.usage = usage]
    PROVE  Heard(sc, sf, sc.text, usage)
<1>1. /\ sf \in Responders /\ sf.buffer = sc.buffer /\ sf.text = sc.text /\ sf.usage = usage
      /\ sf.sentDone = sc.sentDone
  BY UsageTurns
<1>2. ASSUME NEW o, NEW over, Followed(o, over, sc) PROVE Followed(o, over, sf)
  <2>1. PICK p : Follows(o, over, sc, p)
    BY <1>2 DEF Followed
  <2>2. Follows(o, over, sf, p)
    BY <1>1, <2>1, FollowsSame
  <2> QED BY <2>2 DEF Followed
<1> QED BY <1>1, <1>2 DEF Heard

LEMMA TextGrows ==
    ASSUME NEW o \in Seen, NEW piece \in Bodies, Kept(o, piece) \in Bodies
    PROVE  IsPrefix(o.text, appendText(o, piece).text)
<1>1. PICK p : p = appendLimitedStreamText(o, piece)
  OBVIOUS
<1>2. p.text = o.text /\ p = [p EXCEPT !.text = p.text]
  BY <1>1 DEF appendLimitedStreamText, Seen
<1>3. appendText(o, piece) = [p EXCEPT !.text = @ \o Kept(o, piece)]
  BY <1>1 DEF appendText
<1>4. "text" \in DOMAIN p
  BY <1>1 DEF appendLimitedStreamText, Seen
<1>5. appendText(o, piece).text = o.text \o Kept(o, piece)
  BY <1>2, <1>3, <1>4
<1>6. o.text \in Bodies
  BY DEF Seen
<1> QED BY <1>5, <1>6, PrefixCat

LEMMA HeardText ==
    ASSUME NEW sc \in Responders, ~sc.sentDone, NEW piece \in Bodies
    PROVE  /\ Heard(sc, AssistantText(sc, piece), sc.text \o piece, sc.usage)
           /\ AssistantText(sc, piece).calls = sc.calls /\ AssistantText(sc, piece).next = sc.next
           /\ AssistantText(sc, piece).reserved = sc.reserved
<1>1. PICK s1 : s1 = StartAssistantOutput(sc)
  OBVIOUS
<1>2. Passes(sc, s1) /\ s1.calls = sc.calls /\ s1.next = sc.next /\ s1.reserved = sc.reserved
  BY <1>1, StartPasses
<1>3. s1 \in Responders /\ s1.text = sc.text /\ s1.usage = sc.usage /\ ~s1.sentDone
  BY <1>2 DEF Passes
<1>4. PICK s2 : s2 = [s1 EXCEPT !.text = @ \o piece]
  OBVIOUS
<1>5. /\ s2 \in Responders /\ s2.buffer = s1.buffer /\ s2.calls = s1.calls /\ s2.next = s1.next
      /\ s2.text = s1.text \o piece /\ s2.usage = s1.usage /\ s2.sentDone = s1.sentDone
      /\ s2.reserved = s1.reserved
  <2>1. TextMore(s1, piece, s2)
    BY <1>3, <1>4, TextTurns
  <2> QED BY <2>1 DEF TextMore
<1>6. PICK e : e = [type |-> "text.delta", piece |-> piece]
  OBVIOUS
<1>7. e \in ResponseEvents /\ e.type = "text.delta" /\ e.piece = piece
  BY <1>6, OthersMade
<1>8. PICK s3 : s3 = emit(s2, e)
  OBVIOUS
<1>9. AssistantText(sc, piece) = s3
  BY <1>1, <1>4, <1>6, <1>8 DEF AssistantText
<1>10. SameButBuffer(s2, s3)
  BY <1>5, <1>7, <1>8, EmitIs
<1>11. ASSUME NEW o, NEW over, Followed(o, over, sc) PROVE Followed(o, over, s3)
  <2>1. PICK p : Follows(o, over, s1, p)
    BY <1>2, <1>11 DEF Followed, Passes
  <2>2. /\ p \in Seen /\ KeptOf(p, s1.text, <<>>, Len(s1.text))
        /\ Path(Hears, Upto, Watcher(o, over), s1.buffer, Watcher(p, s1.sentDone))
        /\ ~p.completed /\ p.usage = NoUsage /\ s1.sentDone = FALSE /\ s1.text \in Bodies
    BY <1>3, <2>1, FollowsFacts DEF Follows
  <2>3. PICK q : q = appendText(p, piece)
    OBVIOUS
  <2>4. KeptOf(q, s1.text \o piece, <<>>, Len(s1.text) + Len(piece)) /\ SameButPieces(p, q)
    BY <2>2, <2>3, ObservesText
  <2>5. q = Observe(p, e)
    BY <1>7, <2>3 DEF Observe
  <2>6. IsPrefix(p.text, q.text)
    <3>1. Len(s1.text) \in Nat
      BY <2>2 DEF Bodies
    <3>2. PICK size \in Nat : size = Len(s1.text)
      BY <3>1
    <3>3. /\ p.captured = (IF size <= MaxContentCapture THEN size ELSE MaxContentCapture)
          /\ (p.truncated <=> size > MaxContentCapture)
      BY <2>2, <3>2 DEF KeptOf
    <3>4. Kept(p, piece) \in Bodies
      BY <2>2, <3>3, KeptFacts
    <3> QED BY <2>2, <2>3, <3>4, TextGrows
  <2>7. q \in Seen
    BY <2>4 DEF KeptOf
  <2>8. PICK ends \in BOOLEAN : ends = FALSE
    OBVIOUS
  <2>9. Path(Hears, Upto, Watcher(o, over), emit(s2, e).buffer, Watcher(q, ends))
    <3>1. Path(Hears, Upto, Watcher(o, over), s2.buffer, Watcher(p, FALSE))
      BY <1>5, <2>2
    <3>2. ends <=> e.type = "[DONE]"
      BY <1>7, <2>8
    <3> QED BY <1>5, <1>7, <2>2, <2>5, <2>6, <2>7, <3>1, <3>2, Hearing
  <2>10. s3.sentDone = ends
    BY <1>5, <1>10, <2>2, <2>8 DEF SameButBuffer
  <2>11. KeptOf(q, s3.text, <<>>, Len(s3.text))
    <3>1. s3.text = s1.text \o piece /\ Len(s1.text \o piece) = Len(s1.text) + Len(piece)
      BY <1>5, <1>10, <2>2, PrefixCat DEF SameButBuffer
    <3> QED BY <2>4, <3>1
  <2>12. ~q.completed /\ q.usage = NoUsage
    BY <2>2, <2>4 DEF SameButPieces
  <2>13. Path(Hears, Upto, Watcher(o, over), s3.buffer, Watcher(q, s3.sentDone))
    BY <1>8, <2>9, <2>10
  <2>14. Follows(o, over, s3, q)
    BY <1>10, <2>8, <2>10, <2>11, <2>12, <2>13 DEF Follows, SameButBuffer
  <2> QED BY <2>14 DEF Followed
<1>12. s3 \in Responders /\ s3.text = sc.text \o piece /\ s3.usage = sc.usage /\ ~s3.sentDone
  BY <1>3, <1>5, <1>10 DEF SameButBuffer
<1>13. Heard(sc, s3, sc.text \o piece, sc.usage)
  BY <1>11, <1>12 DEF Heard
<1> QED BY <1>2, <1>5, <1>9, <1>10, <1>13 DEF SameButBuffer

LEMMA CreatedPasses ==
    ASSUME NEW sc \in Responders, ~sc.sentDone
    PROVE  Passes(sc, Created(sc)) /\ SameButBuffer(sc, Created(sc))
<1>1. PICK e : e = [type |-> "response.created"]
  OBVIOUS
<1>2. Unheard(e)
  BY <1>1, OthersMade
<1>3. Created(sc) = emit(sc, e)
  BY <1>1 DEF Created
<1> QED BY <1>2, <1>3, PassesEmit, EmitIs DEF Unheard

LEMMA ObservesEnd ==
    ASSUME NEW p, NEW text, NEW size, KeptOf(p, text, <<>>, size), p.usage = NoUsage, NEW usage \in Usages,
           NEW e, e = [type |-> "response.completed", usage |-> usage, output |-> <<>>]
    PROVE  /\ KeptOf(Observe(p, e), text, <<>>, size) /\ Observe(p, e).completed /\ Observe(p, e).usage = usage
           /\ Observe(p, e).text = p.text
<1>1. p \in Seen
  BY DEF KeptOf
<1>2. e.type = "response.completed" /\ e.usage = usage /\ e.output = <<>>
  OBVIOUS
<1>3. PICK o : o = CacheUsage(p, usage)
  OBVIOUS
<1>4. KeptOf(o, text, <<>>, size) /\ o.usage = usage
  BY <1>3, CacheKeeps
<1>5. o \in Seen
  BY <1>4 DEF KeptOf
<1>6. o.text = p.text
  BY <1>1, <1>3 DEF CacheUsage, Seen
<1>7. PICK q : q = [o EXCEPT !.completed = TRUE, !.output = <<>>]
  OBVIOUS
<1>8. Observe(p, e) = q
  BY <1>2, <1>3, <1>7 DEF Observe
<1>9. /\ q \in Seen /\ q.completed /\ q.usage = o.usage /\ q.text = o.text /\ q.calls = o.calls
      /\ q.captured = o.captured /\ q.truncated = o.truncated
  BY <1>5, <1>7 DEF Seen
<1>10. PiecesKept(q) = PiecesKept(o)
  BY <1>5, <1>9, SamePieces
<1>11. KeptOf(q, text, <<>>, size)
  BY <1>4, <1>9, <1>10 DEF KeptOf
<1> QED BY <1>4, <1>6, <1>8, <1>9, <1>11

CompletedBy(sc, sd) ==
  /\ sd \in Responders /\ sd.text = sc.text /\ sd.usage = sc.usage /\ sd.sentDone
  /\ \A o, over : Followed(o, over, sc) => Followed(o, over, sd)

LEMMA CompletedHeard ==
    ASSUME NEW sc \in Responders, ~sc.sentDone
    PROVE  CompletedBy(sc, Completed(sc)) /\ DOMAIN Completed(sc).calls = DOMAIN sc.calls
<1>1. PICK s1 : s1 = [sc EXCEPT !.sentDone = TRUE]
  OBVIOUS
<1>2. /\ s1 \in Responders /\ s1.buffer = sc.buffer /\ s1.calls = sc.calls /\ s1.text = sc.text
      /\ s1.usage = sc.usage /\ s1.sentDone
  BY <1>1 DEF Responders
<1>3. sc.usage \in Usages
  BY DEF Responders
<1>4. PICK e : e = [type |-> "response.completed", usage |-> sc.usage, output |-> <<>>]
  OBVIOUS
<1>5. e \in ResponseEvents /\ e.type = "response.completed" /\ Done \in ResponseEvents /\ Done.type = "[DONE]"
  BY <1>3, <1>4, OthersMade
<1>6. PICK s2 : s2 = emit(s1, e)
  OBVIOUS
<1>7. SameButBuffer(s1, s2)
  BY <1>2, <1>5, <1>6, EmitIs
<1>8. s2 \in Responders
  BY <1>7 DEF SameButBuffer
<1>9. PICK s3 : s3 = emit(s2, Done)
  OBVIOUS
<1>10. SameButBuffer(s2, s3)
  BY <1>5, <1>8, <1>9, EmitIs
<1>11. Completed(sc) = s3
  BY <1>1, <1>4, <1>6, <1>9 DEF Completed
<1>12. s3 \in Responders /\ s3.text = sc.text /\ s3.usage = sc.usage /\ s3.sentDone /\ s3.calls = sc.calls
  BY <1>2, <1>7, <1>10 DEF SameButBuffer
<1>13. ASSUME NEW o, NEW over, Followed(o, over, sc) PROVE Followed(o, over, s3)
  <2>1. PICK p : Follows(o, over, sc, p)
    BY <1>13 DEF Followed
  <2>2. /\ p \in Seen /\ KeptOf(p, sc.text, <<>>, Len(sc.text)) /\ p.usage = NoUsage
        /\ Path(Hears, Upto, Watcher(o, over), sc.buffer, Watcher(p, sc.sentDone))
        /\ sc.sentDone = FALSE
    BY <2>1, FollowsFacts DEF Follows, Responders
  <2>3. PICK q : q = Observe(p, e)
    OBVIOUS
  <2>4. KeptOf(q, sc.text, <<>>, Len(sc.text)) /\ q.completed /\ q.usage = sc.usage /\ q.text = p.text
    BY <1>3, <1>4, <2>2, <2>3, ObservesEnd
  <2>5. q \in Seen /\ p.text \in Bodies /\ q.text \in Bodies
    BY <2>2, <2>4 DEF KeptOf, Seen
  <2>6. IsPrefix(p.text, q.text) /\ IsPrefix(q.text, q.text)
    BY <2>4, <2>5, PrefixSelf
  <2>7. Path(Hears, Upto, Watcher(o, over), s2.buffer, Watcher(q, FALSE))
    <3>1. PICK ends \in BOOLEAN : ends = FALSE
      OBVIOUS
    <3>2. ends <=> e.type = "[DONE]"
      BY <1>5, <3>1
    <3>3. Path(Hears, Upto, Watcher(o, over), s1.buffer, Watcher(p, FALSE))
      BY <1>2, <2>2
    <3>4. Path(Hears, Upto, Watcher(o, over), emit(s1, e).buffer, Watcher(q, ends))
      BY <1>2, <1>5, <2>2, <2>3, <2>5, <2>6, <3>2, <3>3, Hearing
    <3> QED BY <1>6, <3>1, <3>4
  <2>8. Path(Hears, Upto, Watcher(o, over), s3.buffer, Watcher(q, TRUE))
    <3>1. PICK ends \in BOOLEAN : ends = TRUE
      OBVIOUS
    <3>2. ends <=> Done.type = "[DONE]"
      BY <1>5, <3>1
    <3>3. q = Observe(q, Done)
      BY <1>5 DEF Observe
    <3>4. Path(Hears, Upto, Watcher(o, over), emit(s2, Done).buffer, Watcher(q, ends))
      BY <1>5, <1>8, <2>5, <2>6, <2>7, <3>2, <3>3, Hearing
    <3> QED BY <1>9, <3>1, <3>4
  <2>9. s3.sentDone = TRUE
    BY <1>12 DEF Responders
  <2>10. Path(Hears, Upto, Watcher(o, over), s3.buffer, Watcher(q, s3.sentDone))
    BY <2>8, <2>9
  <2>11. Follows(o, over, s3, q)
    BY <1>12, <2>4, <2>10 DEF Follows
  <2> QED BY <2>11 DEF Followed
<1> QED BY <1>11, <1>12, <1>13 DEF CompletedBy

\* One call more.
LEMMA CallAdded ==
    ASSUME NEW sc \in Responders, NEW k \in Nat, NEW call \in CallStates
    PROVE  /\ CallPut(sc, k, call, [sc EXCEPT !.calls = Put(@, k, call)])
           /\ [sc EXCEPT !.calls = Put(@, k, call)].next = sc.next
           /\ CallPut(sc, k, call, [sc EXCEPT !.next = @ + 1, !.calls = Put(@, k, call)])
           /\ [sc EXCEPT !.next = @ + 1, !.calls = Put(@, k, call)].next = sc.next + 1
<1>1. sc.calls \in Partial(CallStates)
  BY DEF Responders
<1>2. PICK calls : calls = Put(sc.calls, k, call)
  OBVIOUS
<1>3. PutIs(CallStates, sc.calls, k, call, calls)
  BY <1>1, <1>2, PartialWith
<1>4. calls \in Partial(CallStates)
  BY <1>3 DEF PutIs
<1>5. PICK sf : sf = [sc EXCEPT !.calls = calls]
  OBVIOUS
<1>6. [sc EXCEPT !.calls = Put(@, k, call)] = sf
  BY <1>2, <1>5 DEF Responders
<1>7. sf.calls = calls /\ SameRestOf(sc, sf) /\ sf.next = sc.next
  BY <1>4, <1>5 DEF SameRestOf, Responders
<1>8. PICK n : n = sc.next + 1
  OBVIOUS
<1>9. n \in Nat
  BY <1>8 DEF Responders
<1>10. PICK sg : sg = [sc EXCEPT !.next = n, !.calls = calls]
  OBVIOUS
<1>11. [sc EXCEPT !.next = @ + 1, !.calls = Put(@, k, call)] = sg
  BY <1>2, <1>8, <1>10 DEF Responders
<1>12. sg.calls = calls /\ SameRestOf(sc, sg) /\ sg.next = n
  BY <1>4, <1>9, <1>10 DEF SameRestOf, Responders
<1> QED BY <1>3, <1>6, <1>7, <1>8, <1>11, <1>12 DEF CallPut

LEMMA PutPasses ==
    ASSUME NEW sc \in Responders, ~sc.sentDone, NEW k, NEW call, NEW sf, CallPut(sc, k, call, sf)
    PROVE  Passes(sc, sf)
BY PassesSet DEF CallPut, SameRestOf

LEMMA NewCallIs ==
    ASSUME NEW index \in Nat, NEW id \in Nat
    PROVE  /\ NewCall(index, id) \in CallStates /\ NewCall(index, id).index = index /\ NewCall(index, id).id = id
           /\ NewCall(index, id).arguments = <<>> /\ ~NewCall(index, id).placeholder
           /\ ~NewCall(index, id).started /\ ~NewCall(index, id).completed
<1>1. <<>> \in Bodies
  BY DEF Bodies
<1> QED BY <1>1 DEF NewCall, CallStates

LEMMA ReservePasses ==
    ASSUME NEW sc \in Responders, ~sc.sentDone
    PROVE  /\ Passes(sc, reserveAssistantMessageOutput(sc))
           /\ reserveAssistantMessageOutput(sc).calls = sc.calls
           /\ Passes(sc, reserveAssistantOutput(sc))
           /\ DOMAIN reserveAssistantOutput(sc).calls = DOMAIN sc.calls
<1>1. CASE sc.reserved
  BY <1>1, PassesSelf DEF reserveAssistantMessageOutput, reserveAssistantOutput
<1>2. CASE ~sc.reserved
  <2>1. PICK sf : sf = [sc EXCEPT !.reserved = TRUE, !.next = @ + 1]
    OBVIOUS
  <2>2. MessageIs(sc, sf, TRUE, sc.started, sc.done)
    BY <2>1, MessageTurns
  <2>3. reserveAssistantMessageOutput(sc) = sf
    BY <1>2, <2>1 DEF reserveAssistantMessageOutput
  <2>4. Passes(sc, sf) /\ sf.calls = sc.calls
    BY <2>2, PassesSet DEF MessageIs
  <2>5. sc.calls \in Partial(CallStates)
    BY DEF Responders
  <2>6. DOMAIN sc.calls \subseteq Nat /\ \A k \in DOMAIN sc.calls : sc.calls[k] \in CallStates
    BY <2>5, PartialFacts
  <2>7. PICK calls : calls = [k \in DOMAIN sc.calls |-> IF sc.calls[k].started THEN sc.calls[k]
                                                        ELSE [sc.calls[k] EXCEPT !.index = @ + 1]]
    OBVIOUS
  <2>8. ASSUME NEW k \in DOMAIN sc.calls PROVE calls[k] \in CallStates
    <3>1. PICK call \in CallStates : call = sc.calls[k]
      BY <2>6
    <3>2. PICK n : n = call.index + 1
      OBVIOUS
    <3>3. n \in Nat
      BY <3>2 DEF CallStates
    <3>4. [call EXCEPT !.index = @ + 1] = [call EXCEPT !.index = n]
      BY <3>2 DEF CallStates
    <3>5. [call EXCEPT !.index = n] \in CallStates
      BY <3>3 DEF CallStates
    <3> QED BY <2>7, <3>1, <3>4, <3>5
  <2>9. calls \in [DOMAIN sc.calls -> CallStates]
    BY <2>7, <2>8
  <2>10. calls \in Partial(CallStates)
    BY <2>6, <2>9 DEF Partial
  <2>11. PICK sg : sg = [sc EXCEPT !.reserved = TRUE, !.calls = calls]
    OBVIOUS
  <2>12. reserveAssistantOutput(sc) = sg
    <3>1. PICK s0 : s0 = [sc EXCEPT !.reserved = TRUE]
      OBVIOUS
    <3>2. s0.calls = sc.calls /\ [s0 EXCEPT !.calls = calls] = sg
      BY <2>11, <3>1 DEF Responders
    <3>3. reserveAssistantOutput(sc)
            = [s0 EXCEPT !.calls = [k \in DOMAIN s0.calls |-> IF s0.calls[k].started THEN s0.calls[k]
                                                              ELSE [s0.calls[k] EXCEPT !.index = @ + 1]]]
      BY <1>2, <3>1, <3>2 DEF reserveAssistantOutput
    <3>4. [s0 EXCEPT !.calls = [k \in DOMAIN s0.calls |-> IF s0.calls[k].started THEN s0.calls[k]
                                                          ELSE [s0.calls[k] EXCEPT !.index = @ + 1]]]
            = [s0 EXCEPT !.calls = calls]
      BY <2>7, <3>2
    <3> QED BY <3>2, <3>3, <3>4
  <2>13. sg \in Responders /\ sg.buffer = sc.buffer /\ sg.text = sc.text /\ sg.usage = sc.usage /\ sg.sentDone = sc.sentDone
         /\ sg.calls = calls
    BY <2>10, <2>11 DEF Responders
  <2>14. Passes(sc, sg) /\ DOMAIN sg.calls = DOMAIN sc.calls
    BY <2>9, <2>13, PassesSet
  <2> QED BY <2>3, <2>4, <2>12, <2>14
<1> QED BY <1>1, <1>2

Ensured(sc, k, known) ==
  /\ known \in Responders /\ k \in DOMAIN known.calls
  /\ k \in DOMAIN sc.calls => known = sc
  /\ k \notin DOMAIN sc.calls =>
       CallPut(sc, k, NewCall(IF sc.reserved THEN k + 1 ELSE k, NoId), known) /\ known.next = sc.next

LEMMA EnsuresCall ==
    ASSUME NEW sc \in Responders, NEW k \in Nat
    PROVE  Ensured(sc, k, ensureToolCallState(sc, k))
<1>1. CASE k \in DOMAIN sc.calls
  BY <1>1 DEF ensureToolCallState, Ensured
<1>2. CASE k \notin DOMAIN sc.calls
  <2>1. PICK index \in Nat : index = IF sc.reserved THEN k + 1 ELSE k
    OBVIOUS
  <2>2. PICK call \in CallStates : call = NewCall(index, NoId)
    BY NewCallIs DEF NoId
  <2>3. PICK sf : sf = [sc EXCEPT !.calls = Put(@, k, call)]
    OBVIOUS
  <2>4. ensureToolCallState(sc, k) = sf
    BY <1>2, <2>1, <2>2, <2>3 DEF ensureToolCallState
  <2>5. CallPut(sc, k, call, sf) /\ sf.next = sc.next
    BY <2>3, CallAdded
  <2>6. sf \in Responders /\ k \in DOMAIN sf.calls
    BY <2>5 DEF CallPut, SameRestOf, PutIs
  <2> QED BY <1>2, <2>1, <2>2, <2>4, <2>5, <2>6 DEF Ensured
<1> QED BY <1>1, <1>2

Announces(fed, k, arguments) ==
  LET after == StartToolCall(fed, k)
      late == after.calls[k].started /\ ~fed.calls[k].started
      piece == IF late THEN fed.calls[k].arguments ELSE arguments
  IN IF ~after.calls[k].started \/ piece = <<>> THEN after ELSE ArgumentsDelta(after, k, piece)

FedBy(sc, delta, known, call, fed) ==
  /\ Ensured(sc, delta.index, known)
  /\ call \in CallStates
  /\ call = [known.calls[delta.index] EXCEPT !.id = IF delta.id = NoId THEN @ ELSE delta.id,
                                             !.arguments = @ \o delta.arguments]
  /\ CallPut(known, delta.index, call, fed) /\ fed.next = known.next
  /\ handleToolCallDelta(sc, delta) = Announces(fed, delta.index, delta.arguments)

LEMMA FedCall ==
    ASSUME NEW sc \in Responders, NEW delta \in CallDeltas
    PROVE  \E known, call, fed : FedBy(sc, delta, known, call, fed)
<1>1. PICK k \in Nat : k = delta.index
  BY DEF CallDeltas
<1>2. delta.id \in Nat /\ delta.arguments \in Bodies
  BY DEF CallDeltas
<1>3. PICK known : known = ensureToolCallState(sc, k)
  OBVIOUS
<1>4. Ensured(sc, k, known)
  BY <1>3, EnsuresCall
<1>5. known \in Responders /\ k \in DOMAIN known.calls
  BY <1>4 DEF Ensured
<1>6. PICK old \in CallStates : old = known.calls[k]
  BY <1>5, CallFacts
<1>7. PICK id, arguments : id = (IF delta.id = NoId THEN old.id ELSE delta.id) /\ arguments = old.arguments \o delta.arguments
  OBVIOUS
<1>8. id \in Nat /\ arguments \in Bodies
  BY <1>2, <1>7, PrefixCat DEF CallStates
<1>9. PICK call : call = [old EXCEPT !.id = id, !.arguments = arguments]
  OBVIOUS
<1>10. call \in CallStates
  BY <1>8, <1>9 DEF CallStates
<1>11. PICK fed : fed = [known EXCEPT !.calls = [known.calls EXCEPT ![k] = call]]
  OBVIOUS
<1>12. CallPut(known, k, call, fed) /\ fed.next = known.next
  BY <1>5, <1>10, <1>11, CallTurns
<1>13. [known EXCEPT !.calls[k].id = IF delta.id = NoId THEN @ ELSE delta.id,
                     !.calls[k].arguments = @ \o delta.arguments] = fed
  <2>1. known.calls = [j \in DOMAIN known.calls |-> known.calls[j]]
    BY <1>5 DEF Responders, Partial
  <2>2. [known EXCEPT !.calls[k].id = IF delta.id = NoId THEN @ ELSE delta.id,
                      !.calls[k].arguments = @ \o delta.arguments]
          = [known EXCEPT !.calls = [[known.calls EXCEPT ![k].id = IF delta.id = NoId THEN @ ELSE delta.id]
                                       EXCEPT ![k].arguments = @ \o delta.arguments]]
    BY ZenonT(40), <1>5 DEF Responders
  <2>3. PICK first : first = [old EXCEPT !.id = id]
    OBVIOUS
  <2>4. PICK turned : turned = [known.calls EXCEPT ![k] = first]
    OBVIOUS
  <2>5. [known.calls EXCEPT ![k].id = IF delta.id = NoId THEN @ ELSE delta.id] = turned
    BY <1>5, <1>6, <1>7, <2>1, <2>3, <2>4
  <2>6. turned[k] = first /\ k \in DOMAIN turned /\ [turned EXCEPT ![k] = call] = [known.calls EXCEPT ![k] = call]
    BY <1>5, <2>1, <2>4
  <2>7. first.arguments = old.arguments /\ [first EXCEPT !.arguments = arguments] = call
    BY <1>9, <2>3 DEF CallStates
  <2>8. [turned EXCEPT ![k].arguments = @ \o delta.arguments] = [turned EXCEPT ![k] = call]
    BY <1>7, <2>6, <2>7
  <2> QED BY <1>11, <2>2, <2>5, <2>6, <2>8
<1>0. handleToolCallDelta(sc, delta)
        = Announces([ensureToolCallState(sc, delta.index) EXCEPT
                       !.calls[delta.index].id = IF delta.id = NoId THEN @ ELSE delta.id,
                       !.calls[delta.index].arguments = @ \o delta.arguments],
                    delta.index, delta.arguments)
  BY DEF handleToolCallDelta, Announces
<1>14. handleToolCallDelta(sc, delta) = Announces(fed, k, delta.arguments)
  BY <1>0, <1>1, <1>3, <1>13
<1>15. call = [known.calls[k] EXCEPT !.id = IF delta.id = NoId THEN @ ELSE delta.id,
                                     !.arguments = @ \o delta.arguments]
  BY <1>6, <1>7, <1>9 DEF CallStates
<1>16. FedBy(sc, delta, known, call, fed)
  BY <1>1, <1>4, <1>10, <1>12, <1>14, <1>15 DEF FedBy
<1> QED BY <1>16

LEMMA AnnouncesPass ==
    ASSUME NEW fed \in Responders, ~fed.sentDone, NEW k \in DOMAIN fed.calls, NEW arguments \in Bodies
    PROVE  Passes(fed, Announces(fed, k, arguments)) /\ DOMAIN Announces(fed, k, arguments).calls = DOMAIN fed.calls
<1>1. PICK after : after = StartToolCall(fed, k)
  OBVIOUS
<1>2. Passes(fed, after) /\ DOMAIN after.calls = DOMAIN fed.calls
  BY <1>1, StartCallPasses
<1>3. PICK piece : piece = IF after.calls[k].started /\ ~fed.calls[k].started THEN fed.calls[k].arguments ELSE arguments
  OBVIOUS
<1>4. piece \in Bodies
  BY <1>3, CallFacts
<1>5. Announces(fed, k, arguments)
        = IF ~after.calls[k].started \/ piece = <<>> THEN after ELSE ArgumentsDelta(after, k, piece)
  BY <1>1, <1>3 DEF Announces
<1>6. Passes(after, ArgumentsDelta(after, k, piece)) /\ ArgumentsDelta(after, k, piece).calls = after.calls
  BY <1>2, <1>4, ArgumentsPass DEF Passes
<1>7. Passes(fed, ArgumentsDelta(after, k, piece))
  BY <1>2, <1>6, PassesThen
<1>8. CASE ~after.calls[k].started \/ piece = <<>>
  BY <1>2, <1>5, <1>8
<1>9. CASE ~(~after.calls[k].started \/ piece = <<>>)
  BY <1>2, <1>5, <1>6, <1>7, <1>9
<1> QED BY <1>8, <1>9

LEMMA DeltaPasses ==
    ASSUME NEW sc \in Responders, ~sc.sentDone, NEW delta \in CallDeltas
    PROVE  /\ Passes(sc, handleToolCallDelta(sc, delta))
           /\ DOMAIN handleToolCallDelta(sc, delta).calls = DOMAIN sc.calls \cup {delta.index}
<1>1. PICK known, call, fed : FedBy(sc, delta, known, call, fed)
  BY FedCall
<1>2. PICK k \in Nat : k = delta.index
  BY DEF CallDeltas
<1>3. delta.arguments \in Bodies
  BY DEF CallDeltas
<1>4. /\ Ensured(sc, k, known) /\ CallPut(known, k, call, fed)
      /\ handleToolCallDelta(sc, delta) = Announces(fed, k, delta.arguments)
  BY <1>1, <1>2 DEF FedBy
<1>5. Passes(sc, known) /\ DOMAIN known.calls = DOMAIN sc.calls \cup {k}
  <2>1. CASE k \in DOMAIN sc.calls
    BY <1>4, <2>1, PassesSelf DEF Ensured
  <2>2. CASE k \notin DOMAIN sc.calls
    BY <1>4, <2>2, PutPasses DEF Ensured, CallPut, PutIs
  <2> QED BY <2>1, <2>2
<1>6. Passes(known, fed) /\ DOMAIN fed.calls = DOMAIN known.calls \cup {k}
  BY <1>4, <1>5, PutPasses DEF CallPut, PutIs, Passes
<1>7. fed \in Responders /\ ~fed.sentDone /\ k \in DOMAIN fed.calls
  BY <1>6 DEF Passes
<1>8. Passes(fed, Announces(fed, k, delta.arguments)) /\ DOMAIN Announces(fed, k, delta.arguments).calls = DOMAIN fed.calls
  BY <1>3, <1>7, AnnouncesPass
<1>9. Passes(sc, Announces(fed, k, delta.arguments))
  BY <1>5, <1>6, <1>8, PassesThen
<1> QED BY <1>2, <1>4, <1>5, <1>6, <1>8, <1>9

LEMMA DeltasOne ==
    ASSUME NEW sc, NEW delta
    PROVE  handleToolCallDeltas(sc, <<delta>>) = handleToolCallDelta(EndAssistantText(sc), delta)
<1> DEFINE deltas == <<delta>>
           A == EndAssistantText(sc)
           Step(g, n) == IF n = 0 THEN A ELSE handleToolCallDelta(g[n - 1], deltas[n])
<1>1. Len(deltas) = 1 /\ deltas[1] = delta
  OBVIOUS
<1>2. PICK after : after = CHOOSE g : g = [n \in 0..Len(deltas) |-> Step(g, n)]
  OBVIOUS
<1>3. handleToolCallDeltas(sc, deltas) = after[Len(deltas)]
  BY <1>2 DEF handleToolCallDeltas
<1> HIDE DEF A, deltas
<1>4. \E g : g = [n \in 0..1 |-> Step(g, n)]
  <2> DEFINE B == handleToolCallDelta(A, delta)
             h == [n \in 0..1 |-> IF n = 0 THEN A ELSE B]
  <2> HIDE DEF B
  <2>1. h[0] = A /\ h[1] = B
    OBVIOUS
  <2>2. \A n \in 0..1 : h[n] = Step(h, n)
    <3> HIDE DEF h
    <3>1. Step(h, 0) = A
      OBVIOUS
    <3>2. Step(h, 1) = B
      BY <1>1, <2>1 DEF B
    <3>3. \A n \in 0..1 : n = 0 \/ n = 1
      OBVIOUS
    <3> QED BY <2>1, <3>1, <3>2, <3>3
  <2>3. h = [n \in 0..1 |-> h[n]]
    OBVIOUS
  <2> HIDE DEF h, Step
  <2>4. h = [n \in 0..1 |-> Step(h, n)]
    BY <2>2, <2>3
  <2> QED BY <2>4
<1>5. after = [n \in 0..1 |-> Step(after, n)]
  <2> HIDE DEF Step
  <2>1. 0..Len(deltas) = 0..1
    BY <1>1
  <2> QED BY <1>2, <1>4, <2>1
<1>6. after[0] = A /\ after[1] = handleToolCallDelta(after[0], delta)
  <2>1. after[0] = Step(after, 0) /\ after[1] = Step(after, 1)
    <3> HIDE DEF Step
    <3> QED BY <1>5
  <2> QED BY <1>1, <2>1
<1> QED BY <1>1, <1>3, <1>6 DEF A, deltas

-----------------------------------------------------------------------------
(* The calls that are pending, in the order of their index. *)

LEMMA Greatest ==
    ASSUME NEW N \in Nat, NEW S \in SUBSET (0..N), S # {}
    PROVE  Max(S) \in S /\ \A y \in S : Max(S) >= y
<1> DEFINE T == {n \in Nat : \A D \in SUBSET (0..n) : D # {} => \E x \in D : \A y \in D : x >= y}
<1>1. 0 \in T
  <2>1. ASSUME NEW D \in SUBSET (0..0), D # {} PROVE \E x \in D : \A y \in D : x >= y
    <3>1. PICK x \in D : TRUE
      BY <2>1
    <3>2. \A y \in D : y = 0
      OBVIOUS
    <3>3. \A y \in D : x >= y
      BY <3>2
    <3> QED BY <3>3
  <2> QED BY <2>1
<1>2. ASSUME NEW n \in Nat, n \in T PROVE n + 1 \in T
  <2>1. ASSUME NEW D \in SUBSET (0..(n + 1)), D # {} PROVE \E x \in D : \A y \in D : x >= y
    <3>1. CASE n + 1 \in D
      <4>1. \A y \in D : n + 1 >= y
        OBVIOUS
      <4> QED BY <3>1, <4>1
    <3>2. CASE n + 1 \notin D
      <4>1. D \in SUBSET (0..n)
        <5>1. \A y \in 0..(n + 1) : y # n + 1 => y \in 0..n
          OBVIOUS
        <5> QED BY <3>2, <5>1
      <4> QED BY <1>2, <2>1, <4>1
    <3> QED BY <3>1, <3>2
  <2> QED BY <2>1
<1>3. N \in T
  <2> HIDE DEF T
  <2> QED BY <1>1, <1>2, AllNumbers
<1>4. \E x \in S : \A y \in S : x >= y
  BY <1>3
<1> QED BY <1>4 DEF Max

CompletesNext(sc, before, n, sd) ==
  IF n \in DOMAIN sc.calls /\ sc.calls[n].started THEN sd = CompleteToolCall(before, n) ELSE sd = before

LEMMA PendingTurns ==
    ASSUME NEW sc \in Responders, NEW N \in Nat, DOMAIN sc.calls \subseteq 0..N
    PROVE  \E behind, below :
             /\ behind \in Nat
             /\ below[0] = sc /\ completePendingToolCalls(sc) = below[behind]
             /\ DOMAIN sc.calls \subseteq 0..(behind - 1)
             /\ \A n \in 1..behind : CompletesNext(sc, below[n - 1], n - 1, below[n])
<1> DEFINE behind == Max(DOMAIN sc.calls \cup {0}) + 1
           Step(g, k) == IF k = 0 THEN sc
                         ELSE IF k - 1 \in DOMAIN sc.calls /\ sc.calls[k - 1].started
                         THEN CompleteToolCall(g[k - 1], k - 1) ELSE g[k - 1]
           S == {k \in Nat : \E g : g = [j \in 0..k |-> Step(g, j)]}
<1>0. behind \in Nat /\ DOMAIN sc.calls \subseteq 0..(behind - 1)
  <2>1. PICK D : D = DOMAIN sc.calls \cup {0}
    OBVIOUS
  <2>2. D \in SUBSET (0..N) /\ D # {}
    BY <2>1
  <2>3. Max(D) \in D /\ \A y \in D : Max(D) >= y
    BY <2>2, Greatest
  <2>4. PICK m : m = Max(D)
    OBVIOUS
  <2>5. m \in 0..N /\ \A y \in D : y \in 0..N /\ m >= y
    BY <2>2, <2>3, <2>4
  <2>6. behind = m + 1
    BY <2>1, <2>4
  <2>7. m + 1 \in Nat /\ (m + 1) - 1 = m /\ \A y \in D : y \in 0..m
    BY <2>5
  <2>8. DOMAIN sc.calls \subseteq D
    BY <2>1
  <2> HIDE DEF behind
  <2> QED BY <2>6, <2>7, <2>8
<1>10. PICK last \in Nat : last = behind
  BY <1>0
<1>1. 0 \in S
  <2> DEFINE g == [j \in 0..0 |-> sc]
  <2>1. g = [j \in 0..0 |-> Step(g, j)]
    OBVIOUS
  <2> QED BY <2>1
<1>2. ASSUME NEW k \in Nat, k \in S PROVE k + 1 \in S
  <2>1. PICK g : g = [j \in 0..k |-> Step(g, j)]
    BY <1>2
  <2> DEFINE h == [j \in 0..(k + 1) |-> IF j <= k THEN g[j] ELSE Step(g, j)]
  <2>2. \A j \in 0..k : h[j] = g[j] /\ g[j] = Step(g, j)
    <3> HIDE DEF Step
    <3>1. \A j \in 0..k : g[j] = Step(g, j)
      BY <2>1
    <3>2. \A j \in 0..k : h[j] = g[j]
      OBVIOUS
    <3> QED BY <3>1, <3>2
  <2>3. h[k + 1] = Step(g, k + 1)
    <3> HIDE DEF Step
    <3> QED OBVIOUS
  <2>4. ASSUME NEW j \in 0..(k + 1) PROVE h[j] = Step(h, j)
    <3> HIDE DEF h
    <3>1. CASE j = 0
      BY <2>2, <3>1
    <3>2. CASE j # 0
      <4>1. j - 1 \in 0..k /\ h[j - 1] = g[j - 1]
        BY <2>2, <3>2
      <4>2. Step(h, j) = Step(g, j)
        BY <4>1
      <4>3. h[j] = Step(g, j)
        <5> HIDE DEF Step
        <5>1. j \in 0..k \/ j = k + 1
          OBVIOUS
        <5> QED BY <2>2, <2>3, <5>1
      <4> QED BY <4>2, <4>3
    <3> QED BY <3>1, <3>2
  <2>5. h = [j \in 0..(k + 1) |-> Step(h, j)]
    <3>1. h = [j \in 0..(k + 1) |-> h[j]]
      <4> HIDE DEF Step
      <4> QED OBVIOUS
    <3> HIDE DEF h, Step
    <3> QED BY <2>4, <3>1
  <2> HIDE DEF h, Step
  <2> QED BY <2>5
<1>3. \E g : g = [j \in 0..last |-> Step(g, j)]
  <2>1. \A k \in Nat : k \in S
    <3> HIDE DEF S
    <3> QED BY <1>1, <1>2, AllNumbers
  <2> HIDE DEF Step, behind
  <2> QED BY <2>1
<1>4. PICK below : below = CHOOSE g : g = [j \in 0..behind |-> Step(g, j)]
  OBVIOUS
<1>5. completePendingToolCalls(sc) = below[behind]
  BY <1>4 DEF completePendingToolCalls
<1> HIDE DEF behind
<1>6. below = [j \in 0..last |-> Step(below, j)]
  <2> HIDE DEF Step
  <2> QED BY <1>3, <1>4, <1>10
<1>7. \A j \in 0..last : below[j] = Step(below, j)
  <2> HIDE DEF Step
  <2> QED BY <1>6
<1>8. below[0] = sc
  BY <1>7
<1>9. ASSUME NEW n \in 1..last PROVE CompletesNext(sc, below[n - 1], n - 1, below[n])
  BY <1>7 DEF CompletesNext
<1> QED BY <1>0, <1>5, <1>8, <1>9, <1>10

LEMMA PendingPasses ==
    ASSUME NEW sc \in Responders, ~sc.sentDone, NEW N \in Nat, DOMAIN sc.calls \subseteq 0..N
    PROVE  /\ Passes(sc, completePendingToolCalls(sc))
           /\ DOMAIN completePendingToolCalls(sc).calls = DOMAIN sc.calls
<1>1. PICK behind, below :
        /\ behind \in Nat
        /\ below[0] = sc /\ completePendingToolCalls(sc) = below[behind]
        /\ \A n \in 1..behind : CompletesNext(sc, below[n - 1], n - 1, below[n])
  BY PendingTurns
<1>1a. behind \in Nat
  BY <1>1
<1> DEFINE S == {n \in Nat : n <= behind => Passes(sc, below[n]) /\ DOMAIN below[n].calls = DOMAIN sc.calls}
<1>2. 0 \in S
  BY <1>1, PassesSelf
<1>3. ASSUME NEW n \in Nat, n \in S PROVE n + 1 \in S
  <2>1. SUFFICES ASSUME n + 1 <= behind
                 PROVE  Passes(sc, below[n + 1]) /\ DOMAIN below[n + 1].calls = DOMAIN sc.calls
    OBVIOUS
  <2>2. Passes(sc, below[n]) /\ DOMAIN below[n].calls = DOMAIN sc.calls
    BY <1>1a, <1>3, <2>1
  <2>3. n + 1 \in 1..behind /\ (n + 1) - 1 = n
    BY <1>1a, <2>1
  <2>4. CompletesNext(sc, below[n], n, below[n + 1])
    BY <1>1, <2>3
  <2>5. PICK sd, se : sd = below[n] /\ se = below[n + 1]
    OBVIOUS
  <2>6. sd \in Responders /\ ~sd.sentDone
    BY <2>2, <2>5 DEF Passes
  <2>7. CASE n \in DOMAIN sc.calls /\ sc.calls[n].started
    <3>1. se = CompleteToolCall(sd, n)
      BY <2>4, <2>5, <2>7 DEF CompletesNext
    <3>2. Passes(sd, se) /\ DOMAIN se.calls = DOMAIN sd.calls
      BY <2>2, <2>5, <2>6, <2>7, <3>1, CompleteCallPasses
    <3> QED BY <2>2, <2>5, <3>2, PassesThen
  <2>8. CASE ~(n \in DOMAIN sc.calls /\ sc.calls[n].started)
    BY <2>2, <2>4, <2>8 DEF CompletesNext
  <2> QED BY <2>7, <2>8
<1>4. behind \in S
  <2> HIDE DEF S
  <2> QED BY <1>1a, <1>2, <1>3, AllNumbers
<1> QED BY <1>1, <1>1a, <1>4

-----------------------------------------------------------------------------
(* The handlers, for the observers: from chat chunks. *)

CallsWithin(sc) == DOMAIN sc.calls \subseteq 0..MaxBlocks

ChunkCounted(sc, e) == [sc EXCEPT !.usage = IF e.usage = NoUsage THEN @ ELSE e.usage]
ChunkTexted(sc, e) == IF e.content = <<>> THEN sc ELSE AssistantText(reserveAssistantOutput(sc), e.content)
ChunkCalled(sc, e) == IF e.calls = <<>> THEN sc ELSE handleToolCallDeltas(sc, e.calls)
ChunkFinished(sc, e) == IF e.finish = "tool_calls" THEN completePendingToolCalls(sc) ELSE sc

LEMMA ChunkStages ==
    ASSUME NEW sc, NEW e
    PROVE  ResponsesChunk(sc, e) = ChunkFinished(ChunkCalled(ChunkTexted(ChunkCounted(sc, e), e), e), e)
BY DEF ResponsesChunk, ChunkFinished, ChunkCalled, ChunkTexted, ChunkCounted

\* At most one call, and one that there is room for.
OneCall(e) == e.calls = <<>> \/ \E delta \in CallDeltas : e.calls = <<delta>> /\ delta.index < MaxBlocks

UsageAfter(sc, e) == IF e.usage = NoUsage THEN sc.usage ELSE e.usage

LEMMA CountedHeard ==
    ASSUME NEW sc \in Responders, ~sc.sentDone, NEW e, e.usage \in Usages
    PROVE  /\ Heard(sc, ChunkCounted(sc, e), sc.text, UsageAfter(sc, e))
           /\ ChunkCounted(sc, e).calls = sc.calls
<1>1. PICK usage : usage = UsageAfter(sc, e)
  OBVIOUS
<1>2. usage \in Usages
  BY <1>1 DEF UsageAfter, Responders
<1>3. PICK sf : sf = [sc EXCEPT !.usage = usage]
  OBVIOUS
<1>4. ChunkCounted(sc, e) = sf
  BY <1>1, <1>3 DEF ChunkCounted, UsageAfter, Responders
<1>5. Heard(sc, sf, sc.text, usage)
  BY <1>2, <1>3, HeardUsage
<1>6. sf.calls = sc.calls
  BY <1>3 DEF Responders
<1> QED BY <1>1, <1>4, <1>5, <1>6

LEMMA TextedHeard ==
    ASSUME NEW sc \in Responders, ~sc.sentDone, NEW e, e.content \in Bodies
    PROVE  /\ Heard(sc, ChunkTexted(sc, e), sc.text \o e.content, sc.usage)
           /\ DOMAIN ChunkTexted(sc, e).calls = DOMAIN sc.calls
<1>1. CASE e.content = <<>>
  <2>1. ChunkTexted(sc, e) = sc
    BY <1>1 DEF ChunkTexted
  <2>2. sc.text \o e.content = sc.text
    BY <1>1, CatEmpty DEF Responders
  <2> QED BY <2>1, <2>2, PassesSelf, HeardPasses
<1>2. CASE e.content # <<>>
  <2>1. PICK sd : sd = reserveAssistantOutput(sc)
    OBVIOUS
  <2>2. Passes(sc, sd) /\ DOMAIN sd.calls = DOMAIN sc.calls
    BY <2>1, ReservePasses
  <2>3. sd \in Responders /\ ~sd.sentDone /\ sd.text = sc.text /\ sd.usage = sc.usage
    BY <2>2 DEF Passes
  <2>4. ChunkTexted(sc, e) = AssistantText(sd, e.content)
    BY <1>2, <2>1 DEF ChunkTexted
  <2>5. /\ Heard(sd, AssistantText(sd, e.content), sd.text \o e.content, sd.usage)
        /\ AssistantText(sd, e.content).calls = sd.calls
    BY <2>3, HeardText
  <2>6. Heard(sc, AssistantText(sd, e.content), sd.text \o e.content, sd.usage)
    BY <2>2, <2>5, HeardPasses, HeardThen
  <2> QED BY <2>2, <2>3, <2>4, <2>5, <2>6
<1> QED BY <1>1, <1>2

LEMMA CalledPasses ==
    ASSUME NEW sc \in Responders, ~sc.sentDone, CallsWithin(sc), NEW e, OneCall(e)
    PROVE  Passes(sc, ChunkCalled(sc, e)) /\ CallsWithin(ChunkCalled(sc, e))
<1>1. CASE e.calls = <<>>
  BY <1>1, PassesSelf DEF ChunkCalled
<1>2. ASSUME NEW delta \in CallDeltas, e.calls = <<delta>>, delta.index < MaxBlocks
      PROVE  Passes(sc, ChunkCalled(sc, e)) /\ CallsWithin(ChunkCalled(sc, e))
  <2>1. PICK sd : sd = EndAssistantText(sc)
    OBVIOUS
  <2>2. Passes(sc, sd) /\ sd.calls = sc.calls
    BY <2>1, EndTextPasses
  <2>3. ChunkCalled(sc, e) = handleToolCallDelta(sd, delta)
    <3>1. <<delta>> # <<>>
      OBVIOUS
    <3> QED BY <1>2, <2>1, <3>1, DeltasOne DEF ChunkCalled
  <2>4. /\ Passes(sd, handleToolCallDelta(sd, delta))
        /\ DOMAIN handleToolCallDelta(sd, delta).calls = DOMAIN sd.calls \cup {delta.index}
    BY <2>2, DeltaPasses DEF Passes
  <2>5. Passes(sc, handleToolCallDelta(sd, delta))
    BY <2>2, <2>4, PassesThen
  <2>6. delta.index \in 0..MaxBlocks
    BY <1>2, StreamsAssumption DEF CallDeltas
  <2> QED BY <2>2, <2>3, <2>4, <2>5, <2>6 DEF CallsWithin
<1> QED BY <1>1, <1>2 DEF OneCall

LEMMA FinishedPasses ==
    ASSUME NEW sc \in Responders, ~sc.sentDone, CallsWithin(sc), NEW e
    PROVE  Passes(sc, ChunkFinished(sc, e)) /\ CallsWithin(ChunkFinished(sc, e))
<1>1. MaxBlocks \in Nat
  BY StreamsAssumption
<1>2. DOMAIN sc.calls \subseteq 0..MaxBlocks
  BY DEF CallsWithin
<1>3. Passes(sc, completePendingToolCalls(sc)) /\ DOMAIN completePendingToolCalls(sc).calls = DOMAIN sc.calls
  BY <1>1, <1>2, PendingPasses
<1> QED BY <1>2, <1>3, PassesSelf DEF ChunkFinished, CallsWithin

LEMMA ChunkHeard ==
    ASSUME NEW sc \in Responders, ~sc.sentDone, CallsWithin(sc), NEW e \in Chunks, OneCall(e)
    PROVE  /\ Heard(sc, ResponsesFromChat(sc, e), sc.text \o e.content, UsageAfter(sc, e))
           /\ CallsWithin(ResponsesFromChat(sc, e))
<1>1. e.type = "chunk" /\ e.usage \in Usages /\ e.content \in Bodies
  BY DEF Chunks
<1>2. PICK s1 : s1 = ChunkCounted(sc, e)
  OBVIOUS
<1>3. Heard(sc, s1, sc.text, UsageAfter(sc, e)) /\ s1.calls = sc.calls
  BY <1>1, <1>2, CountedHeard
<1>4. s1 \in Responders /\ ~s1.sentDone /\ s1.text = sc.text /\ s1.usage = UsageAfter(sc, e)
  BY <1>3 DEF Heard
<1>5. PICK s2 : s2 = ChunkTexted(s1, e)
  OBVIOUS
<1>6. Heard(s1, s2, s1.text \o e.content, s1.usage) /\ DOMAIN s2.calls = DOMAIN s1.calls
  BY <1>1, <1>4, <1>5, TextedHeard
<1>7. s2 \in Responders /\ ~s2.sentDone /\ s2.text = s1.text \o e.content /\ s2.usage = s1.usage /\ CallsWithin(s2)
  BY <1>3, <1>6 DEF Heard, CallsWithin
<1>8. PICK s3 : s3 = ChunkCalled(s2, e)
  OBVIOUS
<1>9. Passes(s2, s3) /\ CallsWithin(s3)
  BY <1>7, <1>8, CalledPasses
<1>10. s3 \in Responders /\ ~s3.sentDone
  BY <1>9 DEF Passes
<1>11. PICK s4 : s4 = ChunkFinished(s3, e)
  OBVIOUS
<1>12. Passes(s3, s4) /\ CallsWithin(s4)
  BY <1>9, <1>10, <1>11, FinishedPasses
<1>13. ResponsesFromChat(sc, e) = s4
  <2>1. ResponsesFromChat(sc, e) = ResponsesChunk(sc, e)
    BY <1>1 DEF ResponsesFromChat
  <2> QED BY <1>2, <1>5, <1>8, <1>11, <2>1, ChunkStages
<1>14. Heard(s2, s4, s2.text, s2.usage)
  BY <1>9, <1>12, PassesThen, HeardPasses
<1>15. Heard(sc, s4, s2.text, s2.usage)
  BY <1>3, <1>6, <1>14, HeardThen
<1> QED BY <1>4, <1>7, <1>12, <1>13, <1>15

LEMMA EndHeard ==
    ASSUME NEW sc \in Responders, ~sc.sentDone, CallsWithin(sc), NEW e, e.type \in {"[DONE]", "EOF"}
    PROVE  CompletedBy(sc, ResponsesFromChat(sc, e)) /\ CallsWithin(ResponsesFromChat(sc, e))
<1>1. PICK s1 : s1 = CompleteAssistantOutput(sc)
  OBVIOUS
<1>2. Passes(sc, s1) /\ s1.calls = sc.calls
  BY <1>1, CompletePasses
<1>3. PICK s2 : s2 = completePendingToolCalls(s1)
  OBVIOUS
<1>4. Passes(s1, s2) /\ DOMAIN s2.calls = DOMAIN s1.calls
  <2>1. MaxBlocks \in Nat /\ DOMAIN s1.calls \subseteq 0..MaxBlocks
    BY <1>2, StreamsAssumption DEF CallsWithin
  <2>2. s1 \in Responders /\ ~s1.sentDone
    BY <1>2 DEF Passes
  <2> QED BY <1>3, <2>1, <2>2, PendingPasses
<1>5. s2 \in Responders /\ ~s2.sentDone /\ s2.text = sc.text /\ s2.usage = sc.usage
  BY <1>2, <1>4 DEF Passes
<1>6. CompletedBy(s2, Completed(s2)) /\ DOMAIN Completed(s2).calls = DOMAIN s2.calls
  BY <1>5, CompletedHeard
<1>7. ResponsesFromChat(sc, e) = Completed(s2)
  BY <1>1, <1>3 DEF ResponsesFromChat
<1>8. Heard(sc, s2, sc.text, sc.usage)
  BY <1>2, <1>4, PassesThen, HeardPasses
<1>9. CompletedBy(sc, Completed(s2))
  BY <1>5, <1>6, <1>8 DEF CompletedBy, Heard
<1> QED BY <1>2, <1>4, <1>6, <1>7, <1>9 DEF CallsWithin

-----------------------------------------------------------------------------
(* The handlers, for the observers: from the blocks of Anthropic. *)

BlockCall(index, id, input) ==
  [NewCall(index, id) EXCEPT !.placeholder = input = <<Empty>>,
                             !.arguments = IF input = <<Empty>> THEN <<>> ELSE input]

BlockCallIs(call, index, id, input) ==
  /\ call \in CallStates /\ call.index = index /\ call.id = id /\ (call.placeholder <=> input = <<Empty>>)
  /\ call.arguments = (IF input = <<Empty>> THEN <<>> ELSE input) /\ ~call.started /\ ~call.completed

LEMMA BlockCallMade ==
    ASSUME NEW index \in Nat, NEW id \in Nat, NEW input \in Bodies
    PROVE  BlockCallIs(BlockCall(index, id, input), index, id, input)
<1>1. PICK old \in CallStates : old = NewCall(index, id)
  BY NewCallIs
<1>2. old.index = index /\ old.id = id /\ ~old.started /\ ~old.completed
  BY <1>1, NewCallIs
<1>3. PICK placeholder \in BOOLEAN : placeholder = (input = <<Empty>>)
  OBVIOUS
<1>4. PICK arguments \in Bodies : arguments = IF input = <<Empty>> THEN <<>> ELSE input
  BY CatEmpty
<1>5. PICK call : call = [old EXCEPT !.placeholder = placeholder, !.arguments = arguments]
  OBVIOUS
<1>6. BlockCall(index, id, input) = call
  BY <1>1, <1>3, <1>4, <1>5 DEF BlockCall
<1>7. /\ call \in CallStates /\ call.index = old.index /\ call.id = old.id /\ call.placeholder = placeholder
      /\ call.arguments = arguments /\ call.started = old.started /\ call.completed = old.completed
  BY <1>5 DEF CallStates
<1> QED BY <1>2, <1>3, <1>4, <1>6, <1>7 DEF BlockCallIs

OpensCall(sc, k, id, input, call, sf) ==
  /\ BlockCallIs(call, sc.next, id, input)
  /\ CallPut(EndAssistantText(sc), k, call, sf) /\ sf.next = EndAssistantText(sc).next + 1

LEMMA BlockStartIs ==
    ASSUME NEW sc \in Responders, ~sc.sentDone, NEW e, e.block = "tool", e.index \in Nat, e.id \in Nat, e.input \in Bodies
    PROVE  \E call, sf : /\ OpensCall(sc, e.index, e.id, e.input, call, sf)
                         /\ ResponsesBlockStart(sc, e) = StartToolCall(sf, e.index)
<1>1. PICK sd : sd = EndAssistantText(sc)
  OBVIOUS
<1>2. Passes(sc, sd)
  BY <1>1, EndTextPasses
<1>3. sd \in Responders
  BY <1>2 DEF Passes
<1>4. PICK k \in Nat : k = e.index
  OBVIOUS
<1>5. PICK call : call = BlockCall(sc.next, e.id, e.input)
  OBVIOUS
<1>6. BlockCallIs(call, sc.next, e.id, e.input)
  <2>1. sc.next \in Nat
    BY DEF Responders
  <2> QED BY <1>5, <2>1, BlockCallMade
<1>7. PICK sf : sf = [sd EXCEPT !.next = @ + 1, !.calls = Put(@, k, call)]
  OBVIOUS
<1>8. CallPut(sd, k, call, sf) /\ sf.next = sd.next + 1
  BY <1>3, <1>6, <1>7, CallAdded DEF BlockCallIs
<1>9. ResponsesBlockStart(sc, e) = StartToolCall(sf, k)
  BY <1>1, <1>4, <1>5, <1>7 DEF ResponsesBlockStart, BlockCall
<1>10. OpensCall(sc, k, e.id, e.input, call, sf)
  BY <1>1, <1>6, <1>8 DEF OpensCall
<1> QED BY <1>4, <1>9, <1>10

ContinuesCall(sc, k, piece, call, sf) ==
  /\ call \in CallStates
  /\ call.index = sc.calls[k].index /\ call.id = sc.calls[k].id /\ ~call.placeholder
  /\ call.arguments = sc.calls[k].arguments \o piece /\ call.started = sc.calls[k].started
  /\ call.completed = sc.calls[k].completed
  /\ CallPut(sc, k, call, sf) /\ sf.next = sc.next

LEMMA BlockDeltaIs ==
    ASSUME NEW sc \in Responders, NEW e, e.block = "tool", e.index \in DOMAIN sc.calls, e.piece \in Bodies
    PROVE  \E call, sf : /\ ContinuesCall(sc, e.index, e.piece, call, sf)
                         /\ ResponsesBlockDelta(sc, e) = ArgumentsDelta(sf, e.index, e.piece)
<1>1. PICK k \in DOMAIN sc.calls : k = e.index
  OBVIOUS
<1>2. PICK old \in CallStates : old = sc.calls[k]
  BY CallFacts
<1>3. PICK arguments \in Bodies : arguments = old.arguments \o e.piece
  BY PrefixCat DEF CallStates
<1>4. PICK call : call = [old EXCEPT !.placeholder = FALSE, !.arguments = arguments]
  OBVIOUS
<1>5. /\ call \in CallStates /\ call.index = old.index /\ call.id = old.id /\ ~call.placeholder
      /\ call.arguments = arguments /\ call.started = old.started /\ call.completed = old.completed
  BY <1>4 DEF CallStates
<1>6. PICK sf : sf = [sc EXCEPT !.calls = [sc.calls EXCEPT ![k] = call]]
  OBVIOUS
<1>7. CallPut(sc, k, call, sf) /\ sf.next = sc.next
  BY <1>5, <1>6, CallTurns
<1>8. [sc EXCEPT !.calls[k].placeholder = FALSE, !.calls[k].arguments = @ \o e.piece] = sf
  <2>1. sc.calls = [j \in DOMAIN sc.calls |-> sc.calls[j]]
    BY DEF Responders, Partial
  <2>2. [sc EXCEPT !.calls[k].placeholder = FALSE, !.calls[k].arguments = @ \o e.piece]
          = [sc EXCEPT !.calls = [[sc.calls EXCEPT ![k].placeholder = FALSE] EXCEPT ![k].arguments = @ \o e.piece]]
    BY ZenonT(90) DEF Responders
  <2>3. PICK first : first = [old EXCEPT !.placeholder = FALSE]
    OBVIOUS
  <2>4. PICK turned : turned = [sc.calls EXCEPT ![k] = first]
    OBVIOUS
  <2>5. [sc.calls EXCEPT ![k].placeholder = FALSE] = turned
    BY <1>2, <2>1, <2>3, <2>4
  <2>6. turned[k] = first /\ k \in DOMAIN turned /\ [turned EXCEPT ![k] = call] = [sc.calls EXCEPT ![k] = call]
    BY <2>1, <2>4
  <2>7. first.arguments = old.arguments /\ [first EXCEPT !.arguments = arguments] = call
    BY <1>4, <2>3 DEF CallStates
  <2>8. [turned EXCEPT ![k].arguments = @ \o e.piece] = [turned EXCEPT ![k] = call]
    BY <1>3, <2>6, <2>7
  <2> QED BY <1>6, <2>2, <2>5, <2>6, <2>8
<1>9. ResponsesBlockDelta(sc, e) = ArgumentsDelta(sf, k, e.piece)
  BY <1>1, <1>8 DEF ResponsesBlockDelta
<1>10. ContinuesCall(sc, k, e.piece, call, sf)
  BY <1>2, <1>3, <1>5, <1>7 DEF ContinuesCall
<1> QED BY <1>1, <1>9, <1>10

LEMMA MergedUsage ==
    ASSUME NEW usage \in Usages, NEW new \in Usages
    PROVE  mergeAnthropicUsage(usage, new) \in Usages
<1>1. mergeAnthropicUsage(usage, new) = [input |-> IF new.input # 0 THEN new.input ELSE usage.input,
                                         output |-> IF new.output # 0 THEN new.output ELSE usage.output]
  BY MergeIs
<1>2. usage.input \in Nat /\ usage.output \in Nat /\ new.input \in Nat /\ new.output \in Nat
  BY DEF Usages
<1> QED BY <1>1, <1>2 DEF Usages

LEMMA MessageStartHeard ==
    ASSUME NEW sc \in Responders, ~sc.sentDone, NEW e, e.type = "message_start", e.usage \in Usages
    PROVE  Heard(sc, ResponsesFromAnthropic(sc, e), sc.text, mergeAnthropicUsage(sc.usage, e.usage))
<1>1. PICK usage : usage = mergeAnthropicUsage(sc.usage, e.usage)
  OBVIOUS
<1>2. usage \in Usages
  BY <1>1, MergedUsage DEF Responders
<1>3. PICK sf : sf = [sc EXCEPT !.usage = usage]
  OBVIOUS
<1>4. Heard(sc, sf, sc.text, usage)
  BY <1>2, <1>3, HeardUsage
<1>5. sf \in Responders /\ ~sf.sentDone /\ sf.text = sc.text /\ sf.usage = usage
  BY <1>4 DEF Heard
<1>6. Heard(sf, Created(sf), sf.text, sf.usage)
  BY <1>5, CreatedPasses, HeardPasses
<1>7. ResponsesFromAnthropic(sc, e) = Created(sf)
  BY <1>1, <1>3 DEF ResponsesFromAnthropic, Responders
<1> QED BY <1>1, <1>4, <1>5, <1>6, <1>7, HeardThen

LEMMA BlockStartPasses ==
    ASSUME NEW sc \in Responders, ~sc.sentDone, NEW e, e.type = "content_block_start",
           e.index \in Nat, e.id \in Nat, e.input \in Bodies
    PROVE  Passes(sc, ResponsesFromAnthropic(sc, e))
<1>1. ResponsesFromAnthropic(sc, e) = ResponsesBlockStart(sc, e)
  BY DEF ResponsesFromAnthropic
<1>2. CASE e.block # "tool"
  <2>1. ResponsesBlockStart(sc, e) = sc
    BY <1>2 DEF ResponsesBlockStart
  <2> QED BY <1>1, <2>1, PassesSelf
<1>3. CASE e.block = "tool"
  <2>1. PICK call, sf : /\ OpensCall(sc, e.index, e.id, e.input, call, sf)
                        /\ ResponsesBlockStart(sc, e) = StartToolCall(sf, e.index)
    BY <1>3, BlockStartIs
  <2>2. PICK sd : sd = EndAssistantText(sc)
    OBVIOUS
  <2>3. Passes(sc, sd)
    BY <2>2, EndTextPasses
  <2>4. CallPut(sd, e.index, call, sf)
    BY <2>1, <2>2 DEF OpensCall
  <2>5. Passes(sd, sf)
    BY <2>3, <2>4, PutPasses DEF Passes
  <2>6. e.index \in DOMAIN sf.calls
    BY <2>4 DEF CallPut, PutIs
  <2>7. Passes(sf, StartToolCall(sf, e.index))
    BY <2>5, <2>6, StartCallPasses DEF Passes
  <2> QED BY <1>1, <2>1, <2>3, <2>5, <2>7, PassesThen
<1> QED BY <1>2, <1>3

LEMMA BlockDeltaHeard ==
    ASSUME NEW sc \in Responders, ~sc.sentDone, NEW e, e.type = "content_block_delta", e.piece \in Bodies
    PROVE  Heard(sc, ResponsesFromAnthropic(sc, e), IF e.block = "text" THEN sc.text \o e.piece ELSE sc.text, sc.usage)
<1>1. ResponsesFromAnthropic(sc, e) = ResponsesBlockDelta(sc, e)
  BY DEF ResponsesFromAnthropic
<1>2. CASE e.block = "text"
  <2>1. PICK sd : sd = reserveAssistantMessageOutput(sc)
    OBVIOUS
  <2>2. Passes(sc, sd)
    BY <2>1, ReservePasses
  <2>3. sd \in Responders /\ ~sd.sentDone /\ sd.text = sc.text /\ sd.usage = sc.usage
    BY <2>2 DEF Passes
  <2>4. ResponsesBlockDelta(sc, e) = AssistantText(sd, e.piece)
    BY <1>2, <2>1 DEF ResponsesBlockDelta
  <2>5. Heard(sd, AssistantText(sd, e.piece), sd.text \o e.piece, sd.usage)
    BY <2>3, HeardText
  <2>6. Heard(sc, AssistantText(sd, e.piece), sd.text \o e.piece, sd.usage)
    BY <2>2, <2>5, HeardPasses, HeardThen
  <2> QED BY <1>1, <1>2, <2>3, <2>4, <2>6
<1>3. CASE e.block = "tool" /\ e.index \in DOMAIN sc.calls
  <2>1. PICK call, sf : /\ ContinuesCall(sc, e.index, e.piece, call, sf)
                        /\ ResponsesBlockDelta(sc, e) = ArgumentsDelta(sf, e.index, e.piece)
    BY <1>3, BlockDeltaIs
  <2>2. CallPut(sc, e.index, call, sf)
    BY <2>1 DEF ContinuesCall
  <2>3. Passes(sc, sf)
    BY <2>2, PutPasses
  <2>4. e.index \in DOMAIN sf.calls
    BY <2>2 DEF CallPut, PutIs
  <2>5. Passes(sf, ArgumentsDelta(sf, e.index, e.piece))
    BY <2>3, <2>4, ArgumentsPass DEF Passes
  <2>6. Passes(sc, ArgumentsDelta(sf, e.index, e.piece))
    BY <2>3, <2>5, PassesThen
  <2> QED BY <1>1, <1>3, <2>1, <2>6, HeardPasses
<1>4. CASE e.block # "text" /\ ~(e.block = "tool" /\ e.index \in DOMAIN sc.calls)
  <2>1. ResponsesBlockDelta(sc, e) = sc
    BY <1>4 DEF ResponsesBlockDelta
  <2> QED BY <1>1, <1>4, <2>1, PassesSelf, HeardPasses
<1> QED BY <1>2, <1>3, <1>4

LEMMA BlockStopPasses ==
    ASSUME NEW sc \in Responders, ~sc.sentDone, NEW e, e.type = "content_block_stop"
    PROVE  Passes(sc, ResponsesFromAnthropic(sc, e))
<1>1. ResponsesFromAnthropic(sc, e) = ResponsesBlockStop(sc, e)
  BY DEF ResponsesFromAnthropic
<1>2. CASE e.index \in DOMAIN sc.calls
  BY <1>1, <1>2, CompleteCallPasses DEF ResponsesBlockStop
<1>3. CASE e.index \notin DOMAIN sc.calls
  BY <1>1, <1>3, PassesSelf DEF ResponsesBlockStop
<1> QED BY <1>2, <1>3

LEMMA MessageDeltaHeard ==
    ASSUME NEW sc \in Responders, ~sc.sentDone, NEW e, e.type = "message_delta", e.usage \in Usages
    PROVE  Heard(sc, ResponsesFromAnthropic(sc, e), sc.text, mergeAnthropicUsage(sc.usage, e.usage))
<1>1. PICK usage : usage = mergeAnthropicUsage(sc.usage, e.usage)
  OBVIOUS
<1>2. usage \in Usages
  BY <1>1, MergedUsage DEF Responders
<1>3. PICK sf : sf = [sc EXCEPT !.usage = usage]
  OBVIOUS
<1>4. Heard(sc, sf, sc.text, usage)
  BY <1>2, <1>3, HeardUsage
<1>5. sf \in Responders /\ ~sf.sentDone /\ sf.text = sc.text /\ sf.usage = usage
  BY <1>4 DEF Heard
<1>6. Heard(sf, reserveAssistantMessageOutput(sf), sf.text, sf.usage)
  BY <1>5, ReservePasses, HeardPasses
<1>7. ResponsesFromAnthropic(sc, e) = IF sc.calls = <<>> THEN reserveAssistantMessageOutput(sf) ELSE sf
  <2>1. ResponsesFromAnthropic(sc, e) = ResponsesMessageDelta(sc, e)
    BY DEF ResponsesFromAnthropic
  <2> QED BY <1>1, <1>3, <2>1 DEF ResponsesMessageDelta, Responders
<1>8. Heard(sc, reserveAssistantMessageOutput(sf), sc.text, usage)
  BY <1>4, <1>5, <1>6, HeardThen
<1> QED BY <1>1, <1>4, <1>7, <1>8

LEMMA AnthropicEndHeard ==
    ASSUME NEW sc \in Responders, ~sc.sentDone, NEW e, e.type = "EOF"
    PROVE  CompletedBy(sc, ResponsesFromAnthropic(sc, e))
<1>1. PICK s1 : s1 = CompleteAssistantOutput(sc)
  OBVIOUS
<1>2. Passes(sc, s1)
  BY <1>1, CompletePasses
<1>3. s1 \in Responders /\ ~s1.sentDone /\ s1.text = sc.text /\ s1.usage = sc.usage
  BY <1>2 DEF Passes
<1>4. CompletedBy(s1, Completed(s1))
  BY <1>3, CompletedHeard
<1>5. ResponsesFromAnthropic(sc, e) = Completed(s1)
  BY <1>1 DEF ResponsesFromAnthropic
<1>6. Heard(sc, s1, sc.text, sc.usage)
  BY <1>2, HeardPasses
<1> QED BY <1>3, <1>4, <1>5, <1>6 DEF CompletedBy, Heard

-----------------------------------------------------------------------------
(* What the observers of a response have seen follows what its converter has
   been told of the answer.                                                  *)

Follower(o, c, sc, d, src, s) ==
  /\ c \in Clients /\ \E over \in BOOLEAN : Followed(o, over, sc) /\ (c.ended => over)
  /\ sc.text = AnswerOf(s).text
  /\ (sc.sentDone <=> EndsAt(d, src))
  /\ Counted(src) => sc.usage = Total
  /\ d = "anthropic" /\ src = "blocks" => sc.usage.input = 3
  /\ d = "openai" => CallsWithin(sc)

ResponsesSeen == Follower(observed, client, adapter, dialect, source, sent)

LEMMA FollowedFacts ==
    ASSUME NEW o, NEW over, NEW sc, Followed(o, over, sc)
    PROVE  sc \in Responders /\ sc.text \in Bodies /\ sc.usage \in Usages /\ sc.sentDone \in BOOLEAN
BY FollowsFacts DEF Followed

LEMMA FollowerIs ==
    ASSUME NEW o, NEW c, NEW sc, NEW d, NEW src, NEW s, Follower(o, c, sc, d, src, s)
    PROVE  sc \in Responders /\ sc.text \in Bodies /\ sc.usage \in Usages /\ sc.sentDone \in BOOLEAN
BY FollowedFacts DEF Follower

LEMMA FollowerHears ==
    ASSUME NEW o, NEW c, NEW sc, NEW d, NEW src, NEW s, Follower(o, c, sc, d, src, s),
           NEW sd, NEW text, NEW usage, Heard(sc, sd, text, usage),
           NEW r, text = AnswerOf(r).text, NEW srd, ~EndsAt(d, srd), Counted(srd) => usage = Total,
           d = "anthropic" /\ srd = "blocks" => usage.input = 3, d = "openai" => CallsWithin(sd)
    PROVE  Follower(o, c, sd, d, srd, r)
<1>1. PICK over \in BOOLEAN : Followed(o, over, sc) /\ (c.ended => over)
  BY DEF Follower
<1>2. Followed(o, over, sd) /\ sd.text = text /\ sd.usage = usage /\ ~sd.sentDone
  BY <1>1 DEF Heard
<1> QED BY <1>1, <1>2 DEF Follower

LEMMA FollowerEnds ==
    ASSUME NEW o, NEW c, NEW sc, NEW d, NEW src, NEW s, Follower(o, c, sc, d, src, s),
           NEW sd, CompletedBy(sc, sd), NEW srd, EndsAt(d, srd), Counted(srd) => Counted(src),
           srd # "blocks", d = "openai" => CallsWithin(sd)
    PROVE  Follower(o, c, sd, d, srd, s)
<1>1. PICK over \in BOOLEAN : Followed(o, over, sc) /\ (c.ended => over)
  BY DEF Follower
<1>2. Followed(o, over, sd) /\ sd.text = sc.text /\ sd.usage = sc.usage /\ sd.sentDone
  BY <1>1 DEF CompletedBy
<1> QED BY <1>1, <1>2 DEF Follower

\* What the provider of chat chunks sends says how the answer goes on.
LEMMA OpenAISaysOn ==
    ASSUME ProviderOk, dialect = "openai", UNCHANGED <<dialect, endpoint>>, OpenAI
    PROVE  \E x, t, u : /\ Feed(x) /\ Says(x, t, u) /\ t \in Told /\ u \in Told
                        /\ Tells(t, dialect, source, sent, stop)
                        /\ t.usage = (IF Counted(source) THEN Total ELSE NoUsage)
                        /\ Tells(u, dialect, source', sent', stop')
<1>1. PICK x : OpenAISends(x, source', sent', stop')
  BY OpenAIKeeps
<1>2. SentOk(sent, "openai") /\ stop \in StopReasons \cup {Unset} /\ source \in {"blocks", "stopped", "counted"}
  BY DEF ProviderOk, OpenAI, OpenAIEnd
<1>3. ~EndsAt("openai", source)
  BY <1>2 DEF EndsAt
<1>4. PICK a : a = AnswerOf(sent) /\ a \in Answers /\ ToldOf(sent) = a
  BY <1>2, SentPlain
<1>5. PICK word : word = (IF stop = Unset THEN Unset ELSE Finish[stop]) /\ word \in Words
  <2>1. Unset \in Words
    BY DEF Words
  <2> QED BY <1>2, <2>1, FinishFacts
<1>6. PICK usage : usage = (IF Counted(source) THEN Total ELSE NoUsage) /\ usage \in Usages
  BY UsageFacts
<1>7. PICK o \in BOOLEAN : o = FALSE
  OBVIOUS
<1>8. PICK t : t = [answer |-> a, stop |-> word, usage |-> usage, ended |-> o]
  OBVIOUS
<1>9. t \in Told /\ t.answer = a /\ t.stop = word /\ t.usage = usage /\ ~t.ended
  BY <1>4, <1>5, <1>6, <1>7, <1>8 DEF Told
<1>10. Tells(t, "openai", source, sent, stop)
  BY <1>3, <1>4, <1>5, <1>6, <1>9 DEF Tells
<1>11. FeedsTo(Chunk(x), t, "openai", source', sent', stop')
  BY <1>1, <1>10 DEF OpenAISends
<1>12. PICK y, events : y = Chunk(x) /\ events = <<x>> /\ y = [buffer |-> events]
  BY DEF Chunk
<1>13. y.buffer = events /\ events # <<>>
  BY <1>12
<1>14. PICK e, u : y.buffer = <<e>> /\ u \in Told /\ Says(e, t, u) /\ Tells(u, "openai", source', sent', stop')
  BY <1>11, <1>12, <1>13 DEF FeedsTo
<1>15. e = x
  BY <1>12, <1>13, <1>14
<1> QED BY <1>1, <1>6, <1>9, <1>10, <1>14, <1>15 DEF OpenAISends

LEMMA OneSaid ==
    ASSUME NEW e, NEW t \in Told, NEW u \in Told, SaysChunk(e, t, u)
    PROVE  /\ e \in Chunks /\ e.content \in Bodies /\ e.usage \in Usages
           /\ OneCall(e) /\ u.answer.text = t.answer.text \o e.content
<1>1. e \in Chunks /\ e.content \in Bodies /\ e.usage \in Usages
  BY DEF SaysChunk, Chunks
<1>2. PICK a, b : a = t.answer /\ b = u.answer /\ a \in Answers /\ b \in Answers /\ ChunkSays(e, a, b)
  BY DEF SaysChunk, Told
<1>3. /\ a.text \in Bodies /\ a.calls \in Seq(CallBodies) /\ a.shown \in Seq(ShownBlocks)
      /\ a.size \in Nat /\ a.pieces \in Nat /\ Len(a.calls) \in Nat
  BY <1>2 DEF Answers
<1>3a. a \in Answers
  BY <1>2
<1>4. a.text \o <<>> = a.text
  BY <1>3, CatEmpty
<1>5. CASE SaysNothing(e, a, b)
  <2>1. e.calls = <<>> /\ e.content = <<>> /\ b = a
    BY <1>5 DEF SaysNothing
  <2> QED BY <1>1, <1>2, <1>4, <2>1 DEF OneCall
<1>6. CASE SaysThought(e, a, b)
  <2>1. PICK piece : piece = e.reasoning /\ piece \in Bodies
    BY <1>1 DEF Chunks
  <2>2. e.calls = <<>> /\ e.content = <<>> /\ b = Said(a, Block("thinking", NoId, piece))
    BY <1>6, <2>1 DEF SaysThought
  <2>3. NoId \in Nat
    BY DEF NoId
  <2>4. b.text = a.text
    BY <1>2, <2>1, <2>2, <2>3, SaidThought
  <2> QED BY <1>1, <1>2, <1>4, <2>2, <2>4 DEF OneCall
<1>7. CASE SaysText(e, a, b)
  <2>1. PICK piece : piece = e.content /\ piece \in Bodies
    BY <1>1
  <2>2. e.calls = <<>> /\ b = Said(a, Block("text", NoId, piece))
    BY <1>7, <2>1 DEF SaysText
  <2>3. NoId \in Nat
    BY DEF NoId
  <2>4. Said(a, Block("text", NoId, piece)).text = a.text \o piece
    BY <1>3a, <2>1, <2>3, SaidText
  <2>5. b.text = a.text \o piece
    BY <2>2, <2>4
  <2> QED BY <1>1, <1>2, <2>1, <2>2, <2>5 DEF OneCall
<1>8. CASE SaysCall(e, a, b)
  <2>1. PICK id \in Nat \ {NoId}, arguments \in Bodies :
          e.calls = <<CallDelta(Len(a.calls), id, arguments)>> /\ b = Said(a, Block("tool", id, arguments))
    BY <1>8 DEF SaysCall
  <2>2. e.content = <<>> /\ Len(a.calls) < MaxBlocks
    BY <1>8 DEF SaysCall
  <2>3. Said(a, Block("tool", id, arguments)).text = a.text
    BY <1>3a, SaidTool
  <2>3a. b.text = a.text
    BY <2>1, <2>3
  <2>4. PICK delta : delta = CallDelta(Len(a.calls), id, arguments)
    OBVIOUS
  <2>5. delta \in CallDeltas /\ delta.index = Len(a.calls)
    BY <1>3, <2>1, <2>4 DEF CallDeltas, CallDelta
  <2>6. OneCall(e)
    BY <2>1, <2>2, <2>4, <2>5 DEF OneCall
  <2> QED BY <1>1, <1>2, <1>4, <2>2, <2>3a, <2>6
<1>9. CASE SaysMore(e, a, b)
  <2>1. PICK arguments \in Bodies :
          e.calls = <<CallDelta(Len(a.calls) - 1, NoId, arguments)>> /\ b = Further(a, arguments)
    BY <1>9 DEF SaysMore
  <2>2. e.content = <<>> /\ a.calls # <<>> /\ a.shown # <<>> /\ Len(a.calls) <= MaxBlocks
    BY <1>9 DEF SaysMore
  <2>3. Further(a, arguments).text = a.text
    BY <1>3a, <2>2, FurtherFacts
  <2>3a. b.text = a.text
    BY <2>1, <2>3
  <2>4. PICK delta : delta = CallDelta(Len(a.calls) - 1, NoId, arguments)
    OBVIOUS
  <2>5. Len(a.calls) # 0
    BY <1>3, <2>2
  <2>6. delta \in CallDeltas /\ delta.index = Len(a.calls) - 1
    BY <1>3, <2>1, <2>4, <2>5 DEF CallDeltas, CallDelta, NoId
  <2>7. delta.index < MaxBlocks
    BY <1>3, <2>2, <2>6, StreamsAssumption
  <2>8. OneCall(e)
    BY <2>1, <2>4, <2>6, <2>7 DEF OneCall
  <2> QED BY <1>1, <1>2, <1>4, <2>2, <2>3a, <2>8
<1> QED BY <1>2, <1>5, <1>6, <1>7, <1>8, <1>9 DEF ChunkSays

LEMMA OpenAISeen ==
    ASSUME ProviderOk, dialect = "openai", endpoint = "responses", ResponsesSeen,
           UNCHANGED <<dialect, endpoint>>, OpenAI
    PROVE  ResponsesSeen'
<1>1. PICK x, t, u : /\ Feed(x) /\ Says(x, t, u) /\ t \in Told /\ u \in Told
                     /\ Tells(t, dialect, source, sent, stop)
                     /\ t.usage = (IF Counted(source) THEN Total ELSE NoUsage)
                     /\ Tells(u, dialect, source', sent', stop')
  BY OpenAISaysOn
<1>2. UNCHANGED <<client, observed>> /\ adapter' = ResponsesFromChat(adapter, x)
  <2>1. dialect # "anthropic"
    BY RouteFacts DEF ProviderOk
  <2>2. adapter' = Adapted(x) /\ UNCHANGED <<client, observed>>
    BY <1>1 DEF Feed
  <2> QED BY <2>1, <2>2 DEF Adapted
<1>3. ProviderOk'
  BY OpenAIKeeps
<1>4. ToldOf(sent) = AnswerOf(sent) /\ ToldOf(sent') = AnswerOf(sent')
  BY <1>3, SentPlain DEF ProviderOk
<1>5. PICK sc, o, c, s, r, src, srd :
        /\ sc = adapter /\ o = observed /\ c = client /\ s = sent /\ r = sent' /\ src = source /\ srd = source'
  OBVIOUS
<1>6. Follower(o, c, sc, "openai", src, s)
  BY <1>5 DEF ResponsesSeen
<1>7. /\ sc \in Responders /\ (sc.sentDone <=> EndsAt("openai", src)) /\ sc.text = AnswerOf(s).text
      /\ CallsWithin(sc) /\ (Counted(src) => sc.usage = Total)
  BY <1>6, FollowerIs DEF Follower
<1>8. t.answer = AnswerOf(s) /\ u.answer = AnswerOf(r) /\ (t.ended <=> EndsAt("openai", src))
      /\ (u.ended <=> EndsAt("openai", srd)) /\ (Counted(srd) => u.usage = Total)
  BY <1>1, <1>4, <1>5 DEF Tells
<1>9. src \in {"blocks", "stopped", "counted"}
  BY <1>5 DEF OpenAI, OpenAIEnd
<1>10. ~sc.sentDone
  BY <1>7, <1>9 DEF EndsAt
<1>11. CASE SaysChunk(x, t, u)
  <2>1. x \in Chunks /\ OneCall(x) /\ u.answer.text = t.answer.text \o x.content
    BY <1>1, <1>11, OneSaid
  <2>2. ~u.ended /\ u.usage = IF x.usage = NoUsage THEN t.usage ELSE x.usage
    BY <1>11 DEF SaysChunk
  <2>3. PICK text, usage : text = sc.text \o x.content /\ usage = UsageAfter(sc, x)
    OBVIOUS
  <2>4. Heard(sc, ResponsesFromChat(sc, x), text, usage) /\ CallsWithin(ResponsesFromChat(sc, x))
    BY <1>7, <1>10, <2>1, <2>3, ChunkHeard
  <2>5. text = AnswerOf(r).text
    BY <1>7, <1>8, <2>1, <2>3
  <2>6. Counted(srd) => usage = Total
    BY <1>1, <1>5, <1>7, <1>8, <2>2, <2>3, UsageFacts DEF UsageAfter
  <2>7. ~EndsAt("openai", srd)
    BY <1>8, <2>2
  <2>8. Follower(o, c, ResponsesFromChat(sc, x), "openai", srd, r)
    BY <1>6, <2>4, <2>5, <2>6, <2>7, FollowerHears
  <2> QED BY <1>2, <1>5, <2>8 DEF ResponsesSeen
<1>12. CASE SaysEnd(x, t, u)
  <2>1. x.type \in {"[DONE]", "EOF"}
    BY <1>12 DEF SaysEnd, Done
  <2>2. CompletedBy(sc, ResponsesFromChat(sc, x)) /\ CallsWithin(ResponsesFromChat(sc, x))
    BY <1>7, <1>10, <2>1, EndHeard
  <2>3. EndsAt("openai", srd) /\ u.answer = t.answer /\ u.usage = t.usage
    BY <1>8, <1>12 DEF SaysEnd
  <2>4. Counted(srd) => Counted(src)
    BY <1>1, <1>5, <1>8, <2>3, UsageFacts
  <2>5. srd # "blocks"
    BY <2>3 DEF EndsAt
  <2>6. Follower(o, c, ResponsesFromChat(sc, x), "openai", srd, s)
    BY <1>6, <2>2, <2>3, <2>4, <2>5, FollowerEnds
  <2>7. AnswerOf(r) = AnswerOf(s)
    BY <1>8, <2>3
  <2>8. Follower(o, c, ResponsesFromChat(sc, x), "openai", srd, r)
    BY <2>6, <2>7 DEF Follower
  <2> QED BY <1>2, <1>5, <2>8 DEF ResponsesSeen
<1> QED BY <1>1, <1>11, <1>12 DEF Says

-----------------------------------------------------------------------------
(* The events of an Anthropic provider, for the observers. *)

LEMMA AnthropicStarted ==
    ASSUME NEW o, NEW c, NEW sc, NEW s, Follower(o, c, sc, "anthropic", "fresh", s),
           NEW e, e = [type |-> "message_start", usage |-> [input |-> 3, output |-> 1]]
    PROVE  Follower(o, c, ResponsesFromAnthropic(sc, e), "anthropic", "blocks", s)
<1>1. sc \in Responders /\ sc.usage \in Usages /\ ~sc.sentDone /\ sc.text = AnswerOf(s).text
  BY FollowerIs DEF Follower, EndsAt
<1>2. PICK usage : usage = mergeAnthropicUsage(sc.usage, e.usage)
  OBVIOUS
<1>3. e.type = "message_start" /\ e.usage \in Usages /\ e.usage.input = 3
  BY DEF Usages
<1>4. usage.input = 3
  BY <1>1, <1>2, <1>3, MergeIs
<1>5. Heard(sc, ResponsesFromAnthropic(sc, e), sc.text, usage)
  BY <1>1, <1>2, <1>3, MessageStartHeard
<1>6. ~EndsAt("anthropic", "blocks") /\ ~Counted("blocks")
  BY DEF EndsAt, Counted
<1> QED BY <1>1, <1>4, <1>5, <1>6, FollowerHears

LEMMA AnthropicStoppedFor ==
    ASSUME NEW o, NEW c, NEW sc, NEW s, Follower(o, c, sc, "anthropic", "blocks", s),
           NEW reason, NEW e, e = [type |-> "message_delta", stop |-> reason, usage |-> [input |-> 0, output |-> 2]]
    PROVE  Follower(o, c, ResponsesFromAnthropic(sc, e), "anthropic", "done", s)
<1>1. sc \in Responders /\ sc.usage \in Usages /\ ~sc.sentDone /\ sc.text = AnswerOf(s).text /\ sc.usage.input = 3
  BY FollowerIs DEF Follower, EndsAt
<1>2. PICK usage : usage = mergeAnthropicUsage(sc.usage, e.usage)
  OBVIOUS
<1>3. e.type = "message_delta" /\ e.usage \in Usages /\ e.usage.input = 0 /\ e.usage.output = 2
  BY DEF Usages
<1>4. usage = Total
  BY <1>1, <1>2, <1>3, MergeIs DEF Total
<1>5. Heard(sc, ResponsesFromAnthropic(sc, e), sc.text, usage)
  BY <1>1, <1>2, <1>3, MessageDeltaHeard
<1>6. ~EndsAt("anthropic", "done")
  BY DEF EndsAt
<1> QED BY <1>1, <1>4, <1>5, <1>6, FollowerHears

\* The blocks in between.
LEMMA AnthropicTexted ==
    ASSUME NEW o, NEW c, NEW sc, NEW s, Follower(o, c, sc, "anthropic", "blocks", s),
           NEW sd, NEW text, Heard(sc, sd, text, sc.usage), NEW r, text = AnswerOf(r).text
    PROVE  Follower(o, c, sd, "anthropic", "blocks", r)
<1>1. sc.usage.input = 3
  BY DEF Follower
<1>2. ~EndsAt("anthropic", "blocks") /\ ~Counted("blocks")
  BY DEF EndsAt, Counted
<1> QED BY <1>1, <1>2, FollowerHears

LEMMA AnthropicOpened ==
    ASSUME NEW o, NEW c, NEW sc, NEW s, Follower(o, c, sc, "anthropic", "blocks", s),
           NEW type \in BlockTypes, NEW id, NEW input \in Bodies, type # "tool" => input = <<>>,
           NEW r, Opens(s, r, type, id, input),
           NEW e, e = [type |-> "content_block_start", index |-> Len(s), block |-> type, id |-> id, input |-> input]
    PROVE  Follower(o, c, ResponsesFromAnthropic(sc, e), "anthropic", "blocks", r)
<1>1. sc \in Responders /\ ~sc.sentDone /\ sc.text = AnswerOf(s).text /\ sc.text \in Bodies
  BY FollowerIs DEF Follower, EndsAt
<1>2. e.type = "content_block_start" /\ e.index \in Nat /\ e.id \in Nat /\ e.input \in Bodies
  BY DEF Opens
<1>3. Heard(sc, ResponsesFromAnthropic(sc, e), sc.text, sc.usage)
  BY <1>1, <1>2, BlockStartPasses, HeardPasses
<1>4. PICK a : a = AnswerOf(s) /\ a \in Answers
  BY DEF Opens
<1>5. id \in Nat /\ AnswerOf(r) = Said(a, Block(type, id, input))
  BY <1>4 DEF Opens
<1>5a. a \in Answers /\ id \in Nat
  BY <1>4, <1>5
<1>6. Said(a, Block(type, id, input)).text = IF type = "text" THEN a.text \o input ELSE a.text
  BY <1>5a, SaidBlock
<1>7. type = "text" => a.text \o input = a.text
  BY <1>1, <1>4, CatEmpty
<1>8. AnswerOf(r).text = sc.text
  BY <1>1, <1>4, <1>5, <1>6, <1>7
<1> QED BY <1>3, <1>8, AnthropicTexted

LEMMA AnthropicContinued ==
    ASSUME NEW o, NEW c, NEW sc, NEW s, Follower(o, c, sc, "anthropic", "blocks", s),
           NEW z, NEW piece \in Bodies, NEW open, NEW r, Turns("anthropic", s, r, z, Continues(z, piece), open),
           NEW e, e = [type |-> "content_block_delta", index |-> Len(s) - 1, block |-> z.type, piece |-> piece]
    PROVE  Follower(o, c, ResponsesFromAnthropic(sc, e), "anthropic", "blocks", r)
<1>1. sc \in Responders /\ ~sc.sentDone /\ sc.text = AnswerOf(s).text /\ sc.text \in Bodies
  BY FollowerIs DEF Follower, EndsAt
<1>2. e.type = "content_block_delta" /\ e.piece = piece /\ e.block = z.type
  OBVIOUS
<1>3. PICK text : text = IF z.type = "text" THEN sc.text \o piece ELSE sc.text
  OBVIOUS
<1>4. Heard(sc, ResponsesFromAnthropic(sc, e), text, sc.usage)
  BY <1>1, <1>2, <1>3, BlockDeltaHeard
<1>5. PICK a, body, more, type, id : /\ a = AnswerOf(Front(s)) /\ a \in Answers /\ body = z.body /\ more = Continues(z, piece)
                                     /\ type = z.type /\ id = z.id
                                     /\ body \in Bodies /\ more \in Bodies /\ type \in BlockTypes /\ id \in Nat
  BY DEF Turns
<1>6. AnswerOf(s) = Said(a, Block(type, id, body)) /\ AnswerOf(r) = Said(a, Block(type, id, more))
  BY <1>5 DEF Turns
<1>5a. a \in Answers /\ body \in Bodies /\ more \in Bodies /\ type \in BlockTypes /\ id \in Nat
  BY <1>5
<1>6a. Said(a, Block(type, id, body)).text = (IF type = "text" THEN a.text \o body ELSE a.text)
  BY ZenonT(40), <1>5a, SaidBlock
<1>7. Said(a, Block(type, id, more)).text = (IF type = "text" THEN a.text \o more ELSE a.text)
  BY ZenonT(40), <1>5a, SaidBlock
<1>8. CASE type = "text"
  <2>1. body # <<Empty>>
    BY <1>5, <1>8 DEF Turns
  <2>2. more = body \o piece
    BY <1>5, <2>1 DEF Continues
  <2>3. a.text \in Bodies
    BY <1>5 DEF Answers
  <2>4. a.text \o (body \o piece) = (a.text \o body) \o piece
    BY <1>5, <2>3, CatAssoc
  <2>5. text = AnswerOf(r).text
    BY <1>1, <1>3, <1>5, <1>6, <1>6a, <1>7, <1>8, <2>2, <2>4
  <2> QED BY <1>4, <2>5, AnthropicTexted
<1>9. CASE type # "text"
  <2>1. text = AnswerOf(r).text
    BY <1>1, <1>3, <1>5, <1>6, <1>6a, <1>7, <1>9
  <2> QED BY <1>4, <2>1, AnthropicTexted
<1> QED BY <1>8, <1>9

LEMMA AnthropicBlockEnds ==
    ASSUME NEW o, NEW c, NEW sc, NEW s, Follower(o, c, sc, "anthropic", "blocks", s),
           NEW z, NEW r, Turns("anthropic", s, r, z, z.body, FALSE),
           NEW e, e = [type |-> "content_block_stop", index |-> Len(s) - 1]
    PROVE  Follower(o, c, ResponsesFromAnthropic(sc, e), "anthropic", "blocks", r)
<1>1. sc \in Responders /\ ~sc.sentDone /\ sc.text = AnswerOf(s).text
  BY FollowerIs DEF Follower, EndsAt
<1>2. e.type = "content_block_stop"
  OBVIOUS
<1>3. Heard(sc, ResponsesFromAnthropic(sc, e), sc.text, sc.usage)
  BY <1>1, <1>2, BlockStopPasses, HeardPasses
<1>4. AnswerOf(r) = AnswerOf(s)
  BY DEF Turns
<1>5. sc.text = AnswerOf(r).text
  BY <1>1, <1>4
<1> QED BY <1>3, <1>5, AnthropicTexted

LEMMA AnthropicSeen ==
    ASSUME ProviderOk, dialect = "anthropic", endpoint = "responses", ResponsesSeen,
           UNCHANGED <<dialect, endpoint>>, Anthropic
    PROVE  ResponsesSeen'
<1>1. /\ pipe = "open" /\ UNCHANGED <<client, observed>>
      /\ \A e : Feed(e) => adapter' = ResponsesFromAnthropic(adapter, e)
  BY Sends DEF Feed, Adapted
<1>2. SentOk(sent, "anthropic")
  BY DEF ProviderOk
<1>3. PICK sc, o, c, s, r, src, srd :
        /\ sc = adapter /\ o = observed /\ c = client /\ s = sent /\ r = sent' /\ src = source /\ srd = source'
  OBVIOUS
<1>4. Follower(o, c, sc, "anthropic", src, s)
  BY <1>3 DEF ResponsesSeen
<1>5. CASE AnthropicStart
  <2>1. PICK e : e = [type |-> "message_start", usage |-> [input |-> 3, output |-> 1]] /\ Feed(e)
    BY <1>5 DEF AnthropicStart
  <2>2. src = "fresh" /\ srd = "blocks" /\ r = s
    BY <1>3, <1>5 DEF AnthropicStart
  <2>3. Follower(o, c, ResponsesFromAnthropic(sc, e), "anthropic", "blocks", s)
    BY <1>4, <2>1, <2>2, AnthropicStarted
  <2> QED BY <1>1, <1>3, <2>1, <2>2, <2>3 DEF ResponsesSeen
<1>6. ASSUME NEW type \in BlockTypes, NEW input \in Bodies, input = <<Empty>> => type = "tool",
             type # "tool" => input = <<>>, AnthropicBlockStart(type, input)
      PROVE  ResponsesSeen'
  <2>1. PICK id : /\ Opens(sent, sent', type, id, input)
                  /\ Feed([type |-> "content_block_start", index |-> Len(sent), block |-> type, id |-> id, input |-> input])
    BY <1>6, BlockStarts
  <2>2. PICK e : e = [type |-> "content_block_start", index |-> Len(s), block |-> type, id |-> id, input |-> input]
    OBVIOUS
  <2>3. Feed(e) /\ Opens(s, r, type, id, input)
    BY <1>3, <2>1, <2>2
  <2>4. src = "blocks" /\ srd = "blocks"
    BY <1>3, <1>6 DEF AnthropicBlockStart
  <2>5. Follower(o, c, ResponsesFromAnthropic(sc, e), "anthropic", "blocks", r)
    BY <1>4, <1>6, <2>2, <2>3, <2>4, AnthropicOpened
  <2> QED BY <1>1, <1>3, <2>3, <2>4, <2>5 DEF ResponsesSeen
<1>7. CASE AnthropicBlockDelta
  <2>1. sent # <<>> /\ source = "blocks" /\ srd = "blocks"
    BY <1>3, <1>7, ReasonsAre DEF AnthropicBlockDelta, Anthropic, Open, OpenIn, ProviderOk
  <2>2. PICK z : z = Last(sent)
    OBVIOUS
  <2>3. /\ sent' = Continued(Piece)
        /\ Feed([type |-> "content_block_delta", index |-> Len(sent) - 1, block |-> Last(sent).type, piece |-> Piece])
    BY <1>7 DEF AnthropicBlockDelta
  <2>4. Piece \in Bodies /\ Turns(dialect, sent, sent', z, Continues(z, Piece), z.open)
    BY <1>2, <2>1, <2>2, <2>3, BlockContinues
  <2>5. PICK piece, e : piece = Piece /\ e = [type |-> "content_block_delta", index |-> Len(s) - 1, block |-> z.type, piece |-> piece]
    OBVIOUS
  <2>6. Feed(e) /\ piece \in Bodies /\ Turns("anthropic", s, r, z, Continues(z, piece), z.open)
    BY <1>3, <2>2, <2>3, <2>4, <2>5
  <2>7. Follower(o, c, ResponsesFromAnthropic(sc, e), "anthropic", "blocks", r)
    BY <1>3, <1>4, <2>1, <2>5, <2>6, AnthropicContinued
  <2> QED BY <1>1, <1>3, <2>1, <2>6, <2>7 DEF ResponsesSeen
<1>8. CASE AnthropicBlockStop
  <2>1. sent # <<>> /\ source = "blocks" /\ srd = "blocks"
    BY <1>3, <1>8, ReasonsAre DEF AnthropicBlockStop, Anthropic, Open, OpenIn, ProviderOk
  <2>2. PICK z : z = Last(sent)
    OBVIOUS
  <2>3. /\ sent' = [sent EXCEPT ![Len(sent)].open = FALSE]
        /\ Feed([type |-> "content_block_stop", index |-> Len(sent) - 1])
    BY <1>8 DEF AnthropicBlockStop
  <2>4. Turns("anthropic", sent, sent', z, z.body, FALSE)
    BY <1>2, <2>1, <2>2, <2>3, SentStops
  <2>5. PICK e : e = [type |-> "content_block_stop", index |-> Len(s) - 1]
    OBVIOUS
  <2>6. Feed(e) /\ Turns("anthropic", s, r, z, z.body, FALSE)
    BY <1>3, <2>3, <2>4, <2>5
  <2>7. Follower(o, c, ResponsesFromAnthropic(sc, e), "anthropic", "blocks", r)
    BY <1>3, <1>4, <2>1, <2>5, <2>6, AnthropicBlockEnds
  <2> QED BY <1>1, <1>3, <2>1, <2>6, <2>7 DEF ResponsesSeen
<1>9. ASSUME NEW reason \in Reasons, AnthropicStop(reason) PROVE ResponsesSeen'
  <2>1. PICK e : e = [type |-> "message_delta", stop |-> reason, usage |-> [input |-> 0, output |-> 2]] /\ Feed(e)
    BY <1>9 DEF AnthropicStop
  <2>2. src = "blocks" /\ srd = "done" /\ r = s
    BY <1>3, <1>9 DEF AnthropicStop
  <2>3. Follower(o, c, ResponsesFromAnthropic(sc, e), "anthropic", "done", s)
    BY <1>4, <2>1, <2>2, AnthropicStoppedFor
  <2> QED BY <1>1, <1>3, <2>1, <2>2, <2>3 DEF ResponsesSeen
<1>10. /\ Piece \in Bodies /\ <<>> \in Bodies /\ <<Empty>> \in Bodies /\ <<>> # <<Empty>> /\ Piece # <<Empty>>
       /\ {"thinking", "text", "tool"} = BlockTypes
  BY <1>2, PieceFacts DEF BlockTypes
<1>11. CASE \E type \in {"thinking", "text"} : AnthropicBlockStart(type, <<>>)
  BY <1>6, <1>10, <1>11
<1>12. CASE \E input \in {<<>>, <<Empty>>, Piece} : AnthropicBlockStart("tool", input)
  BY <1>6, <1>10, <1>12
<1> QED BY <1>5, <1>7, <1>8, <1>9, <1>11, <1>12 DEF Anthropic

-----------------------------------------------------------------------------
(* The other steps of a stream of a response, for the observers. *)

LEMMA EndSeen ==
    ASSUME ProviderOk, endpoint = "responses", ResponsesSeen, UNCHANGED <<dialect, endpoint>>, EndOfSource
    PROVE  ResponsesSeen'
<1>1. PICK e : e = [type |-> "EOF"] /\ Feed(e)
  BY DEF EndOfSource
<1>2. /\ UNCHANGED <<client, observed, sent>> /\ source \notin {"ended", "cut"}
      /\ source' = IF source = "done" THEN "ended" ELSE "cut"
  BY <1>1, Sends DEF EndOfSource
<1>3. PICK sc, o, c, s, d, src, srd :
        /\ sc = adapter /\ o = observed /\ c = client /\ s = sent /\ d = dialect /\ src = source /\ srd = source'
  OBVIOUS
<1>4. Follower(o, c, sc, d, src, s)
  BY <1>3 DEF ResponsesSeen
<1>5. sc \in Responders /\ (sc.sentDone <=> EndsAt(d, src)) /\ (d = "openai" => CallsWithin(sc)) /\ e.type = "EOF"
  BY <1>1, <1>4, FollowerIs DEF Follower
<1>6. EndsAt(d, srd) /\ srd # "blocks" /\ (Counted(srd) => Counted(src))
  BY <1>2, <1>3 DEF EndsAt, Counted
<1>7. CASE dialect = "anthropic"
  <2>1. adapter' = ResponsesFromAnthropic(adapter, e)
    BY <1>1, <1>7 DEF Feed, Adapted
  <2>2. ~sc.sentDone
    BY <1>2, <1>3, <1>5, <1>7 DEF EndsAt
  <2>3. CompletedBy(sc, ResponsesFromAnthropic(sc, e))
    BY <1>5, <2>2, AnthropicEndHeard
  <2>4. Follower(o, c, ResponsesFromAnthropic(sc, e), d, srd, s)
    BY <1>3, <1>4, <1>6, <1>7, <2>3, FollowerEnds
  <2> QED BY <1>2, <1>3, <2>1, <2>4 DEF ResponsesSeen
<1>8. CASE dialect = "openai"
  <2>1. adapter' = ResponsesFromChat(adapter, e)
    BY <1>1, <1>8 DEF Feed, Adapted
  <2>2. CASE sc.sentDone
    <3>1. ResponsesFromChat(sc, e) = sc
      BY <1>5, <2>2 DEF ResponsesFromChat
    <3>2. Follower(o, c, sc, d, srd, s)
      BY <1>4, <1>6, <2>2 DEF Follower
    <3> QED BY <1>2, <1>3, <2>1, <3>1, <3>2 DEF ResponsesSeen
  <2>3. CASE ~sc.sentDone
    <3>1. CompletedBy(sc, ResponsesFromChat(sc, e)) /\ CallsWithin(ResponsesFromChat(sc, e))
      BY <1>3, <1>5, <1>8, <2>3, EndHeard
    <3>2. Follower(o, c, ResponsesFromChat(sc, e), d, srd, s)
      BY <1>4, <1>6, <3>1, FollowerEnds
    <3> QED BY <1>2, <1>3, <2>1, <3>2 DEF ResponsesSeen
  <2> QED BY <2>2, <2>3
<1> QED BY <1>7, <1>8, RouteFacts DEF ProviderOk

\* An event that passes.
LEMMA HeardFirst ==
    ASSUME NEW o, NEW over, NEW sc, Followed(o, over, sc), sc.buffer # <<>>,
           NEW sd, sd = [sc EXCEPT !.buffer = Tail(@)]
    PROVE  /\ ~over /\ Head(sc.buffer) \in ResponseEvents
           /\ Followed(Observe(o, Head(sc.buffer)), Head(sc.buffer).type = "[DONE]", sd)
<1> HIDE DEF ResponseEvents
<1>1. PICK p : Follows(o, over, sc, p)
  BY DEF Followed
<1>2. PICK events, rest, e : events = sc.buffer /\ rest = Tail(events) /\ e = Head(events)
  OBVIOUS
<1>3. sc \in Responders /\ events \in Seq(ResponseEvents) /\ events # <<>>
      /\ Path(Hears, Upto, Watcher(o, over), events, Watcher(p, sc.sentDone))
  BY <1>1, <1>2 DEF Follows, Responders
<1>4. PICK x : <<Watcher(o, over), e, x>> \in Hears /\ Path(Hears, Upto, x, rest, Watcher(p, sc.sentDone))
  BY ZenonT(40), <1>2, <1>3, PathFirst
<1>5. e \in ResponseEvents /\ rest \in Seq(ResponseEvents)
  BY <1>2, <1>3
<1>6. PICK w : w = Watcher(o, over) /\ w = [seen |-> o, over |-> over]
  BY DEF Watcher
<1>7. ~w.over /\ x = Watcher(Observe(w.seen, e), e.type = "[DONE]")
  BY <1>4, <1>6 DEF Hears
<1>8. ~over /\ x = Watcher(Observe(o, e), e.type = "[DONE]")
  BY <1>6, <1>7
<1>9. sd = [sc EXCEPT !.buffer = rest]
  BY <1>2, <1>3 DEF Responders
<1>10. /\ sd \in Responders /\ sd.buffer = rest /\ sd.text = sc.text /\ sd.usage = sc.usage
       /\ sd.sentDone = sc.sentDone
  BY <1>3, <1>5, <1>9 DEF Responders
<1>11. Follows(Observe(o, e), e.type = "[DONE]", sd, p)
  BY <1>1, <1>4, <1>8, <1>10 DEF Follows
<1> QED BY <1>2, <1>5, <1>8, <1>11 DEF Followed

LEMMA PassSeen ==
    ASSUME ProviderOk, endpoint = "responses", ResponsesSeen, Pass
    PROVE  ResponsesSeen'
<1> HIDE DEF ResponseEvents
<1>1. PICK sc, sd, o, c, s, d, src, e :
        /\ sc = adapter /\ sd = [sc EXCEPT !.buffer = Tail(@)] /\ o = observed /\ c = client
        /\ s = sent /\ d = dialect /\ src = source /\ e = Head(sc.buffer)
  OBVIOUS
<1>2. /\ sc.buffer # <<>> /\ adapter' = sd /\ observed' = Observe(o, e)
      /\ UNCHANGED <<dialect, endpoint, source, sent, stop>> /\ Deliver(e)
  BY <1>1 DEF Pass, provider
<1>3. client' = c \/ client' = ResponsesRead(c, e)
  BY <1>1, <1>2 DEF Deliver, Reads
<1>4. Follower(o, c, sc, d, src, s)
  BY <1>1 DEF ResponsesSeen
<1>5. PICK over \in BOOLEAN : Followed(o, over, sc) /\ (c.ended => over)
  BY <1>4 DEF Follower
<1>6. ~over /\ e \in ResponseEvents /\ Followed(Observe(o, e), e.type = "[DONE]", sd)
  BY <1>1, <1>2, <1>5, HeardFirst
<1>7. c \in Clients /\ ~c.ended
  BY <1>4, <1>5, <1>6 DEF Follower
<1>8. client' \in Clients /\ (client'.ended => e.type = "[DONE]")
  BY <1>3, <1>6, <1>7, ClientReads
<1>9. sc \in Responders
  BY <1>4, FollowerIs
<1>10. sd.text = sc.text /\ sd.sentDone = sc.sentDone /\ sd.usage = sc.usage /\ sd.calls = sc.calls
  BY <1>1, <1>9 DEF Responders
<1>11. PICK after \in BOOLEAN : after = (e.type = "[DONE]")
  OBVIOUS
<1>12. \E ends \in BOOLEAN : Followed(Observe(o, e), ends, sd) /\ (client'.ended => ends)
  BY <1>6, <1>8, <1>11
<1>13. Follower(Observe(o, e), client', sd, d, src, s)
  BY <1>4, <1>8, <1>10, <1>12 DEF Follower, CallsWithin
<1> QED BY <1>1, <1>2, <1>13 DEF ResponsesSeen

LEMMA OtherSeen ==
    ASSUME ResponsesSeen, UNCHANGED <<dialect, source, sent, adapter, client, observed>>
    PROVE  ResponsesSeen'
BY DEF ResponsesSeen

LEMMA ResponsesSteps ==
    ASSUME ProviderOk, Quiet, endpoint = "responses", ResponsesSeen, StreamsNext
    PROVE  ResponsesSeen'
<1>1. CASE Anthropic
  BY <1>1, Sends, AnthropicSeen DEF Anthropic
<1>2. CASE OpenAI
  BY <1>2, Sends, OpenAISeen DEF OpenAI
<1>3. CASE EndOfSource
  BY <1>3, Sends, EndSeen
<1>4. CASE Pass
  BY <1>4, PassSeen
<1>5. CASE Write
  BY <1>5 DEF Write, Quiet
<1>6. CASE ReadFails \/ CloseStream
  BY <1>6, OtherSeen DEF ReadFails, CloseStream, provider
<1> QED BY <1>1, <1>2, <1>3, <1>4, <1>5, <1>6 DEF StreamsNext

LEMMA FollowedSoFar ==
    ASSUME NEW o, NEW over \in BOOLEAN, NEW sc, Followed(o, over, sc)
    PROVE  /\ o \in Seen /\ IsPrefix(o.text, sc.text)
           /\ over => /\ sc.sentDone /\ KeptOf(o, sc.text, <<>>, Len(sc.text))
                      /\ o.completed /\ o.usage = sc.usage
<1> HIDE DEF ResponseEvents
<1>1. PICK p : Follows(o, over, sc, p)
  BY DEF Followed
<1>2. PICK events, w, v : events = sc.buffer /\ w = Watcher(o, over) /\ v = Watcher(p, sc.sentDone)
  OBVIOUS
<1>3. events \in Seq(ResponseEvents) /\ Path(Hears, Upto, w, events, v)
  BY <1>1, <1>2 DEF Follows, Responders
<1>4. /\ p \in Seen /\ sc.text \in Bodies /\ sc.sentDone \in BOOLEAN /\ KeptOf(p, sc.text, <<>>, Len(sc.text))
      /\ p.text \in Bodies
  BY <1>1, FollowsFacts DEF Seen
<1>5. w.seen = o /\ w.over = over /\ v.seen = p /\ v.over = sc.sentDone
  BY <1>2 DEF Watcher
<1>6. <<w, v>> \in Upto
  BY <1>3, PathFirst
<1>7. w \in Watchers /\ IsPrefix(w.seen.text, v.seen.text)
  BY <1>6 DEF Upto
<1>8. o \in Seen /\ o.text \in Bodies
  BY <1>5, <1>7 DEF Watchers, Seen
<1>9. IsPrefix(o.text, sc.text)
  BY <1>4, <1>5, <1>7, <1>8, PrefixTrans DEF KeptOf
<1>10. ASSUME over PROVE o = p /\ sc.sentDone
  <2>1. CASE events = <<>>
    <3>1. w = v
      BY <1>3, <2>1, PathEmpty
    <3> QED BY <1>5, <1>10, <3>1
  <2>2. CASE events # <<>>
    <3>1. PICK x : <<w, Head(events), x>> \in Hears /\ Path(Hears, Upto, x, Tail(events), v)
      BY <1>3, <2>2, PathFirst
    <3>2. ~w.over
      BY <3>1 DEF Hears
    <3> QED BY <1>5, <1>10, <3>2
  <2> QED BY <2>1, <2>2
<1>11. ASSUME over PROVE KeptOf(o, sc.text, <<>>, Len(sc.text)) /\ o.completed /\ o.usage = sc.usage
  BY <1>1, <1>4, <1>10, <1>11 DEF Follows
<1> QED BY <1>8, <1>9, <1>10, <1>11

LEMMA ResponsesObserver ==
    ASSUME ProviderOk, endpoint = "responses", ResponsesSeen
    PROVE  ObserverKept
<1>1. PICK sc, o, c, d, src, text : sc = adapter /\ o = observed /\ c = client /\ d = dialect /\ src = source
                                    /\ text = Answer.text
  OBVIOUS
<1>2. PICK over \in BOOLEAN : Followed(o, over, sc) /\ (c.ended => over)
  BY <1>1 DEF ResponsesSeen, Follower
<1>3. sc.text = text /\ (sc.sentDone <=> EndsAt(d, src)) /\ (Counted(src) => sc.usage = Total)
  BY <1>1 DEF ResponsesSeen, Follower, Answer
<1>4. /\ o \in Seen /\ IsPrefix(o.text, text)
      /\ over => sc.sentDone /\ KeptOf(o, text, <<>>, Len(text)) /\ o.completed /\ o.usage = sc.usage
  BY <1>2, <1>3, FollowedSoFar
<1>5. ASSUME Whole PROVE /\ KeptOf(o, text, <<>>, Len(text)) /\ o.usage = Total /\ o.completed
  <2>1. over /\ src # "cut"
    BY <1>1, <1>2, <1>5 DEF Whole
  <2>2. Counted(src)
    BY <1>3, <1>4, <2>1 DEF EndsAt, Counted
  <2> QED BY <1>3, <1>4, <2>1, <2>2
<1> QED BY <1>1, <1>4, <1>5 DEF ObserverKept

-----------------------------------------------------------------------------
(* The beginning, and the theorem. *)

LEMMA NewResponder ==
    /\ NewResponsesOutputEventState \in Responders /\ NewResponsesOutputEventState.buffer = <<>>
    /\ NewResponsesOutputEventState.calls = <<>> /\ NewResponsesOutputEventState.next = 0
    /\ ~NewResponsesOutputEventState.reserved /\ ~NewResponsesOutputEventState.started
    /\ ~NewResponsesOutputEventState.done /\ NewResponsesOutputEventState.text = <<>>
    /\ NewResponsesOutputEventState.usage = NoUsage /\ ~NewResponsesOutputEventState.sentDone
<1> HIDE DEF ResponseEvents
<1>1. PICK none, o, x : /\ none = <<>> /\ o \in BOOLEAN /\ o = FALSE /\ x = NewResponsesOutputEventState
                        /\ x = [buffer |-> none, calls |-> none, next |-> 0, reserved |-> o, started |-> o,
                                done |-> o, text |-> none, usage |-> NoUsage, sentDone |-> o]
  BY DEF NewResponsesOutputEventState
<1>2. none \in Seq(ResponseEvents) /\ none \in Partial(CallStates) /\ none \in Bodies
  BY <1>1, EmptyPartial DEF Bodies
<1>3. /\ x \in Responders /\ x.buffer = none /\ x.calls = none /\ x.next = 0 /\ x.reserved = o /\ x.started = o
      /\ x.done = o /\ x.text = none /\ x.usage = NoUsage /\ x.sentDone = o
  BY <1>1, <1>2, UsageFacts DEF Responders
<1> QED BY <1>1, <1>3

LEMMA FollowedFirst ==
    Followed(NothingSeen, FALSE, NewResponsesOutputEventState)
<1>1. PICK o, sc, none, over : o = NothingSeen /\ sc = NewResponsesOutputEventState /\ none = <<>>
                               /\ over \in BOOLEAN /\ over = FALSE
  OBVIOUS
<1>2. KeptOf(o, none, none, 0) /\ o.usage = NoUsage /\ ~o.completed
  BY <1>1, NothingKept
<1>3. o \in Seen /\ o.text \in Bodies /\ o.completed \in BOOLEAN
  BY <1>2 DEF KeptOf, Seen
<1>4. sc \in Responders /\ sc.buffer = none /\ sc.text = none /\ sc.sentDone = over
  BY <1>1, NewResponder DEF Responders
<1>5. Watcher(o, over) \in Watchers /\ Watcher(o, over).seen = o
  BY <1>1, <1>3, WatcherIs
<1>6. <<Watcher(o, over), Watcher(o, over)>> \in Upto
  BY <1>3, <1>5, PrefixSelf, UptoIs
<1>7. Path(Hears, Upto, Watcher(o, over), none, Watcher(o, over))
  BY <1>1, <1>6, PathNone
<1>8. Len(none) = 0
  BY <1>1
<1>9. Follows(o, over, sc, o)
  BY <1>1, <1>2, <1>3, <1>4, <1>7, <1>8 DEF Follows
<1> QED BY <1>1, <1>9 DEF Followed

LEMMA ResponsesBegin ==
    ASSUME StreamsInit, endpoint = "responses"
    PROVE  ResponsesSeen
<1>1. PICK sc, none : sc = NewResponsesOutputEventState /\ none = <<>>
  OBVIOUS
<1>2. /\ sc \in Responders /\ sc.calls = none /\ sc.text = none /\ ~sc.sentDone
  BY <1>1, NewResponder
<1>3. Heard(sc, Created(sc), sc.text, sc.usage) /\ Created(sc).calls = sc.calls
  BY <1>2, CreatedPasses, HeardPasses DEF SameButBuffer
<1>4. adapter = sc \/ adapter = Created(sc)
  <2>1. <<dialect, endpoint>> \in Routes
    BY ProviderBegins DEF ProviderOk
  <2> QED BY <1>1, <2>1 DEF StreamsInit, Routes, NewOpenAIResponsesStreamConverter
<1>5. Followed(NothingSeen, FALSE, sc)
  BY <1>1, FollowedFirst
<1>6. Followed(NothingSeen, FALSE, adapter) /\ adapter.text = none /\ ~adapter.sentDone /\ adapter.calls = none
  BY <1>2, <1>3, <1>4, <1>5 DEF Heard
<1>7. /\ client = NothingRead /\ observed = NothingSeen /\ sent = none
      /\ source \in {"fresh", "blocks"} /\ (dialect = "anthropic" => source = "fresh")
  BY <1>1 DEF StreamsInit
<1>8. client \in Clients /\ ~client.ended
  BY <1>7, NothingReadFacts
<1>9. AnswerOf(sent).text = none
  BY <1>1, <1>7, AnswerOfNothing DEF NothingSaid
<1>10. ~EndsAt(dialect, source) /\ ~Counted(source)
  BY <1>7 DEF EndsAt, Counted
<1>11. CallsWithin(adapter)
  BY <1>1, <1>6, EmptyPartial DEF CallsWithin
<1> QED BY <1>6, <1>7, <1>8, <1>9, <1>10, <1>11 DEF ResponsesSeen, Follower

RecordsInv == ChatRoutesInv /\ (endpoint = "responses" => ResponsesSeen)

\* Whatever the route, the stream is recorded once when it is closed, and with
\* the whole answer when the client has got it whole: for every number of
\* blocks and of pieces, wherever it is cut, and for every limit of the log.
THEOREM StreamsAreRecordedOnce == StreamsSpec => []RecordedOnce
<1>1. StreamsInit => RecordsInv
  BY ProviderBegins, OthersBegin, ChatBegins, ResponsesBegin DEF ChatRoutesInv, RecordsInv
<1>2. RecordsInv /\ [StreamsNext]_streamVars => RecordsInv'
  <2> SUFFICES ASSUME RecordsInv, [StreamsNext]_streamVars PROVE RecordsInv'
    OBVIOUS
  <2>1. ChatRoutesInv'
    BY ChatRoutesStep DEF RecordsInv
  <2>2. CASE StreamsNext
    <3>1. endpoint' = endpoint
      BY <2>2, Sends DEF StreamsNext, Pass, Write, ReadFails, CloseStream
    <3> QED BY <2>1, <2>2, <3>1, ResponsesSteps DEF RecordsInv, ChatRoutesInv
  <2>3. CASE UNCHANGED streamVars
    BY <2>1, <2>3, OtherSeen DEF RecordsInv, streamVars, provider
  <2> QED BY <2>1, <2>2, <2>3
<1>3. RecordsInv => RecordedOnce
  <2> SUFFICES ASSUME RecordsInv PROVE RecordedOnce
    OBVIOUS
  <2>1. ProviderOk /\ Logged
    BY DEF RecordsInv, ChatRoutesInv
  <2>2. ObserverKept
    <3>1. CASE endpoint = "responses"
      BY <2>1, <3>1, ResponsesObserver DEF RecordsInv
    <3>2. CASE endpoint # "responses"
      BY <2>1, <3>2, ChatKept, ChatObserver DEF RecordsInv, ChatRoutesInv
    <3> QED BY <3>1, <3>2
  <2> QED BY <2>1, <2>2, RecordsFollow
<1> QED BY <1>1, <1>2, <1>3, PTL DEF StreamsSpec

-----------------------------------------------------------------------------
(* What the items of a response show of an answer: its text, if there is a
   message, and each of its calls, which said lists.                         *)

Base(sc) == IF sc.started THEN 1 ELSE 0

MessageShown(sc, items) ==
  IF sc.started
  THEN /\ sc.reserved /\ Len(items) >= 1
       /\ items[1].item = "message" /\ items[1].id = NoId /\ items[1].announced = <<>>
       /\ items[1].body = sc.text /\ (items[1].done <=> sc.done)
  ELSE sc.text = <<>> /\ ~sc.done

\* The item of a call, the call as it was said and as the converter holds it.
CallShown(i, w, call) ==
  /\ i.item = "function_call" /\ i.id = w.id /\ call.id = w.id /\ call.started
  /\ w.body = ToolCallArguments(call)
  /\ (call.completed <=> i.done)
  /\ IF i.done THEN i.body = w.body
     ELSE /\ w.body \in {i.body, i.announced \o i.body}
          /\ call.placeholder => call.arguments = <<>> /\ i.body = <<>>

CallAt(call, base, items, said) ==
  \E j \in 1..Len(said) : call.index + 1 = base + j /\ CallShown(items[base + j], said[j], call)

CallsShown(calls, base, items, said) ==
  /\ items \in Seq(Items) /\ said \in Seq(CallBodies) /\ Len(items) = base + Len(said)
  /\ \A k \in DOMAIN calls : CallAt(calls[k], base, items, said)
  /\ \A j \in 1..Len(said) : \E k \in DOMAIN calls : calls[k].index + 1 = base + j
  /\ \A k, l \in DOMAIN calls : calls[k].index = calls[l].index => k = l

\* A client that reads on what sc has written sees these items.
Shows(c, sc, begun, items, said) ==
  /\ sc \in Responders /\ ~sc.sentDone /\ At(c, sc.buffer, begun, items, sc.text)
  /\ MessageShown(sc, items)
  /\ CallsShown(sc.calls, Base(sc), items, said)
  /\ sc.reserved /\ ~sc.started => said = <<>>
  /\ ~begun => ~sc.reserved /\ said = <<>>

LEMMA ShowsFacts ==
    ASSUME NEW c, NEW sc, NEW begun, NEW items, NEW said, Shows(c, sc, begun, items, said)
    PROVE  /\ sc \in Responders /\ sc.buffer \in Seq(ResponseEvents) /\ sc.text \in Bodies /\ sc.next \in Nat
           /\ sc.calls \in Partial(CallStates) /\ DOMAIN sc.calls \subseteq Nat
           /\ \A k \in DOMAIN sc.calls : sc.calls[k] \in CallStates
           /\ Base(sc) \in {0, 1} /\ items \in Seq(Items) /\ said \in Seq(CallBodies)
           /\ Len(items) = Base(sc) + Len(said) /\ Len(said) \in Nat
           /\ sc.started \in BOOLEAN /\ sc.reserved \in BOOLEAN /\ sc.done \in BOOLEAN
<1> HIDE DEF ResponseEvents
<1>1. /\ sc \in Responders /\ sc.buffer \in Seq(ResponseEvents) /\ sc.text \in Bodies /\ sc.next \in Nat
      /\ sc.calls \in Partial(CallStates)
      /\ sc.started \in BOOLEAN /\ sc.reserved \in BOOLEAN /\ sc.done \in BOOLEAN
  BY DEF Shows, Responders
<1>2. DOMAIN sc.calls \subseteq Nat /\ \A k \in DOMAIN sc.calls : sc.calls[k] \in CallStates
  BY <1>1, PartialFacts
<1>3. items \in Seq(Items) /\ said \in Seq(CallBodies) /\ Len(items) = Base(sc) + Len(said)
  BY DEF Shows, CallsShown
<1>4. Len(said) \in Nat /\ Base(sc) \in {0, 1}
  BY <1>3 DEF Base
<1> QED BY <1>1, <1>2, <1>3, <1>4

\* No call is said and none is held.
LEMMA NoneSaid ==
    ASSUME NEW calls, NEW base, NEW items, NEW said, CallsShown(calls, base, items, said)
    PROVE  said = <<>> <=> DOMAIN calls = {}
<1>1. said \in Seq(CallBodies)
  BY DEF CallsShown
<1>2. CASE said = <<>>
  <2>1. 1..Len(said) = {}
    BY <1>2
  <2>2. ASSUME NEW k \in DOMAIN calls PROVE FALSE
    <3>1. CallAt(calls[k], base, items, said)
      BY DEF CallsShown
    <3> QED BY <2>1, <3>1 DEF CallAt
  <2> QED BY <1>2, <2>2
<1>3. CASE said # <<>>
  <2>1. 1 \in 1..Len(said)
    BY <1>1, <1>3
  <2> QED BY <1>3, <2>1 DEF CallsShown
<1> QED BY <1>2, <1>3

\* The message, which is before the calls, changes.
LEMMA MessageChanges ==
    ASSUME NEW calls, NEW items, NEW said, CallsShown(calls, 1, items, said),
           NEW body, NEW done, NEW m, ItemIs(items, 1, m, body, done)
    PROVE  CallsShown(calls, 1, m, said)
<1>1. /\ items \in Seq(Items) /\ said \in Seq(CallBodies) /\ Len(items) = 1 + Len(said) /\ Len(said) \in Nat
      /\ m \in Seq(Items) /\ Len(m) = Len(items)
  BY DEF CallsShown, ItemIs
<1>2. \A j \in 1..Len(said) : m[1 + j] = items[1 + j]
  <2>1. SUFFICES ASSUME NEW j \in 1..Len(said) PROVE m[1 + j] = items[1 + j]
    OBVIOUS
  <2>2. 1 + j \in 1..Len(items) /\ 1 + j # 1
    BY <1>1
  <2> QED BY <2>2 DEF ItemIs
<1>3. ASSUME NEW k \in DOMAIN calls PROVE CallAt(calls[k], 1, m, said)
  <2>1. CallAt(calls[k], 1, items, said)
    BY DEF CallsShown
  <2>2. PICK j \in 1..Len(said) : calls[k].index + 1 = 1 + j /\ CallShown(items[1 + j], said[j], calls[k])
    BY <2>1 DEF CallAt
  <2> QED BY <1>2, <2>2 DEF CallAt
<1> QED BY <1>1, <1>3 DEF CallsShown

\* The message comes first when there are no calls.
LEMMA MessageAdded ==
    ASSUME NEW calls, NEW items, CallsShown(calls, 0, items, <<>>), NEW i \in Items, NEW m, m = Append(items, i)
    PROVE  CallsShown(calls, 1, m, <<>>) /\ m[1] = i /\ Len(m) = 1
<1>0. DOMAIN calls = {}
  BY NoneSaid
<1>1. items \in Seq(Items) /\ <<>> \in Seq(CallBodies) /\ Len(items) = 0 /\ DOMAIN calls = {}
  <2>1. Len(items) = 0 + Len(<<>>) /\ Len(<<>>) = 0
    BY DEF CallsShown
  <2> QED BY <1>0, <2>1 DEF CallsShown
<1>2. m \in Seq(Items) /\ Len(m) = 1 /\ m[1] = i
  BY <1>1
<1>3. Len(m) = 1 + Len(<<>>) /\ 1..Len(<<>>) = {}
  BY <1>2
<1> QED BY <1>1, <1>2, <1>3 DEF CallsShown

\* One more call, behind the others.
LEMMA CallAppended ==
    ASSUME NEW calls \in Partial(CallStates), NEW base \in {0, 1}, NEW items, NEW said, CallsShown(calls, base, items, said),
           NEW k \in Nat, k \notin DOMAIN calls, NEW call \in CallStates, NEW more, PutIs(CallStates, calls, k, call, more),
           call.index = base + Len(said),
           NEW i \in Items, NEW m, m = Append(items, i), NEW w \in CallBodies, NEW v, v = Append(said, w),
           CallShown(i, w, call)
    PROVE  CallsShown(more, base, m, v)
<1>1. /\ items \in Seq(Items) /\ said \in Seq(CallBodies) /\ Len(items) = base + Len(said) /\ Len(said) \in Nat
      /\ base \in Nat
  BY DEF CallsShown
<1>2. PICK n \in Nat : n = Len(said)
  BY <1>1
<1>3. m \in Seq(Items) /\ Len(m) = base + n + 1 /\ m[base + n + 1] = i /\ \A x \in 1..(base + n) : m[x] = items[x]
  BY <1>1, <1>2
<1>4. v \in Seq(CallBodies) /\ Len(v) = n + 1 /\ v[n + 1] = w /\ \A x \in 1..n : v[x] = said[x]
  BY <1>1, <1>2
<1>5. DOMAIN more = DOMAIN calls \cup {k} /\ more[k] = call /\ \A l \in DOMAIN calls : more[l] = calls[l]
  BY DEF PutIs
<1>6. ASSUME NEW l \in DOMAIN calls PROVE CallAt(more[l], base, m, v) /\ calls[l].index < base + n /\ calls[l].index \in Nat
  <2>1. CallAt(calls[l], base, items, said)
    BY DEF CallsShown
  <2>2. PICK j \in 1..n : calls[l].index + 1 = base + j /\ CallShown(items[base + j], said[j], calls[l])
    BY <1>2, <2>1 DEF CallAt
  <2>3. base + j \in 1..(base + n) /\ j \in 1..(n + 1)
    BY <1>1, <2>2
  <2>4. more[l].index + 1 = base + j /\ CallShown(m[base + j], v[j], more[l])
    BY <1>3, <1>4, <1>5, <2>2, <2>3
  <2>5. CallAt(more[l], base, m, v)
    BY <1>4, <2>3, <2>4 DEF CallAt
  <2>6. calls[l] \in CallStates
    BY PartialFacts
  <2>7. calls[l].index \in Nat
    BY <2>6 DEF CallStates
  <2> QED BY <1>1, <2>2, <2>5, <2>7
<1>7. CallAt(more[k], base, m, v)
  <2>1. n + 1 \in 1..Len(v) /\ call.index + 1 = base + (n + 1) /\ base + (n + 1) = base + n + 1
    BY <1>1, <1>2, <1>4 DEF CallStates
  <2>2. CallShown(m[base + (n + 1)], v[n + 1], call)
    BY <1>3, <1>4, <2>1
  <2> QED BY <1>5, <2>1, <2>2 DEF CallAt
<1>8. ASSUME NEW j \in 1..Len(v) PROVE \E l \in DOMAIN more : more[l].index + 1 = base + j
  <2>1. CASE j \in 1..n
    <3>1. PICK l \in DOMAIN calls : calls[l].index + 1 = base + j
      BY <1>2, <2>1 DEF CallsShown
    <3> QED BY <1>5, <3>1
  <2>2. CASE j = n + 1
    <3>1. call.index + 1 = base + j
      BY <1>1, <1>2, <2>2
    <3> QED BY <1>5, <3>1
  <2> QED BY <1>2, <1>4, <2>1, <2>2
<1>9. ASSUME NEW x \in DOMAIN more, NEW y \in DOMAIN more, more[x].index = more[y].index PROVE x = y
  <2>1. CASE x \in DOMAIN calls /\ y \in DOMAIN calls
    BY <1>5, <1>9, <2>1 DEF CallsShown
  <2>2. \A l \in DOMAIN calls : more[l].index # call.index
    <3>1. SUFFICES ASSUME NEW l \in DOMAIN calls PROVE more[l].index # call.index
      OBVIOUS
    <3>2. calls[l].index < base + n /\ calls[l].index \in Nat
      BY <1>6
    <3> QED BY <1>1, <1>2, <1>5, <3>2
  <2> QED BY <1>5, <1>9, <2>1, <2>2
<1>10. Len(m) = base + Len(v)
  BY <1>1, <1>3, <1>4
<1>11. \A l \in DOMAIN more : CallAt(more[l], base, m, v)
  BY <1>5, <1>6, <1>7
<1> QED BY <1>3, <1>4, <1>8, <1>9, <1>10, <1>11 DEF CallsShown

\* The item of one call changes, and what is said of it.
LEMMA CallTurned ==
    ASSUME NEW calls \in Partial(CallStates), NEW base \in {0, 1}, NEW items, NEW said, CallsShown(calls, base, items, said),
           NEW k \in DOMAIN calls, NEW call \in CallStates, call.index = calls[k].index,
           NEW more, PutIs(CallStates, calls, k, call, more),
           NEW j \in 1..Len(said), NEW n, n = base + j, call.index + 1 = n,
           NEW body, NEW done, NEW m, ItemIs(items, n, m, body, done),
           NEW v \in Seq(CallBodies), Len(v) = Len(said), \A x \in 1..Len(said) : x # j => v[x] = said[x],
           CallShown(m[n], v[j], call)
    PROVE  CallsShown(more, base, m, v)
<1>1. /\ items \in Seq(Items) /\ said \in Seq(CallBodies) /\ Len(items) = base + Len(said) /\ Len(said) \in Nat
      /\ base \in Nat /\ m \in Seq(Items) /\ Len(m) = Len(items)
  BY DEF CallsShown, ItemIs
<1>2. \A x \in 1..Len(items) : x # n => m[x] = items[x]
  BY DEF ItemIs
<1>3. DOMAIN more = DOMAIN calls /\ more[k] = call /\ \A l \in DOMAIN calls : l # k => more[l] = calls[l]
  BY DEF PutIs
<1>4. ASSUME NEW l \in DOMAIN more PROVE CallAt(more[l], base, m, v)
  <2>1. CASE l = k
    BY <1>1, <1>3, <2>1 DEF CallAt
  <2>2. CASE l # k
    <3>1. CallAt(calls[l], base, items, said)
      BY <1>3 DEF CallsShown
    <3>2. PICK x \in 1..Len(said) : calls[l].index + 1 = base + x /\ CallShown(items[base + x], said[x], calls[l])
      BY <3>1 DEF CallAt
    <3>3. calls[l] \in CallStates /\ calls[k] \in CallStates
      BY <1>3, PartialFacts
    <3>4. calls[l].index \in Nat /\ calls[k].index \in Nat
      BY <3>3 DEF CallStates
    <3>5. calls[l].index # calls[k].index
      BY <1>3, <2>2 DEF CallsShown
    <3>6. base + x # n /\ x # j /\ base + x \in 1..Len(items)
      BY <1>1, <3>2, <3>4, <3>5
    <3>7. more[l].index + 1 = base + x /\ CallShown(m[base + x], v[x], more[l])
      BY <1>2, <1>3, <2>2, <3>2, <3>6
    <3> QED BY <3>7 DEF CallAt
  <2> QED BY <2>1, <2>2
<1>5. \A l \in DOMAIN calls : more[l].index = calls[l].index
  BY <1>3
<1>6. \A x \in 1..Len(v) : \E l \in DOMAIN more : more[l].index + 1 = base + x
  BY <1>3, <1>5 DEF CallsShown
<1>7. \A x, y \in DOMAIN more : more[x].index = more[y].index => x = y
  BY <1>3, <1>5 DEF CallsShown
<1> QED BY <1>1, <1>4, <1>6, <1>7 DEF CallsShown

\* The message begins.
LEMMA StartShows ==
    ASSUME NEW c, NEW sc, NEW items, Shows(c, sc, TRUE, items, <<>>), sc.reserved
    PROVE  \E m : Shows(c, StartAssistantOutput(sc), TRUE, m, <<>>)
<1> HIDE DEF ResponseEvents
<1>0. /\ sc \in Responders /\ sc.buffer \in Seq(ResponseEvents) /\ sc.text \in Bodies
      /\ items \in Seq(Items) /\ ~sc.sentDone /\ sc.reserved \in BOOLEAN /\ sc.done \in BOOLEAN
  BY ShowsFacts DEF Shows
<1>1. CASE sc.started
  BY <1>1 DEF StartAssistantOutput
<1>2. CASE ~sc.started
  <2>1. PICK s1 : s1 = [sc EXCEPT !.started = TRUE]
    OBVIOUS
  <2>2. MessageIs(sc, s1, sc.reserved, TRUE, sc.done)
    BY <1>0, <2>1, MessageTurns
  <2>3. /\ s1 \in Responders /\ s1.buffer = sc.buffer /\ s1.calls = sc.calls /\ s1.reserved /\ s1.started
        /\ ~s1.done /\ s1.text = sc.text /\ ~s1.sentDone /\ sc.text = <<>>
    BY <1>0, <1>2, <2>2 DEF MessageIs, Shows, MessageShown
  <2>4. PICK e : e = Item("item.added", "message", 0, NoId, <<>>)
    OBVIOUS
  <2>5. 0 \in Nat /\ NoId \in Nat /\ <<>> \in Bodies
    BY DEF NoId, Bodies
  <2>6. e \in ResponseEvents
    BY <2>4, <2>5, ItemMade DEF Unheard
  <2>7. PICK sd : sd = emit(s1, e)
    OBVIOUS
  <2>8. SameButBuffer(s1, sd) /\ sd.buffer = Append(sc.buffer, e)
    BY <2>3, <2>6, <2>7, EmitIs
  <2>9. StartAssistantOutput(sc) = sd
    BY <1>2, <2>1, <2>4, <2>7 DEF StartAssistantOutput
  <2>10. PICK i : i = AddedItem("message", NoId, <<>>)
    OBVIOUS
  <2>11. /\ i \in Items /\ i.item = "message" /\ i.id = NoId /\ i.announced = <<>> /\ i.body = <<>> /\ ~i.done
    BY <2>5, <2>10, NewItem DEF AddedItem
  <2>12. PICK m : m = Append(items, i)
    OBVIOUS
  <2>13. CallsShown(sc.calls, 0, items, <<>>)
    BY <1>2 DEF Shows, Base
  <2>14. CallsShown(sc.calls, 1, m, <<>>) /\ m[1] = i /\ Len(m) = 1 /\ Len(items) = 0
    <3>1. Len(items) = 0 + Len(<<>>)
      BY <2>13 DEF CallsShown
    <3>2. Len(<<>>) = 0
      OBVIOUS
    <3>3. Len(items) = 0
      BY <3>1, <3>2
    <3>4. CallsShown(sc.calls, 1, m, <<>>) /\ m[1] = i /\ Len(m) = 1
      <4>1. i \in Items
        BY <2>11
      <4>2. PICK calls : calls = sc.calls
        OBVIOUS
      <4>3. CallsShown(calls, 0, items, <<>>)
        BY <2>13, <4>2
      <4>4. CallsShown(calls, 1, m, <<>>)
        BY <4>1, <2>12, <4>3, MessageAdded
      <4>5. m[1] = i
        BY <4>1, <2>12, <4>3, MessageAdded
      <4>6. Len(m) = 1
        BY <4>1, <2>12, <4>3, MessageAdded
      <4> QED BY <4>2, <4>4, <4>5, <4>6
    <3> QED BY <3>3, <3>4
  <2>15. At(c, sc.buffer, TRUE, items, sc.text)
    BY DEF Shows
  <2>16. At(c, Append(sc.buffer, e), TRUE, m, sc.text)
    BY <1>0, <2>4, <2>5, <2>10, <2>12, <2>14, <2>15, AtAdds
  <2>17. /\ sd \in Responders /\ sd.calls = sc.calls /\ sd.reserved /\ sd.started /\ ~sd.done /\ sd.text = sc.text
         /\ ~sd.sentDone
    BY <2>3, <2>8 DEF SameButBuffer
  <2>18. MessageShown(sd, m)
    BY <2>3, <2>11, <2>14, <2>17 DEF MessageShown
  <2>19. Shows(c, sd, TRUE, m, <<>>)
    BY <2>8, <2>14, <2>16, <2>17, <2>18 DEF Shows, Base
  <2> QED BY <2>9, <2>19
<1> QED BY <1>1, <1>2

\* A piece of the text.
LEMMA TextShows ==
    ASSUME NEW c, NEW sc, NEW items, Shows(c, sc, TRUE, items, <<>>), sc.reserved, ~sc.done,
           NEW piece \in Bodies
    PROVE  /\ \E m : Shows(c, AssistantText(sc, piece), TRUE, m, <<>>)
           /\ AssistantText(sc, piece).started /\ ~AssistantText(sc, piece).done
<1> HIDE DEF ResponseEvents
<1>0. sc \in Responders /\ ~sc.sentDone /\ sc.done \in BOOLEAN
  BY ShowsFacts DEF Shows
<1>1. PICK s1 : s1 = StartAssistantOutput(sc)
  OBVIOUS
<1>2. PICK v : Shows(c, s1, TRUE, v, <<>>)
  BY <1>1, StartShows
<1>3. s1.started /\ ~s1.done
  BY <1>0, <1>1, StartPasses
<1>4. /\ s1 \in Responders /\ s1.buffer \in Seq(ResponseEvents) /\ s1.text \in Bodies /\ v \in Seq(Items) /\ Len(v) = 1
      /\ ~s1.sentDone
  <2>1. /\ s1 \in Responders /\ s1.buffer \in Seq(ResponseEvents) /\ s1.text \in Bodies
    BY <1>2 DEF Shows, Responders
  <2>5. v \in Seq(Items) /\ Len(v) = Base(s1) + Len(<<>>)
    BY <1>2 DEF Shows, CallsShown
  <2>2. Base(s1) = 1
    BY <1>3 DEF Base
  <2>3. Len(<<>>) = 0
    OBVIOUS
  <2>4. ~s1.sentDone
    BY <1>2 DEF Shows
  <2> QED BY <2>1, <2>2, <2>3, <2>4, <2>5
<1>5. /\ s1.reserved /\ v[1].item = "message" /\ v[1].id = NoId /\ v[1].announced = <<>> /\ v[1].body = s1.text
      /\ ~v[1].done
  BY <1>2, <1>3 DEF Shows, MessageShown
<1>6. PICK s2 : s2 = [s1 EXCEPT !.text = @ \o piece]
  OBVIOUS
<1>7. TextMore(s1, piece, s2)
  BY <1>4, <1>6, TextTurns
<1>8. PICK e : e = [type |-> "text.delta", piece |-> piece]
  OBVIOUS
<1>9. e \in ResponseEvents
  BY <1>8, OthersMade
<1>10. PICK sd : sd = emit(s2, e)
  OBVIOUS
<1>11. SameButBuffer(s2, sd) /\ sd.buffer = Append(s1.buffer, e)
  BY <1>7, <1>9, <1>10, EmitIs DEF TextMore
<1>12. AssistantText(sc, piece) = sd
  BY <1>1, <1>6, <1>8, <1>10 DEF AssistantText
<1>13. At(c, s1.buffer, TRUE, v, s1.text)
  BY <1>2 DEF Shows
<1>14. PICK m : ItemIs(v, 1, m, v[1].body \o piece, FALSE) /\ At(c, Append(s1.buffer, e), TRUE, m, s1.text \o piece)
  <2>1. 1 \in 1..Len(v)
    BY <1>4
  <2> QED BY <1>4, <1>5, <1>8, <1>13, <2>1, AtText
<1>15. /\ sd \in Responders /\ sd.calls = s1.calls /\ sd.reserved /\ sd.started /\ ~sd.done /\ sd.text = s1.text \o piece
       /\ ~sd.sentDone
  BY <1>3, <1>4, <1>5, <1>7, <1>11 DEF TextMore, SameButBuffer
<1>16. MessageShown(sd, m)
  <2>1. /\ Len(m) = 1 /\ m[1].item = "message" /\ m[1].id = NoId /\ m[1].announced = <<>> /\ m[1].body = s1.text \o piece
        /\ ~m[1].done
    BY <1>4, <1>5, <1>14 DEF ItemIs
  <2> QED BY <1>15, <2>1 DEF MessageShown
<1>17. CallsShown(sd.calls, 1, m, <<>>)
  <2>1. CallsShown(s1.calls, 1, v, <<>>)
    BY <1>2, <1>3 DEF Shows, Base
  <2> QED BY <1>14, <1>15, <2>1, MessageChanges
<1>18. Shows(c, sd, TRUE, m, <<>>)
  BY <1>11, <1>14, <1>15, <1>16, <1>17 DEF Shows, Base
<1> QED BY <1>12, <1>15, <1>18

\* The message ends, after its beginning.
LEMMA MessageEnds ==
    ASSUME NEW c, NEW sc, NEW items, NEW said, Shows(c, sc, TRUE, items, said), sc.started, ~sc.done,
           NEW sf, MessageIs(sc, sf, TRUE, TRUE, TRUE),
           NEW sd, sd = emit(sf, Item("item.done", "message", 0, NoId, sc.text))
    PROVE  \E m : Shows(c, sd, TRUE, m, said)
<1> HIDE DEF ResponseEvents
<1>1. /\ sc \in Responders /\ sc.buffer \in Seq(ResponseEvents) /\ sc.text \in Bodies /\ items \in Seq(Items)
      /\ ~sc.sentDone /\ Base(sc) = 1
  BY ShowsFacts DEF Shows, Base
<1>2. /\ sc.reserved /\ Len(items) >= 1 /\ items[1].item = "message" /\ items[1].id = NoId
      /\ items[1].announced = <<>> /\ items[1].body = sc.text /\ ~items[1].done
  BY DEF Shows, MessageShown
<1>3. PICK e : e = Item("item.done", "message", 0, NoId, sc.text)
  OBVIOUS
<1>4. 0 \in Nat /\ NoId \in Nat
  BY DEF NoId
<1>5. e \in ResponseEvents
  BY <1>1, <1>3, <1>4, ItemMade DEF Unheard
<1>6. sf \in Responders /\ sf.buffer = sc.buffer
  BY DEF MessageIs
<1>7. SameButBuffer(sf, sd) /\ sd.buffer = Append(sc.buffer, e)
  BY <1>3, <1>5, <1>6, EmitIs
<1>8. At(c, sc.buffer, TRUE, items, sc.text)
  BY DEF Shows
<1>9. PICK m : ItemIs(items, 1, m, sc.text, TRUE) /\ At(c, Append(sc.buffer, e), TRUE, m, sc.text)
  <2>1. 1 = 0 + 1 /\ 1 \in 1..Len(items) /\ sc.text \in {items[1].body, items[1].announced \o items[1].body}
    BY <1>1, <1>2
  <2> QED BY <1>1, <1>2, <1>3, <1>4, <1>8, <2>1, AtEnds
<1>10. /\ sd \in Responders /\ sd.calls = sc.calls /\ sd.reserved /\ sd.started /\ sd.done /\ sd.text = sc.text
       /\ ~sd.sentDone
  BY <1>1, <1>7 DEF MessageIs, SameButBuffer
<1>11. MessageShown(sd, m)
  <2>1. /\ Len(m) >= 1 /\ m[1].item = "message" /\ m[1].id = NoId /\ m[1].announced = <<>> /\ m[1].body = sc.text
        /\ m[1].done
    BY <1>1, <1>2, <1>9 DEF ItemIs
  <2> QED BY <1>10, <2>1 DEF MessageShown
<1>12. CallsShown(sd.calls, 1, m, said)
  <2>1. CallsShown(sc.calls, 1, items, said)
    BY <1>1 DEF Shows
  <2> QED BY <1>9, <1>10, <2>1, MessageChanges
<1> QED BY <1>7, <1>9, <1>10, <1>11, <1>12 DEF Shows, Base

\* The message is brought to its end if there is to be one.
LEMMA CompleteShows ==
    ASSUME NEW c, NEW sc, NEW begun, NEW items, NEW said, Shows(c, sc, begun, items, said)
    PROVE  /\ \E m : Shows(c, CompleteAssistantOutput(sc), begun, m, said)
           /\ CompleteAssistantOutput(sc).reserved => CompleteAssistantOutput(sc).started /\ CompleteAssistantOutput(sc).done
<1>0. /\ sc \in Responders /\ ~sc.sentDone /\ sc.reserved \in BOOLEAN /\ sc.done \in BOOLEAN /\ sc.started \in BOOLEAN
  BY ShowsFacts DEF Shows
<1>1. CASE ~sc.reserved \/ sc.done
  <2>1. sc.done => sc.started
    BY DEF Shows, MessageShown
  <2> QED BY <1>0, <1>1, <2>1 DEF CompleteAssistantOutput
<1>2. CASE sc.reserved /\ ~sc.done
  <2>1. PICK s1 : s1 = [sc EXCEPT !.done = TRUE]
    OBVIOUS
  <2>2. PICK s2 : s2 = StartAssistantOutput(s1)
    OBVIOUS
  <2>3. PICK sd : sd = emit(s2, Item("item.done", "message", 0, NoId, sc.text))
    OBVIOUS
  <2>4. CompleteAssistantOutput(sc) = sd
    BY <1>2, <2>1, <2>2, <2>3 DEF CompleteAssistantOutput
  <2>5. Shows(c, sc, TRUE, items, said)
    BY <1>2 DEF Shows
  <2>6. PICK s3, v : /\ Shows(c, s3, TRUE, v, said) /\ s3.started /\ ~s3.done /\ s3.text = sc.text
                     /\ MessageIs(s3, s2, TRUE, TRUE, TRUE)
    <3>1. MessageIs(sc, s1, sc.reserved, sc.started, TRUE) /\ s1.next = sc.next
      BY <1>0, <2>1, MessageTurns
    <3>2. CASE sc.started
      <4>1. s2 = s1
        BY <2>2, <3>1, <3>2 DEF StartAssistantOutput, MessageIs
      <4>2. MessageIs(sc, s2, TRUE, TRUE, TRUE)
        BY <1>2, <3>1, <3>2, <4>1 DEF MessageIs
      <4> QED BY <1>2, <2>5, <3>2, <4>2
    <3>3. CASE ~sc.started
      <4>1. said = <<>>
        BY <1>2, <3>3 DEF Shows
      <4>2. PICK s4, s5 : s4 = [sc EXCEPT !.started = TRUE] /\ s5 = [s1 EXCEPT !.started = TRUE]
        OBVIOUS
      <4>3. PICK e : e = Item("item.added", "message", 0, NoId, <<>>)
        OBVIOUS
      <4>4. e \in ResponseEvents
        <5>1. 0 \in Nat /\ NoId \in Nat /\ <<>> \in Bodies
          BY DEF NoId, Bodies
        <5> QED BY <4>3, <5>1, ItemMade DEF Unheard
      <4>5. PICK s3 : s3 = emit(s4, e)
        OBVIOUS
      <4>6. s3 = StartAssistantOutput(sc)
        BY <3>3, <4>2, <4>3, <4>5 DEF StartAssistantOutput
      <4>7. s2 = emit(s5, e)
        <5>1. ~s1.started
          BY <3>1, <3>3 DEF MessageIs
        <5> QED BY <2>2, <4>2, <4>3, <5>1 DEF StartAssistantOutput
      <4>8. MessageIs(sc, s4, sc.reserved, TRUE, sc.done)
        BY <1>0, <4>2, MessageTurns
      <4>9. s1 \in Responders
        BY <3>1 DEF MessageIs
      <4>10. MessageIs(s1, s5, s1.reserved, TRUE, s1.done)
        BY <4>2, <4>9, MessageTurns
      <4>11. s4 \in Responders /\ s5 \in Responders
        BY <4>8, <4>10 DEF MessageIs
      <4>12. SameButBuffer(s4, s3) /\ s3.buffer = Append(s4.buffer, e) /\ SameButBuffer(s5, s2) /\ s2.buffer = Append(s5.buffer, e)
        BY <4>4, <4>5, <4>7, <4>11, EmitIs
      <4>13. MessageIs(s3, s2, TRUE, TRUE, TRUE)
        BY <1>2, <3>1, <4>8, <4>10, <4>12 DEF MessageIs, SameButBuffer
      <4>14. s3.started /\ ~s3.done /\ s3.text = sc.text
        BY <1>2, <4>8, <4>12 DEF MessageIs, SameButBuffer
      <4>15. \E v : Shows(c, s3, TRUE, v, said)
        BY <1>2, <2>5, <4>1, <4>6, StartShows
      <4> QED BY <4>13, <4>14, <4>15
    <3> QED BY <3>2, <3>3
  <2>7. \E m : Shows(c, sd, TRUE, m, said)
    BY <2>3, <2>6, MessageEnds
  <2>8. begun = TRUE \/ ~begun
    OBVIOUS
  <2>9. \E m : Shows(c, sd, begun, m, said)
    <3>1. PICK m : Shows(c, sd, TRUE, m, said)
      BY <2>7
    <3>2. begun
      BY <1>2 DEF Shows
    <3>3. At(c, sd.buffer, begun, m, sd.text)
      BY <3>1, <3>2 DEF Shows, At
    <3> QED BY <3>1, <3>2, <3>3 DEF Shows
  <2>10. sd.started /\ sd.done
    <3>1. PICK e : e = Item("item.done", "message", 0, NoId, sc.text)
      OBVIOUS
    <3>2. 0 \in Nat /\ NoId \in Nat /\ sc.text \in Bodies
      BY <1>0 DEF NoId, Responders
    <3>3. e \in ResponseEvents
      BY <3>1, <3>2, ItemMade DEF Unheard
    <3>4. s2 \in Responders /\ s2.started /\ s2.done
      BY <2>6 DEF MessageIs
    <3>5. SameButBuffer(s2, sd)
      BY <2>3, <3>1, <3>3, <3>4, EmitIs
    <3> QED BY <3>4, <3>5 DEF SameButBuffer
  <2> QED BY <2>4, <2>9, <2>10
<1> QED BY <1>1, <1>2

\* The text ends where a call begins.
LEMMA EndTextShows ==
    ASSUME NEW c, NEW sc, NEW begun, NEW items, NEW said, Shows(c, sc, begun, items, said), sc.reserved => sc.started
    PROVE  /\ \E m : Shows(c, EndAssistantText(sc), begun, m, said)
           /\ (EndAssistantText(sc).started <=> sc.started) /\ (EndAssistantText(sc).reserved <=> sc.reserved)
<1>0. /\ sc \in Responders /\ ~sc.sentDone /\ sc.reserved \in BOOLEAN /\ sc.started \in BOOLEAN
      /\ (sc.started => sc.reserved)
  BY ShowsFacts DEF Shows, MessageShown
<1>1. CASE ~sc.started
  BY <1>1 DEF EndAssistantText
<1>2. CASE sc.started
  <2>1. EndAssistantText(sc) = CompleteAssistantOutput(sc)
    BY <1>2 DEF EndAssistantText
  <2>2. CompleteAssistantOutput(sc).reserved = sc.reserved
    BY <1>0, CompletePasses
  <2>3. CompleteAssistantOutput(sc).reserved => CompleteAssistantOutput(sc).started
    BY CompleteShows
  <2>4. \E m : Shows(c, CompleteAssistantOutput(sc), begun, m, said)
    BY CompleteShows
  <2>5. CompleteAssistantOutput(sc).started
    BY <1>0, <1>2, <2>2, <2>3
  <2> QED BY <1>2, <2>1, <2>2, <2>4, <2>5
<1> QED BY <1>1, <1>2

\* The message as sc has it is as sd has it.
SameMessage(sc, sd) ==
  (sd.reserved <=> sc.reserved) /\ (sd.started <=> sc.started) /\ (sd.done <=> sc.done) /\ sd.text = sc.text

LEMMA SameMessageShown ==
    ASSUME NEW sc, NEW sd, SameMessage(sc, sd), NEW items, MessageShown(sc, items)
    PROVE  MessageShown(sd, items) /\ Base(sd) = Base(sc)
<1>1. Base(sd) = Base(sc)
  BY DEF SameMessage, Base
<1>2. MessageShown(sd, items)
  BY DEF SameMessage, MessageShown
<1> QED BY <1>1, <1>2

\* The items behind the message do not touch it.
LEMMA MessageStays ==
    ASSUME NEW sc, NEW items, MessageShown(sc, items), NEW m, Len(m) >= Len(items), Len(items) \in Nat, Len(m) \in Nat,
           sc.started => m[1] = items[1]
    PROVE  MessageShown(sc, m)
BY DEF MessageShown

\* A new call, announced at once.
MayAdd(sc, said, k, call, sf, w) ==
  /\ k \in Nat /\ k \notin DOMAIN sc.calls /\ call \in CallStates /\ CallPut(sc, k, call, sf)
  /\ call.index = Base(sc) + Len(said) /\ call.id # NoId /\ ~call.started /\ ~call.completed
  /\ (call.placeholder => call.arguments = <<>>)
  /\ w \in CallBodies /\ w.id = call.id /\ w.body = ToolCallArguments(call)

AddsCall(c, sc, sf, sd, k, call, v) ==
  /\ \E m : Shows(c, sd, TRUE, m, v) /\ m[call.index + 1].body = <<>>
  /\ SameMessage(sc, sd) /\ sd.next = sf.next
  /\ \E put \in CallStates : /\ PutIs(CallStates, sc.calls, k, put, sd.calls)
                             /\ put = [call EXCEPT !.started = TRUE]

LEMMA NewCallShows ==
    ASSUME NEW c, NEW sc, NEW items, NEW said, Shows(c, sc, TRUE, items, said), sc.reserved => sc.started,
           NEW k, NEW call, NEW sf, NEW w, MayAdd(sc, said, k, call, sf, w),
           NEW v, v = Append(said, w), NEW sd, sd = StartToolCall(sf, k)
    PROVE  AddsCall(c, sc, sf, sd, k, call, v)
<1>0. /\ k \in Nat /\ k \notin DOMAIN sc.calls /\ call \in CallStates /\ CallPut(sc, k, call, sf)
      /\ call.index = Base(sc) + Len(said) /\ call.id # NoId /\ ~call.started /\ ~call.completed
      /\ (call.placeholder => call.arguments = <<>>)
      /\ w \in CallBodies /\ w.id = call.id /\ w.body = ToolCallArguments(call)
  BY DEF MayAdd
<1> HIDE DEF ResponseEvents
<1>1. /\ sc \in Responders /\ sc.buffer \in Seq(ResponseEvents) /\ sc.text \in Bodies /\ ~sc.sentDone
      /\ sc.calls \in Partial(CallStates)
  BY DEF Shows, Responders
<1>2. /\ items \in Seq(Items) /\ said \in Seq(CallBodies) /\ Len(items) = Base(sc) + Len(said) /\ Base(sc) \in {0, 1}
      /\ CallsShown(sc.calls, Base(sc), items, said) /\ Len(said) \in Nat
  BY DEF Shows, CallsShown, Base
<1>3. /\ sf \in Responders /\ SameMessage(sc, sf) /\ sf.buffer = sc.buffer /\ ~sf.sentDone
      /\ PutIs(CallStates, sc.calls, k, call, sf.calls)
  BY <1>0, <1>1 DEF CallPut, SameRestOf, SameMessage
<1>4. k \in DOMAIN sf.calls /\ sf.calls[k] = call
  BY <1>3 DEF PutIs
<1>5. PICK put : put = [call EXCEPT !.started = TRUE]
  OBVIOUS
<1>6. /\ put \in CallStates /\ put.index = call.index /\ put.id = call.id /\ put.arguments = call.arguments
      /\ (put.placeholder <=> call.placeholder) /\ put.started /\ ~put.completed
  BY <1>0, <1>5 DEF CallStates
<1>7. ToolCallArguments(put) = ToolCallArguments(call)
  BY <1>6 DEF ToolCallArguments
<1>8. Announced(sf, k, put, sd)
  BY <1>0, <1>3, <1>4, <1>5, StartToolCallIs
<1>9. PICK sg : /\ CallPut(sf, k, put, sg) /\ sg.next = sf.next
                /\ sd = emit(sg, Item("item.added", "function_call", put.index, put.id, ToolCallArguments(put)))
  BY <1>8 DEF Announced
<1>10. /\ sg \in Responders /\ SameMessage(sc, sg) /\ sg.buffer = sc.buffer /\ ~sg.sentDone
       /\ PutIs(CallStates, sf.calls, k, put, sg.calls)
  BY <1>3, <1>9 DEF CallPut, SameRestOf, SameMessage
<1>11. PutIs(CallStates, sc.calls, k, put, sg.calls)
  BY <1>3, <1>10 DEF PutIs
<1>12. PICK e : e = Item("item.added", "function_call", put.index, put.id, w.body)
  OBVIOUS
<1>13. put.index \in Nat /\ put.id \in Nat /\ w.body \in Bodies
  BY <1>0, <1>6 DEF CallStates, CallBodies
<1>14. e \in ResponseEvents
  BY <1>12, <1>13, ItemMade DEF Unheard
<1>15. sd = emit(sg, e)
  BY <1>0, <1>7, <1>9, <1>12
<1>16. SameButBuffer(sg, sd) /\ sd.buffer = Append(sc.buffer, e)
  BY <1>10, <1>14, <1>15, EmitIs
<1>17. /\ sd \in Responders /\ SameMessage(sc, sd) /\ ~sd.sentDone /\ sd.next = sf.next
       /\ PutIs(CallStates, sc.calls, k, put, sd.calls) /\ sd.calls = sg.calls
  BY <1>9, <1>10, <1>11, <1>16 DEF SameButBuffer, SameMessage
<1>18. PICK i : i = AddedItem("function_call", put.id, w.body)
  OBVIOUS
<1>19. /\ i \in Items /\ i.item = "function_call" /\ i.id = put.id /\ i.announced = w.body /\ i.body = <<>> /\ ~i.done
  BY <1>13, <1>18, NewItem DEF AddedItem
<1>20. PICK m : m = Append(items, i)
  OBVIOUS
<1>21. /\ m \in Seq(Items) /\ Len(m) = Len(items) + 1 /\ m[Len(items) + 1] = i /\ Len(items) \in Nat
       /\ \A x \in 1..Len(items) : m[x] = items[x]
  BY <1>2, <1>19, <1>20, AppendIs
<1>22. At(c, sd.buffer, TRUE, m, sc.text)
  <2>1. At(c, sc.buffer, TRUE, items, sc.text)
    BY DEF Shows
  <2>2. put.index = Len(items)
    BY <1>0, <1>2, <1>6
  <2>3. At(c, Append(sc.buffer, e), TRUE, m, sc.text)
    BY <1>1, <1>12, <1>13, <1>18, <1>20, <2>1, <2>2, AtAdds
  <2> QED BY <1>16, <2>3
<1>23. MessageShown(sd, m) /\ Base(sd) = Base(sc)
  <2>1. MessageShown(sc, items)
    BY DEF Shows
  <2>2. sc.started => m[1] = items[1]
    BY <1>21, <2>1 DEF MessageShown
  <2>3. MessageShown(sc, m)
    BY <1>21, <2>1, <2>2, MessageStays
  <2> QED BY <1>17, <2>3, SameMessageShown
<1>25. CallsShown(sd.calls, Base(sd), m, v)
  <2>1. CallShown(i, w, put)
    <3>1. w.body \in {i.body, i.announced \o i.body}
      BY <1>13, <1>19, CatEmpty
    <3>2. put.placeholder => put.arguments = <<>> /\ i.body = <<>>
      BY <1>0, <1>6, <1>19
    <3> QED BY <1>0, <1>6, <1>7, <1>19, <3>1, <3>2 DEF CallShown
  <2>2. PICK calls, base : calls = sc.calls /\ base = Base(sc)
    OBVIOUS
  <2>3. PICK more : more = sd.calls
    OBVIOUS
  <2>4. /\ calls \in Partial(CallStates) /\ base \in {0, 1} /\ CallsShown(calls, base, items, said) /\ k \notin DOMAIN calls
        /\ PutIs(CallStates, calls, k, put, more) /\ put.index = base + Len(said)
    BY <1>0, <1>1, <1>2, <1>6, <1>17, <2>2, <2>3
  <2>5. put \in CallStates /\ i \in Items
    BY <1>6, <1>19
  <2>6. CallsShown(more, base, m, v)
    BY <1>0, <1>20, <2>1, <2>4, <2>5, CallAppended
  <2> QED BY <1>23, <2>2, <2>3, <2>6
<1>26. Shows(c, sd, TRUE, m, v)
  <2>1. sd.reserved /\ ~sd.started => FALSE
    BY <1>17 DEF SameMessage
  <2>2. sd.text = sc.text
    BY <1>17 DEF SameMessage
  <2> QED BY <1>17, <1>22, <1>23, <1>25, <2>1, <2>2 DEF Shows
<1>27. m[call.index + 1].body = <<>>
  BY <1>0, <1>2, <1>19, <1>21
<1> QED BY <1>5, <1>6, <1>17, <1>26, <1>27 DEF AddsCall

\* What a call has, where its item is.
LEMMA ShownCall ==
    ASSUME NEW c, NEW sc, NEW begun, NEW items, NEW said, Shows(c, sc, begun, items, said), NEW k \in DOMAIN sc.calls
    PROVE  /\ begun /\ k \in Nat /\ sc.calls[k] \in CallStates /\ sc.calls[k].index \in Nat
           /\ \E j \in 1..Len(said) : /\ sc.calls[k].index + 1 = Base(sc) + j
                                      /\ CallShown(items[Base(sc) + j], said[j], sc.calls[k])
                                      /\ Base(sc) + j \in 1..Len(items) /\ items[Base(sc) + j] \in Items
                                      /\ said[j] \in CallBodies
<1>1. CallAt(sc.calls[k], Base(sc), items, said)
  BY DEF Shows, CallsShown
<1>2. PICK j \in 1..Len(said) : sc.calls[k].index + 1 = Base(sc) + j /\ CallShown(items[Base(sc) + j], said[j], sc.calls[k])
  BY <1>1 DEF CallAt
<1>3. /\ items \in Seq(Items) /\ said \in Seq(CallBodies) /\ Len(items) = Base(sc) + Len(said) /\ Base(sc) \in {0, 1}
      /\ Len(said) \in Nat
  BY DEF Shows, CallsShown, Base
<1>4. Base(sc) + j \in 1..Len(items) /\ items[Base(sc) + j] \in Items /\ said[j] \in CallBodies
  BY <1>3
<1>5. said # <<>>
  BY <1>3
<1>6. begun
  BY <1>5 DEF Shows
<1>7. sc \in Responders
  BY DEF Shows
<1>8. k \in Nat /\ sc.calls[k] \in CallStates /\ sc.calls[k].index \in Nat
  BY <1>7, CallFacts
<1> QED BY <1>2, <1>4, <1>6, <1>8

\* An item as it is after a piece of its arguments.
Grown(i, piece, g) ==
  g \in Items /\ g.item = i.item /\ g.id = i.id /\ g.announced = i.announced /\ g.body = i.body \o piece /\ ~g.done

\* A piece of the arguments of a call, which the converter has noted already.
TurnsCall(c, sc, sd, k, call, v) ==
  /\ \E m : Shows(c, sd, TRUE, m, v)
  /\ SameMessage(sc, sd) /\ sd.next = sc.next /\ PutIs(CallStates, sc.calls, k, call, sd.calls)

MayGrow(sc, items, said, k, call, sf, piece, j, n, v) ==
  /\ k \in DOMAIN sc.calls /\ call \in CallStates /\ call.index = sc.calls[k].index
  /\ CallPut(sc, k, call, sf) /\ sf.next = sc.next /\ piece \in Bodies
  /\ j \in 1..Len(said) /\ n = Base(sc) + j /\ call.index + 1 = n /\ n \in 1..Len(items)
  /\ items[n].item = "function_call" /\ ~items[n].done
  /\ v \in Seq(CallBodies) /\ Len(v) = Len(said) /\ \A x \in 1..Len(said) : x # j => v[x] = said[x]
  /\ \A g : Grown(items[n], piece, g) => CallShown(g, v[j], call)

LEMMA PieceShows ==
    ASSUME NEW c, NEW sc, NEW items, NEW said, Shows(c, sc, TRUE, items, said),
           NEW k, NEW call, NEW sf, NEW piece, NEW j, NEW n, NEW v, MayGrow(sc, items, said, k, call, sf, piece, j, n, v),
           NEW sd, sd = ArgumentsDelta(sf, k, piece)
    PROVE  TurnsCall(c, sc, sd, k, call, v)
<1>0. /\ k \in DOMAIN sc.calls /\ call \in CallStates /\ call.index = sc.calls[k].index
      /\ CallPut(sc, k, call, sf) /\ sf.next = sc.next /\ piece \in Bodies
      /\ j \in 1..Len(said) /\ n = Base(sc) + j /\ call.index + 1 = n /\ n \in 1..Len(items)
      /\ items[n].item = "function_call" /\ ~items[n].done
      /\ v \in Seq(CallBodies) /\ Len(v) = Len(said) /\ \A x \in 1..Len(said) : x # j => v[x] = said[x]
      /\ \A g : Grown(items[n], piece, g) => CallShown(g, v[j], call)
  BY DEF MayGrow
<1>00. k \in DOMAIN sc.calls /\ call \in CallStates /\ piece \in Bodies /\ j \in 1..Len(said) /\ v \in Seq(CallBodies)
  BY <1>0
<1> HIDE DEF ResponseEvents
<1>1. /\ sc \in Responders /\ sc.buffer \in Seq(ResponseEvents) /\ sc.text \in Bodies /\ ~sc.sentDone
      /\ sc.calls \in Partial(CallStates)
  BY DEF Shows, Responders
<1>2. /\ items \in Seq(Items) /\ said \in Seq(CallBodies) /\ Len(items) = Base(sc) + Len(said) /\ Base(sc) \in {0, 1}
      /\ CallsShown(sc.calls, Base(sc), items, said) /\ Len(said) \in Nat
  BY DEF Shows, CallsShown, Base
<1>3. /\ sf \in Responders /\ SameMessage(sc, sf) /\ sf.buffer = sc.buffer /\ ~sf.sentDone
      /\ PutIs(CallStates, sc.calls, k, call, sf.calls)
  BY <1>0, <1>1 DEF CallPut, SameRestOf, SameMessage
<1>4. sf.calls[k] = call
  BY <1>3 DEF PutIs
<1>5. PICK e : e = [type |-> "arguments.delta", index |-> call.index, piece |-> piece]
  OBVIOUS
<1>6. call.index \in Nat
  BY <1>00 DEF CallStates
<1>7. e \in ResponseEvents
  BY <1>5, <1>6, <1>00, ArgumentsMade DEF Unheard
<1>8. sd = emit(sf, e)
  BY <1>4, <1>5 DEF ArgumentsDelta
<1>9. SameButBuffer(sf, sd) /\ sd.buffer = Append(sc.buffer, e)
  BY <1>3, <1>7, <1>8, EmitIs
<1>10. /\ sd \in Responders /\ SameMessage(sc, sd) /\ ~sd.sentDone /\ sd.next = sc.next
       /\ PutIs(CallStates, sc.calls, k, call, sd.calls)
  BY <1>0, <1>3, <1>9 DEF SameButBuffer, SameMessage
<1>11. At(c, sc.buffer, TRUE, items, sc.text)
  BY DEF Shows
<1>12. PICK m : ItemIs(items, n, m, items[n].body \o piece, FALSE) /\ At(c, Append(sc.buffer, e), TRUE, m, sc.text)
  <2>1. n = call.index + 1 /\ n \in 1..Len(items) /\ items[n].item = "function_call" /\ ~items[n].done
    BY <1>0
  <2>2. piece \in Bodies
    BY <1>0
  <2> QED BY <1>1, <1>2, <1>5, <1>6, <1>11, <2>1, <2>2, AtArguments
<1>13. m \in Seq(Items) /\ Len(m) = Len(items) /\ Grown(items[n], piece, m[n]) /\ Len(items) \in Nat
  <2>1. m \in Seq(Items) /\ Len(m) = Len(items) /\ Len(items) \in Nat
    BY <1>2, <1>12 DEF ItemIs
  <2>2. m[n] \in Items
    BY <1>0, <2>1
  <2> QED BY <1>12, <2>1, <2>2 DEF ItemIs, Grown
<1>14. MessageShown(sd, m) /\ Base(sd) = Base(sc)
  <2>1. MessageShown(sc, items)
    BY DEF Shows
  <2>2. sc.started => m[1] = items[1]
    <3>1. sc.started => n # 1 /\ 1 \in 1..Len(items)
      BY <1>0, <1>2, <1>13, <2>1 DEF Base, MessageShown
    <3> QED BY <1>12, <3>1 DEF ItemIs
  <2>3. MessageShown(sc, m)
    BY <1>13, <2>1, <2>2, MessageStays
  <2> QED BY <1>10, <2>3, SameMessageShown
<1>15. CallsShown(sd.calls, Base(sd), m, v)
  <2>1. CallShown(m[n], v[j], call)
    BY <1>0, <1>13
  <2>2. PICK calls, base : calls = sc.calls /\ base = Base(sc)
    OBVIOUS
  <2>3. PICK more, body : more = sd.calls /\ body = items[n].body \o piece
    OBVIOUS
  <2>4. /\ calls \in Partial(CallStates) /\ base \in {0, 1} /\ CallsShown(calls, base, items, said) /\ k \in DOMAIN calls
        /\ PutIs(CallStates, calls, k, call, more) /\ call.index = calls[k].index /\ n = base + j
        /\ ItemIs(items, n, m, body, FALSE)
    BY <1>0, <1>1, <1>2, <1>10, <1>12, <2>2, <2>3
  <2>5. CallsShown(more, base, m, v)
    <3>1. /\ j \in 1..Len(said) /\ call.index + 1 = n
          /\ Len(v) = Len(said) /\ \A x \in 1..Len(said) : x # j => v[x] = said[x]
      BY <1>0
    <3>2. calls \in Partial(CallStates) /\ base \in {0, 1} /\ k \in DOMAIN calls /\ call \in CallStates /\ v \in Seq(CallBodies)
      BY <1>00, <2>4
    <3> QED BY <2>1, <2>4, <3>1, <3>2, CallTurned
  <2> QED BY <1>14, <2>2, <2>3, <2>5
<1>16. Shows(c, sd, TRUE, m, v)
  <2>1. sd.reserved /\ ~sd.started => v = <<>>
    <3>1. said # <<>>
      BY <1>0, <1>2
    <3>2. ~(sc.reserved /\ ~sc.started)
      BY <3>1 DEF Shows
    <3> QED BY <1>10, <3>2 DEF SameMessage
  <2>2. sd.text = sc.text
    BY <1>10 DEF SameMessage
  <2>3. At(c, sd.buffer, TRUE, m, sd.text)
    BY <1>9, <1>12, <2>2
  <2> QED BY <1>10, <1>14, <1>15, <2>1, <2>3 DEF Shows
<1> QED BY <1>10, <1>16 DEF TurnsCall

\* More arguments of a call that is not complete.
MoreSaid(said, j, body, v) ==
  /\ v \in Seq(CallBodies) /\ Len(v) = Len(said) /\ \A x \in 1..Len(said) : x # j => v[x] = said[x]
  /\ v[j].id = said[j].id /\ v[j].body = body

LEMMA MoreOfCallShows ==
    ASSUME NEW c, NEW sc, NEW items, NEW said, Shows(c, sc, TRUE, items, said),
           NEW k \in DOMAIN sc.calls, ~sc.calls[k].completed,
           NEW piece \in Bodies, NEW call, NEW sf, ContinuesCall(sc, k, piece, call, sf),
           NEW j \in 1..Len(said), sc.calls[k].index + 1 = Base(sc) + j,
           NEW v, MoreSaid(said, j, call.arguments, v),
           NEW sd, sd = ArgumentsDelta(sf, k, piece)
    PROVE  TurnsCall(c, sc, sd, k, call, v)
<1>1. PICK i \in 1..Len(said) : /\ sc.calls[k].index + 1 = Base(sc) + i
                                /\ CallShown(items[Base(sc) + i], said[i], sc.calls[k])
                                /\ Base(sc) + i \in 1..Len(items) /\ items[Base(sc) + i] \in Items
                                /\ said[i] \in CallBodies
  BY ShownCall
<1>2. i = j
  <2>1. Base(sc) \in {0, 1}
    BY DEF Base
  <2> QED BY <1>1, <2>1
<1>3. PICK n : n = Base(sc) + j
  OBVIOUS
<1>4. PICK w, i0, was : w = said[j] /\ i0 = items[n] /\ was = sc.calls[k]
  OBVIOUS
<1>5. /\ CallShown(i0, w, was) /\ n \in 1..Len(items) /\ i0 \in Items /\ w \in CallBodies /\ was \in CallStates
  BY <1>1, <1>2, <1>3, <1>4, ShownCall
<1>6. /\ call \in CallStates /\ call.index = was.index /\ call.id = was.id /\ ~call.placeholder
      /\ call.arguments = was.arguments \o piece /\ call.started = was.started /\ call.completed = was.completed
  BY <1>4 DEF ContinuesCall
<1>7. ~i0.done /\ i0.item = "function_call"
  BY <1>4, <1>5 DEF CallShown
<1>8. /\ i0.body \in Bodies /\ i0.announced \in Bodies /\ was.arguments \in Bodies
      /\ i0.announced \o i0.body \in Bodies
  <2>1. i0.body \in Bodies /\ i0.announced \in Bodies /\ was.arguments \in Bodies
    BY <1>5 DEF Items, CallStates
  <2> QED BY <2>1, PrefixCat
<1>9. call.arguments \in {i0.body \o piece, i0.announced \o (i0.body \o piece)}
  <2>1. CASE was.placeholder
    <3>1. was.arguments = <<>> /\ i0.body = <<>>
      BY <1>5, <1>7, <2>1 DEF CallShown
    <3>2. call.arguments = piece /\ i0.body \o piece = piece
      BY <1>6, <3>1, CatEmpty
    <3> QED BY <3>2
  <2>2. CASE ~was.placeholder
    <3>1. w.body = was.arguments
      BY <1>5, <2>2 DEF CallShown, ToolCallArguments
    <3>2. was.arguments \in {i0.body, i0.announced \o i0.body}
      BY <1>5, <1>7, <3>1 DEF CallShown
    <3>3. (i0.announced \o i0.body) \o piece = i0.announced \o (i0.body \o piece)
      BY <1>8, CatAssoc
    <3> QED BY <1>6, <3>2, <3>3
  <2> QED BY <2>1, <2>2
<1>10. ToolCallArguments(call) = call.arguments
  BY <1>6 DEF ToolCallArguments
<1>11. ASSUME NEW g, Grown(i0, piece, g) PROVE CallShown(g, v[j], call)
  <2>1. g.item = "function_call" /\ g.id = i0.id /\ g.announced = i0.announced /\ g.body = i0.body \o piece /\ ~g.done
    BY <1>7, <1>11 DEF Grown
  <2>2. v[j].id = w.id /\ v[j].body = call.arguments
    BY <1>4 DEF MoreSaid
  <2>3. i0.id = w.id /\ was.id = w.id /\ was.started /\ ~was.completed
    BY <1>4, <1>5 DEF CallShown
  <2>4. v[j].body \in {g.body, g.announced \o g.body}
    BY <1>9, <2>1, <2>2
  <2> QED BY <1>6, <1>10, <2>1, <2>2, <2>3, <2>4 DEF CallShown
<1>12. CallPut(sc, k, call, sf) /\ sf.next = sc.next
  BY DEF ContinuesCall
<1>13. /\ v \in Seq(CallBodies) /\ Len(v) = Len(said) /\ \A x \in 1..Len(said) : x # j => v[x] = said[x]
  BY DEF MoreSaid
<1>14. call.index = sc.calls[k].index /\ call.index + 1 = n
  BY <1>3, <1>4, <1>6
<1>15. items[n].item = "function_call" /\ ~items[n].done /\ \A g : Grown(items[n], piece, g) => CallShown(g, v[j], call)
  BY <1>4, <1>7, <1>11
<1>16. call \in CallStates
  BY <1>6
<1>17. MayGrow(sc, items, said, k, call, sf, piece, j, n, v)
  BY <1>3, <1>5, <1>12, <1>13, <1>14, <1>15, <1>16 DEF MayGrow
<1> QED BY <1>17, PieceShows

\* A call that was announced late repeats its arguments.
LEMMA RepeatShows ==
    ASSUME NEW c, NEW sc, NEW items, NEW said, Shows(c, sc, TRUE, items, said),
           NEW k \in DOMAIN sc.calls, ~sc.calls[k].completed, ~sc.calls[k].placeholder,
           items[sc.calls[k].index + 1].body = <<>>,
           NEW piece, piece = sc.calls[k].arguments,
           NEW sd, sd = ArgumentsDelta(sc, k, piece)
    PROVE  TurnsCall(c, sc, sd, k, sc.calls[k], said)
<1>1. PICK j \in 1..Len(said) : /\ sc.calls[k].index + 1 = Base(sc) + j
                                /\ CallShown(items[Base(sc) + j], said[j], sc.calls[k])
                                /\ Base(sc) + j \in 1..Len(items) /\ items[Base(sc) + j] \in Items
                                /\ said[j] \in CallBodies
  BY ShownCall
<1>2. PICK n, call, i0, w : n = Base(sc) + j /\ call = sc.calls[k] /\ i0 = items[n] /\ w = said[j]
  OBVIOUS
<1>3. CallShown(i0, w, call) /\ n \in 1..Len(items) /\ i0 \in Items /\ w \in CallBodies /\ call \in CallStates /\ i0.body = <<>>
  BY <1>1, <1>2, ShownCall
<1>4. piece \in Bodies /\ ~i0.done /\ i0.item = "function_call" /\ w.body = piece
  BY <1>2, <1>3 DEF CallShown, CallStates, ToolCallArguments
<1>5. i0.body \o piece = piece
  BY <1>3, <1>4, CatEmpty
<1>6. ASSUME NEW g, Grown(i0, piece, g) PROVE CallShown(g, w, call)
  <2>1. g.item = "function_call" /\ g.id = i0.id /\ g.announced = i0.announced /\ g.body = piece /\ ~g.done
    BY <1>4, <1>5, <1>6 DEF Grown
  <2>2. w.body \in {g.body, g.announced \o g.body}
    BY <1>4, <2>1
  <2>3. ~call.placeholder /\ ~call.completed
    BY <1>2
  <2> QED BY <1>3, <2>1, <2>2, <2>3 DEF CallShown
<1>7. sc \in Responders /\ sc.calls \in Partial(CallStates) /\ DOMAIN sc.calls \subseteq Nat /\ said \in Seq(CallBodies)
  <2>1. sc \in Responders /\ said \in Seq(CallBodies)
    BY DEF Shows, CallsShown
  <2>2. sc.calls \in Partial(CallStates)
    BY <2>1 DEF Responders
  <2> QED BY <2>1, <2>2, PartialFacts
<1>8. CallPut(sc, k, call, sc)
  <2>1. PutIs(CallStates, sc.calls, k, call, sc.calls)
    <3>1. \A x \in DOMAIN sc.calls : sc.calls[x] \in CallStates
      BY <1>7, PartialFacts
    <3> QED BY <1>2, <1>7, <3>1 DEF PutIs
  <2> QED BY <1>7, <2>1 DEF CallPut, SameRestOf
<1>9. call.index = sc.calls[k].index /\ call.index + 1 = n /\ call \in CallStates
  BY <1>1, <1>2, <1>3
<1>10. items[n].item = "function_call" /\ ~items[n].done /\ \A g : Grown(items[n], piece, g) => CallShown(g, said[j], call)
  BY <1>2, <1>4, <1>6
<1>11. /\ said \in Seq(CallBodies) /\ Len(said) = Len(said) /\ \A x \in 1..Len(said) : x # j => said[x] = said[x]
       /\ sc.next = sc.next /\ piece \in Bodies /\ n \in 1..Len(items) /\ n = Base(sc) + j
  BY <1>2, <1>3, <1>4, <1>7
<1>12. MayGrow(sc, items, said, k, call, sc, piece, j, n, said)
  BY <1>8, <1>9, <1>10, <1>11 DEF MayGrow
<1>13. TurnsCall(c, sc, sd, k, call, said)
  BY <1>12, PieceShows
<1> QED BY <1>2, <1>13

\* The calls are where they were, and as they were begun.
KeepsCalls(sc, sd) ==
  /\ DOMAIN sd.calls = DOMAIN sc.calls
  /\ \A x \in DOMAIN sc.calls : /\ sd.calls[x].index = sc.calls[x].index
                                /\ sd.calls[x].placeholder = sc.calls[x].placeholder

CompletesCall(c, sc, sd, begun, k, said) ==
  /\ \E m : Shows(c, sd, begun, m, said)
  /\ SameMessage(sc, sd) /\ sd.next = sc.next /\ KeepsCalls(sc, sd)
  /\ sd.calls[k].completed
  /\ \A x \in DOMAIN sc.calls : sc.calls[x].completed => sd.calls[x].completed

\* A call comes to its end.
LEMMA CompleteCallShows ==
    ASSUME NEW c, NEW sc, NEW begun, NEW items, NEW said, Shows(c, sc, begun, items, said),
           NEW k \in DOMAIN sc.calls, NEW sd, sd = CompleteToolCall(sc, k)
    PROVE  CompletesCall(c, sc, sd, begun, k, said)
<1> HIDE DEF ResponseEvents
<1>1. PICK j \in 1..Len(said) : /\ sc.calls[k].index + 1 = Base(sc) + j
                                /\ CallShown(items[Base(sc) + j], said[j], sc.calls[k])
                                /\ Base(sc) + j \in 1..Len(items) /\ items[Base(sc) + j] \in Items
                                /\ said[j] \in CallBodies
  BY ShownCall
<1>2. PICK n, was, i0, w : n = Base(sc) + j /\ was = sc.calls[k] /\ i0 = items[n] /\ w = said[j]
  OBVIOUS
<1>3. /\ CallShown(i0, w, was) /\ n \in 1..Len(items) /\ i0 \in Items /\ w \in CallBodies /\ was \in CallStates /\ begun
      /\ was.index + 1 = n
  BY <1>1, <1>2, ShownCall
<1>4. PICK call : call = [was EXCEPT !.completed = TRUE]
  OBVIOUS
<1>5. /\ call \in CallStates /\ call.index = was.index /\ call.id = was.id /\ call.arguments = was.arguments
      /\ call.placeholder = was.placeholder /\ call.started = was.started /\ call.completed
  BY <1>3, <1>4 DEF CallStates
<1>6. /\ sc \in Responders /\ sc.buffer \in Seq(ResponseEvents) /\ sc.text \in Bodies /\ ~sc.sentDone
      /\ sc.calls \in Partial(CallStates)
  BY DEF Shows, Responders
<1>7. /\ items \in Seq(Items) /\ said \in Seq(CallBodies) /\ Len(items) = Base(sc) + Len(said) /\ Base(sc) \in {0, 1}
      /\ CallsShown(sc.calls, Base(sc), items, said) /\ Len(said) \in Nat
  BY DEF Shows, CallsShown, Base
<1>8. CASE was.completed
  <2>1. sd = sc
    BY <1>2, <1>8 DEF CompleteToolCall
  <2> QED BY <1>2, <1>8, <2>1 DEF CompletesCall, SameMessage, KeepsCalls
<1>9. CASE ~was.completed
  <2>1. Finished(sc, k, call, sd)
    BY <1>2, <1>4, <1>6, <1>9, CompleteToolCallIs
  <2>2. PICK sf : /\ CallPut(sc, k, call, sf) /\ sf.next = sc.next
                  /\ sd = emit(emit(sf, [type |-> "arguments.done", index |-> call.index, body |-> ToolCallArguments(call)]),
                               Item("item.done", "function_call", call.index, call.id, ToolCallArguments(call)))
    BY <2>1 DEF Finished
  <2>3. ToolCallArguments(call) = w.body
    <3>1. ToolCallArguments(call) = ToolCallArguments(was)
      BY <1>5 DEF ToolCallArguments
    <3> QED BY <1>3, <3>1 DEF CallShown
  <2>4. PICK e, f : /\ e = [type |-> "arguments.done", index |-> call.index, body |-> w.body]
                    /\ f = Item("item.done", "function_call", call.index, call.id, w.body)
    OBVIOUS
  <2>5. call.index \in Nat /\ call.id \in Nat /\ w.body \in Bodies
    BY <1>3, <1>5 DEF CallStates, CallBodies
  <2>6. e \in ResponseEvents /\ f \in ResponseEvents
    BY <2>4, <2>5, ItemMade, ArgumentsMade DEF Unheard
  <2>7. /\ sf \in Responders /\ SameMessage(sc, sf) /\ sf.buffer = sc.buffer /\ ~sf.sentDone
        /\ PutIs(CallStates, sc.calls, k, call, sf.calls)
    BY <1>6, <2>2 DEF CallPut, SameRestOf, SameMessage
  <2>8. PICK sg : sg = emit(sf, e)
    OBVIOUS
  <2>9. SameButBuffer(sf, sg) /\ sg.buffer = Append(sc.buffer, e)
    BY <2>6, <2>7, <2>8, EmitIs
  <2>10. sd = emit(sg, f)
    BY <2>2, <2>3, <2>4, <2>8
  <2>11. SameButBuffer(sg, sd) /\ sd.buffer = Append(sg.buffer, f)
    BY SMTT(30), <2>6, <2>9, <2>10, EmitIs DEF SameButBuffer
  <2>12. /\ sd \in Responders /\ SameMessage(sc, sd) /\ ~sd.sentDone /\ sd.next = sc.next
         /\ PutIs(CallStates, sc.calls, k, call, sd.calls) /\ sd.buffer = Append(Append(sc.buffer, e), f)
    BY <2>2, <2>7, <2>9, <2>11 DEF SameButBuffer, SameMessage
  <2>13. At(c, sc.buffer, TRUE, items, sc.text)
    BY <1>3 DEF Shows, At
  <2>14. ~i0.done /\ i0.item = "function_call" /\ i0.id = call.id /\ w.body \in {i0.body, i0.announced \o i0.body}
         /\ n = call.index + 1
    BY <1>3, <1>5, <1>9 DEF CallShown
  <2>15. At(c, Append(sc.buffer, e), TRUE, items, sc.text)
    BY <1>2, <1>3, <1>6, <1>7, <2>4, <2>5, <2>13, <2>14, AtRepeats
  <2>16. Append(sc.buffer, e) \in Seq(ResponseEvents)
    BY <1>6, <2>6
  <2>17. PICK m : ItemIs(items, n, m, w.body, TRUE) /\ At(c, sd.buffer, TRUE, m, sc.text)
    <3>1. PICK b : b = Append(sc.buffer, e)
      OBVIOUS
    <3>2. \E m : ItemIs(items, n, m, w.body, TRUE) /\ At(c, Append(b, f), TRUE, m, sc.text)
      BY ZenonT(90), <1>2, <1>3, <2>4, <2>5, <2>14, <2>15, <2>16, <3>1, AtEnds
    <3> QED BY <2>12, <3>1, <3>2
  <2>18. /\ m \in Seq(Items) /\ Len(m) = Len(items) /\ Len(items) \in Nat
         /\ m[n].item = "function_call" /\ m[n].id = i0.id /\ m[n].body = w.body /\ m[n].done
    BY <1>2, <1>7, <2>14, <2>17 DEF ItemIs
  <2>19. MessageShown(sd, m) /\ Base(sd) = Base(sc)
    <3>1. MessageShown(sc, items)
      BY DEF Shows
    <3>2. sc.started => m[1] = items[1]
      <4>1. sc.started => n # 1 /\ 1 \in 1..Len(items)
        BY <1>2, <1>7, <2>18, <3>1 DEF Base, MessageShown
      <4> QED BY <2>17, <4>1 DEF ItemIs
    <3>3. MessageShown(sc, m)
      BY <2>18, <3>1, <3>2, MessageStays
    <3> QED BY <2>12, <3>3, SameMessageShown
  <2>20. CallsShown(sd.calls, Base(sd), m, said)
    <3>1. CallShown(m[n], w, call)
      BY <1>3, <1>5, <2>3, <2>18 DEF CallShown
    <3>2. PICK calls, base : calls = sc.calls /\ base = Base(sc)
      OBVIOUS
    <3>3. PICK more, body : more = sd.calls /\ body = w.body
      OBVIOUS
    <3>4. /\ calls \in Partial(CallStates) /\ base \in {0, 1} /\ k \in DOMAIN calls /\ call \in CallStates
          /\ said \in Seq(CallBodies)
      BY <1>5, <1>6, <1>7, <3>2
    <3>5. /\ CallsShown(calls, base, items, said) /\ PutIs(CallStates, calls, k, call, more) /\ call.index = calls[k].index
          /\ n = base + j /\ ItemIs(items, n, m, body, TRUE) /\ call.index + 1 = n /\ CallShown(m[n], said[j], call)
      BY <1>2, <1>3, <1>5, <1>7, <2>12, <2>17, <3>1, <3>2, <3>3
    <3>6. Len(said) = Len(said) /\ \A x \in 1..Len(said) : x # j => said[x] = said[x]
      OBVIOUS
    <3>7. CallsShown(more, base, m, said)
      BY <3>4, <3>5, <3>6, CallTurned
    <3> QED BY <2>19, <3>2, <3>3, <3>7
  <2>21. Shows(c, sd, begun, m, said)
    <3>1. sd.reserved /\ ~sd.started => said = <<>>
      BY <2>12 DEF SameMessage, Shows
    <3>2. sd.text = sc.text
      BY <2>12 DEF SameMessage
    <3>3. At(c, sd.buffer, begun, m, sd.text)
      BY <1>3, <2>17, <3>2 DEF At
    <3> QED BY <1>3, <2>12, <2>19, <2>20, <3>1, <3>3 DEF Shows
  <2>22. KeepsCalls(sc, sd) /\ sd.calls[k].completed /\ \A x \in DOMAIN sc.calls : sc.calls[x].completed => sd.calls[x].completed
    <3>1. DOMAIN sd.calls = DOMAIN sc.calls /\ sd.calls[k] = call /\ \A x \in DOMAIN sc.calls : x # k => sd.calls[x] = sc.calls[x]
      BY <2>12 DEF PutIs
    <3> QED BY <1>2, <1>5, <3>1 DEF KeepsCalls
  <2> QED BY <2>12, <2>21, <2>22 DEF CompletesCall
<1> QED BY <1>8, <1>9

\* All that is left comes to its end.
CompletesAll(c, sc, sd, begun, said) ==
  /\ \E m : Shows(c, sd, begun, m, said)
  /\ SameMessage(sc, sd) /\ KeepsCalls(sc, sd)
  /\ \A x \in DOMAIN sd.calls : sd.calls[x].completed

CompletesUpTo(c, sc, sd, begun, n, said) ==
  /\ \E m : Shows(c, sd, begun, m, said)
  /\ SameMessage(sc, sd) /\ KeepsCalls(sc, sd)
  /\ \A x \in DOMAIN sc.calls : x < n => sd.calls[x].completed

LEMMA PendingShows ==
    ASSUME NEW c, NEW sc, NEW begun, NEW items, NEW said, Shows(c, sc, begun, items, said), CallsWithin(sc)
    PROVE  CompletesAll(c, sc, completePendingToolCalls(sc), begun, said)
<1>0. sc \in Responders /\ DOMAIN sc.calls \subseteq Nat /\ MaxBlocks \in Nat /\ DOMAIN sc.calls \subseteq 0..MaxBlocks
  BY StreamsAssumption, ShowsFacts DEF CallsWithin
<1>1. PICK behind, below :
        /\ behind \in Nat
        /\ below[0] = sc /\ completePendingToolCalls(sc) = below[behind]
        /\ DOMAIN sc.calls \subseteq 0..(behind - 1)
        /\ \A n \in 1..behind : CompletesNext(sc, below[n - 1], n - 1, below[n])
  BY <1>0, PendingTurns
<1>1a. behind \in Nat
  BY <1>1
<1> DEFINE S == {n \in Nat : n <= behind => CompletesUpTo(c, sc, below[n], begun, n, said)}
<1>2. 0 \in S
  <2>1. \A x \in DOMAIN sc.calls : ~(x < 0)
    BY <1>0
  <2>2. CompletesUpTo(c, sc, sc, begun, 0, said)
    BY <2>1 DEF CompletesUpTo, SameMessage, KeepsCalls
  <2> QED BY <1>1, <2>2
<1>3. ASSUME NEW n \in Nat, n \in S PROVE n + 1 \in S
  <2>1. SUFFICES ASSUME n + 1 <= behind PROVE CompletesUpTo(c, sc, below[n + 1], begun, n + 1, said)
    OBVIOUS
  <2>2. CompletesUpTo(c, sc, below[n], begun, n, said)
    BY <1>1a, <1>3, <2>1
  <2>3. n + 1 \in 1..behind /\ (n + 1) - 1 = n
    BY <1>1a, <2>1
  <2>4. CompletesNext(sc, below[n], n, below[n + 1])
    BY <1>1, <2>3
  <2>5. PICK sd, se : sd = below[n] /\ se = below[n + 1]
    OBVIOUS
  <2>6. CompletesUpTo(c, sc, sd, begun, n, said)
    BY <2>2, <2>5
  <2>7. CASE n \in DOMAIN sc.calls
    <3>1. sc.calls[n].started
      BY <2>7, ShownCall DEF CallShown
    <3>2. se = CompleteToolCall(sd, n)
      BY <2>4, <2>5, <2>7, <3>1 DEF CompletesNext
    <3>3. PICK m : Shows(c, sd, begun, m, said)
      BY <2>6 DEF CompletesUpTo
    <3>4. n \in DOMAIN sd.calls
      BY <2>6, <2>7 DEF CompletesUpTo, KeepsCalls
    <3>5. CompletesCall(c, sd, se, begun, n, said)
      BY <3>2, <3>3, <3>4, CompleteCallShows
    <3>6. SameMessage(sc, se)
      BY <2>6, <3>5 DEF CompletesUpTo, CompletesCall, SameMessage
    <3>7. KeepsCalls(sc, se)
      BY <2>6, <3>5 DEF CompletesUpTo, CompletesCall, KeepsCalls
    <3>8. ASSUME NEW x \in DOMAIN sc.calls, x < n + 1 PROVE se.calls[x].completed
      <4>1. x \in DOMAIN sd.calls
        BY <2>6 DEF CompletesUpTo, KeepsCalls
      <4>2. x = n \/ x < n
        BY <1>0, <3>8
      <4>3. CASE x = n
        BY <3>5, <4>3 DEF CompletesCall
      <4>4. CASE x < n
        BY <2>6, <3>5, <4>1, <4>4 DEF CompletesUpTo, CompletesCall
      <4> QED BY <4>2, <4>3, <4>4
    <3>9. \E v : Shows(c, se, begun, v, said)
      BY <3>5 DEF CompletesCall
    <3>10. CompletesUpTo(c, sc, se, begun, n + 1, said)
      BY <3>6, <3>7, <3>8, <3>9 DEF CompletesUpTo
    <3> QED BY <2>5, <3>10
  <2>8. CASE n \notin DOMAIN sc.calls
    <3>1. se = sd
      BY <2>4, <2>5, <2>8 DEF CompletesNext
    <3>2. \A x \in DOMAIN sc.calls : x < n + 1 => x < n
      BY <1>0, <2>8
    <3>3. CompletesUpTo(c, sc, se, begun, n + 1, said)
      BY <2>6, <3>1, <3>2 DEF CompletesUpTo
    <3> QED BY <2>5, <3>3
  <2> QED BY <2>7, <2>8
<1>4. behind \in S
  <2> HIDE DEF S
  <2> QED BY <1>1a, <1>2, <1>3, AllNumbers
<1>5. CompletesUpTo(c, sc, below[behind], begun, behind, said)
  BY <1>1a, <1>4
<1>6. PICK sd : sd = completePendingToolCalls(sc)
  OBVIOUS
<1>7. CompletesUpTo(c, sc, sd, begun, behind, said)
  BY <1>1, <1>5, <1>6
<1>8. \A x \in DOMAIN sc.calls : x < behind
  BY <1>1, <1>1a
<1>9. CompletesAll(c, sc, sd, begun, said)
  BY <1>7, <1>8 DEF CompletesUpTo, CompletesAll, KeepsCalls
<1> QED BY <1>6, <1>9

\* Each call that is said has its item.
LEMMA SaidIsShown ==
    ASSUME NEW c, NEW sc, NEW begun, NEW items, NEW said, Shows(c, sc, begun, items, said),
           NEW j, j \in 1..Len(said)
    PROVE  \E k \in DOMAIN sc.calls : /\ sc.calls[k].index + 1 = Base(sc) + j
                                      /\ CallShown(items[Base(sc) + j], said[j], sc.calls[k])
<1>1. PICK k \in DOMAIN sc.calls : sc.calls[k].index + 1 = Base(sc) + j
  BY DEF Shows, CallsShown
<1>2. PICK i \in 1..Len(said) : /\ sc.calls[k].index + 1 = Base(sc) + i
                                /\ CallShown(items[Base(sc) + i], said[i], sc.calls[k])
  BY ShownCall
<1>3. i = j
  <2>1. Base(sc) \in {0, 1} /\ Len(said) \in Nat
    BY DEF Base, Shows, CallsShown
  <2> QED BY <1>1, <1>2, <2>1
<1> QED BY <1>2, <1>3

\* When all is done, the items are the answer.
LEMMA ItemsAreTold ==
    ASSUME NEW c, NEW sc, NEW begun, NEW items, NEW said, Shows(c, sc, begun, items, said),
           sc.reserved => sc.done, \A k \in DOMAIN sc.calls : sc.calls[k].completed,
           NEW answer, answer.calls = said, answer.text = sc.text
    PROVE  ItemsTell(items, answer)
<1>1. /\ items \in Seq(Items) /\ said \in Seq(CallBodies) /\ Len(items) = Base(sc) + Len(said) /\ Base(sc) \in {0, 1}
      /\ Len(said) \in Nat
  BY DEF Shows, CallsShown, Base
<1>2. ASSUME NEW j \in 1..Len(said)
      PROVE  /\ items[Base(sc) + j].item = "function_call" /\ items[Base(sc) + j].id = said[j].id
             /\ items[Base(sc) + j].body = said[j].body /\ items[Base(sc) + j].done
  <2>1. PICK k \in DOMAIN sc.calls : CallShown(items[Base(sc) + j], said[j], sc.calls[k])
    BY SaidIsShown
  <2> QED BY <2>1 DEF CallShown
<1>3. DOMAIN items = 1..Len(items) /\ DOMAIN said = 1..Len(said)
  BY <1>1
<1>4. Base(sc) = IF items # <<>> /\ items[1].item = "message" THEN 1 ELSE 0
  <2>1. CASE sc.started
    <3>1. Len(items) >= 1 /\ items[1].item = "message"
      BY <2>1 DEF Shows, MessageShown
    <3>2. items # <<>>
      BY <1>1, <3>1
    <3> QED BY <2>1, <3>1, <3>2 DEF Base
  <2>2. CASE ~sc.started
    <3>1. Base(sc) = 0
      BY <2>2 DEF Base
    <3>2. CASE Len(said) = 0
      <4>1. items = <<>>
        BY <1>1, <3>1, <3>2
      <4> QED BY <3>1, <4>1
    <3>3. CASE Len(said) # 0
      <4>1. 1 \in 1..Len(said) /\ Base(sc) + 1 = 1
        BY <1>1, <3>1, <3>3
      <4>2. items[1].item = "function_call"
        BY <1>2, <4>1
      <4> QED BY <3>1, <4>2
    <3> QED BY <3>2, <3>3
  <2> QED BY <2>1, <2>2
<1>5. IF Base(sc) = 1 THEN items[1].body = answer.text ELSE answer.text = <<>>
  BY DEF Shows, MessageShown, Base
<1>6. ASSUME NEW n \in 1..Len(items) PROVE items[n].done
  <2>1. CASE n = 1 /\ Base(sc) = 1
    BY <2>1 DEF Shows, MessageShown, Base
  <2>2. CASE ~(n = 1 /\ Base(sc) = 1)
    <3>1. PICK j : j = n - Base(sc)
      OBVIOUS
    <3>2. j \in 1..Len(said) /\ Base(sc) + j = n
      BY <1>1, <2>2, <3>1
    <3> QED BY <1>2, <3>2
  <2> QED BY <2>1, <2>2
<1>7. \A k \in DOMAIN answer.calls :
        /\ items[Base(sc) + k].item = "function_call"
        /\ items[Base(sc) + k].id = answer.calls[k].id /\ items[Base(sc) + k].body = answer.calls[k].body
  BY <1>2, <1>3
<1>8. Len(items) = Base(sc) + Len(answer.calls)
  BY <1>1
<1>9. \A n \in DOMAIN items : items[n].done
  BY <1>3, <1>6
<1> QED BY <1>4, <1>5, <1>7, <1>8, <1>9 DEF ItemsTell

\* The calls that are not completed: none, or the last where that is granted.
ClosedOrLast(calls, inCall) ==
  \A k \in DOMAIN calls : \/ calls[k].completed
                          \/ inCall /\ \A l \in DOMAIN calls : calls[l].index <= calls[k].index

DoneOrLast(items, inCall) == \A n \in DOMAIN items : items[n].done \/ (n = Len(items) /\ inCall)

\* The items of an answer that is cut are done but for that one.
LEMMA ItemsAreDone ==
    ASSUME NEW c, NEW sc, NEW begun, NEW items, NEW said, Shows(c, sc, begun, items, said),
           sc.reserved => sc.done, NEW inCall, ClosedOrLast(sc.calls, inCall)
    PROVE  DoneOrLast(items, inCall)
<1>1. /\ items \in Seq(Items) /\ Len(items) = Base(sc) + Len(said) /\ Base(sc) \in {0, 1} /\ Len(said) \in Nat
      /\ DOMAIN items = 1..Len(items)
  BY DEF Shows, CallsShown, Base
<1>2. ASSUME NEW n \in 1..Len(items) PROVE items[n].done \/ (n = Len(items) /\ inCall)
  <2>1. CASE n = 1 /\ Base(sc) = 1
    BY <2>1 DEF Shows, MessageShown, Base
  <2>2. CASE ~(n = 1 /\ Base(sc) = 1)
    <3>1. PICK j : j = n - Base(sc)
      OBVIOUS
    <3>2. j \in 1..Len(said) /\ Base(sc) + j = n
      BY <1>1, <2>2, <3>1
    <3>3. PICK k \in DOMAIN sc.calls : /\ sc.calls[k].index + 1 = Base(sc) + j
                                      /\ CallShown(items[Base(sc) + j], said[j], sc.calls[k])
      BY <3>2, SaidIsShown
    <3>4. CASE sc.calls[k].completed
      BY <3>2, <3>3, <3>4 DEF CallShown
    <3>5. CASE inCall /\ \A l \in DOMAIN sc.calls : sc.calls[l].index <= sc.calls[k].index
      <4>1. Len(said) \in 1..Len(said)
        BY <1>1, <3>2
      <4>2. PICK l \in DOMAIN sc.calls : sc.calls[l].index + 1 = Base(sc) + Len(said)
        BY <4>1 DEF Shows, CallsShown
      <4>3. sc.calls[l].index \in Nat /\ sc.calls[k].index \in Nat /\ sc.calls[l].index <= sc.calls[k].index
        BY <3>5, ShownCall
      <4>4. j = Len(said)
        BY <1>1, <3>2, <3>3, <4>2, <4>3
      <4> QED BY <1>1, <3>2, <3>5, <4>4
    <3> QED BY <3>4, <3>5 DEF ClosedOrLast
  <2> QED BY <2>1, <2>2
<1> QED BY <1>1, <1>2 DEF DoneOrLast

\* A client that reads to the end of what sd has written is through; early and
\* inCall say whether the beginning and the end of the last call may be missing.
Finishes(c, sd, whole, answer, early, inCall) ==
  \E d \in Clients : /\ ReadsTo(c, sd.buffer, d) /\ d.ended /\ ~d.broken /\ d.stop = "completed"
                     /\ d.usage = sd.usage /\ d.text = sd.text
                     /\ whole => ItemsTell(d.items, answer)
                     /\ d.begun \/ early
                     /\ DoneOrLast(d.items, inCall)

LEMMA CompletedFinishes ==
    ASSUME NEW c, NEW sc, NEW begun, NEW items, NEW said, Shows(c, sc, begun, items, said), sc.reserved => sc.done,
           NEW whole, whole => \A k \in DOMAIN sc.calls : sc.calls[k].completed,
           NEW answer, answer.calls = said, answer.text = sc.text,
           NEW early, begun \/ early, NEW inCall, ClosedOrLast(sc.calls, inCall)
    PROVE  Finishes(c, Completed(sc), whole, answer, early, inCall)
<1> HIDE DEF ResponseEvents
<1>0. sc \in Responders /\ sc.buffer \in Seq(ResponseEvents) /\ sc.usage \in Usages
  BY DEF Shows, Responders
<1>1. PICK s1 : s1 = [sc EXCEPT !.sentDone = TRUE]
  OBVIOUS
<1>2. /\ s1 \in Responders /\ s1.buffer = sc.buffer /\ s1.text = sc.text /\ s1.usage = sc.usage
  BY <1>0, <1>1 DEF Responders
<1>4. PICK e : e = [type |-> "response.completed", usage |-> sc.usage, output |-> <<>>]
  OBVIOUS
<1>5. e \in ResponseEvents /\ Done \in ResponseEvents
  BY <1>0, <1>4, OthersMade
<1>6. PICK s2 : s2 = emit(s1, e)
  OBVIOUS
<1>7. SameButBuffer(s1, s2) /\ s2.buffer = Append(s1.buffer, e)
  BY <1>2, <1>5, <1>6, EmitIs
<1>8. PICK s3 : s3 = emit(s2, Done)
  OBVIOUS
<1>9. SameButBuffer(s2, s3) /\ s3.buffer = Append(s2.buffer, Done)
  BY <1>5, <1>7, <1>8, EmitIs DEF SameButBuffer
<1>10. Completed(sc) = s3
  BY <1>1, <1>4, <1>6, <1>8 DEF Completed
<1>11. /\ s3.text = sc.text /\ s3.usage = sc.usage /\ s3.buffer = Append(Append(sc.buffer, e), Done)
  BY <1>2, <1>7, <1>9 DEF SameButBuffer
<1>12. PICK usage, text, events : usage = sc.usage /\ text = sc.text /\ events = sc.buffer
  OBVIOUS
<1>13. usage \in Usages /\ events \in Seq(ResponseEvents)
  BY <1>0, <1>12
<1>14. At(c, events, begun, items, text)
  BY <1>12 DEF Shows
<1>15. e = [type |-> "response.completed", usage |-> usage, output |-> <<>>]
  BY <1>4, <1>12
<1>21. PICK written : written = Append(Append(events, e), Done)
  OBVIOUS
<1>22. AtLast(c, written, begun, usage, items, text)
  BY <1>13, <1>14, <1>15, <1>21, AtTheEnd
<1>16. PICK d \in Clients : /\ ReadsTo(c, written, d) /\ d.ended /\ ~d.broken /\ (d.begun <=> begun)
                            /\ d.stop = "completed" /\ d.usage = usage /\ d.items = items /\ d.text = text
  BY <1>22 DEF AtLast
<1>17. whole => ItemsTell(d.items, answer)
  BY <1>16, ItemsAreTold
<1>18. ReadsTo(c, s3.buffer, d) /\ d.usage = s3.usage /\ d.text = s3.text
  BY <1>11, <1>12, <1>16, <1>21
<1>20. (d.begun \/ early) /\ DoneOrLast(d.items, inCall)
  BY <1>16, ItemsAreDone
<1>19. Finishes(c, s3, whole, answer, early, inCall)
  BY <1>16, <1>17, <1>18, <1>20 DEF Finishes
<1> QED BY <1>10, <1>19

-----------------------------------------------------------------------------
(* The events of an Anthropic provider, for the client. *)

\* Another usage, or the message reserved in an answer without calls.
Reserves(sc, sd) ==
  /\ sd \in Responders /\ sd.buffer = sc.buffer /\ sd.calls = sc.calls /\ sd.text = sc.text
  /\ (sd.started <=> sc.started) /\ (sd.done <=> sc.done) /\ ~sd.sentDone /\ (sc.reserved => sd.reserved)

LEMMA ReserveShows ==
    ASSUME NEW c, NEW sc, NEW begun, NEW items, NEW said, Shows(c, sc, begun, items, said), NEW sd, Reserves(sc, sd),
           sd.reserved => sc.reserved \/ (begun /\ said = <<>>)
    PROVE  Shows(c, sd, begun, items, said)
<1> HIDE DEF ResponseEvents
<1>1. Base(sd) = Base(sc)
  BY DEF Reserves, Base
<1>2. MessageShown(sd, items)
  BY DEF Shows, Reserves, MessageShown
<1>3. At(c, sd.buffer, begun, items, sd.text) /\ sd \in Responders /\ ~sd.sentDone
  BY DEF Shows, Reserves
<1>4. CallsShown(sd.calls, Base(sd), items, said)
  BY <1>1 DEF Shows, Reserves
<1>5. /\ sd.reserved /\ ~sd.started => said = <<>>
      /\ ~begun => ~sd.reserved /\ said = <<>>
  BY DEF Shows, Reserves
<1> QED BY <1>2, <1>3, <1>4, <1>5 DEF Shows

\* The response is announced.
LEMMA BegunShows ==
    ASSUME NEW c, NEW sc, NEW items, NEW said, Shows(c, sc, FALSE, items, said)
    PROVE  Shows(c, Created(sc), TRUE, items, said) /\ SameButBuffer(sc, Created(sc))
<1> HIDE DEF ResponseEvents
<1>1. sc \in Responders /\ sc.buffer \in Seq(ResponseEvents) /\ ~sc.sentDone
  BY DEF Shows, Responders
<1>2. PICK e : e = [type |-> "response.created"]
  OBVIOUS
<1>3. e \in ResponseEvents
  BY <1>2, OthersMade DEF Unheard
<1>4. PICK sd : sd = Created(sc)
  OBVIOUS
<1>5. SameButBuffer(sc, sd) /\ sd.buffer = Append(sc.buffer, e)
  BY <1>1, <1>2, <1>3, <1>4, EmitIs DEF Created, emit
<1>6. At(c, sc.buffer, FALSE, items, sc.text)
  BY DEF Shows
<1>7. At(c, sd.buffer, TRUE, items, sd.text)
  BY <1>1, <1>2, <1>5, <1>6, AtBegun DEF SameButBuffer
<1>8. Base(sd) = Base(sc) /\ SameMessage(sc, sd)
  BY <1>5 DEF SameButBuffer, Base, SameMessage
<1>9. MessageShown(sd, items)
  BY <1>8, SameMessageShown DEF Shows
<1>10. CallsShown(sd.calls, Base(sd), items, said)
  BY <1>5, <1>8 DEF Shows, SameButBuffer
<1>11. sd.reserved /\ ~sd.started => said = <<>>
  BY <1>5 DEF Shows, SameButBuffer
<1>12. sd \in Responders /\ ~sd.sentDone
  BY <1>1, <1>5 DEF SameButBuffer
<1> QED BY <1>4, <1>5, <1>7, <1>9, <1>10, <1>11, <1>12 DEF Shows

\* The calls the converter holds: the blocks that are calls, the last of them
\* perhaps open.
OpenCall(sc, call, body) ==
  ~call.completed /\ call.index + 1 = sc.next /\ (call.placeholder <=> body = <<Empty>>)

BlockCalls(sc, s, said) ==
  /\ sc.next = Len(said) + (IF sc.reserved THEN 1 ELSE 0)
  /\ \A k \in DOMAIN sc.calls : k < Len(s) /\ (sc.calls[k].completed \/ (OpenIn(s) /\ k = Len(s) - 1))
  /\ OpenIn(s) => ((Len(s) - 1 \in DOMAIN sc.calls) <=> Last(s).type = "tool")
  /\ OpenIn(s) /\ Last(s).type = "tool" => OpenCall(sc, sc.calls[Len(s) - 1], Last(s).body)

AnthropicShows(c, sc, src, s) ==
  /\ \E items : Shows(c, sc, src # "fresh", items, AnswerOf(s).calls)
  /\ src # "done" => (sc.reserved => sc.started)
  /\ sc.done => AnswerOf(s).calls # <<>>
  /\ BlockCalls(sc, s, AnswerOf(s).calls)

LEMMA StartedShows ==
    ASSUME NEW c, NEW sc, NEW s, AnthropicShows(c, sc, "fresh", s),
           NEW e, e = [type |-> "message_start", usage |-> [input |-> 3, output |-> 1]]
    PROVE  AnthropicShows(c, ResponsesFromAnthropic(sc, e), "blocks", s)
<1> HIDE DEF ResponseEvents
<1>1. PICK said : said = AnswerOf(s).calls
  OBVIOUS
<1>2. PICK items : Shows(c, sc, FALSE, items, said)
  BY <1>1 DEF AnthropicShows
<1>3. sc \in Responders /\ sc.usage \in Usages /\ ~sc.sentDone
  BY <1>2 DEF Shows, Responders
<1>4. e.type = "message_start" /\ e.usage \in Usages
  BY DEF Usages
<1>5. PICK usage \in Usages : usage = mergeAnthropicUsage(sc.usage, e.usage)
  BY <1>3, <1>4, MergedUsage
<1>6. PICK sf : sf = [sc EXCEPT !.usage = usage]
  OBVIOUS
<1>7. /\ sf \in Responders /\ sf.buffer = sc.buffer /\ sf.calls = sc.calls /\ sf.next = sc.next
      /\ sf.reserved = sc.reserved /\ sf.started = sc.started /\ sf.done = sc.done
      /\ sf.text = sc.text /\ ~sf.sentDone
  BY <1>3, <1>6, UsageTurns
<1>8. Reserves(sc, sf)
  BY <1>7 DEF Reserves
<1>9. Shows(c, sf, FALSE, items, said)
  BY <1>2, <1>7, <1>8, ReserveShows
<1>10. PICK sd : sd = Created(sf)
  OBVIOUS
<1>11. Shows(c, sd, TRUE, items, said) /\ SameButBuffer(sf, sd)
  BY <1>9, <1>10, BegunShows
<1>12. ResponsesFromAnthropic(sc, e) = sd
  BY <1>4, <1>5, <1>6, <1>10 DEF ResponsesFromAnthropic
<1>13. /\ sd.calls = sc.calls /\ sd.next = sc.next /\ sd.reserved = sc.reserved /\ sd.started = sc.started
       /\ sd.done = sc.done
  BY <1>7, <1>11 DEF SameButBuffer
<1>14. BlockCalls(sd, s, said)
  BY <1>1, <1>13 DEF AnthropicShows, BlockCalls, OpenCall
<1>15. (sd.reserved => sd.started) /\ (sd.done => said # <<>>)
  BY <1>1, <1>13 DEF AnthropicShows
<1>16. AnthropicShows(c, sd, "blocks", s)
  BY <1>1, <1>11, <1>14, <1>15 DEF AnthropicShows
<1> QED BY <1>12, <1>16

\* A block of text or thinking begins.
LEMMA TextOpensShows ==
    ASSUME NEW c, NEW sc, NEW s, AnthropicShows(c, sc, "blocks", s), ~OpenIn(s),
           NEW type \in BlockTypes, type # "tool", NEW id, NEW r, Opens(s, r, type, id, <<>>),
           NEW e, e = [type |-> "content_block_start", index |-> Len(s), block |-> type, id |-> id, input |-> <<>>]
    PROVE  AnthropicShows(c, ResponsesFromAnthropic(sc, e), "blocks", r)
<1>1. ResponsesFromAnthropic(sc, e) = sc
  BY DEF ResponsesFromAnthropic, ResponsesBlockStart
<1>2. PICK a \in Answers : a = AnswerOf(s)
  BY DEF Opens
<1>3. id \in Nat /\ <<>> \in Bodies /\ AnswerOf(r) = Said(a, Block(type, id, <<>>))
  BY <1>2, CatEmpty DEF Opens, Bodies
<1>3a. Said(a, Block(type, id, <<>>)).calls = (IF type = "tool" THEN Append(a.calls, [id |-> id, body |-> <<>>]) ELSE a.calls)
  BY <1>3, SaidBlock
<1>4. AnswerOf(r).calls = AnswerOf(s).calls
  BY <1>2, <1>3, <1>3a
<1>5. PICK said : said = AnswerOf(s).calls
  OBVIOUS
<1>6. /\ Len(s) \in Nat /\ Len(r) = Len(s) + 1 /\ OpenIn(r) /\ Last(r).type = type
      /\ BlockCalls(sc, s, said)
  BY <1>5 DEF Opens, AnthropicShows
<1>7. BlockCalls(sc, r, said)
  <2>1. \A k \in DOMAIN sc.calls : k < Len(s) /\ sc.calls[k].completed
    BY <1>6 DEF BlockCalls
  <2>2. DOMAIN sc.calls \subseteq Nat
    BY PartialFacts DEF AnthropicShows, Shows, Responders
  <2>3. \A k \in DOMAIN sc.calls : k < Len(r) /\ k # Len(r) - 1
    BY <1>6, <2>1, <2>2
  <2> QED BY <1>6, <2>1, <2>3 DEF BlockCalls
<1> QED BY <1>1, <1>4, <1>5, <1>7 DEF AnthropicShows

\* A call begins, after the text.
LEMMA CallOpensShows ==
    ASSUME NEW c, NEW sc, NEW s, AnthropicShows(c, sc, "blocks", s), ~OpenIn(s),
           NEW id, NEW input \in Bodies, NEW r, Opens(s, r, "tool", id, input),
           NEW e, e = [type |-> "content_block_start", index |-> Len(s), block |-> "tool", id |-> id, input |-> input]
    PROVE  AnthropicShows(c, ResponsesFromAnthropic(sc, e), "blocks", r)
<1> HIDE DEF ResponseEvents
<1>1. PICK said : said = AnswerOf(s).calls
  OBVIOUS
<1>2. PICK items : Shows(c, sc, TRUE, items, said)
  BY <1>1 DEF AnthropicShows
<1>3. /\ sc \in Responders /\ ~sc.sentDone /\ sc.next \in Nat /\ (sc.reserved => sc.started)
      /\ sc.reserved \in BOOLEAN /\ sc.started \in BOOLEAN
  BY <1>2 DEF Shows, Responders, AnthropicShows
<1>4. /\ e.block = "tool" /\ e.index = Len(s) /\ e.index \in Nat /\ e.id = id /\ id \in Nat /\ id = Len(s) + 1
      /\ e.input = input /\ e.type = "content_block_start"
  BY DEF Opens
<1>5. PICK k \in Nat : k = Len(s)
  BY <1>4
<1>6. PICK call, sf : OpensCall(sc, k, id, input, call, sf) /\ ResponsesBlockStart(sc, e) = StartToolCall(sf, k)
  BY <1>3, <1>4, <1>5, BlockStartIs
<1>7. PICK before : before = EndAssistantText(sc)
  OBVIOUS
<1>8. /\ \E m : Shows(c, before, TRUE, m, said)
      /\ (before.started <=> sc.started) /\ (before.reserved <=> sc.reserved)
  BY <1>2, <1>3, <1>7, EndTextShows
<1>9. PICK m : Shows(c, before, TRUE, m, said)
  BY <1>8
<1>10. before.calls = sc.calls /\ before.next = sc.next
  BY <1>3, <1>7, EndTextPasses
<1>11. /\ call \in CallStates /\ call.index = sc.next /\ call.id = id /\ (call.placeholder <=> input = <<Empty>>)
       /\ call.arguments = (IF input = <<Empty>> THEN <<>> ELSE input) /\ ~call.started /\ ~call.completed
  BY <1>6 DEF OpensCall, BlockCallIs
<1>12. CallPut(before, k, call, sf) /\ sf.next = sc.next + 1
  BY <1>6, <1>7, <1>10 DEF OpensCall
<1>13. BlockCalls(sc, s, said)
  BY <1>1 DEF AnthropicShows
<1>14. k \notin DOMAIN before.calls /\ \A x \in DOMAIN sc.calls : x < k /\ sc.calls[x].completed
  BY <1>5, <1>10, <1>13 DEF BlockCalls
<1>15. said \in Seq(CallBodies) /\ Len(said) \in Nat
  BY <1>2 DEF Shows, CallsShown
<1>16. call.index = Base(before) + Len(said)
  <2>1. sc.reserved <=> sc.started
    BY <1>2, <1>3 DEF Shows, MessageShown
  <2> QED BY <1>8, <1>11, <1>13, <1>15, <2>1 DEF BlockCalls, Base
<1>17. PICK w : w = [id |-> id, body |-> input]
  OBVIOUS
<1>18. w \in CallBodies /\ w.id = id /\ w.body = input
  BY <1>4, <1>17 DEF CallBodies
<1>19. w.body = ToolCallArguments(call) /\ (call.placeholder => call.arguments = <<>>) /\ call.id # NoId /\ w.id = call.id
  <2>1. call.id # NoId
    BY <1>4, <1>11 DEF NoId, Opens
  <2>2. w.body = ToolCallArguments(call)
    BY <1>11, <1>18 DEF ToolCallArguments
  <2> QED BY <1>11, <1>18, <2>1, <2>2
<1>20. PICK sd : sd = StartToolCall(sf, k)
  OBVIOUS
<1>21. before.reserved => before.started
  BY <1>3, <1>8
<1>22. PICK v : v = Append(said, w)
  OBVIOUS
<1>23. AddsCall(c, before, sf, sd, k, call, v)
  <2>1. MayAdd(before, said, k, call, sf, w)
    BY <1>11, <1>12, <1>14, <1>16, <1>18, <1>19 DEF MayAdd
  <2> QED BY <1>9, <1>20, <1>21, <1>22, <2>1, NewCallShows
<1>23a. /\ \E n : Shows(c, sd, TRUE, n, v)
        /\ SameMessage(before, sd) /\ sd.next = sf.next
  BY <1>23 DEF AddsCall
<1>24. PICK put \in CallStates : PutIs(CallStates, before.calls, k, put, sd.calls) /\ put = [call EXCEPT !.started = TRUE]
  BY <1>23 DEF AddsCall
<1>25. put.index = call.index /\ (put.placeholder <=> call.placeholder) /\ ~put.completed
  BY <1>11, <1>24 DEF CallStates
<1>26. AnswerOf(r).calls = v
  <2>1. PICK a \in Answers : a = AnswerOf(s)
    BY DEF Opens
  <2>2. AnswerOf(r) = Said(a, Block("tool", id, input))
    BY <2>1 DEF Opens
  <2> QED BY <1>1, <1>4, <1>17, <1>22, <2>1, <2>2, SaidTool
<1>27. Len(v) = Len(said) + 1 /\ v # <<>>
  BY <1>15, <1>18, <1>22
<1>28. /\ Len(r) = k + 1 /\ OpenIn(r) /\ Last(r).type = "tool" /\ Last(r).body = input
  BY <1>5 DEF Opens
<1>29. BlockCalls(sd, r, v)
  <2>1. sd.next = Len(v) + (IF sd.reserved THEN 1 ELSE 0)
    BY <1>3, <1>8, <1>12, <1>13, <1>15, <1>23a, <1>27 DEF BlockCalls, SameMessage
  <2>2. DOMAIN sd.calls = DOMAIN sc.calls \cup {k} /\ sd.calls[k] = put /\ \A x \in DOMAIN sc.calls : x # k => sd.calls[x] = sc.calls[x]
    BY <1>10, <1>24 DEF PutIs
  <2>3. DOMAIN sc.calls \subseteq Nat
    BY <1>3, PartialFacts DEF Responders
  <2>4. ASSUME NEW x \in DOMAIN sd.calls PROVE x < Len(r) /\ (sd.calls[x].completed \/ (OpenIn(r) /\ x = Len(r) - 1))
    <3>1. CASE x = k
      BY <1>28, <3>1
    <3>2. CASE x # k
      <4>1. x \in DOMAIN sc.calls /\ x \in Nat /\ x < k
        BY <1>14, <2>2, <2>3, <3>2
      <4> QED BY <1>14, <1>28, <2>2, <3>2, <4>1
    <3> QED BY <3>1, <3>2
  <2>5. Len(r) - 1 = k
    BY <1>28
  <2>6. OpenCall(sd, put, input)
    BY <1>3, <1>11, <1>12, <1>23a, <1>25 DEF OpenCall
  <2> QED BY <1>28, <2>1, <2>2, <2>4, <2>5, <2>6 DEF BlockCalls
<1>30. sd.reserved => sd.started
  BY <1>21, <1>23a DEF SameMessage
<1>31. AnthropicShows(c, sd, "blocks", r)
  BY <1>23a, <1>26, <1>27, <1>29, <1>30 DEF AnthropicShows
<1>32. ResponsesFromAnthropic(sc, e) = sd
  BY <1>4, <1>6, <1>20 DEF ResponsesFromAnthropic
<1> QED BY <1>31, <1>32

\* What changes in the calls of an answer when its last block changes.
LastCallTurns(s, r, z, body) ==
  /\ z.type # "tool" => AnswerOf(r).calls = AnswerOf(s).calls
  /\ z.type = "tool" =>
       \E before \in Seq(CallBodies) : /\ AnswerOf(s).calls = Append(before, [id |-> z.id, body |-> z.body])
                                      /\ AnswerOf(r).calls = Append(before, [id |-> z.id, body |-> body])

LEMMA LastCall ==
    ASSUME NEW d, NEW s, NEW r, NEW z, NEW body, NEW open, Turns(d, s, r, z, body, open)
    PROVE  LastCallTurns(s, r, z, body)
<1>1. PICK a, type, id, was : a = AnswerOf(Front(s)) /\ type = z.type /\ id = z.id /\ was = z.body
  OBVIOUS
<1>2. /\ a \in Answers /\ type \in BlockTypes /\ id \in Nat /\ was \in Bodies /\ body \in Bodies
      /\ AnswerOf(s) = Said(a, Block(type, id, was)) /\ AnswerOf(r) = Said(a, Block(type, id, body))
  BY <1>1 DEF Turns
<1>3. a \in Answers /\ type \in BlockTypes /\ id \in Nat /\ was \in Bodies /\ body \in Bodies
  BY <1>2
<1>4. /\ Said(a, Block(type, id, was)).calls = IF type = "tool" THEN Append(a.calls, [id |-> id, body |-> was]) ELSE a.calls
      /\ Said(a, Block(type, id, body)).calls = IF type = "tool" THEN Append(a.calls, [id |-> id, body |-> body]) ELSE a.calls
  BY <1>3, SaidBlock
<1>5. a.calls \in Seq(CallBodies)
  BY <1>3 DEF Answers
<1> QED BY <1>1, <1>2, <1>4, <1>5 DEF LastCallTurns

LastBlockTurns(s, r, z, body) ==
  /\ Len(s) \in Nat /\ Len(s) > 0 /\ Len(r) = Len(s) /\ (OpenIn(s) <=> z.open)
  /\ Last(s).type = z.type /\ Last(s).body = z.body /\ Last(r).type = z.type /\ Last(r).body = body
  /\ z.body \in Bodies /\ body \in Bodies /\ z.type \in BlockTypes /\ z.id \in Nat

LEMMA BlockTurns ==
    ASSUME NEW d, NEW s, NEW r, NEW z, NEW body, NEW open, Turns(d, s, r, z, body, open)
    PROVE  LastBlockTurns(s, r, z, body) /\ (OpenIn(r) <=> open)
<1>1. s # <<>>
  <2>1. Len(s) > 0 /\ Len(<<>>) = 0
    BY DEF Turns
  <2> QED BY <2>1
<1> QED BY <1>1 DEF Turns, OpenIn, LastBlockTurns

\* Thinking goes on: nothing is shown of it.
LEMMA ThoughtShows ==
    ASSUME NEW c, NEW sc, NEW s, AnthropicShows(c, sc, "blocks", s), OpenIn(s),
           NEW z, z.type = "thinking", NEW body, NEW open, open, NEW r, Turns("anthropic", s, r, z, body, open),
           NEW e, e.type = "content_block_delta", e.block = z.type
    PROVE  AnthropicShows(c, ResponsesFromAnthropic(sc, e), "blocks", r)
<1>1. ResponsesFromAnthropic(sc, e) = sc
  BY DEF ResponsesFromAnthropic, ResponsesBlockDelta
<1>1a. LastBlockTurns(s, r, z, body) /\ LastCallTurns(s, r, z, body) /\ OpenIn(r)
  BY BlockTurns, LastCall
<1>2. AnswerOf(r).calls = AnswerOf(s).calls
  BY <1>1a DEF LastCallTurns
<1>3. PICK said : said = AnswerOf(s).calls
  OBVIOUS
<1>4. Len(r) = Len(s) /\ OpenIn(r) /\ Last(s).type = z.type /\ Last(r).type = z.type /\ z.type # "tool"
  BY <1>1a DEF LastBlockTurns
<1>5. BlockCalls(sc, s, said)
  BY <1>3 DEF AnthropicShows
<1>6. BlockCalls(sc, r, said)
  BY <1>4, <1>5 DEF BlockCalls
<1> QED BY <1>1, <1>2, <1>3, <1>6 DEF AnthropicShows

\* Text goes on, in an answer without calls.
LEMMA TextGoesOnShows ==
    ASSUME NEW c, NEW sc, NEW s, AnthropicShows(c, sc, "blocks", s), OpenIn(s), AnswerOf(s).calls = <<>>,
           NEW z, z.type = "text", NEW body, NEW open, open, NEW r, Turns("anthropic", s, r, z, body, open),
           NEW e, e.type = "content_block_delta", e.block = z.type, e.piece \in Bodies
    PROVE  AnthropicShows(c, ResponsesFromAnthropic(sc, e), "blocks", r)
<1> HIDE DEF ResponseEvents
<1>1. PICK items : Shows(c, sc, TRUE, items, <<>>)
  BY DEF AnthropicShows
<1>2. PICK piece \in Bodies : piece = e.piece
  OBVIOUS
<1>3. PICK sf : sf = reserveAssistantMessageOutput(sc)
  OBVIOUS
<1>4. ResponsesFromAnthropic(sc, e) = AssistantText(sf, piece)
  BY <1>2, <1>3 DEF ResponsesFromAnthropic, ResponsesBlockDelta
<1>5. /\ sc \in Responders /\ ~sc.sentDone /\ sc.next \in Nat
      /\ sc.reserved \in BOOLEAN /\ sc.started \in BOOLEAN /\ sc.done \in BOOLEAN
  BY <1>1 DEF Shows, Responders
<1>6. BlockCalls(sc, s, <<>>) /\ ~sc.done
  BY DEF AnthropicShows
<1>7. sc.next = (IF sc.reserved THEN 1 ELSE 0)
  <2>1. Len(<<>>) = 0
    OBVIOUS
  <2> QED BY <1>6, <2>1 DEF BlockCalls
<1>8. sf \in Responders /\ Reserves(sc, sf) /\ sf.reserved /\ sf.next = 1
  <2>1. CASE sc.reserved
    BY <1>3, <1>5, <1>7, <2>1 DEF reserveAssistantMessageOutput, Reserves
  <2>2. CASE ~sc.reserved
    <3>1. PICK sg : sg = [sc EXCEPT !.reserved = TRUE, !.next = @ + 1]
      OBVIOUS
    <3>2. MessageIs(sc, sg, TRUE, sc.started, sc.done) /\ sg.next = sc.next + 1
      BY <1>5, <3>1, MessageTurns
    <3>3. sf = sg
      BY <1>3, <2>2, <3>1 DEF reserveAssistantMessageOutput
    <3> QED BY <1>5, <1>7, <2>2, <3>2, <3>3 DEF MessageIs, Reserves
  <2> QED BY <2>1, <2>2
<1>9. Shows(c, sf, TRUE, items, <<>>) /\ ~sf.done /\ sf.calls = sc.calls
  <2>1. Shows(c, sf, TRUE, items, <<>>)
    BY <1>1, <1>8, ReserveShows
  <2> QED BY <1>6, <1>8, <2>1 DEF Reserves
<1>10. PICK sd : sd = AssistantText(sf, piece)
  OBVIOUS
<1>11. \E m : Shows(c, sd, TRUE, m, <<>>)
  BY <1>2, <1>8, <1>9, <1>10, TextShows
<1>12. sd.started /\ ~sd.done
  BY <1>2, <1>8, <1>9, <1>10, TextShows
<1>13. sd.calls = sc.calls /\ sd.next = 1 /\ sd.reserved
  <2>1. ~sf.sentDone
    BY <1>9 DEF Shows
  <2> QED BY <1>2, <1>8, <1>9, <1>10, <2>1, HeardText
<1>14. DOMAIN sc.calls = {}
  <2>1. PICK calls, base : calls = sc.calls /\ base = Base(sc)
    OBVIOUS
  <2>2. CallsShown(calls, base, items, <<>>)
    BY <1>1, <2>1 DEF Shows
  <2> QED BY <2>1, <2>2, NoneSaid
<1>14a. LastBlockTurns(s, r, z, body) /\ LastCallTurns(s, r, z, body) /\ OpenIn(r)
  BY BlockTurns, LastCall
<1>15. BlockCalls(sd, r, <<>>)
  <2>1. Last(r).type = "text"
    BY <1>14a DEF LastBlockTurns
  <2>2. Len(<<>>) = 0
    OBVIOUS
  <2> QED BY <1>13, <1>14, <2>1, <2>2 DEF BlockCalls
<1>16. AnswerOf(r).calls = <<>>
  BY <1>14a DEF LastCallTurns
<1>17. AnthropicShows(c, sd, "blocks", r)
  BY <1>11, <1>12, <1>15, <1>16 DEF AnthropicShows
<1> QED BY <1>4, <1>10, <1>17

\* The arguments of a call go on.
LEMMA CallGoesOnShows ==
    ASSUME NEW c, NEW sc, NEW s, AnthropicShows(c, sc, "blocks", s), OpenIn(s),
           NEW z, z.type = "tool", NEW piece \in Bodies, Continues(z, piece) # <<Empty>>,
           NEW open, open, NEW r, Turns("anthropic", s, r, z, Continues(z, piece), open),
           NEW e, e = [type |-> "content_block_delta", index |-> Len(s) - 1, block |-> z.type, piece |-> piece]
    PROVE  AnthropicShows(c, ResponsesFromAnthropic(sc, e), "blocks", r)
<1> HIDE DEF ResponseEvents
<1>1. PICK said : said = AnswerOf(s).calls
  OBVIOUS
<1>2. PICK items : Shows(c, sc, TRUE, items, said)
  BY <1>1 DEF AnthropicShows
<1>3. /\ sc \in Responders /\ ~sc.sentDone /\ sc.next \in Nat
      /\ sc.reserved \in BOOLEAN /\ sc.started \in BOOLEAN /\ (sc.reserved => sc.started) /\ Base(sc) \in {0, 1}
  BY <1>2 DEF Shows, Responders, AnthropicShows, Base
<1>4. BlockCalls(sc, s, said)
  BY <1>1 DEF AnthropicShows
<1>5. PICK body : body = Continues(z, piece)
  OBVIOUS
<1>6. Turns("anthropic", s, r, z, body, open) /\ body # <<Empty>>
  BY <1>5
<1>6a. LastBlockTurns(s, r, z, body) /\ LastCallTurns(s, r, z, body) /\ OpenIn(r)
  BY <1>6, BlockTurns, LastCall
<1>7. /\ Len(s) \in Nat /\ Len(s) > 0 /\ Len(r) = Len(s) /\ OpenIn(r) /\ Last(s).type = "tool" /\ Last(s).body = z.body
      /\ Last(r).type = "tool" /\ Last(r).body = body /\ z.body \in Bodies /\ body \in Bodies
  BY <1>6, <1>6a DEF LastBlockTurns
<1>7a. PICK id, was : id = z.id /\ was = z.body
  OBVIOUS
<1>7b. PICK before \in Seq(CallBodies) : /\ said = Append(before, [id |-> id, body |-> was])
                                        /\ AnswerOf(r).calls = Append(before, [id |-> id, body |-> body])
  BY <1>1, <1>6a, <1>7a DEF LastCallTurns
<1>8. /\ id = z.id /\ was = z.body /\ before \in Seq(CallBodies)
      /\ said = Append(before, [id |-> id, body |-> was])
      /\ AnswerOf(r).calls = Append(before, [id |-> id, body |-> body])
  BY <1>7a, <1>7b
<1>9. id \in Nat /\ was \in Bodies
  BY <1>6, <1>8 DEF Turns
<1>10. PICK w \in CallBodies : w = [id |-> id, body |-> was]
  BY <1>9 DEF CallBodies
<1>10a. w.id = id /\ w.body = was
  BY <1>10
<1>11. PICK y \in CallBodies : y = [id |-> id, body |-> body]
  BY <1>7, <1>9 DEF CallBodies
<1>11a. y.id = id /\ y.body = body
  BY <1>11
<1>12. PICK v : v = Append(before, y)
  OBVIOUS
<1>13. said = Append(before, w) /\ AnswerOf(r).calls = v
  BY <1>8, <1>10, <1>11, <1>12
<1>14. PICK j \in Nat : j = Len(before) + 1
  BY <1>8
<1>15. /\ Len(said) = j /\ Len(v) = j /\ j \in 1..Len(said) /\ said[j] = w /\ v[j] = y /\ v \in Seq(CallBodies)
       /\ said \in Seq(CallBodies) /\ \A x \in 1..Len(said) : x # j => v[x] = said[x]
  BY <1>8, <1>12, <1>13, <1>14
<1>16. PICK k \in Nat : k = Len(s) - 1
  <2>1. Len(s) - 1 \in Nat
    BY <1>7
  <2> QED BY Zenon, <2>1
<1>17. k \in DOMAIN sc.calls /\ OpenCall(sc, sc.calls[k], was)
  BY <1>4, <1>7, <1>8, <1>16 DEF BlockCalls
<1>18. PICK old : old = sc.calls[k]
  OBVIOUS
<1>19. old \in CallStates /\ ~old.completed /\ old.index \in Nat /\ (old.placeholder <=> was = <<Empty>>) /\ old.index + 1 = sc.next
  <2>1. old \in CallStates
    BY <1>3, <1>17, <1>18, CallFacts
  <2> QED BY <1>17, <1>18, <2>1 DEF OpenCall, CallStates
<1>20. old.index + 1 = Base(sc) + j
  <2>1. sc.reserved <=> sc.started
    BY <1>2, <1>3 DEF Shows, MessageShown
  <2> QED BY <1>3, <1>4, <1>15, <1>19, <2>1 DEF BlockCalls, Base
<1>21. was = ToolCallArguments(old) /\ (old.placeholder => old.arguments = <<>>)
  <2>1. k \in DOMAIN sc.calls
    BY <1>17
  <2>2. PICK i \in 1..Len(said) : /\ sc.calls[k].index + 1 = Base(sc) + i
                                  /\ CallShown(items[Base(sc) + i], said[i], sc.calls[k])
    BY <1>2, <2>1, ShownCall
  <2>3. i = j
    BY <1>3, <1>15, <1>18, <1>19, <1>20, <2>2
  <2>4. CallShown(items[Base(sc) + j], w, old)
    BY <1>15, <1>18, <2>2, <2>3
  <2> QED BY <1>10a, <1>19, <2>4 DEF CallShown
<1>22. body = old.arguments \o piece
  <2>1. CASE was = <<Empty>>
    <3>1. old.arguments = <<>> /\ body = piece
      BY <1>5, <1>8, <1>19, <1>21, <2>1 DEF Continues
    <3> QED BY <3>1, CatEmpty
  <2>2. CASE was # <<Empty>>
    BY <1>5, <1>8, <1>19, <1>21, <2>2 DEF Continues, ToolCallArguments
  <2> QED BY <2>1, <2>2
<1>23. PICK call, sf : ContinuesCall(sc, k, piece, call, sf) /\ ResponsesBlockDelta(sc, e) = ArgumentsDelta(sf, k, piece)
  <2>1. e.block = "tool" /\ e.index = k /\ e.piece = piece /\ e.index \in DOMAIN sc.calls /\ e.piece \in Bodies
    BY <1>16, <1>17
  <2>2. \E call, sf : /\ ContinuesCall(sc, e.index, e.piece, call, sf)
                      /\ ResponsesBlockDelta(sc, e) = ArgumentsDelta(sf, e.index, e.piece)
    BY <1>3, <2>1, BlockDeltaIs
  <2> QED BY <2>1, <2>2
<1>24. PICK sd : sd = ArgumentsDelta(sf, k, piece)
  OBVIOUS
<1>25. call.arguments = body /\ call.index = old.index /\ ~call.placeholder /\ ~call.completed
  BY <1>18, <1>19, <1>22, <1>23 DEF ContinuesCall
<1>26. MoreSaid(said, j, call.arguments, v)
  BY <1>10a, <1>11a, <1>15, <1>25 DEF MoreSaid
<1>27. TurnsCall(c, sc, sd, k, call, v)
  <2>1. sc.calls[k].index + 1 = Base(sc) + j /\ ~sc.calls[k].completed
    BY <1>18, <1>19, <1>20
  <2>2. ContinuesCall(sc, k, piece, call, sf) /\ k \in DOMAIN sc.calls /\ j \in 1..Len(said)
    BY <1>15, <1>17, <1>23
  <2> QED BY <1>2, <1>24, <1>26, <2>1, <2>2, MoreOfCallShows
<1>28. /\ \E m : Shows(c, sd, TRUE, m, v)
       /\ SameMessage(sc, sd) /\ sd.next = sc.next /\ PutIs(CallStates, sc.calls, k, call, sd.calls)
  BY <1>27 DEF TurnsCall
<1>29. BlockCalls(sd, r, v)
  <2>1. DOMAIN sd.calls = DOMAIN sc.calls /\ sd.calls[k] = call /\ \A x \in DOMAIN sc.calls : x # k => sd.calls[x] = sc.calls[x]
    BY <1>17, <1>28 DEF PutIs
  <2>2. sd.next = Len(v) + (IF sd.reserved THEN 1 ELSE 0)
    BY <1>3, <1>4, <1>15, <1>28 DEF BlockCalls, SameMessage
  <2>3. OpenCall(sd, call, body)
    BY <1>6, <1>19, <1>25, <1>28 DEF OpenCall
  <2>4. \A x \in DOMAIN sd.calls : x < Len(r) /\ (sd.calls[x].completed \/ (OpenIn(r) /\ x = Len(r) - 1))
    BY <1>4, <1>7, <1>16, <2>1 DEF BlockCalls
  <2> QED BY <1>7, <1>16, <1>17, <2>1, <2>2, <2>3, <2>4 DEF BlockCalls
<1>30. (sd.reserved => sd.started) /\ v # <<>>
  <2>1. v # <<>>
    BY <1>8, <1>12
  <2> QED BY <1>3, <1>28, <2>1 DEF SameMessage
<1>31. AnthropicShows(c, sd, "blocks", r)
  BY <1>13, <1>28, <1>29, <1>30 DEF AnthropicShows
<1>32. ResponsesFromAnthropic(sc, e) = sd
  BY <1>23, <1>24 DEF ResponsesFromAnthropic
<1> QED BY <1>31, <1>32

\* A block ends, and with it its call.
LEMMA BlockEndsShows ==
    ASSUME NEW c, NEW sc, NEW s, AnthropicShows(c, sc, "blocks", s), OpenIn(s),
           NEW z, NEW open, ~open, NEW r, Turns("anthropic", s, r, z, z.body, open),
           NEW e, e = [type |-> "content_block_stop", index |-> Len(s) - 1]
    PROVE  AnthropicShows(c, ResponsesFromAnthropic(sc, e), "blocks", r)
<1> HIDE DEF ResponseEvents
<1>1. PICK said : said = AnswerOf(s).calls
  OBVIOUS
<1>2. PICK items : Shows(c, sc, TRUE, items, said)
  BY <1>1 DEF AnthropicShows
<1>3. PICK body : body = z.body
  OBVIOUS
<1>4. LastBlockTurns(s, r, z, body) /\ ~OpenIn(r)
  BY <1>3, BlockTurns
<1>5. AnswerOf(r).calls = said
  BY <1>1 DEF Turns
<1>6. BlockCalls(sc, s, said) /\ (sc.reserved => sc.started) /\ (sc.done => said # <<>>)
  BY <1>1 DEF AnthropicShows
<1>7. Len(s) \in Nat /\ Len(s) > 0 /\ Len(r) = Len(s)
  BY <1>4 DEF LastBlockTurns
<1>8. PICK k \in Nat : k = Len(s) - 1
  BY <1>7
<1>9. e.type = "content_block_stop" /\ e.index = k
  BY <1>8
<1>10. CASE k \notin DOMAIN sc.calls
  <2>1. ResponsesFromAnthropic(sc, e) = sc
    BY <1>9, <1>10 DEF ResponsesFromAnthropic, ResponsesBlockStop
  <2>2. \A x \in DOMAIN sc.calls : x < Len(r) /\ sc.calls[x].completed
    BY <1>6, <1>7, <1>8, <1>10 DEF BlockCalls
  <2>3. BlockCalls(sc, r, said)
    BY <1>4, <1>6, <2>2 DEF BlockCalls
  <2> QED BY <1>2, <1>5, <1>6, <2>1, <2>3 DEF AnthropicShows
<1>11. CASE k \in DOMAIN sc.calls
  <2>1. PICK sd : sd = CompleteToolCall(sc, k)
    OBVIOUS
  <2>2. ResponsesFromAnthropic(sc, e) = sd
    BY <1>9, <1>11, <2>1 DEF ResponsesFromAnthropic, ResponsesBlockStop
  <2>3. CompletesCall(c, sc, sd, TRUE, k, said)
    BY <1>2, <1>11, <2>1, CompleteCallShows
  <2>4. /\ \E m : Shows(c, sd, TRUE, m, said)
        /\ SameMessage(sc, sd) /\ sd.next = sc.next /\ KeepsCalls(sc, sd)
        /\ sd.calls[k].completed
        /\ \A x \in DOMAIN sc.calls : sc.calls[x].completed => sd.calls[x].completed
    BY <2>3 DEF CompletesCall
  <2>5. \A x \in DOMAIN sd.calls : x < Len(r) /\ sd.calls[x].completed
    BY <1>6, <1>7, <1>8, <2>4 DEF BlockCalls, KeepsCalls
  <2>6. sd.next = Len(said) + (IF sd.reserved THEN 1 ELSE 0)
    BY <1>6, <2>4 DEF BlockCalls, SameMessage
  <2>7. BlockCalls(sd, r, said)
    BY <1>4, <2>5, <2>6 DEF BlockCalls
  <2>8. (sd.reserved => sd.started) /\ (sd.done => said # <<>>)
    BY <1>6, <2>4 DEF SameMessage
  <2>9. AnthropicShows(c, sd, "blocks", r)
    BY <1>5, <2>4, <2>7, <2>8 DEF AnthropicShows
  <2> QED BY <2>2, <2>9
<1> QED BY <1>10, <1>11

\* The reason of the stop comes, and the usage.
LEMMA StopShows ==
    ASSUME NEW c, NEW sc, NEW s, AnthropicShows(c, sc, "blocks", s), ~OpenIn(s),
           NEW reason, NEW e, e = [type |-> "message_delta", stop |-> reason, usage |-> [input |-> 0, output |-> 2]]
    PROVE  AnthropicShows(c, ResponsesFromAnthropic(sc, e), "done", s)
<1> HIDE DEF ResponseEvents
<1>1. PICK said : said = AnswerOf(s).calls
  OBVIOUS
<1>2. PICK items : Shows(c, sc, TRUE, items, said)
  BY <1>1 DEF AnthropicShows
<1>3. sc \in Responders /\ sc.usage \in Usages /\ ~sc.sentDone
  BY <1>2 DEF Shows, Responders
<1>4. e.type = "message_delta" /\ e.usage \in Usages
  BY DEF Usages
<1>5. PICK usage \in Usages : usage = mergeAnthropicUsage(sc.usage, e.usage)
  BY <1>3, <1>4, MergedUsage
<1>6. PICK sf : sf = [sc EXCEPT !.usage = usage]
  OBVIOUS
<1>7. /\ sf \in Responders /\ sf.buffer = sc.buffer /\ sf.calls = sc.calls /\ sf.next = sc.next
      /\ sf.reserved = sc.reserved /\ sf.started = sc.started /\ sf.done = sc.done
      /\ sf.text = sc.text /\ ~sf.sentDone
  BY <1>3, <1>6, UsageTurns
<1>8. PICK sd : sd = IF sc.calls = <<>> THEN reserveAssistantMessageOutput(sf) ELSE sf
  OBVIOUS
<1>9. ResponsesFromAnthropic(sc, e) = sd
  BY <1>4, <1>5, <1>6, <1>8 DEF ResponsesFromAnthropic, ResponsesMessageDelta
<1>10. BlockCalls(sc, s, said) /\ (sc.reserved => sc.started) /\ (sc.done => said # <<>>)
  BY <1>1 DEF AnthropicShows
<1>11. /\ Reserves(sc, sd) /\ sd.next = sc.next + (IF sd.reserved /\ ~sc.reserved THEN 1 ELSE 0)
       /\ (sd.reserved => sc.reserved \/ sc.calls = <<>>)
  <2>0. sc.next \in Nat
    BY <1>3 DEF Responders
  <2>1. CASE sc.calls # <<>> \/ sc.reserved
    <3>1. sd = sf
      BY <1>7, <1>8, <2>1 DEF reserveAssistantMessageOutput
    <3>2. Reserves(sc, sf)
      BY <1>7 DEF Reserves
    <3> QED BY <1>7, <2>0, <3>1, <3>2
  <2>2. CASE sc.calls = <<>> /\ ~sc.reserved
    <3>1. PICK sg : sg = [sf EXCEPT !.reserved = TRUE, !.next = @ + 1]
      OBVIOUS
    <3>2. MessageIs(sf, sg, TRUE, sf.started, sf.done) /\ sg.next = sf.next + 1
      BY <1>7, <3>1, MessageTurns
    <3>3. sd = sg
      BY <1>7, <1>8, <2>2, <3>1 DEF reserveAssistantMessageOutput
    <3>4. sg.reserved /\ Reserves(sc, sg)
      BY <1>7, <2>2, <3>2 DEF MessageIs, Reserves
    <3> QED BY <1>7, <2>0, <2>2, <3>2, <3>3, <3>4
  <2> QED BY <2>1, <2>2
<1>12. sc.calls = <<>> => said = <<>>
  <2>1. PICK calls, base : calls = sc.calls /\ base = Base(sc)
    OBVIOUS
  <2>2. CallsShown(calls, base, items, said)
    BY <1>2, <2>1 DEF Shows
  <2>3. calls = <<>> => DOMAIN calls = {}
    BY EmptyPartial
  <2> QED BY <2>1, <2>2, <2>3, NoneSaid
<1>13. Shows(c, sd, TRUE, items, said)
  BY <1>2, <1>11, <1>12, ReserveShows
<1>14. sd.next = Len(said) + (IF sd.reserved THEN 1 ELSE 0)
  <2>1. Len(said) \in Nat
    BY <1>2 DEF Shows, CallsShown
  <2>2. /\ sc.next = Len(said) + (IF sc.reserved THEN 1 ELSE 0) /\ (sc.reserved => sd.reserved)
        /\ sd.next = sc.next + (IF sd.reserved /\ ~sc.reserved THEN 1 ELSE 0)
    BY <1>10, <1>11 DEF BlockCalls, Reserves
  <2>3. CASE sc.reserved
    BY <2>1, <2>2, <2>3
  <2>4. CASE ~sc.reserved
    BY <2>1, <2>2, <2>4
  <2> QED BY <2>3, <2>4
<1>15. sd.calls = sc.calls /\ (sd.done => said # <<>>)
  BY <1>10, <1>11 DEF Reserves
<1>16. BlockCalls(sd, s, said)
  BY <1>10, <1>14, <1>15 DEF BlockCalls
<1>17. AnthropicShows(c, sd, "done", s)
  BY <1>1, <1>13, <1>15, <1>16 DEF AnthropicShows
<1> QED BY <1>9, <1>17

\* A call that is open is the last.
LEMMA OpenIsLast ==
    ASSUME NEW c, NEW sc, NEW src, NEW s, AnthropicShows(c, sc, src, s), OpenIn(s) => src # "done",
           NEW inCall, OpenIn(s) /\ Last(s).type = "tool" => inCall
    PROVE  ClosedOrLast(sc.calls, inCall)
<1>1. PICK said, begun : said = AnswerOf(s).calls /\ begun = (src # "fresh")
  OBVIOUS
<1>2. PICK items : Shows(c, sc, begun, items, said)
  BY <1>1 DEF AnthropicShows
<1>3. BlockCalls(sc, s, said) /\ (src # "done" => (sc.reserved => sc.started))
  BY <1>1 DEF AnthropicShows
<1>4. ASSUME NEW k \in DOMAIN sc.calls, ~sc.calls[k].completed, NEW l \in DOMAIN sc.calls
      PROVE  inCall /\ sc.calls[l].index <= sc.calls[k].index
  <2>1. OpenIn(s) /\ k = Len(s) - 1 /\ Last(s).type = "tool"
    BY <1>3, <1>4 DEF BlockCalls
  <2>2. sc.calls[k].index + 1 = sc.next
    BY <1>3, <2>1 DEF BlockCalls, OpenCall
  <2>3. sc.next = Len(said) + (IF sc.reserved THEN 1 ELSE 0)
    BY <1>3 DEF BlockCalls
  <2>4. sc.reserved <=> sc.started
    BY <1>2, <1>3, <2>1 DEF Shows, MessageShown
  <2>5. sc.next = Base(sc) + Len(said)
    <3>1. Len(said) \in Nat
      BY <1>2 DEF Shows, CallsShown
    <3> QED BY <2>3, <2>4, <3>1 DEF Base
  <2>6. /\ sc.calls[k].index \in Nat /\ sc.calls[l].index \in Nat
        /\ \E j \in 1..Len(said) : sc.calls[l].index + 1 = Base(sc) + j
    BY <1>2, ShownCall
  <2>7. Len(said) \in Nat /\ Base(sc) \in {0, 1}
    BY <1>2 DEF Shows, CallsShown, Base
  <2>8. sc.calls[l].index <= sc.calls[k].index
    BY <2>2, <2>5, <2>6, <2>7
  <2> QED BY <2>1, <2>8
<1> QED BY <1>4 DEF ClosedOrLast

\* The end of the provider's stream.
LEMMA AnthropicEndShows ==
    ASSUME NEW c, NEW sc, NEW src, NEW s, AnthropicShows(c, sc, src, s), sc.text = AnswerOf(s).text,
           NEW whole, whole => ~OpenIn(s), OpenIn(s) => src # "done",
           NEW early, src # "fresh" \/ early, NEW inCall, OpenIn(s) /\ Last(s).type = "tool" => inCall,
           NEW e, e.type = "EOF"
    PROVE  Finishes(c, ResponsesFromAnthropic(sc, e), whole, AnswerOf(s), early, inCall)
<1> HIDE DEF ResponseEvents
<1>1. PICK said, begun : said = AnswerOf(s).calls /\ begun = (src # "fresh")
  OBVIOUS
<1>2. PICK items : Shows(c, sc, begun, items, said)
  BY <1>1 DEF AnthropicShows
<1>3. sc \in Responders /\ ~sc.sentDone
  BY <1>2 DEF Shows
<1>4. PICK sd : sd = CompleteAssistantOutput(sc)
  OBVIOUS
<1>5. \E m : Shows(c, sd, begun, m, said)
  BY <1>2, <1>4, CompleteShows
<1>6. sd.reserved => sd.done
  BY <1>2, <1>4, CompleteShows
<1>7. sd.calls = sc.calls /\ Passes(sc, sd)
  BY <1>3, <1>4, CompletePasses
<1>8. sd.text = sc.text
  BY <1>7 DEF Passes
<1>9. whole => \A k \in DOMAIN sd.calls : sd.calls[k].completed
  BY <1>1, <1>7 DEF AnthropicShows, BlockCalls
<1>10. PICK m : Shows(c, sd, begun, m, said)
  BY <1>5
<1>11. PICK answer : answer = AnswerOf(s)
  OBVIOUS
<1>12. answer.calls = said /\ answer.text = sd.text
  BY <1>1, <1>8, <1>11
<1>15. ClosedOrLast(sd.calls, inCall)
  BY <1>7, OpenIsLast
<1>16. begun \/ early
  BY <1>1
<1>13. Finishes(c, Completed(sd), whole, answer, early, inCall)
  BY <1>6, <1>9, <1>10, <1>12, <1>15, <1>16, CompletedFinishes
<1>14. ResponsesFromAnthropic(sc, e) = Completed(sd)
  BY <1>4 DEF ResponsesFromAnthropic
<1> QED BY <1>11, <1>13, <1>14

TextAfter(s) == \E m, n \in DOMAIN s : m < n /\ s[m].type = "tool" /\ s[n].type = "text"

\* Where no text follows a call, an answer that ends with text has no call.
LEMMA NoCallsBefore ==
    ASSUME NEW s \in Seq(SentBlocks), s # <<>>, Last(s).type = "text", ~TextAfter(s)
    PROVE  AnswerOf(s).calls = <<>>
<1>1. SUFFICES ASSUME AnswerOf(s).calls # <<>> PROVE FALSE
  OBVIOUS
<1>2. PICK n \in DOMAIN s : s[n].type = "tool"
  BY <1>1, AnswerFacts
<1>3. Len(s) \in Nat /\ Len(s) > 0 /\ DOMAIN s = 1..Len(s) /\ s[Len(s)].type = "text"
  BY DEF Last
<1>4. n # Len(s)
  BY <1>2, <1>3
<1>5. n < Len(s) /\ Len(s) \in DOMAIN s
  BY <1>2, <1>3, <1>4
<1> QED BY <1>2, <1>3, <1>5 DEF TextAfter

\* One step of the provider.
LEMMA AnthropicShown ==
    ASSUME ProviderOk, dialect = "anthropic", endpoint = "responses", UNCHANGED <<dialect, endpoint>>, Anthropic,
           AnthropicShows(client, adapter, source, sent), ~TextAfter(sent')
    PROVE  AnthropicShows(client', adapter', source', sent')
<1>1. /\ pipe = "open" /\ UNCHANGED <<client, observed>>
      /\ \A e : Feed(e) => adapter' = ResponsesFromAnthropic(adapter, e)
  BY Sends DEF Feed, Adapted
<1>2. SentOk(sent, "anthropic")
  BY DEF ProviderOk
<1>3. PICK sc, c, s, r, src, srd :
        /\ sc = adapter /\ c = client /\ s = sent /\ r = sent' /\ src = source /\ srd = source'
  OBVIOUS
<1>4. AnthropicShows(c, sc, src, s) /\ ~TextAfter(r)
  BY <1>3
<1>5. CASE AnthropicStart
  <2>1. PICK e : e = [type |-> "message_start", usage |-> [input |-> 3, output |-> 1]] /\ Feed(e)
    BY <1>5 DEF AnthropicStart
  <2>2. src = "fresh" /\ srd = "blocks" /\ r = s
    BY <1>3, <1>5 DEF AnthropicStart
  <2>3. AnthropicShows(c, ResponsesFromAnthropic(sc, e), "blocks", s)
    BY <1>4, <2>1, <2>2, StartedShows
  <2> QED BY <1>1, <1>3, <2>1, <2>2, <2>3
<1>6. ASSUME NEW type \in BlockTypes, NEW input \in Bodies, input = <<Empty>> => type = "tool",
             type # "tool" => input = <<>>, AnthropicBlockStart(type, input)
      PROVE  AnthropicShows(client', adapter', source', sent')
  <2>1. PICK id : /\ Opens(sent, sent', type, id, input)
                  /\ Feed([type |-> "content_block_start", index |-> Len(sent), block |-> type, id |-> id, input |-> input])
    BY <1>6, BlockStarts
  <2>2. PICK e : e = [type |-> "content_block_start", index |-> Len(s), block |-> type, id |-> id, input |-> input]
    OBVIOUS
  <2>3. Feed(e) /\ Opens(s, r, type, id, input)
    BY <1>3, <2>1, <2>2
  <2>4. src = "blocks" /\ srd = "blocks" /\ ~OpenIn(s)
    BY <1>3, <1>6, ReasonsAre DEF AnthropicBlockStart
  <2>5. AnthropicShows(c, sc, "blocks", s)
    BY <1>4, <2>4
  <2>6. AnthropicShows(c, ResponsesFromAnthropic(sc, e), "blocks", r)
    <3>1. CASE type = "tool"
      BY <2>2, <2>3, <2>4, <2>5, <3>1, CallOpensShows
    <3>2. CASE type # "tool"
      <4>1. input = <<>>
        BY <1>6, <3>2
      <4> QED BY <2>2, <2>3, <2>4, <2>5, <3>2, <4>1, TextOpensShows
    <3> QED BY <3>1, <3>2
  <2> QED BY <1>1, <1>3, <2>3, <2>4, <2>6
<1>7. CASE AnthropicBlockDelta
  <2>1. sent # <<>> /\ source = "blocks" /\ srd = "blocks" /\ OpenIn(sent)
    BY <1>3, <1>7, ReasonsAre DEF AnthropicBlockDelta, Anthropic, Open, OpenIn, ProviderOk
  <2>2. PICK z, open : z = Last(sent) /\ open = z.open
    OBVIOUS
  <2>3. /\ sent' = Continued(Piece)
        /\ Feed([type |-> "content_block_delta", index |-> Len(sent) - 1, block |-> Last(sent).type, piece |-> Piece])
    BY <1>7 DEF AnthropicBlockDelta
  <2>4. Piece \in Bodies /\ Piece # <<>> /\ Continues(z, Piece) # <<Empty>>
        /\ Turns(dialect, sent, sent', z, Continues(z, Piece), z.open)
    BY <1>2, <2>1, <2>2, <2>3, BlockContinues
  <2>5. PICK piece, e : piece = Piece /\ e = [type |-> "content_block_delta", index |-> Len(s) - 1, block |-> z.type, piece |-> piece]
    OBVIOUS
  <2>6. PICK body : body = Continues(z, piece)
    OBVIOUS
  <2>7. Feed(e) /\ piece \in Bodies /\ Turns("anthropic", s, r, z, body, open) /\ body # <<Empty>>
    BY <1>3, <2>2, <2>3, <2>4, <2>5, <2>6
  <2>8. AnthropicShows(c, sc, "blocks", s) /\ OpenIn(s) /\ open
    BY <1>3, <1>4, <2>1, <2>2 DEF OpenIn
  <2>9. e.type = "content_block_delta" /\ e.block = z.type /\ e.piece = piece
    BY <2>5
  <2>10. LastBlockTurns(s, r, z, body) /\ LastCallTurns(s, r, z, body)
    BY <2>7, BlockTurns, LastCall
  <2>11. AnthropicShows(c, ResponsesFromAnthropic(sc, e), "blocks", r)
    <3>1. CASE z.type = "thinking"
      BY <2>7, <2>8, <2>9, <3>1, ThoughtShows
    <3>2. CASE z.type = "text"
      <4>1. r \in Seq(SentBlocks) /\ r # <<>> /\ Last(r).type = "text"
        BY <2>7, <2>10, <3>2 DEF Turns, SentOk, LastBlockTurns
      <4>2. AnswerOf(r).calls = <<>>
        BY <1>4, <4>1, NoCallsBefore
      <4>3. AnswerOf(s).calls = <<>>
        BY <2>10, <3>2, <4>2 DEF LastCallTurns
      <4> QED BY <2>7, <2>8, <2>9, <3>2, <4>3, TextGoesOnShows
    <3>3. CASE z.type = "tool"
      <4>1. Turns("anthropic", s, r, z, Continues(z, piece), open) /\ Continues(z, piece) # <<Empty>>
        BY <2>6, <2>7
      <4> QED BY <2>5, <2>7, <2>8, <3>3, <4>1, CallGoesOnShows
    <3>4. z.type \in {"thinking", "text", "tool"}
      BY <2>10 DEF LastBlockTurns, BlockTypes
    <3> QED BY <3>1, <3>2, <3>3, <3>4
  <2> QED BY <1>1, <1>3, <2>1, <2>7, <2>11
<1>8. CASE AnthropicBlockStop
  <2>1. sent # <<>> /\ source = "blocks" /\ srd = "blocks" /\ OpenIn(sent)
    BY <1>3, <1>8, ReasonsAre DEF AnthropicBlockStop, Anthropic, Open, OpenIn, ProviderOk
  <2>2. PICK z, open : z = Last(sent) /\ open = FALSE
    OBVIOUS
  <2>3. /\ sent' = [sent EXCEPT ![Len(sent)].open = FALSE]
        /\ Feed([type |-> "content_block_stop", index |-> Len(sent) - 1])
    BY <1>8 DEF AnthropicBlockStop
  <2>4. Turns("anthropic", sent, sent', z, z.body, FALSE)
    BY <1>2, <2>1, <2>2, <2>3, SentStops
  <2>5. PICK e : e = [type |-> "content_block_stop", index |-> Len(s) - 1]
    OBVIOUS
  <2>6. Feed(e) /\ Turns("anthropic", s, r, z, z.body, open) /\ ~open /\ OpenIn(s)
    BY <1>3, <2>1, <2>2, <2>3, <2>4, <2>5
  <2>7. AnthropicShows(c, ResponsesFromAnthropic(sc, e), "blocks", r)
    BY <1>3, <1>4, <2>1, <2>5, <2>6, BlockEndsShows
  <2> QED BY <1>1, <1>3, <2>1, <2>6, <2>7
<1>9. ASSUME NEW reason \in Reasons, AnthropicStop(reason)
      PROVE  AnthropicShows(client', adapter', source', sent')
  <2>1. PICK e : e = [type |-> "message_delta", stop |-> reason, usage |-> [input |-> 0, output |-> 2]] /\ Feed(e)
    BY <1>9 DEF AnthropicStop
  <2>2. src = "blocks" /\ srd = "done" /\ r = s /\ ~OpenIn(s)
    BY <1>3, <1>9, ReasonsAre DEF AnthropicStop
  <2>3. AnthropicShows(c, ResponsesFromAnthropic(sc, e), "done", s)
    BY <1>4, <2>1, <2>2, StopShows
  <2> QED BY <1>1, <1>3, <2>1, <2>2, <2>3
<1>10. /\ Piece \in Bodies /\ <<>> \in Bodies /\ <<Empty>> \in Bodies /\ <<>> # <<Empty>> /\ Piece # <<Empty>>
       /\ {"thinking", "text", "tool"} = BlockTypes
  BY <1>2, PieceFacts DEF BlockTypes
<1>11. CASE \E type \in {"thinking", "text"} : AnthropicBlockStart(type, <<>>)
  BY <1>6, <1>10, <1>11
<1>12. CASE \E input \in {<<>>, <<Empty>>, Piece} : AnthropicBlockStart("tool", input)
  BY <1>6, <1>10, <1>12
<1> QED BY <1>5, <1>7, <1>8, <1>9, <1>11, <1>12 DEF Anthropic

-----------------------------------------------------------------------------
(* The chunks of an OpenAI provider, for the client. *)

\* The calls the converter holds: those that were said, open until the answer stops.
ChunkCalls(sc, said, stopped) ==
  /\ (sc.reserved <=> sc.started)
  /\ DOMAIN sc.calls = 0..(Len(said) - 1)
  /\ \A k \in DOMAIN sc.calls : /\ sc.calls[k].index = Base(sc) + k /\ ~sc.calls[k].placeholder
                                /\ stopped \/ ~sc.calls[k].completed

ChunkShows(c, sc, said, stopped) ==
  /\ \E items : Shows(c, sc, TRUE, items, said)
  /\ ChunkCalls(sc, said, stopped)
  /\ sc.done => said # <<>>

LEMMA CountedShows ==
    ASSUME NEW c, NEW sc, NEW said, NEW stopped, ChunkShows(c, sc, said, stopped), NEW e, e.usage \in Usages,
           NEW sd, sd = ChunkCounted(sc, e)
    PROVE  ChunkShows(c, sd, said, stopped)
<1> HIDE DEF ResponseEvents
<1>1. PICK items : Shows(c, sc, TRUE, items, said)
  BY DEF ChunkShows
<1>2. sc \in Responders /\ ~sc.sentDone
  BY <1>1 DEF Shows
<1>3. PICK usage : usage = UsageAfter(sc, e)
  OBVIOUS
<1>4. usage \in Usages
  BY <1>2, <1>3 DEF UsageAfter, Responders
<1>5. PICK sf : sf = [sc EXCEPT !.usage = usage]
  OBVIOUS
<1>6. sd = sf
  BY <1>2, <1>3, <1>5 DEF ChunkCounted, UsageAfter, Responders
<1>7. /\ sf \in Responders /\ sf.buffer = sc.buffer /\ sf.calls = sc.calls /\ sf.next = sc.next
      /\ sf.reserved = sc.reserved /\ sf.started = sc.started /\ sf.done = sc.done
      /\ sf.text = sc.text /\ ~sf.sentDone
  BY <1>2, <1>4, <1>5, UsageTurns
<1>8. Reserves(sc, sd) /\ (sd.reserved => sc.reserved)
  BY <1>6, <1>7 DEF Reserves
<1>9. Shows(c, sd, TRUE, items, said)
  BY <1>1, <1>8, ReserveShows
<1>10. Base(sd) = Base(sc)
  BY <1>6, <1>7 DEF Base
<1>11. ChunkCalls(sd, said, stopped)
  BY <1>6, <1>7, <1>10 DEF ChunkShows, ChunkCalls
<1> QED BY <1>6, <1>7, <1>9, <1>11 DEF ChunkShows

\* The message takes its place, before there are calls.
LEMMA ReservedShows ==
    ASSUME NEW c, NEW sc, NEW items, Shows(c, sc, TRUE, items, <<>>), NEW sd, sd = reserveAssistantOutput(sc)
    PROVE  /\ Shows(c, sd, TRUE, items, <<>>) /\ sd.reserved /\ (sd.done <=> sc.done)
           /\ sd.calls = sc.calls /\ DOMAIN sc.calls = {}
<1> HIDE DEF ResponseEvents
<1>1. sc \in Responders /\ ~sc.sentDone /\ sc.calls \in Partial(CallStates)
  BY DEF Shows, Responders
<1>2. DOMAIN sc.calls = {}
  <2>1. PICK calls, base : calls = sc.calls /\ base = Base(sc)
    OBVIOUS
  <2>2. CallsShown(calls, base, items, <<>>)
    BY <2>1 DEF Shows
  <2> QED BY <2>1, <2>2, NoneSaid
<1>3. CASE sc.reserved
  BY <1>2, <1>3 DEF reserveAssistantOutput
<1>4. CASE ~sc.reserved
  <2>1. PICK calls : calls = [k \in DOMAIN sc.calls |-> IF sc.calls[k].started THEN sc.calls[k]
                                                        ELSE [sc.calls[k] EXCEPT !.index = @ + 1]]
    OBVIOUS
  <2>2. sc.calls = [k \in DOMAIN sc.calls |-> sc.calls[k]]
    BY <1>1 DEF Partial
  <2>3. calls = sc.calls
    BY <1>2, <2>1, <2>2
  <2>4. PICK sg : sg = [sc EXCEPT !.reserved = TRUE, !.calls = calls]
    OBVIOUS
  <2>5. reserveAssistantOutput(sc) = sg
    <3>1. PICK s0 : s0 = [sc EXCEPT !.reserved = TRUE]
      OBVIOUS
    <3>2. s0.calls = sc.calls /\ [s0 EXCEPT !.calls = calls] = sg
      BY <1>1, <2>4, <3>1 DEF Responders
    <3> QED BY <1>4, <2>1, <2>4, <3>1, <3>2 DEF reserveAssistantOutput
  <2>6. /\ sg \in Responders /\ sg.buffer = sc.buffer /\ sg.calls = sc.calls /\ sg.text = sc.text
        /\ sg.started = sc.started /\ sg.done = sc.done /\ ~sg.sentDone /\ sg.reserved
    BY <1>1, <2>3, <2>4 DEF Responders
  <2>7. Reserves(sc, sg)
    BY <2>6 DEF Reserves
  <2>8. Shows(c, sg, TRUE, items, <<>>)
    BY <2>6, <2>7, ReserveShows
  <2> QED BY <1>2, <2>5, <2>6, <2>8
<1> QED BY <1>3, <1>4

LEMMA TextedShows ==
    ASSUME NEW c, NEW sc, NEW said, NEW stopped, ChunkShows(c, sc, said, stopped),
           NEW e, e.content \in Bodies, e.content # <<>> => said = <<>>, NEW sd, sd = ChunkTexted(sc, e)
    PROVE  ChunkShows(c, sd, said, stopped)
<1> HIDE DEF ResponseEvents
<1>1. CASE e.content = <<>>
  BY <1>1 DEF ChunkTexted
<1>2. CASE e.content # <<>>
  <2>1. said = <<>> /\ ~sc.done
    BY <1>2 DEF ChunkShows
  <2>2. PICK items : Shows(c, sc, TRUE, items, <<>>)
    BY <2>1 DEF ChunkShows
  <2>3. PICK sf : sf = reserveAssistantOutput(sc)
    OBVIOUS
  <2>4. Shows(c, sf, TRUE, items, <<>>) /\ sf.reserved /\ ~sf.done /\ DOMAIN sf.calls = {}
    BY <2>1, <2>2, <2>3, ReservedShows
  <2>5. PICK piece \in Bodies : piece = e.content
    OBVIOUS
  <2>6. sd = AssistantText(sf, piece)
    BY <1>2, <2>3, <2>5 DEF ChunkTexted
  <2>7. \E m : Shows(c, sd, TRUE, m, <<>>)
    BY <2>4, <2>5, <2>6, TextShows
  <2>8. sd.started /\ ~sd.done
    BY <2>4, <2>5, <2>6, TextShows
  <2>9. sf \in Responders /\ ~sf.sentDone
    BY <2>4 DEF Shows
  <2>10. sd.calls = sf.calls /\ sd.reserved = sf.reserved
    BY <2>5, <2>6, <2>9, HeardText
  <2>11. 0..(Len(<<>>) - 1) = {}
    <3>1. Len(<<>>) = 0 /\ 0 - 1 = -1 /\ 0..(-1) = {}
      OBVIOUS
    <3> QED BY <3>1
  <2>12. ChunkCalls(sd, <<>>, stopped)
    BY <2>4, <2>8, <2>10, <2>11 DEF ChunkCalls
  <2> QED BY <2>1, <2>7, <2>8, <2>12 DEF ChunkShows
<1> QED BY <1>1, <1>2

\* The end of the calls.
LEMMA FinishedShows ==
    ASSUME NEW c, NEW sc, NEW said, NEW stopped, ChunkShows(c, sc, said, stopped), CallsWithin(sc),
           NEW e, NEW sd, sd = ChunkFinished(sc, e), NEW over, stopped \/ e.finish = "tool_calls" => over
    PROVE  ChunkShows(c, sd, said, over)
<1>1. CASE e.finish # "tool_calls"
  BY <1>1 DEF ChunkFinished, ChunkShows, ChunkCalls
<1>2. CASE e.finish = "tool_calls"
  <2>1. sd = completePendingToolCalls(sc) /\ over
    BY <1>2 DEF ChunkFinished
  <2>2. PICK items : Shows(c, sc, TRUE, items, said)
    BY DEF ChunkShows
  <2>3. CompletesAll(c, sc, sd, TRUE, said)
    BY <2>1, <2>2, PendingShows
  <2>4. (\E m : Shows(c, sd, TRUE, m, said)) /\ SameMessage(sc, sd) /\ KeepsCalls(sc, sd)
    BY <2>3 DEF CompletesAll
  <2>5. Base(sd) = Base(sc)
    BY <2>4 DEF SameMessage, Base
  <2>6. ChunkCalls(sd, said, over) /\ (sd.done => said # <<>>)
    BY <2>1, <2>4, <2>5 DEF ChunkShows, ChunkCalls, SameMessage, KeepsCalls
  <2> QED BY <2>4, <2>6 DEF ChunkShows
<1> QED BY <1>1, <1>2

\* A chunk that says nothing has no content and no calls.
LEMMA SaysSame ==
    ASSUME NEW e \in Chunks, NEW a \in Answers, ChunkSays(e, a, a)
    PROVE  e.content = <<>> /\ e.calls = <<>>
<1>1. /\ a.text \in Bodies /\ a.calls \in Seq(CallBodies) /\ a.size \in Nat /\ Len(a.calls) \in Nat
      /\ e.content \in Bodies /\ Len(e.content) \in Nat
  BY DEF Answers, Chunks, Bodies
<1>2. CASE SaysNothing(e, a, a) \/ SaysThought(e, a, a)
  BY <1>2 DEF SaysNothing, SaysThought
<1>3. CASE SaysText(e, a, a)
  <2>1. PICK piece \in Bodies : piece = e.content /\ piece # <<>>
    BY <1>1, <1>3 DEF SaysText
  <2>2. a = Said(a, Block("text", NoId, piece)) /\ NoId \in Nat
    BY <1>3, <2>1 DEF SaysText, NoId
  <2>3. Said(a, Block("text", NoId, piece)).size = a.size + Len(piece)
    BY <2>2, SaidText
  <2>4. Len(piece) \in Nat /\ Len(piece) # 0
    BY <2>1 DEF Bodies
  <2> QED BY <1>1, <2>2, <2>3, <2>4
<1>4. CASE SaysCall(e, a, a)
  <2>1. PICK id \in Nat \ {NoId}, arguments \in Bodies : a = Said(a, Block("tool", id, arguments))
    BY <1>4 DEF SaysCall
  <2>2. Said(a, Block("tool", id, arguments)).calls = Append(a.calls, [id |-> id, body |-> arguments])
    BY SaidTool
  <2>3. PICK w, calls : w = [id |-> id, body |-> arguments] /\ calls = a.calls
    OBVIOUS
  <2>4. w \in CallBodies /\ calls \in Seq(CallBodies)
    BY <1>1, <2>3 DEF CallBodies
  <2>5. Len(Append(calls, w)) = Len(calls) + 1 /\ Len(calls) \in Nat
    BY <2>4
  <2> QED BY <2>1, <2>2, <2>3, <2>5
<1>5. CASE SaysMore(e, a, a)
  <2>1. PICK arguments \in Bodies : a = Further(a, arguments) /\ arguments # <<>>
    BY <1>5 DEF SaysMore
  <2>2. Further(a, arguments).size = a.size + Len(arguments)
    BY DEF Further
  <2>3. Len(arguments) \in Nat /\ Len(arguments) # 0
    BY <2>1 DEF Bodies
  <2> QED BY <1>1, <2>1, <2>2, <2>3
<1> QED BY <1>2, <1>3, <1>4, <1>5 DEF ChunkSays

\* What a step does to the calls: it says v of them.
SaysCalls(c, sd, v, stopped) == (\E m : Shows(c, sd, TRUE, m, v)) /\ ChunkCalls(sd, v, stopped)

LEMMA FunctionSeq ==
    ASSUME NEW S, NEW n \in Nat, NEW f \in [1..n -> S]
    PROVE  f \in Seq(S) /\ Len(f) = n
OBVIOUS

LEMMA ChunkCallsMore ==
    ASSUME NEW sc, NEW sd, NEW said, NEW v, NEW stopped, ChunkCalls(sc, said, stopped), SameMessage(sc, sd),
           NEW k \in Nat, NEW call \in CallStates, PutIs(CallStates, sc.calls, k, call, sd.calls),
           call.index = Base(sc) + k, ~call.placeholder, ~call.completed,
           Len(said) \in Nat, Len(v) \in Nat, 0..(Len(v) - 1) = 0..(Len(said) - 1) \cup {k}
    PROVE  ChunkCalls(sd, v, stopped)
<1>1. Base(sd) = Base(sc) /\ (sd.reserved <=> sd.started)
  BY DEF SameMessage, Base, ChunkCalls
<1>2. DOMAIN sd.calls = DOMAIN sc.calls \cup {k} /\ sd.calls[k] = call /\ \A x \in DOMAIN sc.calls : x # k => sd.calls[x] = sc.calls[x]
  BY DEF PutIs
<1>3. DOMAIN sd.calls = 0..(Len(v) - 1)
  BY <1>2 DEF ChunkCalls
<1>4. ASSUME NEW x \in DOMAIN sd.calls
      PROVE  sd.calls[x].index = Base(sd) + x /\ ~sd.calls[x].placeholder /\ (stopped \/ ~sd.calls[x].completed)
  <2>1. CASE x = k
    BY <1>1, <1>2, <2>1
  <2>2. CASE x # k
    BY <1>1, <1>2, <2>2 DEF ChunkCalls
  <2> QED BY <2>1, <2>2
<1> QED BY <1>1, <1>3, <1>4 DEF ChunkCalls

\* The first delta of a call announces it, and repeats what it brings.
LEMMA NewDeltaShows ==
    ASSUME NEW c, NEW sc, NEW items, NEW said, Shows(c, sc, TRUE, items, said),
           NEW stopped, ChunkCalls(sc, said, stopped),
           NEW delta \in CallDeltas, delta.index = Len(said), delta.id # NoId,
           NEW w, w = [id |-> delta.id, body |-> delta.arguments], NEW v, v = Append(said, w),
           NEW sd, sd = handleToolCallDelta(sc, delta)
    PROVE  SaysCalls(c, sd, v, stopped)
<1> HIDE DEF ResponseEvents
<1>1. /\ sc \in Responders /\ said \in Seq(CallBodies) /\ Len(said) \in Nat /\ sc.calls \in Partial(CallStates)
      /\ Base(sc) \in {0, 1}
  BY DEF Shows, Responders, CallsShown, Base
<1>2. delta.index \in Nat /\ delta.id \in Nat /\ delta.arguments \in Bodies
  BY DEF CallDeltas
<1>3. PICK known, call, fed : FedBy(sc, delta, known, call, fed)
  BY <1>1, FedCall
<1>4. PICK k \in Nat : k = delta.index
  BY <1>2
<1>5. DOMAIN sc.calls = 0..(k - 1) /\ k = Len(said) /\ (sc.reserved <=> sc.started)
  BY <1>4 DEF ChunkCalls
<1>6. k \notin DOMAIN sc.calls
  BY <1>5
<1>7. PICK new : new = NewCall(IF sc.reserved THEN k + 1 ELSE k, NoId)
  OBVIOUS
<1>8. CallPut(sc, k, new, known) /\ known.next = sc.next
  BY <1>3, <1>4, <1>6, <1>7 DEF FedBy, Ensured
<1>9. PICK index \in Nat : index = IF sc.reserved THEN k + 1 ELSE k
  BY <1>4
<1>10. /\ new \in CallStates /\ new.index = index /\ new.id = NoId /\ new.arguments = <<>> /\ ~new.placeholder
       /\ ~new.started /\ ~new.completed
  <2>1. NoId \in Nat
    BY DEF NoId
  <2> QED BY <1>7, <1>9, <2>1, NewCallIs
<1>11. index = Base(sc) + k
  BY <1>5, <1>9 DEF Base
<1>12. known.calls[k] = new
  BY <1>8 DEF CallPut, PutIs
<1>13. PICK id \in Nat, arguments \in Bodies : id = delta.id /\ arguments = delta.arguments
  BY <1>2
<1>14. call = [new EXCEPT !.id = id, !.arguments = arguments]
  <2>1. call = [new EXCEPT !.id = IF delta.id = NoId THEN @ ELSE delta.id, !.arguments = @ \o delta.arguments]
    BY <1>3, <1>4, <1>12 DEF FedBy
  <2>2. <<>> \o arguments = arguments
    BY <1>13, CatEmpty
  <2> QED BY <1>10, <1>13, <2>1, <2>2 DEF CallStates
<1>15. /\ call \in CallStates /\ call.index = index /\ call.id = id /\ call.arguments = arguments /\ ~call.placeholder
       /\ ~call.started /\ ~call.completed
  BY <1>10, <1>13, <1>14 DEF CallStates
<1>16. CallPut(known, k, call, fed) /\ fed.next = known.next /\ sd = Announces(fed, k, arguments)
  BY <1>3, <1>4, <1>13 DEF FedBy
<1>17. CallPut(sc, k, call, fed)
  BY <1>6, <1>8, <1>16 DEF CallPut, SameRestOf, PutIs
<1>18. w \in CallBodies /\ w.id = id /\ w.body = arguments
  <2>1. w = [id |-> id, body |-> arguments]
    BY <1>13
  <2> QED BY <1>13, <2>1 DEF CallBodies
<1>19. ToolCallArguments(call) = arguments
  BY <1>15 DEF ToolCallArguments
<1>20. MayAdd(sc, said, k, call, fed, w)
  BY <1>5, <1>6, <1>11, <1>13, <1>15, <1>17, <1>18, <1>19 DEF MayAdd
<1>21. PICK after : after = StartToolCall(fed, k)
  OBVIOUS
<1>22. AddsCall(c, sc, fed, after, k, call, v)
  BY <1>5, <1>20, <1>21, NewCallShows
<1>23. PICK m : Shows(c, after, TRUE, m, v) /\ m[call.index + 1].body = <<>>
  BY <1>22 DEF AddsCall
<1>24. PICK put \in CallStates : PutIs(CallStates, sc.calls, k, put, after.calls) /\ put = [call EXCEPT !.started = TRUE]
  BY <1>22 DEF AddsCall
<1>25. /\ put.index = index /\ put.arguments = arguments /\ ~put.placeholder /\ ~put.completed /\ put.started
  BY <1>15, <1>24 DEF CallStates
<1>26. k \in DOMAIN after.calls /\ after.calls[k] = put /\ fed.calls[k] = call
  BY <1>17, <1>24 DEF PutIs, CallPut
<1>27. SameMessage(sc, after)
  BY <1>22 DEF AddsCall
<1>28. Len(v) = Len(said) + 1 /\ Len(v) \in Nat /\ 0..(Len(v) - 1) = 0..(Len(said) - 1) \cup {k}
  <2>1. Len(v) = k + 1
    BY <1>1, <1>5, <1>18
  <2> QED BY <1>1, <1>5, <2>1
<1>29. ChunkCalls(after, v, stopped)
  BY <1>1, <1>11, <1>24, <1>25, <1>27, <1>28, ChunkCallsMore
<1>30. sd = IF arguments = <<>> THEN after ELSE ArgumentsDelta(after, k, arguments)
  BY <1>15, <1>16, <1>21, <1>25, <1>26 DEF Announces
<1>31. CASE arguments = <<>>
  BY <1>23, <1>29, <1>30, <1>31 DEF SaysCalls
<1>32. CASE arguments # <<>>
  <2>1. sd = ArgumentsDelta(after, k, arguments)
    BY <1>30, <1>32
  <2>2. /\ ~after.calls[k].completed /\ ~after.calls[k].placeholder /\ m[after.calls[k].index + 1].body = <<>>
        /\ arguments = after.calls[k].arguments
    BY <1>15, <1>23, <1>25, <1>26
  <2>3. TurnsCall(c, after, sd, k, after.calls[k], v)
    BY <1>23, <1>26, <2>1, <2>2, RepeatShows
  <2>4. (\E n : Shows(c, sd, TRUE, n, v)) /\ SameMessage(after, sd) /\ PutIs(CallStates, after.calls, k, put, sd.calls)
    BY <1>26, <2>3 DEF TurnsCall
  <2>5. 0..(Len(v) - 1) = 0..(Len(v) - 1) \cup {k}
    BY <1>1, <1>5, <1>28
  <2>6. Base(after) = Base(sc)
    BY <1>27 DEF SameMessage, Base
  <2>7. ChunkCalls(sd, v, stopped)
    BY <1>11, <1>25, <1>28, <1>29, <2>4, <2>5, <2>6, ChunkCallsMore
  <2> QED BY <2>4, <2>7 DEF SaysCalls
<1> QED BY <1>31, <1>32

\* The last of the calls goes on.
LastFed(said, piece) == [said EXCEPT ![Len(said)].body = @ \o piece]

\* The others go on with it.
FeedsLast(delta, said, v) ==
  /\ said # <<>> /\ delta \in CallDeltas /\ delta.index = Len(said) - 1 /\ delta.id = NoId
  /\ delta.arguments # <<>> /\ v = LastFed(said, delta.arguments)

LEMMA MoreDeltaShows ==
    ASSUME NEW c, NEW sc, NEW items, NEW said, Shows(c, sc, TRUE, items, said),
           NEW stopped, ~stopped, ChunkCalls(sc, said, stopped), NEW delta, NEW v, FeedsLast(delta, said, v),
           NEW sd, sd = handleToolCallDelta(sc, delta)
    PROVE  SaysCalls(c, sd, v, stopped)
<1> HIDE DEF ResponseEvents
<1>0. /\ said # <<>> /\ delta \in CallDeltas /\ delta.index = Len(said) - 1 /\ delta.id = NoId
      /\ delta.arguments # <<>> /\ v = LastFed(said, delta.arguments)
  BY DEF FeedsLast
<1>1. /\ sc \in Responders /\ said \in Seq(CallBodies) /\ sc.calls \in Partial(CallStates)
      /\ Base(sc) \in {0, 1}
  BY DEF Shows, Responders, CallsShown, Base
<1>2. delta.index \in Nat /\ delta.arguments \in Bodies
  BY <1>0 DEF CallDeltas
<1>3. PICK j \in Nat : j = Len(said) /\ j > 0 /\ j \in 1..Len(said)
  BY <1>0, <1>1
<1>4. PICK known, call, fed : FedBy(sc, delta, known, call, fed)
  BY <1>0, <1>1, FedCall
<1>5. PICK k \in Nat : k = delta.index
  BY <1>2
<1>6. k = j - 1 /\ k \in DOMAIN sc.calls
  BY <1>0, <1>3, <1>5 DEF ChunkCalls
<1>7. known = sc
  BY <1>4, <1>5, <1>6 DEF FedBy, Ensured
<1>8. PICK old \in CallStates : old = sc.calls[k]
  BY <1>1, <1>6, CallFacts
<1>9. /\ old.index = Base(sc) + k /\ ~old.placeholder /\ ~old.completed
  BY <1>6, <1>8 DEF ChunkCalls
<1>10. PICK i \in 1..Len(said) : sc.calls[k].index + 1 = Base(sc) + i /\ CallShown(items[Base(sc) + i], said[i], sc.calls[k])
  BY <1>6, ShownCall
<1>11. i = j
  BY <1>1, <1>3, <1>6, <1>8, <1>9, <1>10
<1>12. old.started /\ said[j].body = old.arguments
  BY <1>8, <1>9, <1>10, <1>11 DEF CallShown, ToolCallArguments
<1>13. PICK piece \in Bodies : piece = delta.arguments /\ piece # <<>>
  BY <1>0, <1>2
<1>14. call = [old EXCEPT !.arguments = @ \o piece] /\ CallPut(sc, k, call, fed) /\ fed.next = sc.next
  <2>1. call = [sc.calls[k] EXCEPT !.id = IF delta.id = NoId THEN @ ELSE delta.id, !.arguments = @ \o delta.arguments]
    BY <1>4, <1>5, <1>7 DEF FedBy
  <2>2. call = [old EXCEPT !.id = old.id, !.arguments = @ \o piece]
    BY <1>0, <1>8, <1>13, <2>1
  <2>3. call = [old EXCEPT !.arguments = @ \o piece]
    BY <2>2 DEF CallStates
  <2> QED BY <1>4, <1>5, <1>7, <2>3 DEF FedBy
<1>15. /\ call \in CallStates /\ call.index = old.index /\ call.id = old.id /\ ~call.placeholder
       /\ call.arguments = old.arguments \o piece /\ call.started = old.started /\ call.completed = old.completed
  <2>1. call \in CallStates
    BY <1>4 DEF FedBy
  <2> QED BY <1>9, <1>14, <2>1 DEF CallStates
<1>16. ContinuesCall(sc, k, piece, call, fed)
  BY <1>8, <1>14, <1>15 DEF ContinuesCall
<1>17. fed.calls[k] = call
  BY <1>14 DEF CallPut, PutIs
<1>18. sd = ArgumentsDelta(fed, k, piece)
  <2>1. sd = Announces(fed, k, piece)
    BY <1>4, <1>5, <1>13 DEF FedBy
  <2>2. StartToolCall(fed, k) = fed
    BY <1>12, <1>15, <1>17 DEF StartToolCall
  <2> QED BY <1>12, <1>13, <1>15, <1>17, <2>1, <2>2 DEF Announces
<1>19. PICK w \in CallBodies : w = said[j]
  BY <1>1, <1>3
<1>20. PICK y : y = [w EXCEPT !.body = @ \o piece]
  OBVIOUS
<1>21. y \in CallBodies /\ y.id = w.id /\ y.body = w.body \o piece
  <2>1. w.body \o piece \in Bodies
    BY DEF CallBodies, Bodies
  <2> QED BY <1>20, <2>1 DEF CallBodies
<1>22. v = [said EXCEPT ![j] = y]
  BY <1>0, <1>1, <1>3, <1>13, <1>19, <1>20 DEF LastFed
<1>23. /\ v \in Seq(CallBodies) /\ Len(v) = Len(said) /\ v[j] = y /\ \A x \in 1..Len(said) : x # j => v[x] = said[x]
  <2>1. PICK n \in Nat : n = Len(said)
    BY <1>1
  <2>2. said \in [1..n -> CallBodies] /\ j \in 1..n
    BY <1>1, <1>3, <2>1
  <2>3. v \in [1..n -> CallBodies] /\ v[j] = y /\ \A x \in 1..n : x # j => v[x] = said[x]
    BY <1>21, <1>22, <2>2
  <2>4. v \in Seq(CallBodies) /\ Len(v) = n
    BY <2>3, FunctionSeq
  <2> QED BY <2>1, <2>3, <2>4
<1>24. MoreSaid(said, j, call.arguments, v)
  BY <1>12, <1>15, <1>19, <1>21, <1>23 DEF MoreSaid
<1>25. TurnsCall(c, sc, sd, k, call, v)
  <2>1. sc.calls[k].index + 1 = Base(sc) + j /\ ~sc.calls[k].completed
    BY <1>8, <1>9, <1>10, <1>11
  <2> QED BY <1>3, <1>6, <1>16, <1>18, <1>24, <2>1, MoreOfCallShows
<1>26. (\E n : Shows(c, sd, TRUE, n, v)) /\ SameMessage(sc, sd) /\ PutIs(CallStates, sc.calls, k, call, sd.calls)
  BY <1>25 DEF TurnsCall
<1>27. Len(said) \in Nat /\ Len(v) \in Nat /\ 0..(Len(v) - 1) = 0..(Len(said) - 1) \cup {k}
  BY <1>1, <1>3, <1>6, <1>23
<1>28. ChunkCalls(sd, v, stopped)
  BY <1>9, <1>15, <1>26, <1>27, ChunkCallsMore
<1> QED BY <1>26, <1>28 DEF SaysCalls

\* What a chunk says of the calls.
NewCallSaid(e, said, v) ==
  \E delta \in CallDeltas : /\ e.calls = <<delta>> /\ delta.index = Len(said) /\ delta.id # NoId
                            /\ v = Append(said, [id |-> delta.id, body |-> delta.arguments])
LastCallFed(e, said, v) == \E delta : e.calls = <<delta>> /\ FeedsLast(delta, said, v)
CallsSaid(e, said, v, stopped) ==
  \/ e.calls = <<>> /\ v = said
  \/ NewCallSaid(e, said, v)
  \/ ~stopped /\ LastCallFed(e, said, v)

\* The text before the calls has ended.
LEMMA TextEndedShows ==
    ASSUME NEW c, NEW sc, NEW said, NEW stopped, ChunkShows(c, sc, said, stopped), NEW sd, sd = EndAssistantText(sc)
    PROVE  (\E items : Shows(c, sd, TRUE, items, said)) /\ ChunkCalls(sd, said, stopped)
<1> HIDE DEF ResponseEvents
<1>1. PICK items : Shows(c, sc, TRUE, items, said)
  BY DEF ChunkShows
<1>2. ChunkCalls(sc, said, stopped)
  BY DEF ChunkShows
<1>3. sc \in Responders /\ ~sc.sentDone /\ (sc.reserved <=> sc.started)
  BY <1>1, <1>2 DEF Shows, ChunkCalls
<1>4. sd.calls = sc.calls
  BY <1>3, EndTextPasses
<1>5. /\ \E m : Shows(c, sd, TRUE, m, said)
      /\ (sd.started <=> sc.started) /\ (sd.reserved <=> sc.reserved)
  BY <1>1, <1>3, EndTextShows
<1>6. Base(sd) = Base(sc)
  BY <1>5 DEF Base
<1>7. ChunkCalls(sd, said, stopped)
  BY <1>2, <1>4, <1>5, <1>6 DEF ChunkCalls
<1> QED BY <1>5, <1>7

LEMMA CalledIs ==
    ASSUME NEW sc, NEW e, NEW delta, e.calls = <<delta>>
    PROVE  ChunkCalled(sc, e) = handleToolCallDelta(EndAssistantText(sc), delta)
<1>1. <<delta>> # <<>>
  OBVIOUS
<1> QED BY <1>1, DeltasOne DEF ChunkCalled

LEMMA CalledShows ==
    ASSUME NEW c, NEW sc, NEW said, NEW stopped, ChunkShows(c, sc, said, stopped),
           NEW e, NEW v, CallsSaid(e, said, v, stopped), NEW sd, sd = ChunkCalled(sc, e)
    PROVE  ChunkShows(c, sd, v, stopped)
<1>1. PICK sf : sf = EndAssistantText(sc)
  OBVIOUS
<1>2. PICK items : Shows(c, sf, TRUE, items, said)
  BY <1>1, TextEndedShows
<1>3. ChunkCalls(sf, said, stopped)
  BY <1>1, TextEndedShows
<1>4. said \in Seq(CallBodies)
  BY <1>2 DEF Shows, CallsShown
<1>5. CASE e.calls = <<>> /\ v = said
  BY <1>5 DEF ChunkCalled
<1>6. CASE NewCallSaid(e, said, v)
  <2>1. PICK delta \in CallDeltas : /\ e.calls = <<delta>> /\ delta.index = Len(said) /\ delta.id # NoId
                                    /\ v = Append(said, [id |-> delta.id, body |-> delta.arguments])
    BY <1>6 DEF NewCallSaid
  <2>2. sd = handleToolCallDelta(sf, delta)
    BY <1>1, <2>1, CalledIs
  <2>3. PICK w : w = [id |-> delta.id, body |-> delta.arguments]
    OBVIOUS
  <2>4. v = Append(said, w)
    BY <2>1, <2>3
  <2>5. SaysCalls(c, sd, v, stopped)
    BY <1>2, <1>3, <2>1, <2>2, <2>3, <2>4, NewDeltaShows
  <2>6. w \in CallBodies
    BY <2>3 DEF CallBodies, CallDeltas
  <2>7. v # <<>>
    <3>1. Len(v) = Len(said) + 1 /\ Len(said) \in Nat
      BY <1>4, <2>4, <2>6
    <3> QED BY <3>1
  <2> QED BY <2>5, <2>7 DEF SaysCalls, ChunkShows
<1>7. CASE ~stopped /\ LastCallFed(e, said, v)
  <2>1. PICK delta : e.calls = <<delta>> /\ FeedsLast(delta, said, v)
    BY <1>7 DEF LastCallFed
  <2>2. sd = handleToolCallDelta(sf, delta)
    BY <1>1, <2>1, CalledIs
  <2>3. ~stopped /\ FeedsLast(delta, said, v)
    BY <1>7, <2>1
  <2>4. SaysCalls(c, sd, v, stopped)
    BY <1>2, <1>3, <2>2, <2>3, MoreDeltaShows
  <2>5. v # <<>>
    <3>1. said # <<>>
      BY <2>3 DEF FeedsLast
    <3>1a. Len(said) \in Nat /\ Len(said) # 0 /\ DOMAIN said = 1..Len(said)
      BY <1>4, <3>1
    <3>1b. 1 \in DOMAIN said
      BY <3>1a
    <3>2. DOMAIN v = DOMAIN said
      BY <2>3 DEF FeedsLast, LastFed
    <3>3. 1 \notin DOMAIN <<>>
      OBVIOUS
    <3> QED BY <3>1b, <3>2, <3>3
  <2> QED BY <2>4, <2>5 DEF SaysCalls, ChunkShows
<1> QED BY <1>5, <1>6, <1>7 DEF CallsSaid

\* What a chunk says of the answer, it says of its calls.
LEMMA ChunkSaysCalls ==
    ASSUME NEW e \in Chunks, NEW a \in Answers, NEW b, ChunkSays(e, a, b), NEW stopped, stopped => b = a
    PROVE  CallsSaid(e, a.calls, b.calls, stopped)
<1>1. /\ a.text \in Bodies /\ a.calls \in Seq(CallBodies) /\ Len(a.calls) \in Nat
      /\ e.content \in Bodies /\ e.reasoning \in Bodies
  BY DEF Answers, Chunks
<1>2. CASE SaysNothing(e, a, b)
  BY <1>2 DEF SaysNothing, CallsSaid
<1>3. CASE SaysThought(e, a, b)
  <2>1. PICK piece \in Bodies : piece = e.reasoning /\ e.calls = <<>> /\ b = Said(a, Block("thinking", NoId, piece))
    BY <1>1, <1>3 DEF SaysThought
  <2>2. NoId \in Nat
    BY DEF NoId
  <2>3. Said(a, Block("thinking", NoId, piece)).calls = a.calls
    BY <2>2, SaidThought
  <2> QED BY <2>1, <2>3 DEF CallsSaid
<1>4. CASE SaysText(e, a, b)
  <2>1. PICK piece \in Bodies : piece = e.content /\ e.calls = <<>> /\ b = Said(a, Block("text", NoId, piece))
    BY <1>1, <1>4 DEF SaysText
  <2>2. NoId \in Nat
    BY DEF NoId
  <2>3. Said(a, Block("text", NoId, piece)).calls = a.calls
    BY <2>2, SaidText
  <2> QED BY <2>1, <2>3 DEF CallsSaid
<1>5. CASE SaysCall(e, a, b)
  <2>1. PICK id \in Nat \ {NoId}, arguments \in Bodies :
          e.calls = <<CallDelta(Len(a.calls), id, arguments)>> /\ b = Said(a, Block("tool", id, arguments))
    BY <1>5 DEF SaysCall
  <2>2. Said(a, Block("tool", id, arguments)).calls = Append(a.calls, [id |-> id, body |-> arguments])
    BY SaidTool
  <2>3. PICK delta : delta = CallDelta(Len(a.calls), id, arguments)
    OBVIOUS
  <2>4. delta \in CallDeltas /\ delta.index = Len(a.calls) /\ delta.id = id /\ delta.arguments = arguments
    BY <1>1, <2>3 DEF CallDelta, CallDeltas
  <2>5. b.calls = Append(a.calls, [id |-> delta.id, body |-> delta.arguments])
    BY <2>1, <2>2, <2>4
  <2>6. NewCallSaid(e, a.calls, b.calls)
    BY <2>1, <2>3, <2>4, <2>5 DEF NewCallSaid
  <2> QED BY <2>6 DEF CallsSaid
<1>6. CASE SaysMore(e, a, b)
  <2>1. PICK arguments \in Bodies : /\ e.calls = <<CallDelta(Len(a.calls) - 1, NoId, arguments)>>
                                    /\ b = Further(a, arguments) /\ arguments # <<>>
    BY <1>6 DEF SaysMore
  <2>2. a.calls # <<>> /\ Len(a.calls) # 0
    <3>1. a.calls # <<>>
      BY <1>6 DEF SaysMore
    <3> QED BY <1>1, <3>1
  <2>3. PICK delta : delta = CallDelta(Len(a.calls) - 1, NoId, arguments)
    OBVIOUS
  <2>4. /\ delta \in CallDeltas /\ delta.index = Len(a.calls) - 1 /\ delta.id = NoId
        /\ delta.arguments = arguments
    BY <1>1, <2>2, <2>3 DEF CallDelta, CallDeltas, NoId
  <2>5. b.calls = LastFed(a.calls, delta.arguments)
    BY <2>1, <2>4 DEF Further, LastFed
  <2>6. LastCallFed(e, a.calls, b.calls)
    BY <2>1, <2>2, <2>3, <2>4, <2>5 DEF LastCallFed, FeedsLast
  <2>7. ~stopped
    <3>1. ASSUME b = a PROVE FALSE
      <4>1. e.calls = <<>>
        BY <3>1, SaysSame
      <4>2. e.calls = <<delta>> /\ <<delta>> # <<>>
        BY <2>1, <2>3
      <4> QED BY <4>1, <4>2
    <3> QED BY <3>1
  <2> QED BY <2>6, <2>7 DEF CallsSaid
<1> QED BY <1>2, <1>3, <1>4, <1>5, <1>6 DEF ChunkSays

\* A chunk keeps what the client is shown in step with what was said.
MaySay(sc, x, t, u, stopped, over) ==
  /\ t \in Told /\ u \in Told /\ SaysChunk(x, t, u) /\ CallsWithin(sc)
  /\ stopped => u.answer = t.answer
  /\ x.content # <<>> => t.answer.calls = <<>>
  /\ stopped \/ x.finish = "tool_calls" => over

LEMMA ChunkShown ==
    ASSUME NEW c, NEW sc, NEW x, NEW t, NEW u, NEW stopped, NEW over, MaySay(sc, x, t, u, stopped, over),
           ChunkShows(c, sc, t.answer.calls, stopped), NEW sd, sd = ResponsesFromChat(sc, x)
    PROVE  ChunkShows(c, sd, u.answer.calls, over)
<1> HIDE DEF ResponseEvents
<1>0. /\ t \in Told /\ u \in Told /\ SaysChunk(x, t, u) /\ CallsWithin(sc)
      /\ stopped => u.answer = t.answer
      /\ x.content # <<>> => t.answer.calls = <<>>
      /\ (stopped \/ x.finish = "tool_calls") => over
  BY DEF MaySay
<1>1. PICK a, b : a = t.answer /\ b = u.answer /\ a \in Answers /\ b \in Answers /\ ChunkSays(x, a, b)
  BY <1>0 DEF SaysChunk, Told
<1>2. PICK said, v : said = a.calls /\ v = b.calls
  OBVIOUS
<1>3. x \in Chunks /\ OneCall(x) /\ x.content \in Bodies /\ x.usage \in Usages
  BY <1>0, OneSaid
<1>4. x.type = "chunk"
  BY <1>3 DEF Chunks
<1>5. CallsSaid(x, said, v, stopped)
  BY <1>0, <1>1, <1>2, <1>3, ChunkSaysCalls
<1>6. ChunkShows(c, sc, said, stopped)
  BY <1>1, <1>2
<1>7. sc \in Responders /\ ~sc.sentDone
  BY <1>6 DEF ChunkShows, Shows
<1>8. PICK s1 : s1 = ChunkCounted(sc, x)
  OBVIOUS
<1>9. ChunkShows(c, s1, said, stopped)
  BY <1>3, <1>6, <1>8, CountedShows
<1>10. s1 \in Responders /\ ~s1.sentDone /\ s1.calls = sc.calls
  BY <1>3, <1>7, <1>8, CountedHeard DEF Heard
<1>11. PICK s2 : s2 = ChunkTexted(s1, x)
  OBVIOUS
<1>12. x.content # <<>> => said = <<>>
  BY <1>0, <1>1, <1>2
<1>13. ChunkShows(c, s2, said, stopped)
  BY <1>3, <1>9, <1>11, <1>12, TextedShows
<1>14. s2 \in Responders /\ ~s2.sentDone /\ CallsWithin(s2)
  BY <1>0, <1>3, <1>10, <1>11, TextedHeard DEF Heard, CallsWithin
<1>15. PICK s3 : s3 = ChunkCalled(s2, x)
  OBVIOUS
<1>16. ChunkShows(c, s3, v, stopped)
  BY <1>5, <1>13, <1>15, CalledShows
<1>17. CallsWithin(s3)
  BY <1>3, <1>14, <1>15, CalledPasses
<1>18. PICK s4 : s4 = ChunkFinished(s3, x)
  OBVIOUS
<1>19. ChunkShows(c, s4, v, over)
  BY <1>0, <1>16, <1>17, <1>18, FinishedShows
<1>20. sd = s4
  <2>1. sd = ResponsesChunk(sc, x)
    BY <1>4 DEF ResponsesFromChat
  <2> QED BY <1>8, <1>11, <1>15, <1>18, <2>1, ChunkStages
<1> QED BY <1>1, <1>2, <1>19, <1>20

\* The end completes the message and the calls, and then the response.
LEMMA EndShown ==
    ASSUME NEW c, NEW sc, NEW said, NEW stopped, ChunkShows(c, sc, said, stopped), CallsWithin(sc),
           NEW answer, answer.calls = said, answer.text = sc.text, NEW whole, NEW early, NEW inCall,
           NEW e, e.type \in {"[DONE]", "EOF"}, NEW sd, sd = ResponsesFromChat(sc, e)
    PROVE  Finishes(c, sd, whole, answer, early, inCall)
<1> HIDE DEF ResponseEvents
<1>1. PICK begun, items : begun /\ Shows(c, sc, begun, items, said)
  <2>1. PICK begun : begun = TRUE
    OBVIOUS
  <2> QED BY <2>1 DEF ChunkShows
<1>2. sc \in Responders /\ ~sc.sentDone
  BY <1>1 DEF Shows
<1>3. PICK s1 : s1 = CompleteAssistantOutput(sc)
  OBVIOUS
<1>4. PICK m : Shows(c, s1, begun, m, said)
  BY <1>1, <1>3, CompleteShows
<1>5. s1.reserved => s1.done
  BY <1>1, <1>3, CompleteShows
<1>6. CallsWithin(s1) /\ s1.text = sc.text /\ s1 \in Responders /\ ~s1.sentDone
  BY <1>2, <1>3, CompletePasses DEF Passes, CallsWithin
<1>7. PICK s2 : s2 = completePendingToolCalls(s1)
  OBVIOUS
<1>8. CompletesAll(c, s1, s2, begun, said)
  BY <1>4, <1>6, <1>7, PendingShows
<1>9. PICK n : Shows(c, s2, begun, n, said)
  BY <1>8 DEF CompletesAll
<1>10. /\ s2.reserved => s2.done
       /\ s2.text = sc.text
       /\ \A k \in DOMAIN s2.calls : s2.calls[k].completed
  BY <1>5, <1>6, <1>8 DEF CompletesAll, SameMessage
<1>13. (begun \/ early) /\ ClosedOrLast(s2.calls, inCall)
  BY <1>1, <1>10 DEF ClosedOrLast
<1>11. Finishes(c, Completed(s2), whole, answer, early, inCall)
  BY <1>9, <1>10, <1>13, CompletedFinishes
<1>12. sd = Completed(s2)
  BY <1>2, <1>3, <1>7 DEF ResponsesFromChat
<1> QED BY <1>11, <1>12

-----------------------------------------------------------------------------
(* The blocks of the provider grow, and a chunk that brings text is of the last. *)

GrowsTo(s, r) == \A n \in DOMAIN s : n \in DOMAIN r /\ r[n].type = s[n].type

LEMMA TextStaysAfter ==
    ASSUME NEW s, NEW r, GrowsTo(s, r), TextAfter(s)
    PROVE  TextAfter(r)
<1>1. PICK m, n \in DOMAIN s : m < n /\ s[m].type = "tool" /\ s[n].type = "text"
  BY DEF TextAfter
<1>2. m \in DOMAIN r /\ n \in DOMAIN r /\ r[m].type = s[m].type /\ r[n].type = s[n].type
  BY <1>1 DEF GrowsTo
<1> QED BY <1>1, <1>2 DEF TextAfter

LEMMA AppendGrows ==
    ASSUME NEW S, NEW s \in Seq(S), NEW x, NEW r, r = Append(s, x)
    PROVE  GrowsTo(s, r) /\ r # <<>> /\ Last(r) = x
<1>1. PICK T : T = S \cup {x}
  OBVIOUS
<1>2. s \in Seq(T) /\ x \in T
  BY <1>1
<1>3. /\ Len(s) \in Nat /\ r \in Seq(T) /\ Len(r) = Len(s) + 1 /\ r # <<>> /\ Last(r) = x
      /\ \A k \in 1..Len(s) : r[k] = s[k]
  BY <1>2, AppendIs
<1>4. DOMAIN s = 1..Len(s) /\ DOMAIN r = 1..Len(r)
  BY <1>2, <1>3
<1>5. ASSUME NEW n \in DOMAIN s PROVE n \in DOMAIN r /\ r[n].type = s[n].type
  BY <1>3, <1>4
<1> QED BY <1>3, <1>5 DEF GrowsTo

LEMMA BegunGrows ==
    ASSUME sent \in Seq(SentBlocks), NEW type, NEW body, NEW open, sent' = Begun(type, body, open)
    PROVE  GrowsTo(sent, sent') /\ sent' # <<>> /\ Last(sent').type = type
<1>1. PICK x : x = [type |-> type, id |-> IF type = "tool" THEN Len(sent) + 1 ELSE NoId, body |-> body, open |-> open]
  OBVIOUS
<1>2. sent' = Append(sent, x) /\ x.type = type
  BY <1>1 DEF Begun
<1>3. PICK s, r : s = sent /\ r = sent'
  OBVIOUS
<1>4. GrowsTo(s, r) /\ r # <<>> /\ Last(r) = x
  BY <1>2, <1>3, AppendGrows
<1> QED BY <1>2, <1>3, <1>4

LEMMA TurnsGrows ==
    ASSUME NEW d, NEW s, NEW r, NEW z, NEW body, NEW open, Turns(d, s, r, z, body, open), s \in Seq(SentBlocks)
    PROVE  /\ GrowsTo(s, r) /\ r # <<>> /\ Last(r).type = z.type
           /\ z.type # "text" => AnswerOf(r).text = AnswerOf(s).text
<1>1. /\ SentOk(r, d) /\ Len(r) = Len(s) /\ Len(s) \in Nat /\ r # <<>> /\ Last(r).type = z.type
      /\ \A n \in 1..Len(s) : r[n].type = s[n].type
  BY DEF Turns
<1>2. DOMAIN s = 1..Len(s) /\ DOMAIN r = 1..Len(r)
  BY <1>1 DEF SentOk
<1>3. GrowsTo(s, r)
  BY <1>1, <1>2 DEF GrowsTo
<1>4. PICK a : a = AnswerOf(Front(s))
  OBVIOUS
<1>5. AnswerOf(s) = Said(a, Block(z.type, z.id, z.body)) /\ AnswerOf(r) = Said(a, Block(z.type, z.id, body))
  BY <1>4 DEF Turns
<1>6. z.type # "text" => AnswerOf(r).text = AnswerOf(s).text
  BY <1>5 DEF Said, Block
<1> QED BY <1>1, <1>3, <1>6

LEMMA ContinuedGrows ==
    ASSUME SentOk(sent, dialect), sent # <<>>, sent' = Continued(Piece)
    PROVE  /\ GrowsTo(sent, sent') /\ sent' # <<>> /\ Last(sent').type = Last(sent).type
           /\ Last(sent).type # "text" => AnswerOf(sent').text = AnswerOf(sent).text
<1>1. PICK z, s, r, d, body, open : /\ z = Last(sent) /\ s = sent /\ r = sent' /\ d = dialect
                                    /\ body = Continues(z, Piece) /\ open = z.open
  OBVIOUS
<1>2. Turns(d, s, r, z, body, open)
  BY <1>1, BlockContinues
<1>3. s \in Seq(SentBlocks)
  BY <1>1 DEF SentOk
<1> QED BY <1>1, <1>2, <1>3, TurnsGrows

LEMMA SentGrows ==
    ASSUME ProviderOk, Anthropic \/ OpenAI
    PROVE  GrowsTo(sent, sent')
<1>1. SentOk(sent, dialect) /\ sent \in Seq(SentBlocks)
  BY DEF ProviderOk, SentOk
<1>2. ASSUME sent' = sent PROVE GrowsTo(sent, sent')
  BY <1>2 DEF GrowsTo
<1>3. ASSUME AnthropicBlockStop, dialect = "anthropic" PROVE GrowsTo(sent, sent')
  <2>1. sent # <<>> /\ sent' = [sent EXCEPT ![Len(sent)].open = FALSE]
    BY <1>3 DEF AnthropicBlockStop, Open
  <2>2. PICK z, s, r, body, open : z = Last(sent) /\ s = sent /\ r = sent' /\ body = z.body /\ open = FALSE
    OBVIOUS
  <2>3. Turns("anthropic", sent, sent', z, z.body, FALSE)
    BY <1>1, <1>3, <2>1, <2>2, SentStops
  <2>4. PICK d : d = "anthropic"
    OBVIOUS
  <2>5. Turns(d, s, r, z, body, open) /\ s \in Seq(SentBlocks)
    BY <1>1, <2>2, <2>3, <2>4
  <2> QED BY <2>2, <2>5, TurnsGrows
<1>4. CASE Anthropic
  <2>1. CASE AnthropicStart \/ \E reason \in Reasons : AnthropicStop(reason)
    BY <1>2, <2>1 DEF AnthropicStart, AnthropicStop
  <2>2. ASSUME NEW type, NEW input, AnthropicBlockStart(type, input) PROVE GrowsTo(sent, sent')
    <3>1. sent' = Begun(type, input, TRUE)
      BY <2>2 DEF AnthropicBlockStart
    <3> QED BY <1>1, <3>1, BegunGrows
  <2>3. CASE AnthropicBlockDelta
    BY <1>1, <2>3, ContinuedGrows DEF AnthropicBlockDelta, Open
  <2>4. CASE AnthropicBlockStop
    BY <1>3, <1>4, <2>4 DEF Anthropic
  <2> QED BY <1>4, <2>1, <2>2, <2>3, <2>4 DEF Anthropic
<1>5. CASE OpenAI
  <2>1. ASSUME NEW type, OpenAIText(type) PROVE GrowsTo(sent, sent')
    <3>1. CASE sent # <<>> /\ Last(sent).type = type
      <4>1. sent' = Continued(Piece)
        BY <2>1, <3>1 DEF OpenAIText
      <4> QED BY <1>1, <3>1, <4>1, ContinuedGrows
    <3>2. CASE ~(sent # <<>> /\ Last(sent).type = type)
      <4>1. sent' = Begun(type, Piece, FALSE)
        BY <2>1, <3>2 DEF OpenAIText
      <4> QED BY <1>1, <4>1, BegunGrows
    <3> QED BY <3>1, <3>2
  <2>2. ASSUME NEW arguments, NEW last, OpenAICall(arguments, last) PROVE GrowsTo(sent, sent')
    <3>1. sent' = Begun("tool", arguments, FALSE)
      BY <2>2 DEF OpenAICall
    <3> QED BY <1>1, <3>1, BegunGrows
  <2>3. CASE OpenAIArguments
    BY <1>1, <2>3, ContinuedGrows DEF OpenAIArguments
  <2>4. ASSUME NEW reason, OpenAIStop(reason) PROVE GrowsTo(sent, sent')
    BY <1>2, <2>4 DEF OpenAIStop
  <2>5. CASE UNCHANGED <<sent, stop>>
    BY <1>2, <2>5
  <2> QED BY <1>5, <2>1, <2>2, <2>3, <2>4, <2>5 DEF OpenAI
<1> QED BY <1>4, <1>5

\* A block without text says none.
LEMMA BegunSilent ==
    ASSUME SentOk(sent, "openai"), Len(sent) < MaxBlocks, NEW type \in {"thinking", "tool"}, NEW body \in Bodies,
           body # <<Empty>>, sent' = Begun(type, body, FALSE)
    PROVE  AnswerOf(sent').text = AnswerOf(sent).text
<1>1. ~OpenIn(sent)
  BY SentPlain
<1>2. PICK id, b, open, d : /\ id = (IF type = "tool" THEN Len(sent) + 1 ELSE NoId) /\ open \in BOOLEAN /\ open = FALSE
                            /\ b = [type |-> type, id |-> id, body |-> body, open |-> open] /\ d = "openai"
  OBVIOUS
<1>3. type \in BlockTypes
  BY DEF BlockTypes
<1>4. sent' = Append(sent, b)
  BY <1>2 DEF Begun
<1>5. AnswerOf(Append(sent, b)) = Said(AnswerOf(sent), Block(type, id, body))
  BY <1>1, <1>2, <1>3, SentBegins
<1>6. PICK a : a = AnswerOf(sent)
  OBVIOUS
<1>7. Said(a, Block(type, id, body)).text = a.text
  BY DEF Said, Block
<1> QED BY <1>4, <1>5, <1>6, <1>7

LEMMA TextIsLast ==
    ASSUME ProviderOk, dialect = "openai", OpenAI, AnswerOf(sent').text # AnswerOf(sent).text
    PROVE  sent' # <<>> /\ Last(sent').type = "text"
<1>1. SentOk(sent, "openai") /\ SentOk(sent, dialect) /\ sent \in Seq(SentBlocks)
  BY DEF ProviderOk, SentOk
<1>2. sent' # sent
  OBVIOUS
<1>3. Piece \in Bodies /\ Piece # <<Empty>> /\ <<>> \in Bodies /\ <<>> # <<Empty>>
  BY <1>1, PieceFacts
<1>4. ASSUME NEW type \in {"thinking", "text"}, OpenAIText(type) PROVE sent' # <<>> /\ Last(sent').type = "text"
  <2>1. CASE sent # <<>> /\ Last(sent).type = type
    <3>1. sent' = Continued(Piece)
      BY <1>4, <2>1 DEF OpenAIText
    <3> QED BY <1>1, <2>1, <3>1, ContinuedGrows
  <2>2. CASE ~(sent # <<>> /\ Last(sent).type = type)
    <3>1. sent' = Begun(type, Piece, FALSE) /\ Len(sent) < MaxBlocks
      BY <1>4, <2>2 DEF OpenAIText
    <3>2. CASE type = "text"
      BY <1>1, <3>1, <3>2, BegunGrows
    <3>3. CASE type = "thinking"
      BY <1>1, <1>3, <3>1, <3>3, BegunSilent
    <3> QED BY <3>2, <3>3
  <2> QED BY <2>1, <2>2
<1>5. ASSUME NEW arguments \in {<<>>, Piece}, NEW last, OpenAICall(arguments, last) PROVE FALSE
  <2>1. sent' = Begun("tool", arguments, FALSE) /\ Len(sent) < MaxBlocks
    BY <1>5 DEF OpenAICall
  <2>2. arguments \in Bodies /\ arguments # <<Empty>>
    BY <1>3
  <2> QED BY <1>1, <2>1, <2>2, BegunSilent
<1>6. ASSUME OpenAIArguments PROVE FALSE
  <2>1. sent # <<>> /\ sent' = Continued(Piece) /\ Last(sent).type = "tool"
    BY <1>6 DEF OpenAIArguments
  <2>2. AnswerOf(sent').text = AnswerOf(sent).text
    BY <1>1, <2>1, ContinuedGrows
  <2> QED BY <2>2
<1>7. ASSUME NEW reason, OpenAIStop(reason) PROVE FALSE
  BY <1>2, <1>7 DEF OpenAIStop
<1>8. ASSUME UNCHANGED <<sent, stop>> PROVE FALSE
  BY <1>2, <1>8
<1> QED BY <1>4, <1>5, <1>6, <1>7, <1>8 DEF OpenAI

\* Where the properties let the beginning, or the end of the last call, be missing.
CutEarly(d, src, s) == d = "anthropic" /\ src = "cut" /\ s = <<>>
CutOpen(d, src, s) == d = "anthropic" /\ src = "cut" /\ OpenIn(s) /\ Last(s).type = "tool"

\* The client is through with the answer of a source.
Through(c, sc, d, src, s, st) ==
  Finishes(c, sc, st # Unset /\ src # "cut", AnswerOf(s), CutEarly(d, src, s), CutOpen(d, src, s))

\* One step of the provider of chat chunks.
Chunked(c, sc, src, s, st) ==
  IF EndsAt("openai", src) THEN Through(c, sc, "openai", src, s, st)
  ELSE ChunkShows(c, sc, AnswerOf(s).calls, st # Unset)

LEMMA OpenAIShown ==
    ASSUME ProviderOk, dialect = "openai", endpoint = "responses", UNCHANGED <<dialect, endpoint>>, OpenAI,
           adapter.text = AnswerOf(sent).text, CallsWithin(adapter),
           Chunked(client, adapter, source, sent, stop), ~TextAfter(sent')
    PROVE  Chunked(client', adapter', source', sent', stop')
<1>1. PICK x, t, u : /\ Feed(x) /\ Says(x, t, u) /\ t \in Told /\ u \in Told
                     /\ Tells(t, dialect, source, sent, stop)
                     /\ Tells(u, dialect, source', sent', stop')
  BY OpenAISaysOn
<1>2. UNCHANGED client /\ adapter' = ResponsesFromChat(adapter, x)
  <2>1. dialect # "anthropic"
    BY RouteFacts DEF ProviderOk
  <2>2. adapter' = Adapted(x) /\ UNCHANGED client
    BY <1>1 DEF Feed
  <2> QED BY <2>1, <2>2 DEF Adapted
<1>3. ProviderOk'
  BY OpenAIKeeps
<1>4. /\ ToldOf(sent) = AnswerOf(sent) /\ ToldOf(sent') = AnswerOf(sent')
      /\ sent' \in Seq(SentBlocks)
  BY <1>3, SentPlain DEF ProviderOk
<1>5. PICK sc, sd, c, s, r, src, srd, st, std :
        /\ sc = adapter /\ sd = adapter' /\ c = client /\ s = sent /\ r = sent' /\ src = source /\ srd = source'
        /\ st = stop /\ std = stop'
  OBVIOUS
<1>6. source \in {"blocks", "stopped", "counted"}
  BY DEF OpenAI, OpenAIEnd
<1>7. ~EndsAt("openai", src)
  BY <1>5, <1>6 DEF EndsAt
<1>8. PICK stopped, over : stopped \in BOOLEAN /\ over \in BOOLEAN /\ stopped = (st # Unset) /\ over = (std # Unset)
  OBVIOUS
<1>9. ChunkShows(c, sc, AnswerOf(s).calls, stopped)
  BY <1>5, <1>7, <1>8 DEF Chunked
<1>10. /\ t.answer = AnswerOf(s) /\ u.answer = AnswerOf(r)
       /\ t.stop = (IF st = Unset THEN Unset ELSE Finish[st])
       /\ u.stop = (IF std = Unset THEN Unset ELSE Finish[std])
       /\ (u.ended <=> EndsAt("openai", srd))
  BY <1>1, <1>4, <1>5 DEF Tells
<1>11. st \in StopReasons \cup {Unset} /\ std \in StopReasons \cup {Unset}
  BY <1>3, <1>5 DEF ProviderOk
<1>12. (t.stop # Unset <=> stopped) /\ (u.stop # Unset <=> over)
  BY <1>8, <1>10, <1>11, FinishFacts
<1>13. CASE SaysChunk(x, t, u)
  <2>1. x.content \in Bodies /\ u.answer.text = t.answer.text \o x.content
    BY <1>1, <1>13, OneSaid
  <2>2. ASSUME x.content # <<>> PROVE t.answer.calls = <<>>
    <3>1. t.answer.text \in Bodies
      BY <1>1 DEF Told, Answers
    <3>2. u.answer.text # t.answer.text
      <4>1. PICK text, piece, more : text = t.answer.text /\ piece = x.content /\ more = u.answer.text
        OBVIOUS
      <4>2. text \in Seq(Nat) /\ piece \in Seq(Nat) /\ more = text \o piece /\ piece # <<>>
        BY <2>1, <2>2, <3>1, <4>1 DEF Bodies
      <4>3. Len(more) = Len(text) + Len(piece) /\ Len(piece) # 0 /\ Len(piece) \in Nat /\ Len(text) \in Nat
        BY <4>2
      <4>4. more # text
        BY <4>3
      <4> QED BY <4>1, <4>4
    <3>3. sent' # <<>> /\ Last(sent').type = "text"
      BY <1>5, <1>10, <3>2, TextIsLast
    <3>4. u.answer.calls = <<>>
      BY <1>4, <1>5, <1>10, <3>3, NoCallsBefore
    <3>5. SaysText(x, t.answer, u.answer)
      BY <1>13, <2>2 DEF SaysChunk, ChunkSays, SaysNothing, SaysThought, SaysCall, SaysMore
    <3>6. PICK a, b, piece : a = t.answer /\ b = u.answer /\ piece = x.content
      OBVIOUS
    <3>7. b = Said(a, Block("text", NoId, piece))
      BY <3>5, <3>6 DEF SaysText
    <3>8. b.calls = a.calls
      BY <3>7 DEF Said, Block
    <3> QED BY <3>4, <3>6, <3>8
  <2>3. stopped => u.answer = t.answer
    BY <1>12, <1>13 DEF SaysChunk
  <2>4. stopped \/ x.finish = "tool_calls" => over
    <3>1. u.stop = IF x.finish = Unset THEN t.stop ELSE x.finish
      BY <1>13 DEF SaysChunk
    <3>2. "tool_calls" # Unset
      BY Zenon DEF Unset
    <3>3. CASE x.finish = "tool_calls"
      BY <1>12, <3>1, <3>2, <3>3
    <3>4. CASE stopped
      <4>1. t.stop # Unset /\ x.finish = Unset
        BY <1>12, <1>13, <3>4 DEF SaysChunk
      <4> QED BY <1>12, <3>1, <4>1
    <3> QED BY <3>3, <3>4
  <2>5. ChunkShows(c, sc, t.answer.calls, stopped)
    BY <1>9, <1>10
  <2>6. sd = ResponsesFromChat(sc, x) /\ CallsWithin(sc)
    BY <1>2, <1>5
  <2>6a. MaySay(sc, x, t, u, stopped, over)
    BY <1>1, <1>13, <2>2, <2>3, <2>4, <2>6 DEF MaySay
  <2>7. ChunkShows(c, sd, u.answer.calls, over)
    BY <2>5, <2>6, <2>6a, ChunkShown
  <2>8. ~EndsAt("openai", srd)
    BY <1>10, <1>13 DEF SaysChunk
  <2>9. ChunkShows(c, sd, AnswerOf(r).calls, std # Unset)
    BY <1>8, <1>10, <2>7
  <2> QED BY <1>2, <1>5, <2>8, <2>9 DEF Chunked
<1>14. CASE SaysEnd(x, t, u)
  <2>1. x.type \in {"[DONE]", "EOF"}
    BY <1>14 DEF SaysEnd, Done
  <2>2. EndsAt("openai", srd) /\ u.answer = t.answer
    BY <1>10, <1>14 DEF SaysEnd
  <2>3. PICK whole, early, inCall : /\ whole = (std # Unset /\ srd # "cut")
                                    /\ early = CutEarly("openai", srd, r) /\ inCall = CutOpen("openai", srd, r)
    OBVIOUS
  <2>4. Finishes(c, sd, whole, AnswerOf(r), early, inCall)
    BY <1>2, <1>5, <1>9, <1>10, <2>1, <2>2, EndShown
  <2>5. Through(c, sd, "openai", srd, r, std)
    BY <2>3, <2>4 DEF Through
  <2> QED BY <1>2, <1>5, <2>2, <2>5 DEF Chunked
<1> QED BY <1>1, <1>13, <1>14 DEF Says

-----------------------------------------------------------------------------
(* The client reads on. *)

\* An event leaves the buffer.
Popped(sc, sd) ==
  /\ sd \in Responders /\ sd.buffer = Tail(sc.buffer) /\ sd.calls = sc.calls /\ sd.next = sc.next
  /\ (sd.reserved <=> sc.reserved) /\ (sd.started <=> sc.started) /\ (sd.done <=> sc.done)
  /\ sd.text = sc.text /\ sd.usage = sc.usage /\ (sd.sentDone <=> sc.sentDone)

LEMMA PoppedIs ==
    ASSUME NEW sc \in Responders, sc.buffer # <<>>, NEW sd, sd = [sc EXCEPT !.buffer = Tail(@)]
    PROVE  Popped(sc, sd)
<1> HIDE DEF ResponseEvents
<1>1. PICK events, rest : events = sc.buffer /\ rest = Tail(events)
  OBVIOUS
<1>2. events \in Seq(ResponseEvents) /\ events # <<>>
  BY <1>1 DEF Responders
<1>3. rest \in Seq(ResponseEvents)
  BY <1>1, <1>2
<1>4. sd = [sc EXCEPT !.buffer = rest]
  BY <1>1 DEF Responders
<1>5. /\ sd \in Responders /\ sd.buffer = rest /\ sd.calls = sc.calls /\ sd.next = sc.next
      /\ sd.reserved = sc.reserved /\ sd.started = sc.started /\ sd.done = sc.done
      /\ sd.text = sc.text /\ sd.usage = sc.usage /\ sd.sentDone = sc.sentDone
  BY <1>3, <1>4 DEF Responders
<1> QED BY <1>1, <1>5 DEF Popped

LEMMA ReadsOn ==
    ASSUME NEW c \in Clients, NEW sc \in Responders, sc.buffer # <<>>, NEW sd, Popped(sc, sd),
           NEW p, p = ResponsesRead(c, Head(sc.buffer)), NEW d \in Clients, ReadsTo(c, sc.buffer, d)
    PROVE  p \in Clients /\ ReadsTo(p, sd.buffer, d)
<1> HIDE DEF ResponseEvents
<1>1. PICK events, e : events = sc.buffer /\ e = Head(events)
  OBVIOUS
<1>2. events \in Seq(ResponseEvents) /\ events # <<>>
  BY <1>1 DEF Responders
<1>3. e \in ResponseEvents
  BY <1>1, <1>2
<1>4. p \in Clients
  BY <1>1, <1>3, ClientReads
<1>5. ReadsTo(ResponsesRead(c, Head(events)), Tail(events), d)
  BY <1>1, <1>2, ReadsFirst
<1> QED BY <1>1, <1>4, <1>5 DEF Popped

LEMMA AtReadsOn ==
    ASSUME NEW c \in Clients, NEW sc \in Responders, sc.buffer # <<>>, NEW sd, Popped(sc, sd),
           NEW p, p = ResponsesRead(c, Head(sc.buffer)), NEW begun, NEW items, At(c, sc.buffer, begun, items, sc.text)
    PROVE  At(p, sd.buffer, begun, items, sd.text)
<1>1. PICK d \in Clients :
        /\ ReadsTo(c, sc.buffer, d) /\ ~d.broken /\ ~d.ended /\ (d.begun <=> begun) /\ d.stop = Unset
        /\ d.items = items /\ d.text = sc.text
  BY DEF At
<1>2. ReadsTo(p, sd.buffer, d)
  BY <1>1, ReadsOn
<1> QED BY <1>1, <1>2 DEF At, Popped

LEMMA ShowsOn ==
    ASSUME NEW c \in Clients, NEW sc, sc.buffer # <<>>, NEW sd, Popped(sc, sd),
           NEW p, p = ResponsesRead(c, Head(sc.buffer)),
           NEW begun, NEW items, NEW said, Shows(c, sc, begun, items, said)
    PROVE  Shows(p, sd, begun, items, said) /\ Base(sd) = Base(sc)
<1> HIDE DEF ResponseEvents
<1>1. sc \in Responders /\ ~sc.sentDone /\ At(c, sc.buffer, begun, items, sc.text)
  BY DEF Shows
<1>2. At(p, sd.buffer, begun, items, sd.text)
  BY ZenonT(40), <1>1, AtReadsOn
<1>3. Base(sd) = Base(sc) /\ SameMessage(sc, sd)
  BY DEF Popped, Base, SameMessage
<1>4. MessageShown(sd, items)
  BY <1>3, SameMessageShown DEF Shows
<1>5. CallsShown(sd.calls, Base(sd), items, said)
  BY <1>3 DEF Shows, Popped
<1>6. /\ sd \in Responders /\ ~sd.sentDone
      /\ (sd.reserved /\ ~sd.started => said = <<>>)
      /\ (~begun => ~sd.reserved /\ said = <<>>)
  BY DEF Shows, Popped
<1> QED BY <1>2, <1>3, <1>4, <1>5, <1>6 DEF Shows

LEMMA FinishesOn ==
    ASSUME NEW c \in Clients, NEW sc \in Responders, sc.buffer # <<>>, NEW sd, Popped(sc, sd),
           NEW p, p = ResponsesRead(c, Head(sc.buffer)), NEW whole, NEW answer, NEW early, NEW inCall,
           Finishes(c, sc, whole, answer, early, inCall)
    PROVE  Finishes(p, sd, whole, answer, early, inCall)
<1>1. PICK d \in Clients :
        /\ ReadsTo(c, sc.buffer, d) /\ d.ended /\ ~d.broken /\ d.stop = "completed"
        /\ d.usage = sc.usage /\ d.text = sc.text
        /\ whole => ItemsTell(d.items, answer)
        /\ d.begun \/ early
        /\ DoneOrLast(d.items, inCall)
  BY DEF Finishes
<1>2. ReadsTo(p, sd.buffer, d)
  BY <1>1, ReadsOn
<1>3. d.usage = sd.usage /\ d.text = sd.text
  BY <1>1 DEF Popped
<1> QED BY <1>1, <1>2, <1>3 DEF Finishes

\* The converter, what it has written and what the client makes of it.
Responding(c, sc, d, src, s, st) ==
  IF EndsAt(d, src) THEN Through(c, sc, d, src, s, st)
  ELSE IF d = "anthropic" THEN AnthropicShows(c, sc, src, s)
  ELSE ChunkShows(c, sc, AnswerOf(s).calls, st # Unset)

LEMMA RespondingOn ==
    ASSUME NEW c \in Clients, NEW sc \in Responders, sc.buffer # <<>>, NEW sd, Popped(sc, sd),
           NEW p, p = ResponsesRead(c, Head(sc.buffer)),
           NEW d, NEW src, NEW s, NEW st, Responding(c, sc, d, src, s, st)
    PROVE  Responding(p, sd, d, src, s, st)
<1> HIDE DEF ResponseEvents
<1>1. PICK said, whole, stopped, begun, early, inCall :
        /\ said = AnswerOf(s).calls /\ whole = (st # Unset /\ src # "cut")
        /\ stopped = (st # Unset) /\ begun = (src # "fresh")
        /\ early = CutEarly(d, src, s) /\ inCall = CutOpen(d, src, s)
  OBVIOUS
<1>2. CASE EndsAt(d, src)
  <2>1. Finishes(c, sc, whole, AnswerOf(s), early, inCall)
    BY <1>1, <1>2 DEF Responding, Through
  <2>2. Finishes(p, sd, whole, AnswerOf(s), early, inCall)
    BY <2>1, FinishesOn
  <2> QED BY <1>1, <1>2, <2>2 DEF Responding, Through
<1>3. CASE ~EndsAt(d, src) /\ d = "anthropic"
  <2>1. AnthropicShows(c, sc, src, s)
    BY <1>3 DEF Responding
  <2>2. PICK items : Shows(c, sc, begun, items, said)
    BY <1>1, <2>1 DEF AnthropicShows
  <2>3. Shows(p, sd, begun, items, said)
    BY <2>2, ShowsOn
  <2>4. BlockCalls(sc, s, said)
    BY <1>1, <2>1 DEF AnthropicShows
  <2>5. BlockCalls(sd, s, said)
    BY <2>4 DEF BlockCalls, OpenCall, Popped
  <2>6. (src # "done" => (sd.reserved => sd.started)) /\ (sd.done => said # <<>>)
    BY <1>1, <2>1 DEF AnthropicShows, Popped
  <2>7. AnthropicShows(p, sd, src, s)
    BY <1>1, <2>3, <2>5, <2>6 DEF AnthropicShows
  <2> QED BY <1>3, <2>7 DEF Responding
<1>4. CASE ~EndsAt(d, src) /\ d # "anthropic"
  <2>1. ChunkShows(c, sc, said, stopped)
    BY <1>1, <1>4 DEF Responding
  <2>2. PICK yes : yes = TRUE
    OBVIOUS
  <2>2a. PICK items : Shows(c, sc, yes, items, said)
    BY <2>1, <2>2 DEF ChunkShows
  <2>3. Shows(p, sd, yes, items, said) /\ Base(sd) = Base(sc)
    BY <2>2a, ShowsOn
  <2>4. ChunkCalls(sd, said, stopped) /\ (sd.done => said # <<>>)
    BY <2>1, <2>3 DEF ChunkShows, ChunkCalls, Popped
  <2>5. \E m : Shows(p, sd, TRUE, m, said)
    BY <2>2, <2>3
  <2>6. ChunkShows(p, sd, said, stopped)
    BY <2>4, <2>5 DEF ChunkShows
  <2> QED BY <1>1, <1>4, <2>6 DEF Responding
<1> QED BY <1>2, <1>3, <1>4

LEMMA RespondingSeen ==
    ASSUME NEW c \in Clients, NEW sc \in Responders, NEW d, NEW src, NEW s, NEW st, Responding(c, sc, d, src, s, st),
           sc.text = AnswerOf(s).text
    PROVE  /\ ~c.broken /\ IsPrefix(c.text, AnswerOf(s).text)
           /\ c.ended => /\ EndsAt(d, src) /\ c.stop = "completed" /\ c.usage = sc.usage
                         /\ st # Unset /\ src # "cut" => ItemsTell(c.items, AnswerOf(s))
                         /\ c.begun \/ CutEarly(d, src, s)
                         /\ DoneOrLast(c.items, CutOpen(d, src, s))
<1> HIDE DEF ResponseEvents
<1>1. PICK events : events = sc.buffer /\ events \in Seq(ResponseEvents)
  BY DEF Responders
<1>2. ASSUME NEW begun, NEW items, NEW said, Shows(c, sc, begun, items, said)
      PROVE  ~c.broken /\ IsPrefix(c.text, AnswerOf(s).text) /\ ~c.ended
  <2>1. PICK x \in Clients : ReadsTo(c, events, x) /\ ~x.ended /\ x.text = sc.text
    BY <1>1, <1>2 DEF Shows, At
  <2>2. ~c.broken /\ IsPrefix(c.text, x.text)
    BY <1>1, <2>1, ReadsFirst
  <2>3. ~c.ended
    BY <1>1, <2>1, ReadsFirst
  <2> QED BY <2>1, <2>2, <2>3
<1>3. CASE EndsAt(d, src)
  <2>1. PICK whole, early, inCall : /\ whole = (st # Unset /\ src # "cut")
                                    /\ early = CutEarly(d, src, s) /\ inCall = CutOpen(d, src, s)
    OBVIOUS
  <2>2. Finishes(c, sc, whole, AnswerOf(s), early, inCall)
    BY <1>3, <2>1 DEF Responding, Through
  <2>3. PICK x \in Clients :
          /\ ReadsTo(c, events, x) /\ x.ended /\ ~x.broken /\ x.stop = "completed"
          /\ x.usage = sc.usage /\ x.text = sc.text
          /\ whole => ItemsTell(x.items, AnswerOf(s))
          /\ x.begun \/ early
          /\ DoneOrLast(x.items, inCall)
    BY <1>1, <2>2 DEF Finishes
  <2>4. ~c.broken /\ IsPrefix(c.text, x.text)
    BY <1>1, <2>3, ReadsFirst
  <2>5. c.ended => c = x
    BY <1>1, <2>3, ReadsFirst
  <2> QED BY <1>3, <2>1, <2>3, <2>4, <2>5
<1>4. CASE ~EndsAt(d, src)
  <2>1. \E begun, items, said : Shows(c, sc, begun, items, said)
    BY <1>4 DEF Responding, AnthropicShows, ChunkShows
  <2> QED BY <1>2, <2>1
<1> QED BY <1>3, <1>4

-----------------------------------------------------------------------------
(* What the client of a stream of a response has understood. *)

ResponsesShown ==
  IF pipe = "open" THEN TextAfter(sent) \/ Responding(client, adapter, dialect, source, sent, stop)
  ELSE StreamWellFormed /\ AnswerArrives

LEMMA OpenTells ==
    ASSUME ProviderOk, endpoint = "responses", ResponsesSeen, pipe = "open", ResponsesShown
    PROVE  StreamWellFormed /\ AnswerArrives
<1>1. CASE TextAfter(sent)
  <2>1. Exempt
    BY <1>1 DEF TextAfter, Exempt, TextAfterCall
  <2> QED BY <2>1 DEF StreamWellFormed, AnswerArrives
<1>2. CASE ~TextAfter(sent)
  <2>1. PICK sc, o, c, s, d, src, st :
          /\ sc = adapter /\ o = observed /\ c = client /\ s = sent /\ d = dialect /\ src = source /\ st = stop
    OBVIOUS
  <2>2. Follower(o, c, sc, d, src, s)
    BY <2>1 DEF ResponsesSeen
  <2>3. c \in Clients /\ sc \in Responders /\ sc.text = AnswerOf(s).text /\ (Counted(src) => sc.usage = Total)
    BY <2>2, FollowerIs DEF Follower
  <2>4. Responding(c, sc, d, src, s, st)
    BY <1>2, <2>1 DEF ResponsesShown
  <2>5. ~c.broken /\ IsPrefix(c.text, AnswerOf(s).text)
    BY <2>3, <2>4, RespondingSeen
  <2>6. c.ended => /\ EndsAt(d, src) /\ c.stop = "completed" /\ c.usage = sc.usage
                   /\ st # Unset /\ src # "cut" => ItemsTell(c.items, AnswerOf(s))
    BY <2>3, <2>4, RespondingSeen
  <2>11. EndsInOrder
    <3>1. CutBeforeStart = CutEarly(d, src, s) /\ CutInCall = CutOpen(d, src, s)
      BY <2>1 DEF CutBeforeStart, CutInCall, CutEarly, CutOpen, Open, OpenIn
    <3>2. c.ended => (c.begun \/ CutEarly(d, src, s)) /\ DoneOrLast(c.items, CutOpen(d, src, s))
      BY <2>3, <2>4, RespondingSeen
    <3> QED BY <2>1, <3>1, <3>2 DEF EndsInOrder, DoneOrLast
  <2>7. StreamWellFormed
    BY <2>1, <2>5, <2>11 DEF StreamWellFormed, Answer
  <2>8. ASSUME Whole PROVE ItemsTell(client.items, Answer) /\ client.usage = Total /\ client.stop = "completed"
    <3>1. c.ended /\ st # Unset /\ src # "cut"
      BY <2>1, <2>8 DEF Whole
    <3>2. Counted(src)
      BY <2>6, <3>1 DEF EndsAt, Counted
    <3> QED BY <2>1, <2>3, <2>6, <3>1, <3>2 DEF Answer
  <2>9. endpoint = "responses"
    OBVIOUS
  <2>10. AnswerArrives
    BY <2>8, <2>9 DEF AnswerArrives
  <2> QED BY <2>7, <2>10
<1> QED BY <1>1, <1>2

\* What only the client and the provider say.
LEMMA KeepsBoth ==
    ASSUME StreamWellFormed /\ AnswerArrives, UNCHANGED <<dialect, endpoint, client, source, sent, stop>>
    PROVE  StreamWellFormed' /\ AnswerArrives'
BY DEF StreamWellFormed, EndsInOrder, CutBeforeStart, CutInCall, Open, AnswerArrives, Exempt, TextAfterCall, Whole, Answer

LEMMA TextAfterStays ==
    ASSUME ProviderOk, Anthropic \/ OpenAI, TextAfter(sent)
    PROVE  TextAfter(sent')
BY SentGrows, TextStaysAfter

LEMMA SentShown ==
    ASSUME ProviderOk, endpoint = "responses", ResponsesSeen, ResponsesShown, Anthropic \/ OpenAI
    PROVE  ResponsesShown'
<1>1. pipe = "open" /\ pipe' = "open" /\ UNCHANGED <<dialect, endpoint, client>>
  BY Sends
<1>2. TextAfter(sent) \/ Responding(client, adapter, dialect, source, sent, stop)
  BY <1>1 DEF ResponsesShown
<1>3. CASE TextAfter(sent')
  BY <1>1, <1>3 DEF ResponsesShown
<1>4. CASE ~TextAfter(sent')
  <2>1. Responding(client, adapter, dialect, source, sent, stop)
    BY <1>2, <1>4, TextAfterStays
  <2>2. CASE Anthropic
    <3>1. dialect = "anthropic" /\ source \in {"fresh", "blocks"} /\ source' \in {"fresh", "blocks", "done"}
      BY <2>2 DEF Anthropic, AnthropicStart, AnthropicBlockStart, AnthropicBlockDelta, AnthropicBlockStop,
         AnthropicStop
    <3>2. AnthropicShows(client, adapter, source, sent)
      BY <2>1, <3>1 DEF Responding, EndsAt
    <3>3. AnthropicShows(client', adapter', source', sent')
      BY <1>1, <1>4, <2>2, <3>1, <3>2, AnthropicShown
    <3>4. Responding(client', adapter', dialect', source', sent', stop')
      BY <1>1, <3>1, <3>3 DEF Responding, EndsAt
    <3> QED BY <1>1, <3>4 DEF ResponsesShown
  <2>3. CASE OpenAI
    <3>1. dialect = "openai"
      BY <2>3 DEF OpenAI
    <3>2. adapter.text = AnswerOf(sent).text /\ CallsWithin(adapter)
      BY <3>1 DEF ResponsesSeen, Follower
    <3>3. Chunked(client, adapter, source, sent, stop)
      BY <2>1, <3>1 DEF Responding, Chunked
    <3>4. Chunked(client', adapter', source', sent', stop')
      BY <1>1, <1>4, <2>3, <3>1, <3>2, <3>3, OpenAIShown
    <3>5. Responding(client', adapter', dialect', source', sent', stop')
      BY <1>1, <3>1, <3>4 DEF Responding, Chunked
    <3> QED BY <1>1, <3>5 DEF ResponsesShown
  <2> QED BY <2>2, <2>3
<1> QED BY <1>3, <1>4

LEMMA EndOfSourceShown ==
    ASSUME ProviderOk, endpoint = "responses", ResponsesSeen, ResponsesShown, EndOfSource
    PROVE  ResponsesShown'
<1>1. PICK e : e = [type |-> "EOF"] /\ Feed(e)
  BY DEF EndOfSource
<1>2. /\ pipe = "open" /\ pipe' = "open" /\ UNCHANGED <<dialect, endpoint, client, sent, stop>>
      /\ source \notin {"ended", "cut"} /\ source' = IF source = "done" THEN "ended" ELSE "cut"
  BY Sends DEF EndOfSource
<1>3. PICK sc, c, s, d, src, srd, st :
        /\ sc = adapter /\ c = client /\ s = sent /\ d = dialect /\ src = source /\ srd = source' /\ st = stop
  OBVIOUS
<1>4. CASE TextAfter(sent)
  BY <1>2, <1>4 DEF ResponsesShown
<1>5. CASE ~TextAfter(sent)
  <2>1. Responding(c, sc, d, src, s, st)
    BY <1>2, <1>3, <1>5 DEF ResponsesShown
  <2>2. /\ sc.text = AnswerOf(s).text /\ (sc.sentDone <=> EndsAt(d, src)) /\ (d = "openai" => CallsWithin(sc))
        /\ e.type = "EOF" /\ EndsAt(d, srd)
    BY <1>1, <1>2, <1>3 DEF ResponsesSeen, Follower, EndsAt
  <2>3. PICK whole, early, inCall : /\ whole = (st # Unset /\ srd # "cut")
                                    /\ early = CutEarly(d, srd, s) /\ inCall = CutOpen(d, srd, s)
    OBVIOUS
  <2>4. whole => src = "done" /\ st # Unset
    BY <1>2, <1>3, <2>3
  <2>5. ASSUME Finishes(c, adapter', whole, AnswerOf(s), early, inCall) PROVE ResponsesShown'
    <3>1. Responding(c, adapter', d, srd, s, st)
      BY <2>2, <2>3, <2>5 DEF Responding, Through
    <3> QED BY <1>2, <1>3, <3>1 DEF ResponsesShown
  <2>6. CASE dialect = "anthropic"
    <3>1. adapter' = ResponsesFromAnthropic(adapter, e)
      BY <1>1, <2>6 DEF Feed, Adapted
    <3>2. ~EndsAt(d, src) /\ d = "anthropic"
      BY <1>2, <1>3, <2>6 DEF EndsAt
    <3>3. AnthropicShows(c, sc, src, s)
      BY <2>1, <3>2 DEF Responding
    <3>4. whole => ~OpenIn(s)
      BY <1>3, <2>4 DEF ProviderOk
    <3>6. (OpenIn(s) => src # "done") /\ (src = "fresh" => s = <<>>)
      BY <1>3 DEF ProviderOk
    <3>7. src # "fresh" \/ early
      BY <1>2, <1>3, <2>3, <3>2, <3>6 DEF CutEarly
    <3>8. OpenIn(s) /\ Last(s).type = "tool" => inCall
      BY <1>2, <1>3, <2>3, <3>2, <3>6 DEF CutOpen
    <3>5. Finishes(c, ResponsesFromAnthropic(sc, e), whole, AnswerOf(s), early, inCall)
      BY <2>2, <3>3, <3>4, <3>6, <3>7, <3>8, AnthropicEndShows
    <3> QED BY <1>3, <2>5, <3>1, <3>5
  <2>7. CASE dialect = "openai"
    <3>1. adapter' = ResponsesFromChat(adapter, e)
      BY <1>1, <2>7 DEF Feed, Adapted
    <3>2. CASE src = "done"
      <4>1. EndsAt(d, src) /\ srd = "ended"
        BY <1>2, <1>3, <2>7, <3>2 DEF EndsAt
      <4>2. Finishes(c, sc, st # Unset /\ src # "cut", AnswerOf(s), CutEarly(d, src, s), CutOpen(d, src, s))
        BY <2>1, <4>1 DEF Responding, Through
      <4>3. /\ (st # Unset /\ src # "cut") = whole
            /\ CutEarly(d, src, s) = early /\ CutOpen(d, src, s) = inCall
        BY <2>3, <3>2, <4>1 DEF CutEarly, CutOpen
      <4>4. adapter' = sc
        BY <1>3, <2>2, <3>1, <4>1 DEF ResponsesFromChat
      <4> QED BY <2>5, <4>2, <4>3, <4>4
    <3>3. CASE src # "done"
      <4>1. ~EndsAt(d, src) /\ d # "anthropic"
        BY <1>2, <1>3, <2>7, <3>3 DEF EndsAt
      <4>2. PICK said, stopped, answer : said = AnswerOf(s).calls /\ stopped = (st # Unset) /\ answer = AnswerOf(s)
        OBVIOUS
      <4>3. ChunkShows(c, sc, said, stopped)
        BY <2>1, <4>1, <4>2 DEF Responding
      <4>4. CallsWithin(sc) /\ answer.calls = said /\ answer.text = sc.text /\ e.type \in {"[DONE]", "EOF"}
        BY <1>3, <2>2, <2>7, <4>2
      <4>5. PICK sd : sd = ResponsesFromChat(sc, e)
        OBVIOUS
      <4>6. Finishes(c, sd, whole, answer, early, inCall)
        BY <4>3, <4>4, <4>5, EndShown
      <4> QED BY <1>3, <2>5, <3>1, <4>2, <4>5, <4>6
    <3> QED BY <3>2, <3>3
  <2> QED BY <2>6, <2>7, RouteFacts DEF ProviderOk
<1> QED BY <1>4, <1>5

LEMMA PassShown ==
    ASSUME ProviderOk, endpoint = "responses", ResponsesSeen, ResponsesShown, Pass
    PROVE  ResponsesShown'
<1> HIDE DEF ResponseEvents
<1>1. PICK sc, sd, c, p, s, d, src, st, e :
        /\ sc = adapter /\ sd = [sc EXCEPT !.buffer = Tail(@)] /\ c = client /\ p = ResponsesRead(c, e)
        /\ s = sent /\ d = dialect /\ src = source /\ st = stop /\ e = Head(sc.buffer)
  <2>1. PICK sc, c, e : sc = adapter /\ c = client /\ e = Head(sc.buffer)
    OBVIOUS
  <2> QED BY <2>1
<1>2. /\ pipe = "open" /\ sc.buffer # <<>> /\ adapter' = sd
      /\ UNCHANGED <<dialect, endpoint, source, sent, stop>> /\ Deliver(e)
  BY <1>1 DEF Pass, provider
<1>3. (client' = p /\ pipe' = "open") \/ (pipe' = "gone" /\ UNCHANGED client)
  BY <1>1, <1>2 DEF Deliver, Reads
<1>4. CASE pipe' = "gone" /\ UNCHANGED client
  <2>1. StreamWellFormed /\ AnswerArrives
    BY <1>2, OpenTells
  <2>2. StreamWellFormed' /\ AnswerArrives'
    BY <1>2, <1>4, <2>1, KeepsBoth
  <2> QED BY <1>4, <2>2 DEF ResponsesShown
<1>5. CASE client' = p /\ pipe' = "open"
  <2>1. CASE TextAfter(sent)
    BY <1>2, <1>5, <2>1 DEF ResponsesShown
  <2>2. CASE ~TextAfter(sent)
    <3>1. Responding(c, sc, d, src, s, st)
      BY <1>1, <1>2, <2>2 DEF ResponsesShown
    <3>2. Follower(observed, c, sc, d, src, s)
      BY <1>1 DEF ResponsesSeen
    <3>3. c \in Clients /\ sc \in Responders
      BY <3>2, FollowerIs DEF Follower
    <3>4. Popped(sc, sd)
      BY <1>1, <1>2, <3>3, PoppedIs
    <3>5. p = ResponsesRead(c, Head(sc.buffer))
      BY <1>1
    <3>6. Responding(p, sd, d, src, s, st)
      BY <1>2, <3>1, <3>3, <3>4, <3>5, RespondingOn
    <3> QED BY <1>1, <1>2, <1>5, <3>6 DEF ResponsesShown
  <2> QED BY <2>1, <2>2
<1> QED BY <1>3, <1>4, <1>5

LEMMA StopsShown ==
    ASSUME ProviderOk, endpoint = "responses", ResponsesSeen, ResponsesShown, ReadFails \/ CloseStream
    PROVE  ResponsesShown'
<1>1. StreamWellFormed /\ AnswerArrives
  BY OpenTells DEF ResponsesShown
<1>2. UNCHANGED <<dialect, endpoint, client, source, sent, stop>> /\ pipe' # "open"
  BY DEF ReadFails, CloseStream, provider
<1> QED BY <1>1, <1>2, KeepsBoth DEF ResponsesShown

LEMMA ShownSteps ==
    ASSUME ProviderOk, Quiet, endpoint = "responses", ResponsesSeen, ResponsesShown, StreamsNext
    PROVE  ResponsesShown'
<1>1. CASE Anthropic \/ OpenAI
  BY <1>1, SentShown
<1>2. CASE EndOfSource
  BY <1>2, EndOfSourceShown
<1>3. CASE Pass
  BY <1>3, PassShown
<1>4. CASE Write
  BY <1>4 DEF Write, Quiet
<1>5. CASE ReadFails \/ CloseStream
  BY <1>5, StopsShown
<1> QED BY <1>1, <1>2, <1>3, <1>4, <1>5 DEF StreamsNext

LEMMA OtherShown ==
    ASSUME ResponsesShown, UNCHANGED streamVars
    PROVE  ResponsesShown'
<1>1. UNCHANGED <<pipe, endpoint, dialect, client, adapter, source, sent, stop>>
  BY DEF streamVars, provider
<1> QED BY <1>1, KeepsBoth DEF ResponsesShown

-----------------------------------------------------------------------------
(* The beginning, and the theorem. *)

LEMMA FirstShows ==
    ASSUME NEW sc, sc = NewResponsesOutputEventState
    PROVE  Shows(NothingRead, sc, FALSE, <<>>, <<>>)
<1> HIDE DEF ResponseEvents
<1>1. PICK none, no, c : none = <<>> /\ no \in BOOLEAN /\ no = FALSE /\ c = NothingRead
  OBVIOUS
<1>2. /\ sc \in Responders /\ sc.buffer = none /\ sc.calls = none /\ ~sc.reserved /\ ~sc.started
      /\ ~sc.done /\ sc.text = none /\ ~sc.sentDone
  BY <1>1, NewResponder
<1>3. /\ c \in Clients /\ ~c.broken /\ ~c.ended /\ (c.begun <=> no) /\ c.stop = Unset /\ c.items = none
      /\ c.text = none
  BY <1>1, NothingReadFacts
<1>4. ReadsTo(c, none, c)
  BY <1>1, <1>3, ReadsNone
<1>5. At(c, sc.buffer, no, none, sc.text)
  BY <1>2, <1>3, <1>4 DEF At
<1>6. none \in Seq(Items) /\ none \in Seq(CallBodies) /\ Len(none) = 0 /\ 1..Len(none) = {}
  <2>1. Len(none) = 0 /\ 1..0 = {}
    BY <1>1
  <2> QED BY <1>1, <2>1
<1>7. DOMAIN sc.calls = {}
  BY <1>1, <1>2, EmptyPartial
<1>8. Base(sc) = 0
  BY <1>2 DEF Base
<1>9. CallsShown(sc.calls, Base(sc), none, none)
  BY <1>6, <1>7, <1>8 DEF CallsShown
<1>10. MessageShown(sc, none)
  BY <1>1, <1>2 DEF MessageShown
<1>11. Shows(c, sc, no, none, none)
  BY <1>1, <1>2, <1>5, <1>9, <1>10 DEF Shows
<1> QED BY <1>1, <1>11

LEMMA ShownBegins ==
    ASSUME StreamsInit, endpoint = "responses"
    PROVE  ResponsesShown
<1> HIDE DEF ResponseEvents
<1>1. PICK sc, sd, none, no, yes, c :
        /\ sc = NewResponsesOutputEventState /\ sd = Created(sc) /\ none = <<>> /\ c = NothingRead
        /\ no \in BOOLEAN /\ no = FALSE /\ yes \in BOOLEAN /\ yes = TRUE
  <2>1. PICK sc : sc = NewResponsesOutputEventState
    OBVIOUS
  <2> QED BY <2>1
<1>2. Shows(c, sc, no, none, none)
  BY <1>1, FirstShows
<1>3. /\ sc \in Responders /\ sc.calls = none /\ sc.next = 0 /\ ~sc.reserved /\ ~sc.started /\ ~sc.done
  BY <1>1, NewResponder
<1>4. AnswerOf(none).calls = none
  BY <1>1, AnswerOfNothing DEF NothingSaid
<1>5. DOMAIN none = {} /\ Len(none) = 0 /\ ~OpenIn(none)
  <2>1. Len(none) = 0
    BY <1>1
  <2>2. ~OpenIn(none)
    BY <1>1 DEF OpenIn
  <2> QED BY <1>1, <2>1, <2>2, EmptyPartial
<1>6. pipe = "open" /\ client = c /\ sent = none /\ stop = Unset
  BY <1>1 DEF StreamsInit
<1>7. CASE dialect = "anthropic"
  <2>1. adapter = sc /\ source = "fresh"
    BY <1>1, <1>7 DEF StreamsInit
  <2>2. BlockCalls(sc, none, none)
    BY <1>3, <1>5 DEF BlockCalls
  <2>3. AnthropicShows(c, sc, "fresh", none)
    BY <1>1, <1>2, <1>3, <1>4, <2>2 DEF AnthropicShows
  <2>4. Responding(c, sc, "anthropic", "fresh", none, stop)
    BY <2>3 DEF Responding, EndsAt
  <2> QED BY <1>6, <1>7, <2>1, <2>4 DEF ResponsesShown
<1>8. CASE dialect # "anthropic"
  <2>1. dialect = "openai"
    BY <1>8, RouteFacts DEF StreamsInit, Routes
  <2>2. adapter = sd /\ source = "blocks"
    BY <1>1, <2>1 DEF StreamsInit, NewOpenAIResponsesStreamConverter
  <2>3. Shows(c, sc, FALSE, none, none)
    BY <1>1, <1>2
  <2>4. Shows(c, sd, TRUE, none, none) /\ SameButBuffer(sc, sd)
    BY <1>1, <2>3, BegunShows
  <2>5. ChunkCalls(sd, none, no)
    <3>1. 0 - 1 = -1 /\ 0..(-1) = {}
      OBVIOUS
    <3>2. DOMAIN sd.calls = {} /\ ~sd.reserved /\ ~sd.started
      BY <1>3, <1>5, <2>4 DEF SameButBuffer
    <3>3. 0..(Len(none) - 1) = {}
      BY <1>5, <3>1
    <3> QED BY <3>2, <3>3 DEF ChunkCalls
  <2>6. ~sd.done
    BY <1>3, <2>4 DEF SameButBuffer
  <2>7. ChunkShows(c, sd, none, no)
    BY <2>4, <2>5, <2>6 DEF ChunkShows
  <2>8. (stop # Unset) = no
    BY <1>1, <1>6
  <2>9. ~EndsAt("openai", "blocks")
    BY DEF EndsAt
  <2>10. Responding(c, sd, "openai", "blocks", none, stop)
    BY <1>4, <2>7, <2>8, <2>9 DEF Responding
  <2> QED BY <1>6, <2>1, <2>2, <2>10 DEF ResponsesShown
<1> QED BY <1>7, <1>8

ShownInv == RecordsInv /\ (endpoint = "responses" => ResponsesShown)

\* Whatever the route, the client sees a stream of its own protocol, however
\* it ends, and a whole answer arrives whole: for every number of blocks and of
\* pieces, and wherever the provider, the connection or the client breaks off.
THEOREM StreamsArrive == StreamsSpec => [](StreamWellFormed /\ AnswerArrives)
<1>1. StreamsInit => ShownInv
  BY ProviderBegins, OthersBegin, ChatBegins, ResponsesBegin, ShownBegins
     DEF ChatRoutesInv, RecordsInv, ShownInv
<1>2. ShownInv /\ [StreamsNext]_streamVars => ShownInv'
  <2> SUFFICES ASSUME ShownInv, [StreamsNext]_streamVars PROVE ShownInv'
    OBVIOUS
  <2>1. ChatRoutesInv'
    BY ChatRoutesStep DEF ShownInv, RecordsInv
  <2>2. CASE StreamsNext
    <3>1. endpoint' = endpoint
      BY <2>2, Sends DEF StreamsNext, Pass, Write, ReadFails, CloseStream
    <3>2. endpoint = "responses" => ResponsesSeen' /\ ResponsesShown'
      BY <2>2, ResponsesSteps, ShownSteps DEF ShownInv, RecordsInv, ChatRoutesInv
    <3> QED BY <2>1, <3>1, <3>2 DEF ShownInv, RecordsInv
  <2>3. CASE UNCHANGED streamVars
    <3>1. UNCHANGED <<endpoint, dialect, source, sent, adapter, client, observed>>
      BY <2>3 DEF streamVars, provider
    <3> QED BY <2>1, <2>3, <3>1, OtherSeen, OtherShown DEF ShownInv, RecordsInv
  <2> QED BY <2>2, <2>3
<1>3. ShownInv => StreamWellFormed /\ AnswerArrives
  <2> SUFFICES ASSUME ShownInv PROVE StreamWellFormed /\ AnswerArrives
    OBVIOUS
  <2>1. CASE endpoint = "responses"
    BY <2>1, OpenTells DEF ShownInv, RecordsInv, ChatRoutesInv, ResponsesShown
  <2>2. CASE endpoint # "responses"
    BY <2>2, ChatKept DEF ShownInv, RecordsInv, ChatRoutesInv
  <2> QED BY <2>1, <2>2
<1> QED BY <1>1, <1>2, <1>3, PTL DEF StreamsSpec
=============================================================================
