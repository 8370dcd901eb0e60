---------------------------- MODULE RecordingProofs --------------------------
(***************************************************************************)
(* Three parts of the way into the records.                                *)
(*                                                                         *)
(* The asynchronous logger, for any number of writers and Close callers    *)
(* and any buffer: nothing is lost on shutdown, and the logger implements  *)
(* DrainContract.  The WaitGroup counts exactly the writers between their  *)
(* registration and their return (CountInv), so once Wait has let Close    *)
(* pass no writer is about to send, and none will be because closed is     *)
(* set (CloseInv); flushLoop therefore exits with nothing queued           *)
(* (LoopInv), and every entry is in one place only (EntryInv, QueueInv).   *)
(*                                                                         *)
(* The periods of budgets, for any settings: they tile time.               *)
(*                                                                         *)
(* The scanner of events, for any stream, chunks and limit.  Begins is     *)
(* where the event begins that is under way after each byte; until Close   *)
(* the scanner holds that event, or the last three bytes of it, and has    *)
(* given the observers those before it (OnTrack).                          *)
(***************************************************************************)
EXTENDS AsyncLogger, BudgetPeriods, EventScanner, SequenceFacts, FiniteSets,
        FiniteSetTheorems, SequenceTheorems, TLAPS

-----------------------------------------------------------------------------
\* The writers the WaitGroup counts, and the entries waiting for flushLoop.
InFlight == {e \in Entries : writer[e] \in {"registered", "send", "drop", "leave"}}
Queued == ToSet(buffer) \cup ToSet(batch)

CountInv == IsFiniteSet(InFlight) /\ writes = Cardinality(InFlight)

Active(c) == closer[c] \notin {"idle", "returned"}

CloseInv ==
    /\ ~closed => \A c \in Closers : closer[c] = "idle"
    /\ \A c, d \in Closers : Active(c) /\ Active(d) => c = d
    /\ done => closed
    /\ \A c \in Closers : closer[c] = "join" => done
    /\ \A c \in Closers : closer[c] \in {"swapped", "waiting", "woken", "signal"} => ~done
    /\ storeClosed => loop = "exited" /\ \A c \in Closers : ~Active(c)
    /\ done \/ (\E c \in Closers : closer[c] = "signal") =>
         \A e \in Entries : writer[e] \notin {"send", "drop"}

LoopInv ==
    /\ loop \in {"flushStore", "exited"} => buffer = <<>> /\ batch = <<>> /\ flush = "no"
    /\ loop = "drain" /\ flush # "no" => buffer = <<>>
    /\ loop # "select" => done
    /\ flush # "no" => batch # <<>>

QueueInv ==
    /\ IsInjective(buffer)
    /\ ToSet(buffer) \cap ToSet(batch) = {}
    /\ flush = "ok" => ToSet(batch) \subseteq stored

Terminal == {<<"completed", "dropped">>, <<"completed", "failed">>, <<"completed", "flushed">>}

EntryInv ==
    \A e \in Entries :
        /\ writer[e] \in {"idle", "checked", "registered"} => live[e] = <<>> /\ e \notin Queued
        /\ writer[e] \in {"send", "drop"} => live[e] = <<"completed">> /\ e \notin Queued
        /\ writer[e] \in {"leave", "returned"} =>
             IF e \in Queued THEN live[e] = <<"completed">> ELSE live[e] \in Terminal \cup {<<>>}
        /\ live[e] = <<"completed", "flushed">> => e \in stored

IInv == TypeOK /\ CountInv /\ CloseInv /\ LoopInv /\ QueueInv /\ EntryInv

LEMMA InitIInv == Init => IInv
<1> SUFFICES ASSUME Init PROVE IInv
  OBVIOUS
<1>1. TypeOK
  <2>1. /\ closed \in BOOLEAN /\ done \in BOOLEAN
        /\ storeClosed \in BOOLEAN /\ panicked \in BOOLEAN
    BY DEF Init
  <2> QED BY <2>1, LoggerAssumption
         DEF Init, TypeOK, WriterStages, CloserStages, LoopStages
<1>2. CountInv
  <2>1. InFlight = {}
    BY DEF Init, InFlight
  <2> QED BY <2>1, FS_EmptySet DEF Init, CountInv
<1>3. CloseInv
  BY DEF Init, CloseInv, Active
<1>4. LoopInv /\ QueueInv
  BY DEF Init, LoopInv, QueueInv, ToSet, IsInjective
<1>5. EntryInv
  BY DEF Init, EntryInv, Queued, ToSet
<1> QED BY <1>1, <1>2, <1>3, <1>4, <1>5 DEF IInv

-----------------------------------------------------------------------------
\* What publishing one event to the entries of S does to the histories.
LEMMA PublishFacts ==
    ASSUME live \in [Entries -> Seq(Events)], NEW S, NEW event \in Events, Publish(S, event)
    PROVE  /\ live' \in [Entries -> Seq(Events)]
           /\ \A f \in Entries : f \in S => live'[f] = Append(live[f], event)
           /\ \A f \in Entries : f \notin S => live'[f] = live[f]
BY DEF Publish

LEMMA AppendEvent ==
    /\ Append(<<>>, "completed") = <<"completed">>
    /\ \A t \in Events : Append(<<"completed">>, t) = <<"completed", t>>
<1>1. Append(<<>>, "completed") = <<"completed">>
  OBVIOUS
<1>2. ASSUME NEW t \in Events
      PROVE  Append(<<"completed">>, t) = <<"completed", t>>
  <2> DEFINE s == Append(<<"completed">>, t)
             r == <<"completed", t>>
  <2>1. "completed" \in Events
    BY DEF Events
  <2>2. s \in Seq(Events) /\ r \in Seq(Events)
    BY <2>1
  <2>3. Len(s) = 2 /\ Len(r) = 2 /\ \A i \in 1..2 : s[i] = r[i]
    OBVIOUS
  <2> QED BY <2>2, <2>3, SeqEqual
<1> QED BY <1>1, <1>2

LEMMA DistinctHistories ==
    /\ <<>> # <<"completed">>
    /\ \A t \in Events : <<"completed", t>> # <<"completed">> /\ <<"completed", t>> # <<>>
<1>1. Len(<<>>) = 0 /\ Len(<<"completed">>) = 1
  OBVIOUS
<1>2. \A t \in Events : Len(<<"completed", t>>) = 2
  OBVIOUS
<1> QED BY <1>1, <1>2

-----------------------------------------------------------------------------
\* Write's steps.
LEMMA WriteStepPreserves ==
    ASSUME IInv, NEW e \in Entries, WriteStep(e)
    PROVE  IInv'
<1> USE LoggerAssumption
<1>1. TypeOK /\ CountInv /\ CloseInv /\ LoopInv /\ QueueInv /\ EntryInv
  BY DEF IInv
<1>2. CountInv'
  <2>1. CASE Register(e)
    <3>1. InFlight' = InFlight \cup {e} /\ e \notin InFlight
      BY <1>1, <2>1 DEF Register, WriterAt, InFlight, TypeOK
    <3> QED BY <1>1, <2>1, <3>1, FS_AddElement DEF CountInv, Register
  <2>2. CASE Leave(e)
    <3>1. InFlight' = InFlight \ {e} /\ e \in InFlight
      BY <1>1, <2>2 DEF Leave, WriterAt, InFlight, TypeOK
    <3> QED BY <1>1, <2>2, <3>1, FS_RemoveElement DEF CountInv, Leave
  <2>3. CASE Check(e) \/ Recheck(e) \/ Send(e) \/ Drop(e)
    <3>1. InFlight' = InFlight /\ writes' = writes
      BY <1>1, <2>3 DEF Check, Recheck, Send, Drop, WriterAt, InFlight, TypeOK
    <3> QED BY <1>1, <3>1 DEF CountInv
  <2> QED BY <2>1, <2>2, <2>3 DEF WriteStep
<1>3. /\ UNCHANGED <<closed, done, storeClosed, panicked, loop, flush, batch, stored>>
      /\ writes' \in Nat
      /\ writer' \in [Entries -> WriterStages]
  <2>1. UNCHANGED <<closed, done, storeClosed, panicked, loop, flush, batch, stored>>
    BY DEF WriteStep, Check, Register, Recheck, Send, Drop, Leave, closerVars, loopVars
  <2>2. writes' \in Nat
    BY <1>2, FS_CardinalityType DEF CountInv
  <2>3. writer' \in [Entries -> WriterStages]
    BY <1>1 DEF WriteStep, Check, Register, Recheck, Send, Drop, Leave, WriterAt,
       TypeOK, WriterStages
  <2> QED BY <2>1, <2>2, <2>3
<1>4. closer' \in [Closers -> CloserStages] /\ CloseInv'
  <2>1. \A c \in Closers : \/ closer'[c] = closer[c]
                           \/ closer[c] = "waiting" /\ closer'[c] = "woken"
    BY <1>1 DEF WriteStep, Check, Register, Recheck, Send, Drop, Leave, closerVars, TypeOK
  <2>2. closer' \in [Closers -> CloserStages]
    BY <1>1 DEF WriteStep, Check, Register, Recheck, Send, Drop, Leave, closerVars, TypeOK,
       CloserStages
  <2>3. ASSUME NEW f \in Entries, writer'[f] \in {"send", "drop"}
        PROVE  writer[f] \in {"send", "drop"} \/ ~closed
    BY <1>1, <2>3 DEF WriteStep, Check, Register, Recheck, Send, Drop, Leave, WriterAt, TypeOK
  <2>4. \A c \in Closers : closer[c] = "signal" => closed
    BY <1>1 DEF CloseInv
  <2> QED BY <1>1, <1>3, <2>1, <2>2, <2>3, <2>4 DEF CloseInv, Active
<1>5. CASE Send(e) /\ Len(buffer) < BufferSize
  <2>1. /\ writer[e] = "send" /\ writer' = [writer EXCEPT ![e] = "leave"]
        /\ buffer' = Append(buffer, e) /\ live' = live
    BY <1>5 DEF Send, WriterAt
  <2>2. e \notin ToSet(buffer) /\ e \notin ToSet(batch) /\ live[e] = <<"completed">>
    BY <1>1, <2>1 DEF EntryInv, Queued
  <2>3. /\ buffer' \in Seq(Entries) /\ Len(buffer') <= BufferSize
        /\ ToSet(buffer') = ToSet(buffer) \cup {e}
        /\ IsInjective(buffer')
    BY <1>1, <1>5, <2>1, <2>2, AppendToSet DEF TypeOK, QueueInv
  <2>4. TypeOK'
    BY <1>1, <1>3, <1>4, <2>1, <2>3 DEF TypeOK
  <2>5. loop = "select"
    BY <1>1, <2>1 DEF LoopInv, CloseInv
  <2>6. LoopInv' /\ QueueInv'
    BY <1>1, <1>3, <2>2, <2>3, <2>5 DEF LoopInv, QueueInv
  <2>7. Queued' = Queued \cup {e}
    BY <1>3, <2>3 DEF Queued
  <2>8. EntryInv'
    BY <1>1, <1>3, <2>1, <2>2, <2>7 DEF EntryInv, TypeOK, Terminal
  <2> QED BY <1>2, <1>4, <2>4, <2>6, <2>8 DEF IInv
<1>6. CASE ~(Send(e) /\ Len(buffer) < BufferSize)
  <2>1. buffer' = buffer
    BY <1>1, <1>6 DEF WriteStep, Check, Register, Recheck, Send, Drop, Leave, TypeOK
  <2>2. LoopInv' /\ QueueInv' /\ Queued' = Queued
    BY <1>1, <1>3, <2>1 DEF LoopInv, QueueInv, Queued
  <2>3. live' \in [Entries -> Seq(Events)] /\ EntryInv'
    <3>1. CASE live' = live
      <4>1. /\ \A f \in Entries \ {e} : writer'[f] = writer[f]
            /\ \/ writer[e] = "idle" /\ writer'[e] \in {"checked", "returned"}
               \/ writer[e] = "checked" /\ writer'[e] = "registered"
               \/ writer[e] = "registered" /\ writer'[e] = "leave"
               \/ writer[e] = "send" /\ writer'[e] = "drop"
               \/ writer[e] = "leave" /\ writer'[e] = "returned"
        BY <1>1, <1>6, <3>1 DEF WriteStep, Check, Register, Recheck, Send, Drop, Leave,
           WriterAt, Publish, TypeOK, EntryInv
      <4> QED BY <1>1, <1>3, <2>2, <3>1, <4>1 DEF EntryInv, TypeOK
    <3>2. CASE Recheck(e) /\ writer' = [writer EXCEPT ![e] = "send"] /\ Publish({e}, "completed")
      <4>1. writer[e] = "registered" /\ live[e] = <<>> /\ e \notin Queued
        BY <1>1, <3>2 DEF Recheck, WriterAt, EntryInv
      <4>2. /\ live'[e] = <<"completed">>
            /\ \A f \in Entries \ {e} : live'[f] = live[f]
            /\ live' \in [Entries -> Seq(Events)]
        <5>1. Publish({e}, "completed") /\ live \in [Entries -> Seq(Events)] /\ "completed" \in Events
          BY <1>1, <3>2 DEF TypeOK, Events
        <5>2. /\ live' \in [Entries -> Seq(Events)]
              /\ \A f \in Entries : f \in {e} => live'[f] = Append(live[f], "completed")
              /\ \A f \in Entries : f \notin {e} => live'[f] = live[f]
          BY <5>1, PublishFacts
        <5> QED BY <4>1, <5>2, AppendEvent
      <4>3. writer'[e] = "send" /\ \A f \in Entries \ {e} : writer'[f] = writer[f]
        BY <1>1, <3>2 DEF TypeOK
      <4> QED BY <1>1, <1>3, <2>2, <4>1, <4>2, <4>3, DistinctHistories DEF EntryInv, Events
    <3>3. CASE Drop(e)
      <4>1. writer[e] = "drop" /\ writer' = [writer EXCEPT ![e] = "leave"]
        BY <3>3 DEF Drop, WriterAt
      <4>2. live[e] = <<"completed">> /\ e \notin Queued
        BY <1>1, <4>1 DEF EntryInv
      <4>3. /\ live'[e] = <<"completed", "dropped">>
            /\ \A f \in Entries \ {e} : live'[f] = live[f]
            /\ live' \in [Entries -> Seq(Events)]
        <5>1. Publish({e}, "dropped") /\ live \in [Entries -> Seq(Events)] /\ "dropped" \in Events
          BY <1>1, <3>3 DEF Drop, TypeOK, Events
        <5>2. /\ live' \in [Entries -> Seq(Events)]
              /\ \A f \in Entries : f \in {e} => live'[f] = Append(live[f], "dropped")
              /\ \A f \in Entries : f \notin {e} => live'[f] = live[f]
          BY <5>1, PublishFacts
        <5> QED BY <4>2, <5>1, <5>2, AppendEvent
      <4>4. writer'[e] = "leave" /\ \A f \in Entries \ {e} : writer'[f] = writer[f]
        BY <1>1, <4>1 DEF TypeOK
      <4>5. <<"completed", "dropped">> # <<"completed", "flushed">>
        OBVIOUS
      <4> QED BY <1>1, <1>3, <2>2, <4>2, <4>3, <4>4, <4>5 DEF EntryInv, Terminal
    <3> QED BY <1>6, <3>1, <3>2, <3>3 DEF WriteStep, Check, Register, Recheck, Send, Leave, WriterAt
  <2>4. TypeOK'
    BY <1>1, <1>3, <1>4, <2>1, <2>3 DEF TypeOK
  <2> QED BY <1>2, <1>4, <2>2, <2>3, <2>4 DEF IInv
<1> QED BY <1>5, <1>6

-----------------------------------------------------------------------------
\* Close's steps.
LEMMA CloseStepPreserves ==
    ASSUME IInv, NEW c \in Closers, CloseStep(c)
    PROVE  IInv'
<1>1. TypeOK /\ CountInv /\ CloseInv /\ LoopInv /\ QueueInv /\ EntryInv
  BY DEF IInv
<1>2. UNCHANGED <<writes, writer, loop, flush, batch, stored, buffer, live>>
  BY DEF CloseStep, Swap, Wait, WaitReturns, Signal, Join, writerVars, loopVars
<1>3. CountInv' /\ QueueInv' /\ EntryInv'
  <2>1. InFlight' = InFlight /\ Queued' = Queued
    BY <1>2 DEF InFlight, Queued
  <2> QED BY <1>1, <1>2, <2>1 DEF CountInv, QueueInv, EntryInv
<1>4. TypeOK'
  <2>1. /\ closed' \in BOOLEAN /\ done' \in BOOLEAN
        /\ storeClosed' \in BOOLEAN /\ panicked' \in BOOLEAN
    BY <1>1 DEF CloseStep, Swap, Wait, WaitReturns, Signal, Join, TypeOK
  <2>2. closer' \in [Closers -> CloserStages]
    BY <1>1 DEF CloseStep, Swap, Wait, WaitReturns, Signal, Join, CloserAt, TypeOK, CloserStages
  <2> QED BY <1>1, <1>2, <2>1, <2>2 DEF TypeOK
<1>5. \A d \in Closers \ {c} : closer'[d] = closer[d]
  BY <1>1 DEF CloseStep, Swap, Wait, WaitReturns, Signal, Join, CloserAt, TypeOK
<1>6. CloseInv' /\ LoopInv'
  <2>1. CASE Swap(c)
    <3>1. closer'[c] = IF closed THEN "returned" ELSE "swapped"
      BY <1>1, <2>1 DEF Swap, CloserAt, TypeOK
    <3>2. closed' = TRUE /\ closer[c] = "idle" /\ done' = done /\ storeClosed' = storeClosed
      BY <2>1 DEF Swap, CloserAt
    <3> QED BY <1>1, <1>2, <1>5, <3>1, <3>2 DEF CloseInv, LoopInv, Active
  <2>2. CASE Wait(c) \/ WaitReturns(c)
    <3>1. /\ closer[c] \in {"swapped", "woken"}
          /\ \/ closer'[c] \in {"waiting", "woken"}
             \/ closer'[c] = "signal" /\ writes = 0
          /\ UNCHANGED <<closed, done, storeClosed>>
      BY <1>1, <2>2 DEF Wait, WaitReturns, CloserAt, TypeOK
    <3>2. writes = 0 => \A e \in Entries : writer[e] \notin {"send", "drop"}
      BY <1>1, FS_EmptySet DEF CountInv, InFlight
    <3>3. Active(c) /\ ~done
      BY <1>1, <3>1 DEF CloseInv, Active
    <3> QED BY <1>1, <1>2, <1>5, <3>1, <3>2, <3>3 DEF CloseInv, LoopInv, Active
  <2>3. CASE Signal(c)
    <3>1. /\ closer[c] = "signal" /\ closer'[c] = "join" /\ done' = TRUE
          /\ UNCHANGED <<closed, storeClosed>>
      BY <1>1, <2>3 DEF Signal, CloserAt, TypeOK
    <3>2. closed /\ Active(c)
      BY <1>1, <3>1 DEF CloseInv, Active
    <3> QED BY <1>1, <1>2, <1>5, <3>1, <3>2 DEF CloseInv, LoopInv, Active
  <2>4. CASE Join(c)
    <3>1. /\ closer[c] = "join" /\ closer'[c] = "returned" /\ loop = "exited"
          /\ UNCHANGED <<closed, done>>
      BY <1>1, <2>4 DEF Join, CloserAt, TypeOK
    <3>2. closed
      BY <1>1, <3>1 DEF CloseInv
    <3> QED BY <1>1, <1>2, <1>5, <3>1, <3>2 DEF CloseInv, LoopInv, Active
  <2> QED BY <2>1, <2>2, <2>3, <2>4 DEF CloseStep
<1> QED BY <1>3, <1>4, <1>6 DEF IInv

-----------------------------------------------------------------------------
\* flushLoop's steps.
LEMMA LoopStepPreserves ==
    ASSUME IInv, LoopStep
    PROVE  IInv'
<1>1. TypeOK /\ CountInv /\ CloseInv /\ LoopInv /\ QueueInv /\ EntryInv
  BY DEF IInv
<1>2. UNCHANGED <<closed, done, storeClosed, panicked, closer, writes, writer>>
  BY DEF LoopStep, Receive, Tick, SeeDone, Drain, Drained, WriteBatch, PublishBatch,
     FlushStore, writerVars, closerVars
<1>3. CountInv'
  BY <1>1, <1>2 DEF CountInv, InFlight
<1>4. CloseInv' /\ loop # "exited"
  <2>1. loop # "exited"
    BY <1>1 DEF LoopStep, Receive, Tick, SeeDone, Drain, Drained, WriteBatch, PublishBatch,
       FlushStore, LoopInv
  <2> QED BY <1>1, <1>2, <2>1 DEF CloseInv, Active
<1>5. /\ closed' \in BOOLEAN /\ done' \in BOOLEAN
      /\ storeClosed' \in BOOLEAN /\ panicked' \in BOOLEAN
      /\ writes' \in Nat
      /\ writer' \in [Entries -> WriterStages]
      /\ closer' \in [Closers -> CloserStages]
  BY <1>1, <1>2 DEF TypeOK
<1>6. CASE Receive \/ Drain
  <2>1. /\ Take /\ live' = live /\ stored' = stored /\ flush = "no"
        /\ loop' = loop /\ loop \in {"select", "drain"}
        /\ flush' \in {"no", "write"} /\ (flush' # "no" => loop = "select")
    BY <1>6 DEF Receive, Drain
  <2>2. /\ buffer # <<>> /\ buffer \in Seq(Entries) /\ batch \in Seq(Entries)
        /\ IsInjective(buffer) /\ Len(buffer) <= BufferSize
    BY <1>1, <2>1 DEF Take, TypeOK, QueueInv
  <2>3. /\ Head(buffer) \in Entries /\ Head(buffer) \in ToSet(buffer)
        /\ buffer' \in Seq(Entries)
        /\ ToSet(buffer') = ToSet(buffer) \ {Head(buffer)} /\ IsInjective(buffer')
    BY <2>1, <2>2, TakeHead DEF Take
  <2>4. Len(buffer') <= BufferSize
    BY <2>1, <2>2, LoggerAssumption DEF Take
  <2>5. batch' \in Seq(Entries) /\ ToSet(batch') = ToSet(batch) \cup {Head(buffer)}
    BY <2>1, <2>2, <2>3, AppendToSet DEF Take
  <2>6. batch' # <<>>
    BY <2>1, <2>2, <2>3 DEF Take
  <2>7. TypeOK'
    BY <1>1, <1>5, <2>1, <2>3, <2>4, <2>5 DEF TypeOK
  <2>8. LoopInv' /\ QueueInv'
    BY <1>1, <1>2, <2>1, <2>3, <2>5, <2>6 DEF LoopInv, QueueInv
  <2>9. EntryInv'
    <3>1. Queued' = Queued
      BY <2>3, <2>5 DEF Queued
    <3> QED BY <1>1, <1>2, <2>1, <3>1 DEF EntryInv
  <2> QED BY <1>3, <1>4, <2>7, <2>8, <2>9 DEF IInv
<1>7. CASE Tick \/ SeeDone \/ Drained \/ FlushStore
  <2>1. /\ UNCHANGED <<buffer, batch, live, stored>>
        /\ loop' \in LoopStages /\ flush' \in {"no", "write", "ok", "err"}
    BY <1>1, <1>7 DEF Tick, SeeDone, Drained, FlushStore, TypeOK, LoopStages
  <2>2. TypeOK' /\ EntryInv'
    <3>1. Queued' = Queued
      BY <2>1 DEF Queued
    <3> QED BY <1>1, <1>2, <1>5, <2>1, <3>1 DEF TypeOK, EntryInv
  <2>3. LoopInv' /\ QueueInv'
    BY <1>1, <1>2, <1>7, <2>1 DEF Tick, SeeDone, Drained, FlushStore, LoopInv, QueueInv
  <2> QED BY <1>3, <1>4, <2>2, <2>3 DEF IInv
<1>8. CASE WriteBatch
  <2>1. /\ flush = "write" /\ flush' \in {"ok", "err"}
        /\ UNCHANGED <<buffer, batch, live, loop>>
        /\ stored \subseteq stored' /\ stored' \subseteq stored \cup ToSet(batch)
        /\ flush' = "ok" => ToSet(batch) \subseteq stored'
    BY <1>8 DEF WriteBatch
  <2>2. ToSet(batch) \subseteq Entries
    BY <1>1 DEF TypeOK, ToSet
  <2>3. TypeOK'
    BY <1>1, <1>5, <2>1, <2>2 DEF TypeOK
  <2>4. EntryInv'
    <3>1. Queued' = Queued
      BY <2>1 DEF Queued
    <3> QED BY <1>1, <1>2, <2>1, <3>1 DEF EntryInv
  <2>5. LoopInv' /\ QueueInv'
    BY <1>1, <1>2, <2>1 DEF LoopInv, QueueInv
  <2> QED BY <1>3, <1>4, <2>3, <2>4, <2>5 DEF IInv
<1>9. CASE PublishBatch
  <2> DEFINE event == IF flush = "ok" THEN "flushed" ELSE "failed"
  <2>1. /\ flush \in {"ok", "err"} /\ flush' = "no" /\ batch' = <<>>
        /\ buffer' = buffer /\ stored' = stored
        /\ loop' = IF loop = "drain" THEN "flushStore" ELSE loop
        /\ Publish(ToSet(batch), event) /\ event \in Events
    BY <1>9 DEF PublishBatch, Events
  <2>2. /\ live' \in [Entries -> Seq(Events)]
        /\ \A f \in Entries : f \in ToSet(batch) => live'[f] = Append(live[f], event)
        /\ \A f \in Entries : f \notin ToSet(batch) => live'[f] = live[f]
    <3>1. live \in [Entries -> Seq(Events)]
      BY <1>1 DEF TypeOK
    <3> HIDE DEF event
    <3> QED BY <2>1, <3>1, PublishFacts
  <2>3. TypeOK'
    <3>1. loop' \in LoopStages
      BY <1>1, <2>1 DEF TypeOK, LoopStages
    <3> QED BY <1>1, <1>5, <2>1, <2>2, <3>1 DEF TypeOK
  <2>4. ToSet(batch') = {} /\ Queued' = ToSet(buffer)
    BY <2>1 DEF Queued, ToSet
  <2>5. \A f \in ToSet(batch) : f \in Entries => live[f] = <<"completed">>
    BY <1>1 DEF EntryInv, Queued, TypeOK, WriterStages
  <2>6. LoopInv' /\ QueueInv'
    BY <1>1, <1>2, <2>1, <2>4 DEF LoopInv, QueueInv
  <2>7. \A f \in Entries : f \in ToSet(batch) => live'[f] = <<"completed", event>>
    BY <2>1, <2>2, <2>5, AppendEvent
  <2>8. \A f \in Entries : f \in ToSet(batch) =>
          f \in Queued /\ f \notin Queued' /\ writer[f] \in {"leave", "returned"}
    BY <1>1, <2>4 DEF EntryInv, Queued, QueueInv, TypeOK, WriterStages
  <2>9. <<"completed", event>> \in Terminal
    BY <2>1 DEF Terminal
  <2>10. ASSUME NEW f \in Entries, f \in ToSet(batch), live'[f] = <<"completed", "flushed">>
         PROVE  f \in stored'
    <3>1. <<"completed", "failed">> # <<"completed", "flushed">>
      <4>1. <<"completed", "failed">>[2] # <<"completed", "flushed">>[2]
        OBVIOUS
      <4> QED BY <4>1
    <3>2. flush = "ok"
      BY <2>1, <2>7, <2>10, <3>1
    <3> QED BY <1>1, <2>1, <2>10, <3>2 DEF QueueInv
  <2>11. \A f \in Entries : f \notin ToSet(batch) =>
           live'[f] = live[f] /\ (f \in Queued' <=> f \in Queued)
    BY <2>2, <2>4 DEF Queued
  <2>12. EntryInv'
    <3> SUFFICES ASSUME NEW f \in Entries
        PROVE  /\ writer[f] \in {"idle", "checked", "registered"} => live'[f] = <<>> /\ f \notin Queued'
               /\ writer[f] \in {"send", "drop"} => live'[f] = <<"completed">> /\ f \notin Queued'
               /\ writer[f] \in {"leave", "returned"} =>
                    IF f \in Queued' THEN live'[f] = <<"completed">> ELSE live'[f] \in Terminal \cup {<<>>}
               /\ live'[f] = <<"completed", "flushed">> => f \in stored'
      BY <1>2 DEF EntryInv
    <3> HIDE DEF event
    <3>1. CASE f \in ToSet(batch)
      BY <2>7, <2>8, <2>9, <2>10, <3>1
    <3>2. CASE f \notin ToSet(batch)
      BY <1>1, <2>1, <2>11, <3>2 DEF EntryInv
    <3> QED BY <3>1, <3>2
  <2> QED BY <1>3, <1>4, <2>3, <2>6, <2>12 DEF IInv
<1> QED BY <1>6, <1>7, <1>8, <1>9 DEF LoopStep

-----------------------------------------------------------------------------
\* IInv is inductive.
THEOREM Invariance == Spec => []IInv
<1>1. ASSUME IInv, [Next]_vars
      PROVE  IInv'
  <2>1. CASE UNCHANGED vars
    BY <1>1, <2>1 DEF vars, writerVars, closerVars, loopVars, IInv, TypeOK, CountInv, InFlight,
       CloseInv, Active, LoopInv, QueueInv, EntryInv, Queued
  <2>2. CASE Next
    BY <1>1, <2>2, WriteStepPreserves, CloseStepPreserves, LoopStepPreserves DEF Next
  <2> QED BY <1>1, <2>1, <2>2
<1> QED BY <1>1, InitIInv, PTL DEF Spec

\* Every variable keeps its type; in particular the WaitGroup's counter never
\* goes below zero (a second writes.Done would panic) and the buffer never
\* exceeds its capacity.
THEOREM TypeCorrect == Spec => []TypeOK
BY Invariance, PTL DEF IInv

\* The live events of an entry (logger.go Write, flushBatch): Completed, then
\* at most one terminal event, Flushed only when the store has the entry.
THEOREM LifecycleCorrect == Spec => []LiveLifecycle
<1>1. IInv => LiveLifecycle
  <2> SUFFICES ASSUME IInv, NEW e \in Entries
      PROVE  /\ live[e] \in {<<>>, <<"completed">>} \cup
                  {<<"completed", t>> : t \in {"dropped", "failed", "flushed"}}
             /\ live[e] = <<"completed", "flushed">> => e \in stored
    BY DEF LiveLifecycle
  <2>1. EntryInv /\ writer[e] \in WriterStages
    BY DEF IInv, TypeOK
  <2>2. live[e] \in Terminal \cup {<<>>, <<"completed">>}
    BY <2>1 DEF EntryInv, WriterStages
  <2>3. live[e] = <<"completed", "flushed">> => e \in stored
    BY <2>1 DEF EntryInv
  <2> QED BY <2>2, <2>3 DEF Terminal
<1> QED BY <1>1, Invariance, PTL

\* Close (logger.go) closes the store only after flushLoop's last use of it.
THEOREM StoreOpen == Spec => []StoreOpenWhenUsed
<1>1. IInv => StoreOpenWhenUsed
  BY DEF IInv, CloseInv, LoopInv, StoreOpenWhenUsed
<1> QED BY <1>1, Invariance, PTL

\* After Close no entry is queued, and none was announced to the dashboard
\* and then forgotten.
THEOREM NothingLeft == Spec => []CloseLeavesNothing
<1>1. IInv => CloseLeavesNothing
  <2> SUFFICES ASSUME IInv, storeClosed
      PROVE  buffer = <<>> /\ batch = <<>> /\ \A e \in Entries : Len(live[e]) # 1
    BY DEF CloseLeavesNothing
  <2>1. buffer = <<>> /\ batch = <<>> /\ done
    BY DEF IInv, CloseInv, LoopInv
  <2>2. Queued = {}
    BY <2>1 DEF Queued, ToSet
  <2>3. ASSUME NEW e \in Entries
        PROVE  live[e] \in Terminal \cup {<<>>}
    BY <2>1, <2>2 DEF IInv, CloseInv, EntryInv, TypeOK, WriterStages
  <2>4. \A h \in Terminal \cup {<<>>} : Len(h) # 1
    BY DEF Terminal
  <2> QED BY <2>1, <2>3, <2>4
<1> QED BY <1>1, Invariance, PTL

-----------------------------------------------------------------------------
(* Refinement *)

\* The entries whose last event reports the outcome of a flush.
Reported == {e \in Entries : live[e] # <<>> /\ Last(live[e]) \in {"failed", "flushed"}}

\* When an entry is reported, by the shape of its history.
LEMMA ReportedFacts ==
    /\ \A e \in Entries : live[e] \in {<<>>, <<"completed">>, <<"completed", "dropped">>} =>
         e \notin Reported
    /\ \A e \in Entries : live[e] \in {<<"completed", "failed">>, <<"completed", "flushed">>} =>
         e \in Reported
<1>1. /\ Last(<<"completed">>) = "completed"
      /\ Last(<<"completed", "dropped">>) = "dropped"
      /\ Last(<<"completed", "failed">>) = "failed"
      /\ Last(<<"completed", "flushed">>) = "flushed"
      /\ <<"completed", "failed">> # <<>> /\ <<"completed", "flushed">> # <<>>
  BY DEF Last
<1>2. ASSUME NEW e \in Entries,
             live[e] \in {<<>>, <<"completed">>, <<"completed", "dropped">>}
      PROVE  e \notin Reported
  <2>1. live[e] = <<>> \/ Last(live[e]) \in {"completed", "dropped"}
    BY <1>1, <1>2
  <2> QED BY <2>1 DEF Reported
<1>3. ASSUME NEW e \in Entries,
             live[e] \in {<<"completed", "failed">>, <<"completed", "flushed">>}
      PROVE  e \in Reported
  <2>1. live[e] # <<>> /\ Last(live[e]) \in {"failed", "flushed"}
    BY <1>1, <1>3
  <2> QED BY <2>1 DEF Reported
<1> QED BY <1>2, <1>3

\* Recheck and Drop publish nothing that reports an outcome.
LEMMA WriteReportsNothing ==
    ASSUME IInv, NEW e \in Entries, WriteStep(e)
    PROVE  Reported' = Reported
<1>1. live \in [Entries -> Seq(Events)] /\ EntryInv
  BY DEF IInv, TypeOK
<1>2. CASE live' = live
  BY <1>2 DEF Reported
<1>3. CASE writer[e] = "registered" /\ Publish({e}, "completed")
  <2>1. live'[e] = Append(live[e], "completed") /\ \A f \in Entries \ {e} : live'[f] = live[f]
    BY <1>1, <1>3, PublishFacts DEF Events
  <2>2. live[e] = <<>>
    BY <1>1, <1>3 DEF EntryInv
  <2>3. live'[e] = <<"completed">>
    BY <2>1, <2>2, AppendEvent
  <2>4. e \notin Reported /\ e \notin Reported'
    <3>1. e \notin Reported
      BY <2>2, ReportedFacts
    <3>2. (Last(<<"completed">>) = "completed")
      BY DEF Last
    <3> QED BY <2>3, <3>1, <3>2 DEF Reported
  <2> QED BY <2>1, <2>4 DEF Reported
<1>4. CASE writer[e] = "drop" /\ Publish({e}, "dropped")
  <2>1. live'[e] = Append(live[e], "dropped") /\ \A f \in Entries \ {e} : live'[f] = live[f]
    BY <1>1, <1>4, PublishFacts DEF Events
  <2>2. live[e] = <<"completed">>
    BY <1>1, <1>4 DEF EntryInv
  <2>3. live'[e] = <<"completed", "dropped">>
    BY <2>1, <2>2, AppendEvent DEF Events
  <2>4. e \notin Reported /\ e \notin Reported'
    <3>1. e \notin Reported
      BY <2>2, ReportedFacts
    <3>2. Last(<<"completed", "dropped">>) = "dropped"
      BY DEF Last
    <3> QED BY <2>3, <3>1, <3>2 DEF Reported
  <2> QED BY <2>1, <2>4 DEF Reported
<1> QED BY <1>2, <1>3, <1>4 DEF WriteStep, Check, Register, Recheck, Send, Drop, Leave, WriterAt

LEMMA WriteStepRefines ==
    ASSUME IInv, NEW e \in Entries, WriteStep(e)
    PROVE  Contract!Accept(e) \/ UNCHANGED <<Held, Settled, storeClosed>>
<1>1. /\ TypeOK /\ CloseInv /\ LoopInv /\ EntryInv
      /\ UNCHANGED <<loop, flush, batch, storeClosed>>
  BY DEF IInv, WriteStep, Check, Register, Recheck, Send, Drop, Leave, closerVars, loopVars
<1>2. Settled' = Settled
  BY <1>1, WriteReportsNothing DEF Settled, Reported
<1>3. CASE buffer' = buffer
  BY <1>1, <1>2, <1>3 DEF Held
<1>4. CASE writer[e] = "send" /\ buffer' = Append(buffer, e)
  <2>1. ToSet(buffer') = ToSet(buffer) \cup {e}
    BY <1>1, <1>4, AppendToSet DEF TypeOK
  <2>2. Held' = Held \cup {e}
    BY <1>1, <2>1 DEF Held
  <2>3. e \notin Queued /\ live[e] = <<"completed">>
    BY <1>1, <1>4 DEF EntryInv
  <2>4. e \notin Held \cup Settled
    <3>1. e \notin Reported
      BY <2>3, ReportedFacts
    <3> QED BY <2>3, <3>1 DEF Held, Settled, Queued, Reported
  <2>5. ~storeClosed
    BY <1>1, <1>4 DEF CloseInv, LoopInv
  <2> QED BY <1>1, <1>2, <2>2, <2>4, <2>5 DEF Contract!Accept
<1> QED BY <1>3, <1>4 DEF WriteStep, Check, Register, Recheck, Send, Drop, Leave, WriterAt

LEMMA CloseStepRefines ==
    ASSUME IInv, NEW c \in Closers, CloseStep(c)
    PROVE  Contract!Shut \/ UNCHANGED <<Held, Settled, storeClosed>>
<1>1. Held' = Held /\ Settled' = Settled
  BY DEF CloseStep, Swap, Wait, WaitReturns, Signal, Join, writerVars, loopVars, Held, Settled
<1>2. CASE Join(c)
  <2>1. buffer = <<>> /\ batch = <<>>
    BY <1>2 DEF IInv, LoopInv, Join
  <2>2. Held = {}
    BY <2>1 DEF Held, ToSet
  <2>3. ~storeClosed /\ storeClosed' = TRUE
    BY <1>2 DEF IInv, CloseInv, Active, Join, CloserAt
  <2> QED BY <1>1, <2>2, <2>3 DEF Contract!Shut
<1>3. CASE ~Join(c)
  BY <1>1, <1>3 DEF CloseStep, Swap, Wait, WaitReturns, Signal
<1> QED BY <1>2, <1>3

LEMMA LoopStepRefines ==
    ASSUME IInv, LoopStep
    PROVE  (\E S \in SUBSET Held : Contract!Settle(S)) \/ UNCHANGED <<Held, Settled, storeClosed>>
<1>1. TypeOK /\ CloseInv /\ LoopInv /\ QueueInv /\ EntryInv /\ storeClosed' = storeClosed
  BY DEF IInv, LoopStep, Receive, Tick, SeeDone, Drain, Drained, WriteBatch, PublishBatch,
     FlushStore, closerVars
<1>2. CASE Receive \/ Drain
  <2>1. /\ Take /\ live' = live /\ flush = "no" /\ flush' \in {"no", "write"}
    BY <1>2 DEF Receive, Drain
  <2>2. buffer # <<>> /\ buffer \in Seq(Entries) /\ batch \in Seq(Entries) /\ IsInjective(buffer)
    BY <1>1, <2>1 DEF Take, TypeOK, QueueInv
  <2>3. /\ Head(buffer) \in Entries /\ Head(buffer) \in ToSet(buffer)
        /\ ToSet(buffer') = ToSet(buffer) \ {Head(buffer)}
    BY <2>1, <2>2, TakeHead DEF Take
  <2>4. ToSet(batch') = ToSet(batch) \cup {Head(buffer)}
    BY <2>1, <2>2, <2>3, AppendToSet DEF Take
  <2> QED BY <1>1, <2>1, <2>3, <2>4 DEF Held, Settled
<1>3. CASE Tick \/ SeeDone \/ Drained \/ FlushStore
  BY <1>1, <1>3 DEF Tick, SeeDone, Drained, FlushStore, LoopInv, Held, Settled
<1>4. CASE WriteBatch
  <2>1. /\ flush = "write" /\ flush' \in {"ok", "err"}
        /\ UNCHANGED <<buffer, batch, live>>
    BY <1>4 DEF WriteBatch
  <2>2. ToSet(batch) # {} /\ ~storeClosed
    BY <1>1, <2>1, EmptyToSet DEF LoopInv, CloseInv, TypeOK
  <2>3. ToSet(batch) \in SUBSET Held /\ Held' = Held \ ToSet(batch)
    BY <1>1, <2>1 DEF Held, QueueInv
  <2>4. Settled' = Settled \cup ToSet(batch)
    BY <2>1 DEF Settled
  <2> QED BY <1>1, <2>2, <2>3, <2>4 DEF Contract!Settle
<1>5. CASE PublishBatch
  <2> DEFINE event == IF flush = "ok" THEN "flushed" ELSE "failed"
  <2>1. /\ flush \in {"ok", "err"} /\ flush' = "no" /\ batch' = <<>> /\ buffer' = buffer
        /\ Publish(ToSet(batch), event) /\ event \in Events
    BY <1>5 DEF PublishBatch, Events
  <2>2. /\ \A f \in Entries : f \in ToSet(batch) => live'[f] = Append(live[f], event)
        /\ \A f \in Entries : f \notin ToSet(batch) => live'[f] = live[f]
    <3>1. live \in [Entries -> Seq(Events)]
      BY <1>1 DEF TypeOK
    <3> HIDE DEF event
    <3> QED BY <2>1, <3>1, PublishFacts
  <2>3. \A f \in Entries : f \in ToSet(batch) => live'[f] = <<"completed", event>>
    <3>1. \A f \in Entries : f \in ToSet(batch) => live[f] = <<"completed">>
      BY <1>1 DEF EntryInv, Queued, TypeOK, WriterStages
    <3> QED BY <2>1, <2>2, <3>1, AppendEvent
  <2>4. \A f \in Entries : f \in ToSet(batch) => f \in Reported'
    <3>1. /\ Last(<<"completed", "failed">>) = "failed"
          /\ Last(<<"completed", "flushed">>) = "flushed"
          /\ <<"completed", "failed">> # <<>> /\ <<"completed", "flushed">> # <<>>
      BY DEF Last
    <3> QED BY <2>1, <2>3, <3>1 DEF Reported
  <2>5. \A f \in Entries : f \notin ToSet(batch) => (f \in Reported' <=> f \in Reported)
    BY <2>2 DEF Reported
  <2>6. ToSet(batch) \subseteq Entries
    BY <1>1 DEF TypeOK, ToSet
  <2>7. Settled' = Settled
    <3>1. Settled = Reported \cup ToSet(batch) /\ Settled' = Reported'
      BY <2>1 DEF Settled, Reported
    <3>2. Reported \subseteq Entries /\ Reported' \subseteq Entries
      BY DEF Reported
    <3> QED BY <2>4, <2>5, <2>6, <3>1, <3>2
  <2>8. Held' = Held
    BY <2>1 DEF Held, ToSet
  <2> QED BY <1>1, <2>7, <2>8
<1> QED BY <1>2, <1>3, <1>4, <1>5 DEF LoopStep

\* The logger does what DrainContract promises: an entry put in the buffer is
\* handed to the store exactly once, and the store is closed only when no
\* accepted entry is left.
THEOREM Refinement == Spec => ImplementsContract
<1>1. Init => Contract!Init
  BY DEF Init, Contract!Init, Held, Settled, ToSet
<1>2. ASSUME IInv, [Next]_vars
      PROVE  [Contract!Next]_(Contract!vars)
  <2>1. CASE UNCHANGED vars
    BY <2>1 DEF vars, writerVars, closerVars, loopVars, Contract!vars, Held, Settled
  <2>2. CASE Next
    BY <1>2, <2>2, WriteStepRefines, CloseStepRefines, LoopStepRefines
       DEF Next, Contract!Next, Contract!vars
  <2> QED BY <1>2, <2>1, <2>2
<1> QED BY <1>1, <1>2, Invariance, PTL DEF Spec, Contract!Spec, ImplementsContract

-----------------------------------------------------------------------------
(* The periods of budgets.  Of each kind of period there is a family of cuts,
   one for every integer or month, at which the settings let one begin; the
   cuts are in order, and PeriodBounds finds the two neighbours that a moment
   lies between (DayCut, WeekCut, MonthCut); a period of any other length is cut
   by a remainder. *)

\* The first days of the months, as a table.
FirstDays == <<-31, 0, 31, 60, 91, 121, 152, 182, 213, 244, 274, 305, 335, 366, 397, 425, 456, 486,
               517, 547, 578, 609, 639, 670, 700, 731>>

LEMMA MonthLengths ==
    \A m \in 0..24 : daysInMonth(m) \in 28..31 /\ FirstDays[m + 2] = FirstDays[m + 1] + daysInMonth(m)
<1>1. daysInMonth(0) \in 28..31 /\ FirstDays[0 + 2] = FirstDays[0 + 1] + daysInMonth(0)
  BY DEF daysInMonth, FirstDays
<1>2. \A m \in 1..8 : Lengths[m] \in 28..31 /\ FirstDays[m + 2] = FirstDays[m + 1] + Lengths[m]
  BY DEF Lengths, FirstDays
<1>3. \A m \in 9..16 : Lengths[m] \in 28..31 /\ FirstDays[m + 2] = FirstDays[m + 1] + Lengths[m]
  BY DEF Lengths, FirstDays
<1>4. \A m \in 17..24 : Lengths[m] \in 28..31 /\ FirstDays[m + 2] = FirstDays[m + 1] + Lengths[m]
  BY DEF Lengths, FirstDays
<1>5. \A m \in 0..24 : m = 0 \/ (m # 0 /\ (m \in 1..8 \/ m \in 9..16 \/ m \in 17..24))
  OBVIOUS
<1> HIDE DEF FirstDays
<1> QED BY <1>1, <1>2, <1>3, <1>4, <1>5 DEF daysInMonth

LEMMA DayOneIs ==
    \A m \in 0..25 : DayOne[m] = FirstDays[m + 1]
<1> DEFINE Step(g, m) == IF m = 0 THEN -31 ELSE g[m - 1] + daysInMonth(m - 1)
           table == [m \in 0..25 |-> FirstDays[m + 1]]
<1>1. FirstDays[1] = -31
  BY DEF FirstDays
<1>2. table = [m \in 0..25 |-> Step(table, m)]
  <2>1. ASSUME NEW m \in 0..25 PROVE FirstDays[m + 1] = Step(table, m)
    <3>1. CASE m = 0
      BY <1>1, <3>1
    <3>2. CASE m # 0
      <4>1. m - 1 \in 0..24 /\ m - 1 \in 0..25 /\ (m - 1) + 2 = m + 1 /\ (m - 1) + 1 = m
        BY <3>2
      <4>2. FirstDays[(m - 1) + 2] = FirstDays[(m - 1) + 1] + daysInMonth(m - 1)
        BY <4>1, MonthLengths
      <4>3. table[m - 1] = FirstDays[(m - 1) + 1]
        BY <4>1
      <4> QED BY <3>2, <4>1, <4>2, <4>3
    <3> QED BY <3>1, <3>2
  <2> QED BY <2>1
<1>3. DayOne = CHOOSE g : g = [m \in 0..25 |-> Step(g, m)]
  BY DEF DayOne
<1>4. DayOne = [m \in 0..25 |-> Step(DayOne, m)]
  <2> HIDE DEF Step, table
  <2> QED BY <1>2, <1>3
<1>5. \A m \in 0..25 : DayOne[m] = Step(DayOne, m)
  <2> HIDE DEF Step
  <2> QED BY <1>4
<1> DEFINE S == {n \in Nat : n \in 0..25 => DayOne[n] = FirstDays[n + 1]}
<1>6. 0 \in S
  BY <1>1, <1>5
<1>7. ASSUME NEW n \in Nat, n \in S PROVE n + 1 \in S
  <2>1. CASE n + 1 \in 0..25
    <3>1. n \in 0..24 /\ n \in 0..25 /\ n + 1 # 0 /\ (n + 1) - 1 = n /\ (n + 1) + 1 = n + 2
      BY <2>1
    <3>2. DayOne[n + 1] = DayOne[n] + daysInMonth(n)
      BY <1>5, <2>1, <3>1
    <3>3. FirstDays[n + 2] = FirstDays[n + 1] + daysInMonth(n)
      BY <3>1, MonthLengths
    <3> QED BY <1>7, <3>1, <3>2, <3>3
  <2> QED BY <2>1
<1>8. \A n \in Nat : n \in S
  <2> HIDE DEF S
  <2> QED BY <1>6, <1>7, AllNumbers
<1> QED BY <1>8

\* The months follow each other.
LEMMA Calendar ==
    /\ \A m \in 0..25 : DayOne[m] \in Int
    /\ \A m \in 0..24 : daysInMonth(m) \in 28..31 /\ DayOne[m + 1] = DayOne[m] + daysInMonth(m)
    /\ DayOne[1] = 0
<1>1. \A m \in 0..24 : /\ m \in 0..25 /\ m + 1 \in 0..25
                       /\ (m + 1) + 1 = m + 2
  OBVIOUS
<1>2. \A m \in 0..24 : daysInMonth(m) \in 28..31 /\ DayOne[m + 1] = DayOne[m] + daysInMonth(m)
  BY <1>1, MonthLengths, DayOneIs
<1>3. \A m \in 0..12 : DayOne[m] \in Int
  BY DayOneIs DEF FirstDays
<1>4. \A m \in 13..25 : DayOne[m] \in Int
  BY DayOneIs DEF FirstDays
<1>5. DayOne[1] = 0
  BY DayOneIs DEF FirstDays
<1> QED BY <1>2, <1>3, <1>4, <1>5

LEMMA MonthsInOrder ==
    \A m \in 0..25, n \in 0..25 : m <= n => DayOne[m] <= DayOne[n]
<1> DEFINE S == {k \in Nat : \A m \in 0..25 : m + k \in 0..25 => DayOne[m] <= DayOne[m + k]}
<1>1. 0 \in S
  BY Calendar
<1>2. ASSUME NEW k \in Nat, k \in S PROVE k + 1 \in S
  <2>1. ASSUME NEW m \in 0..25, m + (k + 1) \in 0..25 PROVE DayOne[m] <= DayOne[m + (k + 1)]
    <3>1. m + k \in 0..24 /\ m + k \in 0..25 /\ (m + k) + 1 = m + (k + 1)
      BY <2>1
    <3>2. DayOne[m] <= DayOne[m + k]
      BY <1>2, <3>1
    <3>3. DayOne[(m + k) + 1] = DayOne[m + k] + daysInMonth(m + k) /\ daysInMonth(m + k) \in 28..31
      BY <3>1, Calendar
    <3>4. DayOne[m] \in Int /\ DayOne[m + k] \in Int
      BY <2>1, <3>1, Calendar
    <3> QED BY <3>1, <3>2, <3>3, <3>4
  <2> QED BY <2>1
<1>3. \A k \in Nat : k \in S
  <2> HIDE DEF S
  <2> QED BY <1>1, <1>2, AllNumbers
<1>4. ASSUME NEW m \in 0..25, NEW n \in 0..25, m <= n PROVE DayOne[m] <= DayOne[n]
  <2>1. n - m \in Nat /\ m + (n - m) = n
    BY <1>4
  <2> QED BY <1>3, <2>1
<1> QED BY <1>4

LEMMA MonthIs ==
    ASSUME NEW t \in Int, NEW m \in 0..24, DayOne[m] <= Day(t), Day(t) < DayOne[m + 1]
    PROVE  Month(t) = m
<1>1. Day(t) \in Int
  BY DEF Day
<1>2. ASSUME NEW n \in 0..24, DayOne[n] <= Day(t), Day(t) < DayOne[n + 1] PROVE n = m
  <2>1. /\ n \in 0..25 /\ m \in 0..25 /\ n + 1 \in 0..25 /\ m + 1 \in 0..25
        /\ DayOne[n] \in Int /\ DayOne[m] \in Int /\ DayOne[n + 1] \in Int /\ DayOne[m + 1] \in Int
    BY Calendar
  <2>2. CASE n < m
    <3>1. DayOne[n + 1] <= DayOne[m]
      BY <2>1, <2>2, MonthsInOrder
    <3> QED BY <1>1, <1>2, <2>1, <3>1
  <2>3. CASE m < n
    <3>1. DayOne[m + 1] <= DayOne[n]
      BY <2>1, <2>3, MonthsInOrder
    <3> QED BY <1>1, <1>2, <2>1, <3>1
  <2> QED BY <2>2, <2>3
<1> QED BY <1>2 DEF Month

LEMMA MonthExists ==
    ASSUME NEW d \in Nat, NEW n \in 1..24, d < DayOne[n]
    PROVE  \E m \in 1..23 : m < n /\ DayOne[m] <= d /\ d < DayOne[m + 1]
<1> DEFINE S == {k \in Nat : k \in 1..24 /\ d < DayOne[k] =>
                     \E m \in 1..23 : m < k /\ DayOne[m] <= d /\ d < DayOne[m + 1]}
<1>1. 0 \in S
  OBVIOUS
<1>2. ASSUME NEW k \in Nat, k \in S PROVE k + 1 \in S
  <2>1. ASSUME k + 1 \in 1..24, d < DayOne[k + 1]
        PROVE  \E m \in 1..23 : m < k + 1 /\ DayOne[m] <= d /\ d < DayOne[m + 1]
    <3>1. CASE k = 0
      BY <2>1, <3>1, Calendar
    <3>2. CASE k # 0
      <4>1. k \in 1..23 /\ k \in 1..24 /\ k \in 0..25
        BY <2>1, <3>2
      <4>2. DayOne[k] \in Int
        BY <4>1, Calendar
      <4>3. CASE d < DayOne[k]
        <5>1. PICK m \in 1..23 : m < k /\ DayOne[m] <= d /\ d < DayOne[m + 1]
          BY <1>2, <4>1, <4>3
        <5>2. m < k + 1
          BY <5>1
        <5> QED BY <5>1, <5>2
      <4>4. CASE DayOne[k] <= d
        BY <2>1, <4>1, <4>4
      <4> QED BY <4>2, <4>3, <4>4
    <3> QED BY <3>1, <3>2
  <2> QED BY <2>1
<1>3. \A k \in Nat : k \in S
  <2> HIDE DEF S
  <2> QED BY <1>1, <1>2, AllNumbers
<1> QED BY <1>3

-----------------------------------------------------------------------------
(* Cuts of days and weeks *)

LEMMA Halves ==
    ASSUME NEW t \in Int
    PROVE  Day(t) \in Int /\ (t = 2 * Day(t) \/ t = 2 * Day(t) + 1)
BY DEF Day

LEMMA DateFacts ==
    ASSUME NEW d \in Int, NEW h \in 0..1
    PROVE  Date(d, h) = 2 * d + h /\ Date(d, h) \in Int /\ Day(Date(d, h)) = d /\ Date(d, h) % 2 = h
BY DEF Date, Day

LEMMA DayCut ==
    ASSUME NEW t \in Int, NEW h \in 0..1
    PROVE  \E k \in Int : /\ anchoredDayStart(t, h) = 2 * k + h
                         /\ 2 * k + h <= t /\ t < 2 * k + h + 2
<1>1. PICK d, a : d = Day(t) /\ a = anchoredDayStart(t, h)
  OBVIOUS
<1>2. d \in Int /\ (t = 2 * d \/ t = 2 * d + 1)
  BY <1>1, Halves
<1>3. Date(d, h) = 2 * d + h /\ Date(1, 0) = 2
  BY DEF Date
<1>4. a = IF t < Date(d, h) THEN Date(d, h) - Date(1, 0) ELSE Date(d, h)
  BY <1>1 DEF anchoredDayStart
<1>5. CASE t < 2 * d + h
  <2>1. a = 2 * (d - 1) + h /\ d - 1 \in Int /\ 2 * (d - 1) + h <= t /\ t < 2 * (d - 1) + h + 2
    BY <1>2, <1>3, <1>4, <1>5
  <2> QED BY <1>1, <2>1
<1>6. CASE ~(t < 2 * d + h)
  <2>1. a = 2 * d + h /\ 2 * d + h <= t /\ t < 2 * d + h + 2
    BY <1>2, <1>3, <1>4, <1>6
  <2> QED BY <1>1, <1>2, <2>1
<1> QED BY <1>5, <1>6

LEMMA DaysAlone ==
    ASSUME NEW t \in Int, NEW h \in 0..1, NEW j \in Int, NEW k \in Int,
           2 * j + h <= t, t < 2 * j + h + 2, 2 * k + h <= t, t < 2 * k + h + 2
    PROVE  j = k
OBVIOUS

LEMMA WeekCut ==
    ASSUME NEW t \in Int, NEW w \in 0..6, NEW h \in 0..1
    PROVE  \E k \in Int : /\ anchoredWeekStart(t, w, h) = 14 * k + (2 * w - 2 + h)
                         /\ 14 * k + (2 * w - 2 + h) <= t
                         /\ t < 14 * k + (2 * w - 2 + h) + 14
<1>1. PICK d, a, r, q : d = Day(t) /\ a = anchoredWeekStart(t, w, h) /\ r = Weekday(t)
                        /\ q = (d + 1) \div 7
  OBVIOUS
<1>2. d \in Int /\ (t = 2 * d \/ t = 2 * d + 1)
  BY <1>1, Halves
<1>3. r \in 0..6 /\ q \in Int /\ d + 1 = 7 * q + r
  <2>1. PICK e : e = d + 1
    OBVIOUS
  <2>2. r = e % 7 /\ q = e \div 7 /\ e \in Int
    BY <1>1, <1>2, <2>1 DEF Weekday
  <2>3. e % 7 \in 0..6 /\ e \div 7 \in Int /\ e = 7 * (e \div 7) + (e % 7)
    BY <2>2
  <2> QED BY <2>1, <2>2, <2>3
<1>4. PICK b : b = (r - w + 7) % 7
  OBVIOUS
<1>5. b = IF r >= w THEN r - w ELSE r - w + 7
  BY <1>3, <1>4
<1>6. PICK j \in Int : d - b = 7 * j + w - 1 /\ b \in 0..6
  <2>1. CASE r >= w
    BY <1>2, <1>3, <1>5, <2>1
  <2>2. CASE r < w
    <3>1. d - b = 7 * (q - 1) + w - 1 /\ q - 1 \in Int /\ b \in 0..6
      BY <1>2, <1>3, <1>5, <2>2
    <3> QED BY <3>1
  <2> QED BY <1>3, <2>1, <2>2
<1>7. PICK c : c = 2 * w - 2 + h
  OBVIOUS
<1>8. Date(d - b, h) = 14 * j + c /\ Date(7, 0) = 14 /\ c \in Int
  BY <1>6, <1>7 DEF Date
<1>9. a = IF t < Date(d - b, h) THEN Date(d - b, h) - Date(7, 0) ELSE Date(d - b, h)
  BY <1>1, <1>4 DEF anchoredWeekStart
<1>10. 14 * j + c - 14 <= t /\ t < 14 * j + c + 14
  BY <1>2, <1>6, <1>7
<1>11. CASE t < 14 * j + c
  <2>1. a = 14 * (j - 1) + c /\ j - 1 \in Int /\ 14 * (j - 1) + c <= t /\ t < 14 * (j - 1) + c + 14
    BY <1>8, <1>9, <1>10, <1>11
  <2> QED BY <1>1, <1>7, <2>1
<1>12. CASE ~(t < 14 * j + c)
  <2>1. a = 14 * j + c /\ 14 * j + c <= t /\ t < 14 * j + c + 14
    BY <1>8, <1>9, <1>10, <1>12
  <2> QED BY <1>1, <1>7, <2>1
<1> QED BY <1>11, <1>12

LEMMA WeeksAlone ==
    ASSUME NEW t \in Int, NEW c \in Int, NEW j \in Int, NEW k \in Int,
           14 * j + c <= t, t < 14 * j + c + 14, 14 * k + c <= t, t < 14 * k + c + 14
    PROVE  j = k
OBVIOUS

LEMMA WeekdayOf ==
    ASSUME NEW k \in Int, NEW w \in 0..6, NEW h \in 0..1
    PROVE  Weekday(14 * k + (2 * w - 2 + h)) = w /\ (14 * k + (2 * w - 2 + h)) % 2 = h
<1>1. 14 * k + (2 * w - 2 + h) = 2 * (7 * k + w - 1) + h /\ 7 * k + w - 1 \in Int
  OBVIOUS
<1>2. Day(2 * (7 * k + w - 1) + h) = 7 * k + w - 1 /\ (2 * (7 * k + w - 1) + h) % 2 = h
  BY <1>1, DateFacts
<1>3. (7 * k + w - 1) + 1 = 7 * k + w /\ (7 * k + w) % 7 = w
  OBVIOUS
<1> QED BY <1>1, <1>2, <1>3 DEF Weekday

-----------------------------------------------------------------------------
(* Cuts of months *)

LEMMA MinOfTwo ==
    ASSUME NEW a \in Int, NEW b \in Int
    PROVE  Min({a, b}) = IF a <= b THEN a ELSE b
BY DEF Min

LEMMA MonthAnchor ==
    ASSUME NEW m \in 0..24, NEW day \in 1..31, NEW h \in 0..1
    PROVE  LET a == monthAnchor(m, day, h)
           IN  /\ a \in Int /\ a % 2 = h
               /\ DayOne[m] <= Day(a) /\ Day(a) < DayOne[m + 1]
               /\ 2 * DayOne[m] <= a /\ a < 2 * DayOne[m + 1]
               /\ Month(a) = m
               /\ Day(a) - DayOne[m] + 1 = IF day <= daysInMonth(m) THEN day ELSE daysInMonth(m)
<1>1. /\ m \in 0..25 /\ m + 1 \in 0..25 /\ DayOne[m] \in Int /\ daysInMonth(m) \in 28..31
      /\ DayOne[m + 1] = DayOne[m] + daysInMonth(m)
  BY Calendar
<1>2. PICK e : e = Min({day, daysInMonth(m)})
  OBVIOUS
<1>3. e = (IF day <= daysInMonth(m) THEN day ELSE daysInMonth(m)) /\ e \in 1..31
      /\ e <= daysInMonth(m)
  BY <1>1, <1>2, MinOfTwo
<1>4. DayOne[m] + e - 1 \in Int
  BY <1>1, <1>3
<1>5. PICK a : a = monthAnchor(m, day, h)
  OBVIOUS
<1>6. a = Date(DayOne[m] + e - 1, h)
  BY <1>2, <1>5 DEF monthAnchor
<1>7. a = 2 * (DayOne[m] + e - 1) + h /\ a \in Int /\ Day(a) = DayOne[m] + e - 1 /\ a % 2 = h
  BY <1>4, <1>6, DateFacts
<1>8. DayOne[m] <= Day(a) /\ Day(a) < DayOne[m + 1]
  BY <1>1, <1>3, <1>7
<1>9. Month(a) = m
  BY <1>7, <1>8, MonthIs
<1>10. 2 * DayOne[m] <= a /\ a < 2 * DayOne[m + 1]
  BY <1>1, <1>3, <1>7
<1>11. Day(a) - DayOne[m] + 1 = e
  BY <1>1, <1>3, <1>7
<1> QED BY <1>3, <1>5, <1>7, <1>8, <1>9, <1>10, <1>11

\* A moment between the cuts of a month and of the next.
LEMMA MonthCut ==
    ASSUME NEW n \in 0..23, NEW day \in 1..31, NEW h \in 0..1, NEW t \in Int,
           monthAnchor(n, day, h) <= t, t < monthAnchor(n + 1, day, h)
    PROVE  anchoredMonthStart(t, day, h) = monthAnchor(n, day, h)
<1>1. PICK a, b : a = monthAnchor(n, day, h) /\ b = monthAnchor(n + 1, day, h)
  OBVIOUS
<1>2. /\ n \in 0..24 /\ n + 1 \in 0..24 /\ n \in 0..25 /\ n + 1 \in 0..25 /\ n + 2 \in 0..25
      /\ (n + 1) + 1 = n + 2 /\ (n + 1) - 1 = n
  OBVIOUS
<1>3. DayOne[n] \in Int /\ DayOne[n + 1] \in Int /\ DayOne[n + 2] \in Int
  BY <1>2, Calendar
<1>4. a \in Int /\ 2 * DayOne[n] <= a /\ a < 2 * DayOne[n + 1]
  BY <1>1, <1>2, MonthAnchor
<1>5. b \in Int /\ 2 * DayOne[n + 1] <= b /\ b < 2 * DayOne[n + 2]
  BY <1>1, <1>2, MonthAnchor
<1>6. Day(t) \in Int /\ (t = 2 * Day(t) \/ t = 2 * Day(t) + 1)
  BY Halves
<1>7. DayOne[n] <= Day(t) /\ Day(t) < DayOne[n + 2]
  BY <1>1, <1>3, <1>4, <1>5, <1>6
<1>8. CASE Day(t) < DayOne[n + 1]
  <2>1. Month(t) = n
    BY <1>2, <1>7, <1>8, MonthIs
  <2>2. ~(t < a)
    BY <1>1, <1>4
  <2> QED BY <1>1, <2>1, <2>2 DEF anchoredMonthStart
<1>9. CASE DayOne[n + 1] <= Day(t)
  <2>1. Month(t) = n + 1
    BY <1>2, <1>7, <1>9, MonthIs
  <2>2. t < b
    BY <1>1
  <2> QED BY <1>1, <1>2, <2>1, <2>2 DEF anchoredMonthStart
<1> QED BY <1>3, <1>6, <1>8, <1>9

\* A period begins at its own cut.
LEMMA MonthAtCut ==
    ASSUME NEW n \in 0..24, NEW day \in 1..31, NEW h \in 0..1
    PROVE  anchoredMonthStart(monthAnchor(n, day, h), day, h) = monthAnchor(n, day, h)
<1>1. PICK a : a = monthAnchor(n, day, h)
  OBVIOUS
<1>2. a \in Int /\ Month(a) = n
  BY <1>1, MonthAnchor
<1> QED BY <1>1, <1>2 DEF anchoredMonthStart

-----------------------------------------------------------------------------
(* Cuts of periods of any other length *)

LEMMA Remainder ==
    ASSUME NEW a \in Nat \ {0}, NEW u \in Int
    PROVE  \E q \in Int, r \in 0..a - 1 : r = u % a /\ u = a * q + r
<1>1. u % a \in 0..a - 1
  OBVIOUS
<1>2. u \div a \in Int
  OBVIOUS
<1>3. u = a * (u \div a) + (u % a)
  OBVIOUS
<1> QED BY <1>1, <1>2, <1>3

LEMMA RemainderIs ==
    ASSUME NEW a \in Nat \ {0}, NEW q \in Int, NEW r \in 0..a - 1
    PROVE  (a * q + r) % a = r
OBVIOUS

-----------------------------------------------------------------------------
(* PeriodsTile *)

PeriodBudgets ==
    [period : {"day"}, anchor : {0}, hour : 0..1]
      \cup [period : {"week"}, anchor : 0..6, hour : 0..1]
      \cup [period : {"month"}, anchor : ResetDays, hour : 0..1]
      \cup [period : {"custom"}, anchor : Customs, hour : {0}]

PeriodsInv == now \in Nat /\ Day(now) < DayOne[Months + 1] /\ budget \in PeriodBudgets

\* From a up to b is one period, and the next begins at b.
OnePeriod(a, b) ==
    /\ a \in Int /\ b \in Int
    /\ \A t \in Int : a <= t /\ t < b => PeriodBounds(t) = [start |-> a, end |-> b]
    /\ PeriodBounds(b).start = b

LEMMA Tiled ==
    ASSUME NEW a, NEW b, OnePeriod(a, b), now \in Int, a <= now, now < b
    PROVE  LET p == PeriodBounds(now)
           IN  /\ p.start = a /\ p.end = b
               /\ p.start <= now /\ now < p.end
               /\ \A t \in {p.start, p.end - 1} : PeriodBounds(t) = p
               /\ PeriodBounds(p.end).start = p.end
<1>1. a \in Int /\ b \in Int /\ b - 1 \in Int /\ a <= b - 1 /\ b - 1 < b /\ a < b
  BY DEF OnePeriod
<1>2. PICK p : p = [start |-> a, end |-> b]
  OBVIOUS
<1>3. p.start = a /\ p.end = b
  BY <1>2
<1>4. PeriodBounds(now) = p /\ PeriodBounds(a) = p /\ PeriodBounds(b - 1) = p
  BY <1>1, <1>2 DEF OnePeriod
<1>5. PeriodBounds(b).start = b
  BY DEF OnePeriod
<1> QED BY <1>3, <1>4, <1>5

LEMMA DaysTile ==
    ASSUME now \in Nat, budget.period = "day", budget.hour \in 0..1
    PROVE  PeriodsTile
<1>1. PICK h : h = budget.hour
  OBVIOUS
<1>2. h \in 0..1
  BY <1>1
<1>3. \A t : /\ PeriodBounds(t).start = anchoredDayStart(t, h)
             /\ PeriodBounds(t) = [start |-> anchoredDayStart(t, h),
                                   end |-> anchoredDayStart(t, h) + 2]
  BY <1>1 DEF PeriodBounds, Date
<1>0. \A t \in Int : \E j \in Int : /\ anchoredDayStart(t, h) = 2 * j + h
                                    /\ 2 * j + h <= t /\ t < 2 * j + h + 2
  BY <1>2, DayCut
<1>4. PICK k \in Int : 2 * k + h <= now /\ now < 2 * k + h + 2
  <2>1. now \in Int
    OBVIOUS
  <2> QED BY <1>0, <2>1
<1>5. PICK a : a = 2 * k + h
  OBVIOUS
<1>6. ASSUME NEW t \in Int, a <= t, t < a + 2 PROVE anchoredDayStart(t, h) = a
  <2>1. PICK j \in Int : anchoredDayStart(t, h) = 2 * j + h /\ 2 * j + h <= t /\ t < 2 * j + h + 2
    BY <1>0
  <2>2. j = k
    BY <1>2, <1>5, <1>6, <2>1, DaysAlone
  <2> QED BY <1>5, <2>1, <2>2
<1>7. anchoredDayStart(a + 2, h) = a + 2
  <2>1. a + 2 = 2 * (k + 1) + h /\ k + 1 \in Int /\ a + 2 \in Int
    BY <1>2, <1>5
  <2>2. PICK j \in Int : /\ anchoredDayStart(a + 2, h) = 2 * j + h
                         /\ 2 * j + h <= a + 2 /\ a + 2 < 2 * j + h + 2
    BY <1>0, <2>1
  <2>3. j = k + 1
    BY <1>2, <2>1, <2>2
  <2> QED BY <2>1, <2>2, <2>3
<1>8. a \in Int /\ a + 2 \in Int
  BY <1>2, <1>5
<1>9. OnePeriod(a, a + 2)
  BY <1>3, <1>6, <1>7, <1>8 DEF OnePeriod
<1>10. a % 2 = h
  BY <1>2, <1>5
<1> QED BY <1>1, <1>4, <1>5, <1>9, <1>10, Tiled DEF PeriodsTile

LEMMA WeeksTile ==
    ASSUME now \in Nat, budget.period = "week", budget.hour \in 0..1, budget.anchor \in 0..6
    PROVE  PeriodsTile
<1>1. PICK h, w, c : h = budget.hour /\ w = budget.anchor /\ c = 2 * w - 2 + h
  OBVIOUS
<1>2. h \in 0..1 /\ w \in 0..6 /\ c \in Int
  BY <1>1
<1>3. \A t : /\ PeriodBounds(t).start = anchoredWeekStart(t, w, h)
             /\ PeriodBounds(t) = [start |-> anchoredWeekStart(t, w, h),
                                   end |-> anchoredWeekStart(t, w, h) + 14]
  BY <1>1 DEF PeriodBounds, Date
<1>0. \A t \in Int : \E j \in Int : /\ anchoredWeekStart(t, w, h) = 14 * j + c
                                    /\ 14 * j + c <= t /\ t < 14 * j + c + 14
  BY <1>1, <1>2, WeekCut
<1>4. PICK k \in Int : 14 * k + c <= now /\ now < 14 * k + c + 14
  BY <1>0
<1>5. PICK a : a = 14 * k + c
  OBVIOUS
<1>6. ASSUME NEW t \in Int, a <= t, t < a + 14 PROVE anchoredWeekStart(t, w, h) = a
  <2>1. PICK j \in Int : /\ anchoredWeekStart(t, w, h) = 14 * j + c
                         /\ 14 * j + c <= t /\ t < 14 * j + c + 14
    BY <1>0
  <2>2. j = k
    BY <1>2, <1>5, <1>6, <2>1, WeeksAlone
  <2> QED BY <1>5, <2>1, <2>2
<1>7. anchoredWeekStart(a + 14, w, h) = a + 14
  <2>1. a + 14 = 14 * (k + 1) + c /\ k + 1 \in Int /\ a + 14 \in Int
    BY <1>2, <1>5
  <2>2. PICK j \in Int : /\ anchoredWeekStart(a + 14, w, h) = 14 * j + c
                         /\ 14 * j + c <= a + 14 /\ a + 14 < 14 * j + c + 14
    BY <1>0, <2>1
  <2>3. j = k + 1
    BY <1>2, <2>1, <2>2
  <2> QED BY <2>1, <2>2, <2>3
<1>8. a \in Int /\ a + 14 \in Int
  BY <1>2, <1>5
<1>9. OnePeriod(a, a + 14)
  BY <1>3, <1>6, <1>7, <1>8 DEF OnePeriod
<1>10. Weekday(a) = w /\ a % 2 = h
  BY <1>1, <1>2, <1>5, WeekdayOf
<1> QED BY <1>1, <1>4, <1>5, <1>9, <1>10, Tiled DEF PeriodsTile

LEMMA MonthsTile ==
    ASSUME now \in Nat, Day(now) < DayOne[Months + 1], budget.period = "month",
           budget.hour \in 0..1, budget.anchor \in 1..31
    PROVE  PeriodsTile
<1>1. PICK h, d : h = budget.hour /\ d = budget.anchor
  OBVIOUS
<1>2. h \in 0..1 /\ d \in 1..31
  BY <1>1
<1>3. \A t : /\ PeriodBounds(t).start = anchoredMonthStart(t, d, h)
             /\ PeriodBounds(t) = [start |-> anchoredMonthStart(t, d, h),
                    end |-> monthAnchor(Month(anchoredMonthStart(t, d, h)) + 1, d, h)]
  BY <1>1 DEF PeriodBounds
<1>4. PICK m \in 1..23 : DayOne[m] <= Day(now) /\ Day(now) < DayOne[m + 1]
  <2>1. Day(now) \in Nat /\ Months + 1 \in 1..24
    BY PeriodsAssumption DEF Day
  <2> QED BY <2>1, MonthExists
<1>5. PICK n \in 0..23 : monthAnchor(n, d, h) <= now /\ now < monthAnchor(n + 1, d, h)
  <2>1. /\ m \in 0..24 /\ m + 1 \in 0..24 /\ m - 1 \in 0..23 /\ (m - 1) + 1 = m /\ m \in 0..23
        /\ m \in 0..25 /\ m + 1 \in 0..25 /\ m - 1 \in 0..24
    OBVIOUS
  <2>2. DayOne[m] \in Int /\ DayOne[m + 1] \in Int
    BY <2>1, Calendar
  <2>3. Day(now) \in Int /\ (now = 2 * Day(now) \/ now = 2 * Day(now) + 1)
    BY Halves
  <2>4. 2 * DayOne[m] <= now /\ now < 2 * DayOne[m + 1]
    BY <1>4, <2>2, <2>3
  <2>5. monthAnchor(m, d, h) \in Int
    BY <1>2, <2>1, MonthAnchor
  <2>6. CASE monthAnchor(m, d, h) <= now
    <3>1. 2 * DayOne[m + 1] <= monthAnchor(m + 1, d, h) /\ monthAnchor(m + 1, d, h) \in Int
      BY <1>2, <2>1, MonthAnchor
    <3>2. now < monthAnchor(m + 1, d, h)
      BY <2>2, <2>4, <3>1
    <3> QED BY <2>1, <2>6, <3>2
  <2>7. CASE now < monthAnchor(m, d, h)
    <3>1. /\ monthAnchor(m - 1, d, h) < 2 * DayOne[(m - 1) + 1]
          /\ monthAnchor(m - 1, d, h) \in Int
      BY <1>2, <2>1, MonthAnchor
    <3>2. monthAnchor(m - 1, d, h) <= now
      BY <2>1, <2>2, <2>4, <3>1
    <3> QED BY <2>1, <2>7, <3>2
  <2> QED BY <2>5, <2>6, <2>7
<1>6. PICK a, b : a = monthAnchor(n, d, h) /\ b = monthAnchor(n + 1, d, h)
  OBVIOUS
<1>7. n \in 0..24 /\ n + 1 \in 0..24
  OBVIOUS
<1>8. /\ a \in Int /\ a % 2 = h /\ Month(a) = n
      /\ Day(a) - DayOne[n] + 1 = IF d <= daysInMonth(n) THEN d ELSE daysInMonth(n)
  BY <1>2, <1>6, <1>7, MonthAnchor
<1>9. b \in Int
  BY <1>2, <1>6, <1>7, MonthAnchor
<1>10. \A t \in Int : a <= t /\ t < b => anchoredMonthStart(t, d, h) = a
  BY <1>2, <1>6, MonthCut
<1>11. anchoredMonthStart(b, d, h) = b
  BY <1>2, <1>6, <1>7, MonthAtCut
<1>12. OnePeriod(a, b)
  BY <1>3, <1>6, <1>8, <1>9, <1>10, <1>11 DEF OnePeriod
<1>13. a <= now /\ now < b
  BY <1>5, <1>6
<1>14. \/ Day(a) - DayOne[Month(a)] + 1 = d
       \/ Day(a) - DayOne[Month(a)] + 1 < d /\ Day(a) - DayOne[Month(a)] + 1 = daysInMonth(Month(a))
  <2>1. daysInMonth(n) \in 28..31
    BY <1>7, Calendar
  <2> QED BY <1>2, <1>8, <2>1
<1> QED BY <1>1, <1>8, <1>12, <1>13, <1>14, Tiled DEF PeriodsTile

LEMMA CustomsTile ==
    ASSUME now \in Nat, budget.period = "custom", budget.anchor \in Nat \ {0}
    PROVE  PeriodsTile
<1>1. PICK n : n = budget.anchor
  OBVIOUS
<1>2. n \in Nat \ {0}
  BY <1>1
<1>3. \A t : /\ PeriodBounds(t).start = t - (Unix(t) % n)
             /\ PeriodBounds(t) = [start |-> t - (Unix(t) % n), end |-> t - (Unix(t) % n) + n]
  BY <1>1 DEF PeriodBounds
<1>4. \A t \in Int : Unix(t) = t + 39446 /\ Unix(t) \in Int
  BY DEF Unix, Date
<1>5. PICK q \in Int, r \in 0..n - 1 : now + 39446 = n * q + r
  <2>1. PICK u : u = now + 39446
    OBVIOUS
  <2>2. u \in Int
    BY <2>1
  <2>3. PICK q \in Int, r \in 0..n - 1 : u = n * q + r
    BY <1>2, <2>2, Remainder
  <2> QED BY <2>1, <2>3
<1>6. PICK a, e : e = n * q /\ a = e - 39446
  OBVIOUS
<1>7. a \in Int /\ e \in Int /\ a + n \in Int
  BY <1>2, <1>6
<1>8. a <= now /\ now < a + n
  <2>1. now + 39446 = e + r /\ r \in 0..n - 1
    BY <1>5, <1>6
  <2>2. e = a + 39446
    BY <1>6, <1>7
  <2> QED BY <1>2, <1>7, <2>1, <2>2
<1>9. ASSUME NEW t \in Int, a <= t, t < a + n PROVE t - (Unix(t) % n) = a
  <2>1. PICK s : s = t - a
    OBVIOUS
  <2>2. s \in 0..n - 1 /\ Unix(t) = e + s
    BY <1>2, <1>4, <1>6, <1>7, <1>9, <2>1
  <2>3. (n * q + s) % n = s
    BY <1>2, <2>2, RemainderIs
  <2>4. Unix(t) % n = s
    BY <1>6, <2>2, <2>3
  <2> QED BY <1>7, <2>1, <2>2, <2>4
<1>10. (a + n) - (Unix(a + n) % n) = a + n
  <2>1. PICK u : u = Unix(a + n)
    OBVIOUS
  <2>2. u = e + n
    BY <1>2, <1>4, <1>6, <1>7, <2>1
  <2>3. n * (q + 1) = e + n /\ q + 1 \in Int
    BY <1>2, <1>6
  <2>4. (n * (q + 1) + 0) % n = 0
    BY <1>2, <2>3, RemainderIs
  <2>5. n * (q + 1) + 0 = u
    BY <1>2, <1>7, <2>2, <2>3
  <2>6. u % n = 0
    BY <2>4, <2>5
  <2> QED BY <1>7, <2>1, <2>6
<1>11. OnePeriod(a, a + n)
  BY <1>3, <1>7, <1>9, <1>10 DEF OnePeriod
<1> QED BY <1>1, <1>8, <1>11, Tiled DEF PeriodsTile

LEMMA PeriodsInvTile ==
    ASSUME PeriodsInv
    PROVE  PeriodsTile
<1>1. now \in Nat /\ Day(now) < DayOne[Months + 1]
  BY DEF PeriodsInv
<1>2. CASE budget \in [period : {"day"}, anchor : {0}, hour : 0..1]
  BY <1>1, <1>2, DaysTile
<1>3. CASE budget \in [period : {"week"}, anchor : 0..6, hour : 0..1]
  BY <1>1, <1>3, WeeksTile
<1>4. CASE budget \in [period : {"month"}, anchor : ResetDays, hour : 0..1]
  <2>1. budget.period = "month" /\ budget.hour \in 0..1 /\ budget.anchor \in 1..31
    BY <1>4, PeriodsAssumption
  <2> QED BY <1>1, <2>1, MonthsTile
<1>5. CASE budget \in [period : {"custom"}, anchor : Customs, hour : {0}]
  <2>1. budget.period = "custom" /\ budget.anchor \in Nat \ {0}
    BY <1>5, PeriodsAssumption
  <2> QED BY <1>1, <2>1, CustomsTile
<1> QED BY <1>2, <1>3, <1>4, <1>5 DEF PeriodsInv, PeriodBudgets

LEMMA PeriodsInvHolds ==
    /\ PeriodsInit => PeriodsInv
    /\ PeriodsInv /\ [PassTime]_periodVars => PeriodsInv'
<1>1. ASSUME PeriodsInit PROVE PeriodsInv
  <2>1. now = 0 /\ budget \in PeriodBudgets
    BY <1>1 DEF PeriodsInit, PeriodBudgets
  <2>2. 0 < DayOne[Months + 1]
    <3>1. /\ Months + 1 \in 0..25 /\ 2 <= Months + 1 /\ 1 \in 0..24 /\ 2 \in 0..25
      BY PeriodsAssumption
    <3>2. DayOne[1 + 1] = DayOne[1] + daysInMonth(1) /\ daysInMonth(1) \in 28..31 /\ DayOne[1] = 0
      BY <3>1, Calendar
    <3>3. DayOne[2] <= DayOne[Months + 1] /\ DayOne[Months + 1] \in Int
      BY <3>1, MonthsInOrder, Calendar
    <3> QED BY <3>2, <3>3
  <2>3. Day(now) = 0
    BY <2>1 DEF Day
  <2> QED BY <2>1, <2>2, <2>3 DEF PeriodsInv
<1>2. ASSUME PeriodsInv, [PassTime]_periodVars PROVE PeriodsInv'
  <2>1. CASE PassTime
    <3>1. now' = now + 1 /\ budget' = budget /\ Day(now + 1) < DayOne[Months + 1] /\ now \in Nat
      BY <1>2, <2>1 DEF PassTime, PeriodsInv
    <3>2. now' \in Nat /\ Day(now)' < DayOne[Months + 1]
      BY <3>1 DEF Day
    <3> QED BY <1>2, <3>1, <3>2 DEF PeriodsInv, PeriodBudgets
  <2>2. CASE UNCHANGED periodVars
    BY <1>2, <2>2 DEF periodVars, PeriodsInv, Day
  <2> QED BY <1>2, <2>1, <2>2
<1> QED BY <1>1, <1>2

\* The periods of every budget (PeriodBounds) tile time, for every set of reset
\* days and lengths, over the whole of the modelled calendar.
THEOREM BudgetsCountOnce == PeriodsSpec => []PeriodsTile
<1>1. PeriodsInv => PeriodsTile
  BY PeriodsInvTile
<1> QED BY <1>1, PeriodsInvHolds, PTL DEF PeriodsSpec

-----------------------------------------------------------------------------
(* The scanner of events.  A boundary of l bytes begins after i bytes of B. *)

Sep(B, i, l) ==
    \/ l = 2 /\ i + 2 <= Len(B) /\ B[i + 1] = LF /\ B[i + 2] = LF
    \/ l = 4 /\ i + 4 <= Len(B) /\ B[i + 1] = CR /\ B[i + 2] = LF /\ B[i + 3] = CR /\ B[i + 4] = LF

LEMMA BoundaryFacts ==
    /\ Boundaries = {<<LF, LF>>, <<CR, LF, CR, LF>>}
    /\ Len(<<LF, LF>>) = 2 /\ Len(<<CR, LF, CR, LF>>) = 4
BY DEF Boundaries

LEMMA SubSeqFacts ==
    ASSUME NEW S, NEW B \in Seq(S), NEW a \in Nat, NEW z \in Nat, a <= z, z <= Len(B)
    PROVE  /\ SubSeq(B, a + 1, z) \in Seq(S) /\ Len(SubSeq(B, a + 1, z)) = z - a
           /\ \A k \in 1..z - a : SubSeq(B, a + 1, z)[k] = B[a + k]
OBVIOUS

LEMMA FromFacts ==
    ASSUME NEW S, NEW B \in Seq(S), NEW a \in Nat, a <= Len(B)
    PROVE  /\ From(B, a) \in Seq(S) /\ Len(From(B, a)) = Len(B) - a
           /\ \A k \in 1..Len(B) - a : From(B, a)[k] = B[a + k]
BY SubSeqFacts DEF From

LEMMA SameSeq ==
    ASSUME NEW S, NEW s \in Seq(S), NEW t \in Seq(S), Len(s) = Len(t),
           \A k \in 1..Len(s) : s[k] = t[k]
    PROVE  s = t
OBVIOUS

LEMMA AtIs ==
    ASSUME NEW B \in Seq(Nat), NEW i \in Nat, NEW b \in Seq(Nat), i + Len(b) <= Len(B)
    PROVE  At(B, i, b) <=> \A k \in 1..Len(b) : B[i + k] = b[k]
<1>1. PICK z, s : z = i + Len(b) /\ s = SubSeq(B, i + 1, z)
  OBVIOUS
<1>2. z \in Nat /\ i <= z /\ z <= Len(B) /\ z - i = Len(b)
  BY <1>1
<1>3. s \in Seq(Nat) /\ Len(s) = Len(b) /\ \A k \in 1..Len(b) : s[k] = B[i + k]
  BY <1>1, <1>2, SubSeqFacts
<1>4. s = b <=> \A k \in 1..Len(b) : s[k] = b[k]
  BY <1>3, SameSeq
<1>5. At(B, i, b) <=> s = b
  BY <1>1 DEF At
<1> QED BY <1>3, <1>4, <1>5

LEMMA SepIs ==
    ASSUME NEW B \in Seq(Nat), NEW i \in Nat, NEW b \in Boundaries
    PROVE  i + Len(b) <= Len(B) /\ At(B, i, b) <=> Sep(B, i, Len(b))
<1>1. CASE b = <<LF, LF>>
  <2>1. b \in Seq(Nat) /\ Len(b) = 2 /\ b[1] = LF /\ b[2] = LF
    BY <1>1 DEF LF
  <2>2. (\A k \in 1..2 : B[i + k] = b[k]) <=> B[i + 1] = LF /\ B[i + 2] = LF
    <3>1. \A k \in 1..2 : k = 1 \/ k = 2
      OBVIOUS
    <3> QED BY <2>1, <3>1
  <2>3. ASSUME i + 2 <= Len(B) PROVE At(B, i, b) <=> B[i + 1] = LF /\ B[i + 2] = LF
    <3>1. i + Len(b) <= Len(B) /\ b \in Seq(Nat)
      BY <2>1, <2>3
    <3>2. At(B, i, b) <=> \A k \in 1..Len(b) : B[i + k] = b[k]
      BY <3>1, AtIs
    <3> QED BY <2>1, <2>2, <3>2
  <2> QED BY <2>1, <2>3 DEF Sep
<1>2. CASE b = <<CR, LF, CR, LF>>
  <2>1. b \in Seq(Nat) /\ Len(b) = 4 /\ b[1] = CR /\ b[2] = LF /\ b[3] = CR /\ b[4] = LF
    BY <1>2 DEF LF, CR
  <2>2. (\A k \in 1..4 : B[i + k] = b[k]) <=>
          B[i + 1] = CR /\ B[i + 2] = LF /\ B[i + 3] = CR /\ B[i + 4] = LF
    <3>1. \A k \in 1..4 : k = 1 \/ k = 2 \/ k = 3 \/ k = 4
      OBVIOUS
    <3> QED BY <2>1, <3>1
  <2>3. ASSUME i + 4 <= Len(B)
        PROVE  At(B, i, b) <=> B[i + 1] = CR /\ B[i + 2] = LF /\ B[i + 3] = CR /\ B[i + 4] = LF
    <3>1. i + Len(b) <= Len(B) /\ b \in Seq(Nat)
      BY <2>1, <2>3
    <3>2. At(B, i, b) <=> \A k \in 1..Len(b) : B[i + k] = b[k]
      BY <3>1, AtIs
    <3> QED BY <2>1, <2>2, <3>2
  <2> QED BY <2>1, <2>3 DEF Sep
<1> QED BY <1>1, <1>2 DEF Boundaries

\* No two boundaries begin at one place or end at one, and one that begins
\* first ends first.
LEMMA SepsInOrder ==
    ASSUME NEW B \in Seq(Nat), NEW i \in Nat, NEW j \in Nat, NEW l \in {2, 4}, NEW m \in {2, 4},
           Sep(B, i, l), Sep(B, j, m)
    PROVE  /\ i = j => l = m
           /\ i < j => i + l < j + m
           /\ i + l = j + m => i = j /\ l = m
           /\ i + l <= Len(B)
<1>1. i + l <= Len(B)
  BY DEF Sep
<1>2. i = j => l = m
  BY DEF Sep, LF, CR
<1>3. \A x, y \in Nat, p, q \in {2, 4} : Sep(B, x, p) /\ Sep(B, y, q) /\ x < y => x + p < y + q
  <2> SUFFICES ASSUME NEW x \in Nat, NEW y \in Nat, NEW p \in {2, 4}, NEW q \in {2, 4},
                      Sep(B, x, p), Sep(B, y, q), x < y
               PROVE  x + p < y + q
    OBVIOUS
  <2>2. CASE p = 4 /\ q = 2 /\ y = x + 1
    <3>1. B[x + 3] = CR
      BY <2>2 DEF Sep
    <3>2. y + 2 = x + 3 /\ B[y + 2] = LF
      BY <2>2 DEF Sep
    <3> QED BY <3>1, <3>2 DEF LF, CR
  <2>3. CASE p = 4 /\ q = 2 /\ y = x + 2
    <3>1. B[x + 3] = CR
      BY <2>3 DEF Sep
    <3>2. y + 1 = x + 3 /\ B[y + 1] = LF
      BY <2>3 DEF Sep
    <3> QED BY <3>1, <3>2 DEF LF, CR
  <2> QED BY <2>2, <2>3
<1>4. i < j => i + l < j + m
  BY <1>3
<1>5. j < i => j + m < i + l
  BY <1>3
<1> QED BY <1>1, <1>2, <1>4, <1>5

LEMMA SepShift ==
    ASSUME NEW B \in Seq(Nat), NEW a \in Nat, a <= Len(B), NEW i \in Nat, NEW l \in {2, 4}
    PROVE  Sep(From(B, a), i, l) <=> Sep(B, a + i, l)
<1>1. PICK d, e : d = From(B, a) /\ e = a + i
  OBVIOUS
<1>0. e \in Nat
  BY <1>1
<1>2. d \in Seq(Nat) /\ Len(d) = Len(B) - a /\ \A k \in 1..Len(B) - a : d[k] = B[a + k]
  BY <1>1, FromFacts
<1>3. ASSUME NEW k \in 1..4, i + k <= Len(d) PROVE d[i + k] = B[e + k]
  <2>1. i + k \in 1..Len(B) - a /\ a + (i + k) = e + k
    BY <1>1, <1>2, <1>3
  <2> QED BY <1>2, <2>1
<1>4. \A k \in {2, 4} : i + k <= Len(d) <=> e + k <= Len(B)
  BY <1>0, <1>1, <1>2
<1>5. i + 2 <= Len(d) => d[i + 1] = B[e + 1] /\ d[i + 2] = B[e + 2]
  BY <1>2, <1>3
<1>6. i + 4 <= Len(d) => /\ d[i + 1] = B[e + 1] /\ d[i + 2] = B[e + 2]
                         /\ d[i + 3] = B[e + 3] /\ d[i + 4] = B[e + 4]
  <2> SUFFICES ASSUME i + 4 <= Len(d) PROVE \A k \in 1..4 : d[i + k] = B[e + k]
    OBVIOUS
  <2>0. Len(d) \in Int
    BY <1>2
  <2>1. \A k \in 1..4 : i + k <= Len(d)
    BY <2>0
  <2> QED BY <1>3, <2>1
<1>7. Sep(d, i, l) <=> Sep(B, e, l)
  BY <1>4, <1>5, <1>6 DEF Sep
<1> QED BY <1>1, <1>7

LEMMA LeastOne ==
    ASSUME NEW S \in SUBSET Nat, S # {}
    PROVE  \E x \in S : \A y \in S : x <= y
<1>1. IsWellFoundedOn(OpToRel(<, Nat), Nat)
  BY NatLessThanWellFounded
<1>2. PICK x \in S : \A y \in S : ~(<<y, x>> \in OpToRel(<, Nat))
  BY <1>1, WFMin
<1>3. \A y \in S : ~(y < x)
  BY <1>2 DEF OpToRel
<1> QED BY <1>3

\* What a search for the first boundary of data finds.
Finds(b, data) ==
    /\ b.found \in BOOLEAN
    /\ b.found => /\ b.idx \in Nat /\ Sep(data, b.idx, b.sepLen)
                  /\ \A i \in Nat, l \in {2, 4} : Sep(data, i, l) => b.idx <= i
    /\ ~b.found => \A i \in Nat, l \in {2, 4} : ~Sep(data, i, l)

LEMMA FirstFinds ==
    ASSUME NEW data \in Seq(Nat), NEW hits,
           \A h \in hits : \E i \in Nat, l \in {2, 4} : /\ Sep(data, i, l)
                                                       /\ h = [found |-> TRUE, idx |-> i, sepLen |-> l],
           \A i \in Nat, l \in {2, 4} :
               Sep(data, i, l) => [found |-> TRUE, idx |-> i, sepLen |-> l] \in hits
    PROVE  Finds(First(hits), data)
<1>1. CASE hits = {}
  BY <1>1 DEF First, NoBoundary, Finds
<1>2. CASE hits # {}
  <2> DEFINE S == {h.idx : h \in hits}
  <2>1. S \in SUBSET Nat /\ S # {}
    BY <1>2
  <2>2. PICK x \in S : \A y \in S : x <= y
    BY <2>1, LeastOne
  <2>3. \E h \in hits : \A g \in hits : h.idx <= g.idx
    BY <2>2
  <2>4. PICK b : b = First(hits)
    OBVIOUS
  <2>5. b \in hits /\ \A g \in hits : b.idx <= g.idx
    BY <1>2, <2>3, <2>4 DEF First
  <2>6. PICK i \in Nat, l \in {2, 4} : Sep(data, i, l) /\ b = [found |-> TRUE, idx |-> i, sepLen |-> l]
    BY <2>5
  <2>7. b.found = TRUE /\ b.idx = i /\ b.sepLen = l
    BY <2>6
  <2>8. \A j \in Nat, m \in {2, 4} : Sep(data, j, m) => b.idx <= j
    <3> SUFFICES ASSUME NEW j \in Nat, NEW m \in {2, 4}, Sep(data, j, m) PROVE b.idx <= j
      OBVIOUS
    <3>1. PICK g : g = [found |-> TRUE, idx |-> j, sepLen |-> m]
      OBVIOUS
    <3>2. g \in hits /\ g.idx = j
      BY <3>1
    <3> QED BY <2>5, <3>2
  <2> QED BY <2>4, <2>6, <2>7, <2>8 DEF Finds
<1> QED BY <1>1, <1>2

LEMMA NextBoundary ==
    ASSUME NEW data \in Seq(Nat)
    PROVE  Finds(nextEventBoundary(data), data)
<1> DEFINE places == 0..Len(data)
           hits == {[found |-> TRUE, idx |-> hit[1], sepLen |-> Len(hit[2])] :
                      hit \in {h \in places \X Boundaries :
                                 h[1] + Len(h[2]) <= Len(data) /\ At(data, h[1], h[2])}}
<1>1. nextEventBoundary(data) = First(hits)
  BY DEF nextEventBoundary, FirstAt
<1>2. ASSUME NEW h \in hits
      PROVE  \E i \in Nat, l \in {2, 4} : Sep(data, i, l) /\ h = [found |-> TRUE, idx |-> i, sepLen |-> l]
  <2>1. PICK i \in places, b \in Boundaries : /\ i + Len(b) <= Len(data) /\ At(data, i, b)
                                              /\ h = [found |-> TRUE, idx |-> i, sepLen |-> Len(b)]
    BY <1>2
  <2>2. Len(b) \in {2, 4} /\ i \in Nat
    BY BoundaryFacts
  <2> QED BY <2>1, <2>2, SepIs
<1>3. ASSUME NEW i \in Nat, NEW l \in {2, 4}, Sep(data, i, l)
      PROVE  [found |-> TRUE, idx |-> i, sepLen |-> l] \in hits
  <2>1. PICK b \in Boundaries : Len(b) = l
    BY BoundaryFacts
  <2>2. i \in places
    BY <1>3 DEF Sep
  <2>3. i + Len(b) <= Len(data) /\ At(data, i, b)
    BY <1>3, <2>1, SepIs
  <2>4. PICK hit : hit = <<i, b>>
    OBVIOUS
  <2>5. hit \in places \X Boundaries /\ hit[1] = i /\ hit[2] = b
    BY <2>2, <2>4
  <2> HIDE DEF places
  <2>6. hit \in {h \in places \X Boundaries : h[1] + Len(h[2]) <= Len(data) /\ At(data, h[1], h[2])}
    BY <2>3, <2>5
  <2> QED BY <2>1, <2>5, <2>6
<1> HIDE DEF hits
<1> QED BY <1>1, <1>2, <1>3, FirstFinds

\* Across the join it finds the first boundary of the joined bytes, if there
\* is none within the prefix.
LEMMA NextJoinedBoundary ==
    ASSUME NEW prefix \in Seq(Nat), NEW data \in Seq(Nat), NEW joined, joined = prefix \o data,
           \A i \in Nat, l \in {2, 4} : Sep(joined, i, l) => i + l > Len(prefix)
    PROVE  Finds(nextJoinedEventBoundary(prefix, data), joined)
<1> DEFINE start == IF Len(prefix) > maxBoundaryTailBytes THEN Len(prefix) - maxBoundaryTailBytes ELSE 0
           across == {h \in (start..Len(prefix)) \X Boundaries : h[1] + Len(h[2]) > Len(prefix)}
           places == across \cup ((Len(prefix)..Len(joined)) \X Boundaries)
           hits == {[found |-> TRUE, idx |-> h[1], sepLen |-> Len(h[2])] :
                      h \in {h \in places : h[1] + Len(h[2]) <= Len(joined) /\ At(joined, h[1], h[2])}}
<1>0. joined \in Seq(Nat) /\ Len(joined) = Len(prefix) + Len(data) /\ Len(prefix) \in Nat
  OBVIOUS
<1>1. nextJoinedEventBoundary(prefix, data) = First(hits)
  BY DEF nextJoinedEventBoundary
<1>2. ASSUME NEW h \in hits
      PROVE  \E i \in Nat, l \in {2, 4} : Sep(joined, i, l) /\ h = [found |-> TRUE, idx |-> i, sepLen |-> l]
  <2>1. PICK g \in places : /\ g[1] + Len(g[2]) <= Len(joined) /\ At(joined, g[1], g[2])
                            /\ h = [found |-> TRUE, idx |-> g[1], sepLen |-> Len(g[2])]
    BY <1>2
  <2>2. g[1] \in Nat /\ g[2] \in Boundaries
    BY <1>0 DEF maxBoundaryTailBytes
  <2>3. Len(g[2]) \in {2, 4}
    BY <2>2, BoundaryFacts
  <2> QED BY <1>0, <2>1, <2>2, <2>3, SepIs
<1>3. ASSUME NEW i \in Nat, NEW l \in {2, 4}, Sep(joined, i, l)
      PROVE  [found |-> TRUE, idx |-> i, sepLen |-> l] \in hits
  <2>1. PICK b \in Boundaries : Len(b) = l
    BY BoundaryFacts
  <2>2. i + Len(b) <= Len(joined) /\ At(joined, i, b)
    BY <1>0, <1>3, <2>1, SepIs
  <2>3. PICK hit : hit = <<i, b>>
    OBVIOUS
  <2>4. i + l > Len(prefix)
    BY <1>3
  <2>5. hit \in places
    <3>1. CASE i <= Len(prefix)
      BY <1>0, <2>1, <2>3, <2>4, <3>1 DEF maxBoundaryTailBytes
    <3>2. CASE i > Len(prefix)
      BY <1>0, <2>1, <2>2, <2>3, <3>2
    <3> QED BY <1>0, <3>1, <3>2
  <2>6. hit[1] = i /\ hit[2] = b
    BY <2>3
  <2> HIDE DEF places
  <2>7. hit \in {h \in places : h[1] + Len(h[2]) <= Len(joined) /\ At(joined, h[1], h[2])}
    BY <2>2, <2>5, <2>6
  <2> QED BY <2>1, <2>6, <2>7
<1>4. PICK H : H = hits
  OBVIOUS
<1>5. \A h \in H : \E i \in Nat, l \in {2, 4} : Sep(joined, i, l) /\ h = [found |-> TRUE, idx |-> i, sepLen |-> l]
  BY <1>2, <1>4
<1>6. \A i \in Nat, l \in {2, 4} : Sep(joined, i, l) => [found |-> TRUE, idx |-> i, sepLen |-> l] \in H
  BY <1>3, <1>4
<1>7. Finds(First(H), joined)
  <2> HIDE DEF hits
  <2> QED BY <1>0, <1>5, <1>6, FirstFinds
<1> QED BY <1>1, <1>4, <1>7

-----------------------------------------------------------------------------
(* Where the events begin *)

LEMMA BeginsStep ==
    ASSUME NEW B \in Seq(Nat)
    PROVE  /\ Begins(B)[0] = 0
           /\ \A n \in 1..Len(B) :
                Begins(B)[n] = IF \E b \in Boundaries : EndsAt(B, Begins(B)[n - 1], n, b)
                               THEN n ELSE Begins(B)[n - 1]
<1> DEFINE N == Len(B)
           Step(g, n) == IF n = 0 THEN 0
                         ELSE IF \E b \in Boundaries : EndsAt(B, g[n - 1], n, b) THEN n
                         ELSE g[n - 1]
           S == {k \in Nat : \E g : g = [n \in 0..k |-> Step(g, n)]}
<1>0. N \in Nat
  OBVIOUS
<1>1. 0 \in S
  <2> DEFINE g == [n \in 0..0 |-> 0]
  <2>1. g = [n \in 0..0 |-> Step(g, n)]
    OBVIOUS
  <2> QED BY <2>1
<1>2. ASSUME NEW k \in Nat, k \in S PROVE k + 1 \in S
  <2>1. PICK g : g = [n \in 0..k |-> Step(g, n)]
    BY <1>2
  <2> DEFINE h == [n \in 0..(k + 1) |-> IF n <= k THEN g[n] ELSE Step(g, n)]
  <2>2. \A n \in 0..k : h[n] = g[n] /\ g[n] = Step(g, n)
    <3> HIDE DEF Step
    <3>1. \A n \in 0..k : g[n] = Step(g, n)
      BY <2>1
    <3>2. \A n \in 0..k : h[n] = g[n]
      OBVIOUS
    <3> QED BY <3>1, <3>2
  <2>3. h[k + 1] = Step(g, k + 1)
    <3> HIDE DEF Step
    <3> QED OBVIOUS
  <2>4. ASSUME NEW n \in 0..(k + 1) PROVE h[n] = Step(h, n)
    <3> HIDE DEF h
    <3>1. CASE n = 0
      BY <2>2, <3>1
    <3>2. CASE n # 0
      <4>1. n - 1 \in 0..k /\ h[n - 1] = g[n - 1]
        BY <2>2, <3>2
      <4>2. Step(h, n) = Step(g, n)
        BY <4>1
      <4>3. h[n] = Step(g, n)
        <5> HIDE DEF Step
        <5>1. n \in 0..k \/ n = k + 1
          OBVIOUS
        <5> QED BY <2>2, <2>3, <5>1
      <4> QED BY <4>2, <4>3
    <3> QED BY <3>1, <3>2
  <2>5. h = [n \in 0..(k + 1) |-> Step(h, n)]
    <3>1. h = [n \in 0..(k + 1) |-> h[n]]
      <4> HIDE DEF Step
      <4> QED OBVIOUS
    <3> HIDE DEF h, Step
    <3> QED BY <2>4, <3>1
  <2> HIDE DEF h, Step
  <2> QED BY <2>5
<1>3. \E g : g = [n \in 0..N |-> Step(g, n)]
  <2>1. \A k \in Nat : k \in S
    <3> HIDE DEF S
    <3> QED BY <1>1, <1>2, AllNumbers
  <2> HIDE DEF Step
  <2> QED BY <1>0, <2>1
<1>4. Begins(B) = CHOOSE g : g = [n \in 0..N |-> Step(g, n)]
  BY DEF Begins
<1>5. Begins(B) = [n \in 0..N |-> Step(Begins(B), n)]
  <2> HIDE DEF Step
  <2> QED BY <1>3, <1>4
<1>6. \A n \in 0..N : Begins(B)[n] = Step(Begins(B), n)
  <2> HIDE DEF Step
  <2> QED BY <1>5
<1> QED BY <1>0, <1>6

\* An event under way never reaches back, and has no boundary within.
LEMMA BeginsFacts ==
    ASSUME NEW B \in Seq(Nat)
    PROVE  /\ Begins(B)[0] = 0
           /\ \A n \in 0..Len(B) : Begins(B)[n] \in 0..n
           /\ \A n \in 1..Len(B) :
                Begins(B)[n] = IF \E l \in {2, 4} : Begins(B)[n - 1] + l <= n /\ Sep(B, n - l, l)
                               THEN n ELSE Begins(B)[n - 1]
<1> DEFINE g == Begins(B)
<1>1. g[0] = 0
  BY BeginsStep
<1>2. \A n \in 1..Len(B) : g[n] = IF \E b \in Boundaries : EndsAt(B, g[n - 1], n, b) THEN n ELSE g[n - 1]
  BY BeginsStep
<1> HIDE DEF g
<1> DEFINE S == {n \in Nat : n \in 0..Len(B) => g[n] \in 0..n}
<1>3. \A n \in Nat : n \in S
  <2>1. 0 \in S
    BY <1>1
  <2>2. ASSUME NEW n \in Nat, n \in S PROVE n + 1 \in S
    <3>1. CASE n + 1 \in 1..Len(B)
      <4>1. n \in 0..Len(B) /\ (n + 1) - 1 = n
        BY <3>1
      <4>2. g[n + 1] = n + 1 \/ g[n + 1] = g[n]
        BY <1>2, <3>1, <4>1
      <4>3. g[n] \in 0..n
        BY <2>2, <4>1
      <4> QED BY <4>2, <4>3
    <3>2. CASE n + 1 \notin 1..Len(B)
      BY <3>2
    <3> QED BY <3>1, <3>2
  <2> HIDE DEF S
  <2> QED BY <2>1, <2>2, AllNumbers
<1>4. \A n \in 0..Len(B) : g[n] \in 0..n
  BY <1>3
<1>5. ASSUME NEW n \in 1..Len(B)
      PROVE  (\E b \in Boundaries : EndsAt(B, g[n - 1], n, b))
               <=> \E l \in {2, 4} : g[n - 1] + l <= n /\ Sep(B, n - l, l)
  <2>1. n - 1 \in 0..Len(B) /\ g[n - 1] \in Nat
    BY <1>4
  <2>2. ASSUME NEW b \in Boundaries
        PROVE  EndsAt(B, g[n - 1], n, b) <=> g[n - 1] + Len(b) <= n /\ Sep(B, n - Len(b), Len(b))
    <3>1. Len(b) \in {2, 4}
      BY BoundaryFacts
    <3>2. CASE g[n - 1] + Len(b) <= n
      <4>1. PICK i : i = n - Len(b)
        OBVIOUS
      <4>2. i \in Nat /\ i + Len(b) <= Len(B)
        BY <2>1, <3>1, <3>2, <4>1
      <4>3. At(B, i, b) <=> Sep(B, i, Len(b))
        BY <4>2, SepIs
      <4> QED BY <3>2, <4>1, <4>3 DEF EndsAt
    <3>3. CASE ~(g[n - 1] + Len(b) <= n)
      BY <3>3 DEF EndsAt
    <3> QED BY <3>2, <3>3
  <2>3. \A b \in Boundaries : Len(b) \in {2, 4}
    BY BoundaryFacts
  <2>4. \A l \in {2, 4} : \E b \in Boundaries : Len(b) = l
    BY BoundaryFacts
  <2> QED BY <2>2, <2>3, <2>4
<1>6. \A n \in 1..Len(B) : g[n] = IF \E l \in {2, 4} : g[n - 1] + l <= n /\ Sep(B, n - l, l)
                                 THEN n ELSE g[n - 1]
  BY <1>2, <1>5
<1> QED BY <1>1, <1>4, <1>6 DEF g

LEMMA BeginsInOrder ==
    ASSUME NEW B \in Seq(Nat), NEW m \in 0..Len(B), NEW n \in 0..Len(B), m <= n
    PROVE  Begins(B)[m] <= Begins(B)[n]
<1> DEFINE g == Begins(B)
           S == {k \in Nat : m + k \in 0..Len(B) => g[m] <= g[m + k]}
<1>1. \A k \in 0..Len(B) : g[k] \in 0..k
  BY BeginsFacts
<1>2. \A k \in 1..Len(B) : g[k] = k \/ g[k] = g[k - 1]
  BY BeginsFacts
<1> HIDE DEF g
<1>3. 0 \in S
  BY <1>1
<1>4. ASSUME NEW k \in Nat, k \in S PROVE k + 1 \in S
  <2>1. CASE m + (k + 1) \in 0..Len(B)
    <3>1. PICK j : j = m + (k + 1)
      OBVIOUS
    <3>2. j \in 1..Len(B) /\ j - 1 = m + k /\ m + k \in 0..Len(B) /\ m + k < j /\ m < j /\ j \in 0..Len(B)
      BY <2>1, <3>1
    <3>3. g[m] <= g[m + k]
      BY <1>4, <3>2
    <3>4. g[j] = j \/ g[j] = g[m + k]
      BY <1>2, <3>2
    <3>5. g[m] \in 0..m
      BY <1>1
    <3>6. g[m] <= g[j]
      BY <3>2, <3>3, <3>4, <3>5
    <3> QED BY <3>1, <3>6
  <2>2. CASE m + (k + 1) \notin 0..Len(B)
    BY <2>2
  <2> QED BY <2>1, <2>2
<1>5. \A k \in Nat : k \in S
  <2> HIDE DEF S
  <2> QED BY <1>3, <1>4, AllNumbers
<1>6. n - m \in Nat /\ m + (n - m) = n
  OBVIOUS
<1> QED BY <1>5, <1>6 DEF g

LEMMA NoneWithin ==
    ASSUME NEW B \in Seq(Nat), NEW n \in 0..Len(B), NEW i \in Nat, NEW l \in {2, 4},
           Begins(B)[n] <= i, i + l <= n
    PROVE  ~Sep(B, i, l)
<1> DEFINE g == Begins(B)
<1>1. SUFFICES ASSUME Sep(B, i, l) PROVE FALSE
  OBVIOUS
<1>2. PICK e : e = i + l
  OBVIOUS
<1>3. e \in 1..Len(B) /\ e \in 0..Len(B) /\ e - 1 \in 0..Len(B) /\ e - 1 <= e /\ e <= n /\ e - l = i
  BY <1>2
<1>4. g[e - 1] <= g[e] /\ g[e] <= g[n]
  BY <1>3, BeginsInOrder
<1>5. g[e - 1] \in Nat /\ g[e] \in Nat /\ g[n] \in Nat
  BY <1>3, BeginsFacts
<1>6. g[e] = IF \E m \in {2, 4} : g[e - 1] + m <= e /\ Sep(B, e - m, m) THEN e ELSE g[e - 1]
  BY <1>3, BeginsFacts
<1> HIDE DEF g
<1>7. g[n] <= i
  BY DEF g
<1>8. g[e - 1] + l <= e
  <2>1. PICK x, y, z : x = g[e - 1] /\ y = g[e] /\ z = g[n]
    OBVIOUS
  <2>2. x \in Nat /\ y \in Nat /\ z \in Nat /\ x <= y /\ y <= z /\ z <= i
    BY <1>4, <1>5, <1>7, <2>1
  <2>3. x + l <= i + l
    BY <2>2
  <2> QED BY <1>2, <2>1, <2>3
<1>9. g[e] = e
  BY <1>1, <1>3, <1>6, <1>8
<1> QED BY <1>2, <1>4, <1>5, <1>7, <1>9

\* Without a boundary the event goes on.
LEMMA EventGoesOn ==
    ASSUME NEW B \in Seq(Nat), NEW q \in 0..Len(B), NEW e \in 0..Len(B), q <= e,
           \A i \in Nat, l \in {2, 4} : Begins(B)[q] <= i /\ i + l <= e => ~Sep(B, i, l)
    PROVE  Begins(B)[e] = Begins(B)[q]
<1> DEFINE g == Begins(B)
           S == {k \in Nat : q + k <= e => g[q + k] = g[q]}
<1>1. \A k \in 0..Len(B) : g[k] \in 0..k
  BY BeginsFacts
<1>2. \A k \in 1..Len(B) : g[k] = IF \E l \in {2, 4} : g[k - 1] + l <= k /\ Sep(B, k - l, l) THEN k
                                 ELSE g[k - 1]
  BY BeginsFacts
<1>3. \A i \in Nat, l \in {2, 4} : g[q] <= i /\ i + l <= e => ~Sep(B, i, l)
  OBVIOUS
<1> HIDE DEF g
<1>4. 0 \in S
  OBVIOUS
<1>5. ASSUME NEW k \in Nat, k \in S PROVE k + 1 \in S
  <2>1. CASE q + (k + 1) <= e
    <3>1. PICK j : j = q + (k + 1)
      OBVIOUS
    <3>2. j \in 1..Len(B) /\ j - 1 = q + k /\ q + k <= e /\ j <= e
      BY <2>1, <3>1
    <3>3. g[j - 1] = g[q]
      BY <1>5, <3>2
    <3>4. \A l \in {2, 4} : g[q] + l <= j => ~Sep(B, j - l, l)
      <4> SUFFICES ASSUME NEW l \in {2, 4}, g[q] + l <= j PROVE ~Sep(B, j - l, l)
        OBVIOUS
      <4>1. g[q] \in Nat
        BY <1>1
      <4>2. j - l \in Nat /\ g[q] <= j - l /\ (j - l) + l <= e
        BY <3>2, <4>1
      <4> QED BY <1>3, <4>2
    <3>5. g[j] = g[q]
      BY <1>2, <3>2, <3>3, <3>4
    <3> QED BY <3>1, <3>5
  <2>2. CASE ~(q + (k + 1) <= e)
    BY <2>2
  <2> QED BY <2>1, <2>2
<1>6. \A k \in Nat : k \in S
  <2> HIDE DEF S
  <2> QED BY <1>4, <1>5, AllNumbers
<1>7. e - q \in Nat /\ q + (e - q) = e
  OBVIOUS
<1> QED BY <1>6, <1>7 DEF g

\* The first boundary behind its beginning ends it.
LEMMA EventEnds ==
    ASSUME NEW B \in Seq(Nat), NEW q \in 0..Len(B), NEW i \in Nat, NEW l \in {2, 4},
           Sep(B, i, l), Begins(B)[q] <= i, q < i + l,
           \A j \in Nat, m \in {2, 4} : Begins(B)[q] <= j /\ Sep(B, j, m) => i <= j
    PROVE  /\ i + l \in 1..Len(B)
           /\ Begins(B)[i + l - 1] = Begins(B)[q] /\ Begins(B)[i + l] = i + l
           /\ \A n \in q..(i + l - 1) : Begins(B)[n] = Begins(B)[q]
<1>1. PICK e : e = i + l
  OBVIOUS
<1>2. e \in 1..Len(B) /\ e \in 0..Len(B) /\ e - 1 \in 0..Len(B) /\ e - l = i /\ q <= e - 1
  <2>1. i + l <= Len(B)
    BY DEF Sep
  <2> QED BY <1>1, <2>1
<1>3. ASSUME NEW n \in q..(e - 1) PROVE Begins(B)[n] = Begins(B)[q]
  <2>1. n \in 0..Len(B) /\ q <= n
    BY <1>2, <1>3
  <2>2. ASSUME NEW j \in Nat, NEW m \in {2, 4}, Begins(B)[q] <= j, j + m <= n PROVE ~Sep(B, j, m)
    <3>1. SUFFICES ASSUME Sep(B, j, m) PROVE FALSE
      OBVIOUS
    <3>2. i <= j
      BY <2>2, <3>1
    <3>3. i = j \/ i < j
      BY <3>2
    <3>4. (i = j => l = m) /\ (i < j => i + l < j + m)
      BY <3>1, SepsInOrder
    <3> QED BY <1>1, <1>2, <2>1, <2>2, <3>3, <3>4
  <2> QED BY <2>1, <2>2, EventGoesOn
<1>4. Begins(B)[e - 1] = Begins(B)[q]
  BY <1>2, <1>3
<1>5. Begins(B)[q] + l <= e
  <2>1. Begins(B)[q] \in Nat
    BY BeginsFacts
  <2> QED BY <1>1, <2>1
<1>6. Begins(B)[e] = e
  <2>1. Begins(B)[e] = IF \E m \in {2, 4} : Begins(B)[e - 1] + m <= e /\ Sep(B, e - m, m)
                       THEN e ELSE Begins(B)[e - 1]
    BY <1>2, BeginsFacts
  <2> QED BY <1>2, <1>4, <1>5, <2>1
<1>7. i + l - 1 = e - 1
  BY <1>1
<1> QED BY <1>1, <1>2, <1>3, <1>4, <1>6, <1>7

LEMMA NextBegins ==
    ASSUME NEW B \in Seq(Nat), NEW q \in 0..Len(B), NEW i \in Nat, NEW l \in {2, 4},
           Sep(B, i, l), Begins(B)[q] <= i, q < i + l,
           \A j \in Nat, m \in {2, 4} : Begins(B)[q] <= j /\ Sep(B, j, m) => i <= j
    PROVE  i + l \in 1..Len(B) /\ Begins(B)[i + l] = i + l
BY EventEnds

-----------------------------------------------------------------------------
(* The places of the events *)

LEMMA PlacesAre ==
    ASSUME NEW B \in Seq(Nat), NEW n \in 0..Len(B)
    PROVE  \A x : x \in EndedPlaces(B, n) <=>
             \E m \in 1..n, l \in {2, 4} : /\ Begins(B)[m - 1] + l <= m /\ Sep(B, m - l, l)
                                           /\ x = <<Begins(B)[m - 1], m - l>>
<1> DEFINE g == Begins(B)
           D == {d \in (1..n) \X Boundaries : EndsAt(B, g[d[1] - 1], d[1], d[2])}
<1>1. EndedPlaces(B, n) = {<<g[c[1] - 1], c[1] - Len(c[2])>> : c \in D}
  BY DEF EndedPlaces
<1>2. \A k \in 0..Len(B) : g[k] \in 0..k
  BY BeginsFacts
<1> HIDE DEF g
<1>3. ASSUME NEW m \in 1..n, NEW b \in Boundaries
      PROVE  EndsAt(B, g[m - 1], m, b) <=> g[m - 1] + Len(b) <= m /\ Sep(B, m - Len(b), Len(b))
  <2>1. m - 1 \in 0..Len(B) /\ g[m - 1] \in Nat /\ Len(b) \in {2, 4}
    BY <1>2, BoundaryFacts
  <2>2. CASE g[m - 1] + Len(b) <= m
    <3>1. PICK i : i = m - Len(b)
      OBVIOUS
    <3>2. i \in Nat /\ i + Len(b) <= Len(B)
      BY <2>1, <2>2, <3>1
    <3>3. At(B, i, b) <=> Sep(B, i, Len(b))
      BY <3>2, SepIs
    <3> QED BY <2>2, <3>1, <3>3 DEF EndsAt
  <2>3. CASE ~(g[m - 1] + Len(b) <= m)
    BY <2>3 DEF EndsAt
  <2> QED BY <2>2, <2>3
<1>4. ASSUME NEW x \in EndedPlaces(B, n)
      PROVE  \E m \in 1..n, l \in {2, 4} : /\ g[m - 1] + l <= m /\ Sep(B, m - l, l)
                                           /\ x = <<g[m - 1], m - l>>
  <2>1. PICK m \in 1..n, b \in Boundaries : /\ EndsAt(B, g[m - 1], m, b)
                                            /\ x = <<g[m - 1], m - Len(b)>>
    BY <1>1
  <2>2. Len(b) \in {2, 4}
    BY BoundaryFacts
  <2> QED BY <1>3, <2>1, <2>2
<1>5. ASSUME NEW m \in 1..n, NEW l \in {2, 4}, g[m - 1] + l <= m, Sep(B, m - l, l)
      PROVE  <<g[m - 1], m - l>> \in EndedPlaces(B, n)
  <2>1. PICK b \in Boundaries : Len(b) = l
    BY BoundaryFacts
  <2>2. EndsAt(B, g[m - 1], m, b)
    BY <1>3, <1>5, <2>1
  <2>3. PICK c : c = <<m, b>>
    OBVIOUS
  <2>4. c \in D /\ c[1] = m /\ c[2] = b
    BY <2>2, <2>3
  <2> HIDE DEF D
  <2> QED BY <1>1, <2>1, <2>4
<1>6. \A x : x \in EndedPlaces(B, n) <=>
        \E m \in 1..n, l \in {2, 4} : /\ g[m - 1] + l <= m /\ Sep(B, m - l, l)
                                      /\ x = <<g[m - 1], m - l>>
  BY <1>4, <1>5
<1> QED BY <1>6 DEF g

\* They end before the event under way begins.
LEMMA PlacesBefore ==
    ASSUME NEW B \in Seq(Nat), NEW n \in 0..Len(B), NEW x \in EndedPlaces(B, n)
    PROVE  /\ x[1] \in Nat /\ x[2] \in Nat /\ x[1] <= x[2]
           /\ x[2] < Begins(B)[n] /\ x[2] <= n
<1>1. PICK m \in 1..n, l \in {2, 4} : /\ Begins(B)[m - 1] + l <= m /\ Sep(B, m - l, l)
                                      /\ x = <<Begins(B)[m - 1], m - l>>
  BY PlacesAre
<1>2. m \in 1..Len(B) /\ m \in 0..Len(B) /\ m - 1 \in 0..Len(B) /\ m <= n
  OBVIOUS
<1>3. Begins(B)[m] = m
  BY <1>1, <1>2, BeginsFacts
<1>4. Begins(B)[m] <= Begins(B)[n]
  BY <1>2, BeginsInOrder
<1>5. Begins(B)[m - 1] \in Nat /\ Begins(B)[n] \in 0..n
  BY <1>2, BeginsFacts
<1>6. PICK P, G : P = Begins(B)[m - 1] /\ G = Begins(B)[n]
  OBVIOUS
<1>7. x[1] = P /\ x[2] = m - l
  BY <1>1, <1>6
<1>8. P \in Nat /\ P + l <= m /\ G \in 0..n /\ m <= G
  BY <1>1, <1>3, <1>4, <1>5, <1>6
<1>9. P <= m - l /\ m - l \in Nat /\ m - l < G /\ m - l <= n
  BY <1>2, <1>8
<1> QED BY <1>6, <1>7, <1>8, <1>9

LEMMA PlacesGrow ==
    ASSUME NEW B \in Seq(Nat), NEW q \in 0..Len(B), NEW i \in Nat, NEW l \in {2, 4},
           Sep(B, i, l), Begins(B)[q] <= i, q < i + l,
           \A j \in Nat, m \in {2, 4} : Begins(B)[q] <= j /\ Sep(B, j, m) => i <= j
    PROVE  EndedPlaces(B, i + l) = EndedPlaces(B, q) \cup {<<Begins(B)[q], i>>}
<1>1. PICK e : e = i + l
  OBVIOUS
<1>2. /\ e \in 1..Len(B) /\ Begins(B)[e - 1] = Begins(B)[q] /\ Begins(B)[e] = e
      /\ \A n \in q..(e - 1) : Begins(B)[n] = Begins(B)[q]
  <2>1. /\ i + l \in 1..Len(B)
        /\ Begins(B)[i + l - 1] = Begins(B)[q] /\ Begins(B)[i + l] = i + l
        /\ \A n \in q..(i + l - 1) : Begins(B)[n] = Begins(B)[q]
    BY EventEnds
  <2> QED BY <1>1, <2>1
<1>3. e \in 0..Len(B) /\ q <= e - 1 /\ e - l = i
  BY <1>1, <1>2
<1>4. PICK P : P = Begins(B)[q]
  OBVIOUS
<1>5. P \in 0..q
  BY <1>4, BeginsFacts
<1>6. ASSUME NEW x \in EndedPlaces(B, q) PROVE x \in EndedPlaces(B, e)
  <2>1. PICK m \in 1..q, k \in {2, 4} : /\ Begins(B)[m - 1] + k <= m /\ Sep(B, m - k, k)
                                        /\ x = <<Begins(B)[m - 1], m - k>>
    <3>1. \A y : y \in EndedPlaces(B, q) <=>
            \E m \in 1..q, k \in {2, 4} : /\ Begins(B)[m - 1] + k <= m /\ Sep(B, m - k, k)
                                          /\ y = <<Begins(B)[m - 1], m - k>>
      BY PlacesAre
    <3> QED BY <1>6, <3>1
  <2>2. m \in 1..e
    BY <1>3
  <2> QED BY <1>3, <2>1, <2>2, PlacesAre
<1>7. <<P, i>> \in EndedPlaces(B, e)
  <2>1. e \in 1..e /\ Begins(B)[e - 1] + l <= e
    BY <1>1, <1>2, <1>4, <1>5
  <2> QED BY <1>2, <1>3, <1>4, <2>1, PlacesAre
<1>0. \A x : x \in EndedPlaces(B, e) <=>
        \E m \in 1..e, k \in {2, 4} : /\ Begins(B)[m - 1] + k <= m /\ Sep(B, m - k, k)
                                      /\ x = <<Begins(B)[m - 1], m - k>>
  BY <1>3, PlacesAre
<1>8. ASSUME NEW x \in EndedPlaces(B, e) PROVE x \in EndedPlaces(B, q) \cup {<<P, i>>}
  <2>1. PICK m \in 1..e, k \in {2, 4} : /\ Begins(B)[m - 1] + k <= m /\ Sep(B, m - k, k)
                                        /\ x = <<Begins(B)[m - 1], m - k>>
    BY <1>0
  <2>2. CASE m <= q
    <3>1. m \in 1..q
      BY <2>2
    <3> QED BY <2>1, <3>1, PlacesAre
  <2>3. CASE q < m
    <3>1. m - 1 \in q..(e - 1) /\ m \in 1..Len(B) /\ m \in 0..Len(B)
      BY <1>2, <2>3
    <3>2. Begins(B)[m] = m
      BY <2>1, <3>1, BeginsFacts
    <3>3. ~(m \in q..(e - 1))
      BY <1>2, <1>4, <1>5, <2>3, <3>2
    <3>4. m = e
      BY <1>2, <2>3, <3>3
    <3>5. PICK j : j = m - k
      OBVIOUS
    <3>6. j \in Nat /\ P + k <= m /\ j + k = i + l
      <4>1. Begins(B)[m - 1] = P
        BY <1>2, <1>4, <3>4
      <4>2. P + k <= m
        BY <2>1, <4>1
      <4>3. P \in Nat /\ m \in Nat
        BY <1>5
      <4> QED BY <1>1, <3>4, <3>5, <4>2, <4>3
    <3>7. Sep(B, j, k)
      BY <2>1, <3>5
    <3>8. j = i
      BY <3>6, <3>7, SepsInOrder
    <3>9. Begins(B)[m - 1] = P
      BY <1>2, <1>4, <3>4
    <3> QED BY <2>1, <3>5, <3>8, <3>9
  <2> QED BY <1>2, <2>2, <2>3
<1> QED BY <1>1, <1>4, <1>6, <1>7, <1>8

LEMMA PlacesStay ==
    ASSUME NEW B \in Seq(Nat), NEW q \in 0..Len(B), NEW e \in 0..Len(B), q <= e,
           \A i \in Nat, l \in {2, 4} : Begins(B)[q] <= i /\ i + l <= e => ~Sep(B, i, l)
    PROVE  EndedPlaces(B, e) = EndedPlaces(B, q)
<1>1. PICK P : P = Begins(B)[q]
  OBVIOUS
<1>2. P \in 0..q
  BY <1>1, BeginsFacts
<1>3. ASSUME NEW n \in q..e PROVE Begins(B)[n] = P
  <2>1. n \in 0..Len(B) /\ q <= n /\ n <= e
    OBVIOUS
  <2>2. \A i \in Nat, l \in {2, 4} : Begins(B)[q] <= i /\ i + l <= n => ~Sep(B, i, l)
    BY <2>1
  <2> QED BY <1>1, <2>1, <2>2, EventGoesOn
<1>4. ASSUME NEW x \in EndedPlaces(B, q) PROVE x \in EndedPlaces(B, e)
  <2>1. PICK m \in 1..q, k \in {2, 4} : /\ Begins(B)[m - 1] + k <= m /\ Sep(B, m - k, k)
                                        /\ x = <<Begins(B)[m - 1], m - k>>
    BY PlacesAre
  <2>2. m \in 1..e
    OBVIOUS
  <2> QED BY <2>1, <2>2, PlacesAre
<1>5. ASSUME NEW x \in EndedPlaces(B, e) PROVE x \in EndedPlaces(B, q)
  <2>1. PICK m \in 1..e, k \in {2, 4} : /\ Begins(B)[m - 1] + k <= m /\ Sep(B, m - k, k)
                                        /\ x = <<Begins(B)[m - 1], m - k>>
    BY PlacesAre
  <2>2. CASE m <= q
    <3>1. m \in 1..q
      BY <2>2
    <3> QED BY <2>1, <3>1, PlacesAre
  <2>3. CASE q < m
    <3>1. m \in q..e /\ m \in 1..Len(B)
      BY <2>3
    <3>2. Begins(B)[m] = m
      BY <2>1, <3>1, BeginsFacts
    <3> QED BY <1>2, <1>3, <2>3, <3>1, <3>2
  <2> QED BY <2>2, <2>3
<1> QED BY <1>4, <1>5

-----------------------------------------------------------------------------
(* What has been seen *)

\* An event that is given to the observers, or has no data.
LEMMA SeesNext ==
    ASSUME NEW B \in Seq(Nat), NEW s, NEW D, NEW a \in Nat, NEW z \in Nat, a <= z, z <= Len(B),
           s.seen \in Seq(Seq(Nat)), Located(B, s.seen, D),
           \A x \in D : x[2] \in Nat /\ x[2] < a,
           z - a <= maxPendingEventBytes
    PROVE  LET t == processEvent(s, SubSeq(B, a + 1, z))
           IN  t.seen \in Seq(Seq(Nat)) /\ Located(B, t.seen, D \cup {<<a, z>>})
<1> DEFINE seen == s.seen
           x == <<a, z>>
<1>1. PICK event : event = SubSeq(B, a + 1, z)
  OBVIOUS
<1>2. event \in Seq(Nat) /\ Len(event) = z - a
  BY <1>1, SubSeqFacts
<1>3. PICK at \in [DOMAIN seen -> D] :
        /\ \A k \in DOMAIN seen : /\ seen[k] = SubSeq(B, at[k][1] + 1, at[k][2])
                                  /\ HasData(seen[k]) /\ Len(seen[k]) <= maxPendingEventBytes
        /\ \A j, k \in DOMAIN seen : j < k => at[j][2] < at[k][1]
        /\ \A p \in D : HasData(SubSeq(B, p[1] + 1, p[2]))
                          /\ p[2] - p[1] <= maxPendingEventBytes - maxBoundaryTailBytes
                            => \E k \in DOMAIN seen : at[k] = p
  BY DEF Located
<1>4. x[1] = a /\ x[2] = z
  OBVIOUS
<1>5. CASE HasData(event)
  <2> DEFINE N == Len(seen)
             later == Append(seen, event)
             now2 == [k \in 1..(N + 1) |-> IF k = N + 1 THEN x ELSE at[k]]
  <2>0. N \in Nat /\ DOMAIN seen = 1..N /\ seen \in Seq(Seq(Nat))
    OBVIOUS
  <2>1. /\ later \in Seq(Seq(Nat)) /\ DOMAIN later = 1..(N + 1)
        /\ (\A k \in 1..N : later[k] = seen[k]) /\ later[N + 1] = event
    BY <1>2, <2>0
  <2>2. \A k \in 1..(N + 1) : k \in 1..N \/ k = N + 1
    <3> HIDE DEF N
    <3> QED BY <2>0
  <2>3. (\A k \in 1..N : now2[k] = at[k]) /\ now2[N + 1] = x
    BY <2>0
  <2>4. now2 \in [DOMAIN later -> D \cup {x}]
    BY <1>3, <2>0, <2>1, <2>2
  <2> HIDE DEF later, now2, N, x
  <2>5. \A k \in DOMAIN later : /\ later[k] = SubSeq(B, now2[k][1] + 1, now2[k][2])
                                /\ HasData(later[k]) /\ Len(later[k]) <= maxPendingEventBytes
    BY <1>1, <1>2, <1>3, <1>4, <1>5, <2>0, <2>1, <2>2, <2>3
  <2>6. \A j, k \in DOMAIN later : j < k => now2[j][2] < now2[k][1]
    <3> SUFFICES ASSUME NEW j \in 1..(N + 1), NEW k \in 1..(N + 1), j < k
                 PROVE  now2[j][2] < now2[k][1]
      BY <2>1
    <3>1. j \in 1..N
      BY <2>0
    <3>2. CASE k \in 1..N
      BY <1>3, <2>0, <2>3, <3>1, <3>2
    <3>3. CASE k = N + 1
      <4>1. at[j] \in D
        BY <1>3, <2>0, <3>1
      <4> QED BY <1>4, <2>3, <3>1, <3>3, <4>1
    <3> QED BY <2>2, <3>2, <3>3
  <2>7. \A p \in D \cup {x} : HasData(SubSeq(B, p[1] + 1, p[2]))
                          /\ p[2] - p[1] <= maxPendingEventBytes - maxBoundaryTailBytes
                            => \E k \in DOMAIN later : now2[k] = p
    <3>1. \A k \in 1..N : k \in 1..(N + 1)
      BY <2>0
    <3>2. N + 1 \in 1..(N + 1)
      BY <2>0
    <3> QED BY <1>3, <2>0, <2>1, <2>3, <3>1, <3>2
  <2>8. Located(B, later, D \cup {x})
    BY <2>4, <2>5, <2>6, <2>7 DEF Located
  <2>9. processEvent(s, event).seen = later
    BY <1>5 DEF processEvent, later
  <2> QED BY <1>1, <2>1, <2>8, <2>9 DEF x
<1>6. CASE ~HasData(event)
  <2>1. processEvent(s, event) = s
    BY <1>6 DEF processEvent
  <2>2. at \in [DOMAIN seen -> D \cup {x}]
    BY <1>3
  <2>3. ~HasData(SubSeq(B, x[1] + 1, x[2]))
    BY <1>1, <1>4, <1>6
  <2> HIDE DEF x
  <2>4. Located(B, seen, D \cup {x})
    BY <1>3, <2>2, <2>3 DEF Located
  <2> QED BY <1>1, <2>1, <2>4 DEF x
<1> QED BY <1>5, <1>6

\* An event that is nearly too long may be left out.
LEMMA LeavesOut ==
    ASSUME NEW B, NEW seen, NEW D, NEW a \in Nat, NEW z \in Nat,
           Located(B, seen, D), z - a > maxPendingEventBytes - maxBoundaryTailBytes
    PROVE  Located(B, seen, D \cup {<<a, z>>})
<1> DEFINE x == <<a, z>>
<1>1. PICK at \in [DOMAIN seen -> D] :
        /\ \A k \in DOMAIN seen : /\ seen[k] = SubSeq(B, at[k][1] + 1, at[k][2])
                                  /\ HasData(seen[k]) /\ Len(seen[k]) <= maxPendingEventBytes
        /\ \A j, k \in DOMAIN seen : j < k => at[j][2] < at[k][1]
        /\ \A p \in D : HasData(SubSeq(B, p[1] + 1, p[2]))
                          /\ p[2] - p[1] <= maxPendingEventBytes - maxBoundaryTailBytes
                            => \E k \in DOMAIN seen : at[k] = p
  BY DEF Located
<1>2. at \in [DOMAIN seen -> D \cup {x}]
  BY <1>1
<1>3. x[1] = a /\ x[2] = z
  OBVIOUS
<1>4. ~(x[2] - x[1] <= maxPendingEventBytes - maxBoundaryTailBytes)
  BY <1>3, ScannerAssumption DEF maxBoundaryTailBytes
<1> HIDE DEF x
<1>5. Located(B, seen, D \cup {x})
  BY <1>1, <1>2, <1>4 DEF Located
<1> QED BY <1>5 DEF x

\* Bytes that follow change nothing of what was there.
LEMMA PrefixBegins ==
    ASSUME NEW B \in Seq(Nat), NEW C \in Seq(Nat)
    PROVE  /\ \A i \in Nat, l \in {2, 4} : i + l <= Len(B) => (Sep(B \o C, i, l) <=> Sep(B, i, l))
           /\ \A n \in 0..Len(B) : Begins(B \o C)[n] = Begins(B)[n]
<1>1. PICK A : A = B \o C
  OBVIOUS
<1>2. A \in Seq(Nat) /\ Len(A) = Len(B) + Len(C) /\ \A k \in 1..Len(B) : A[k] = B[k]
  BY <1>1
<1>3. Len(B) \in Nat /\ Len(A) \in Nat /\ Len(B) <= Len(A)
  BY <1>2
<1>4. ASSUME NEW i \in Nat, NEW l \in {2, 4}, i + l <= Len(B) PROVE Sep(A, i, l) <=> Sep(B, i, l)
  <2>1. \A k \in 1..l : i + k \in 1..Len(B)
    BY <1>3, <1>4
  <2>2. \A k \in 1..l : A[i + k] = B[i + k]
    BY <1>2, <2>1
  <2>3. i + l <= Len(A)
    BY <1>3, <1>4
  <2>4. CASE l = 2
    <3>1. A[i + 1] = B[i + 1] /\ A[i + 2] = B[i + 2]
      BY <2>2, <2>4
    <3> QED BY <1>4, <2>3, <2>4, <3>1 DEF Sep
  <2>5. CASE l = 4
    <3>1. A[i + 1] = B[i + 1] /\ A[i + 2] = B[i + 2] /\ A[i + 3] = B[i + 3] /\ A[i + 4] = B[i + 4]
      BY <2>2, <2>5
    <3> QED BY <1>4, <2>3, <2>5, <3>1 DEF Sep
  <2> QED BY <2>4, <2>5
<1> DEFINE S == {n \in Nat : n \in 0..Len(B) => Begins(A)[n] = Begins(B)[n]}
<1>5. 0 \in S
  BY <1>2, BeginsFacts
<1>6. ASSUME NEW n \in Nat, n \in S PROVE n + 1 \in S
  <2>1. CASE n + 1 \in 1..Len(B)
    <3>1. PICK k : k = n + 1
      OBVIOUS
    <3>2. k \in 1..Len(B) /\ k \in 1..Len(A) /\ k - 1 = n /\ n \in 0..Len(B)
      BY <1>3, <2>1, <3>1
    <3>3. PICK P : P = Begins(B)[n]
      OBVIOUS
    <3>4. Begins(A)[n] = P /\ P \in Nat
      BY <1>6, <3>2, <3>3, BeginsFacts
    <3>5. /\ Begins(A)[k] = IF \E l \in {2, 4} : P + l <= k /\ Sep(A, k - l, l) THEN k ELSE P
          /\ Begins(B)[k] = IF \E l \in {2, 4} : P + l <= k /\ Sep(B, k - l, l) THEN k ELSE P
      BY <1>2, <3>2, <3>3, <3>4, BeginsFacts
    <3>6. \A l \in {2, 4} : P + l <= k => (Sep(A, k - l, l) <=> Sep(B, k - l, l))
      <4> SUFFICES ASSUME NEW l \in {2, 4}, P + l <= k PROVE Sep(A, k - l, l) <=> Sep(B, k - l, l)
        OBVIOUS
      <4>1. PICK i : i = k - l
        OBVIOUS
      <4>2. i \in Nat /\ i + l <= Len(B)
        BY <3>2, <3>4, <4>1
      <4> QED BY <1>4, <4>1, <4>2
    <3>7. Begins(A)[k] = Begins(B)[k]
      BY <3>5, <3>6
    <3> QED BY <3>1, <3>7
  <2>2. CASE n + 1 \notin 1..Len(B)
    BY <1>3, <2>2
  <2> QED BY <2>1, <2>2
<1>7. \A n \in Nat : n \in S
  <2> HIDE DEF S
  <2> QED BY <1>5, <1>6, AllNumbers
<1> QED BY <1>1, <1>3, <1>4, <1>7

LEMMA PrefixPlaces ==
    ASSUME NEW B \in Seq(Nat), NEW C \in Seq(Nat), NEW n \in 0..Len(B)
    PROVE  EndedPlaces(B \o C, n) = EndedPlaces(B, n)
<1>1. PICK A : A = B \o C
  OBVIOUS
<1>2. A \in Seq(Nat) /\ Len(B) \in Nat /\ Len(A) \in Nat /\ Len(B) <= Len(A) /\ n \in 0..Len(A)
  BY <1>1
<1>3. \A k \in 0..Len(B) : Begins(A)[k] = Begins(B)[k] /\ Begins(B)[k] \in Nat
  BY <1>1, PrefixBegins, BeginsFacts
<1>4. ASSUME NEW m \in 1..n, NEW l \in {2, 4}
      PROVE  /\ Begins(A)[m - 1] = Begins(B)[m - 1]
             /\ Begins(B)[m - 1] + l <= m => (Sep(A, m - l, l) <=> Sep(B, m - l, l))
  <2>1. m - 1 \in 0..Len(B)
    BY <1>2
  <2>2. ASSUME Begins(B)[m - 1] + l <= m PROVE Sep(A, m - l, l) <=> Sep(B, m - l, l)
    <3>1. PICK i, P : i = m - l /\ P = Begins(B)[m - 1]
      OBVIOUS
    <3>0. P \in Nat /\ P + l <= m /\ m <= Len(B)
      BY <1>2, <1>3, <2>1, <2>2, <3>1
    <3>2. i \in Nat /\ i + l <= Len(B)
      <4>1. Len(B) \in Nat /\ m \in Nat
        BY <1>2
      <4>2. i = m - l
        BY <3>1
      <4> QED BY <3>0, <4>1, <4>2
    <3> QED BY <1>1, <3>1, <3>2, PrefixBegins
  <2> QED BY <1>3, <2>1, <2>2
<1>5. \A x : x \in EndedPlaces(A, n) <=> x \in EndedPlaces(B, n)
  <2>1. \A x : x \in EndedPlaces(A, n) <=>
          \E m \in 1..n, l \in {2, 4} : /\ Begins(A)[m - 1] + l <= m /\ Sep(A, m - l, l)
                                        /\ x = <<Begins(A)[m - 1], m - l>>
    BY <1>2, PlacesAre
  <2>2. \A x : x \in EndedPlaces(B, n) <=>
          \E m \in 1..n, l \in {2, 4} : /\ Begins(B)[m - 1] + l <= m /\ Sep(B, m - l, l)
                                        /\ x = <<Begins(B)[m - 1], m - l>>
    BY PlacesAre
  <2> QED BY <1>4, <2>1, <2>2
<1> QED BY <1>1, <1>5

LEMMA PrefixLocated ==
    ASSUME NEW B \in Seq(Nat), NEW C \in Seq(Nat), NEW seen, NEW n \in 0..Len(B),
           Located(B, seen, EndedPlaces(B, n))
    PROVE  Located(B \o C, seen, EndedPlaces(B \o C, n))
<1>1. PICK A, D : A = B \o C /\ D = EndedPlaces(B, n)
  OBVIOUS
<1>2. EndedPlaces(A, n) = D
  BY <1>1, PrefixPlaces
<1>3. \A x \in D : SubSeq(A, x[1] + 1, x[2]) = SubSeq(B, x[1] + 1, x[2])
  <2> SUFFICES ASSUME NEW x \in D PROVE SubSeq(A, x[1] + 1, x[2]) = SubSeq(B, x[1] + 1, x[2])
    OBVIOUS
  <2>1. PICK a, z : a = x[1] /\ z = x[2]
    OBVIOUS
  <2>2. a \in Nat /\ z \in Nat /\ a <= z /\ z <= Len(B)
    BY <1>1, <2>1, PlacesBefore
  <2>0. A \in Seq(Nat) /\ Len(A) = Len(B) + Len(C)
    BY <1>1
  <2>3. z <= Len(A) /\ \A k \in 1..Len(B) : A[k] = B[k]
    BY <1>1, <2>0, <2>2
  <2>4. /\ SubSeq(A, a + 1, z) \in Seq(Nat) /\ Len(SubSeq(A, a + 1, z)) = z - a
        /\ \A k \in 1..z - a : SubSeq(A, a + 1, z)[k] = A[a + k]
    <3>1. A \in Seq(Nat) /\ z <= Len(A)
      BY <2>0, <2>3
    <3> QED BY <2>2, <3>1, SubSeqFacts
  <2>5. /\ SubSeq(B, a + 1, z) \in Seq(Nat) /\ Len(SubSeq(B, a + 1, z)) = z - a
        /\ \A k \in 1..z - a : SubSeq(B, a + 1, z)[k] = B[a + k]
    BY <2>2, SubSeqFacts
  <2>6. \A k \in 1..z - a : A[a + k] = B[a + k]
    <3>1. \A k \in 1..z - a : a + k \in 1..Len(B)
      BY <2>2
    <3> QED BY <2>3, <3>1
  <2>7. SubSeq(A, a + 1, z) = SubSeq(B, a + 1, z)
    BY <2>4, <2>5, <2>6, SameSeq
  <2> QED BY <2>1, <2>7
<1>4. Located(A, seen, D)
  <2>1. Located(B, seen, D)
    BY <1>1
  <2>2. PICK at \in [DOMAIN seen -> D] :
          /\ \A k \in DOMAIN seen : /\ seen[k] = SubSeq(B, at[k][1] + 1, at[k][2])
                                    /\ HasData(seen[k]) /\ Len(seen[k]) <= maxPendingEventBytes
          /\ \A j, k \in DOMAIN seen : j < k => at[j][2] < at[k][1]
          /\ \A p \in D : HasData(SubSeq(B, p[1] + 1, p[2]))
                            /\ p[2] - p[1] <= maxPendingEventBytes - maxBoundaryTailBytes
                              => \E k \in DOMAIN seen : at[k] = p
    BY <2>1 DEF Located
  <2>3. \A k \in DOMAIN seen : at[k] \in D
    BY <2>2
  <2>4. \A k \in DOMAIN seen : seen[k] = SubSeq(A, at[k][1] + 1, at[k][2])
    BY <1>3, <2>2, <2>3
  <2>5. \A p \in D : HasData(SubSeq(A, p[1] + 1, p[2]))
                       /\ p[2] - p[1] <= maxPendingEventBytes - maxBoundaryTailBytes
                         => \E k \in DOMAIN seen : at[k] = p
    BY <1>3, <2>2
  <2> QED BY <2>2, <2>4, <2>5 DEF Located
<1> QED BY <1>1, <1>2, <1>4

-----------------------------------------------------------------------------
(* The scanner *)

Scanners == [pending : Seq(Nat), discarding : BOOLEAN, discardTail : Seq(Nat), seen : Seq(Seq(Nat))]

\* The scanner behind the first q bytes of B.  Of an event under way it keeps
\* all, or, once that is too long, the last three bytes.
OnTrack(B, s, q) ==
    /\ s \in Scanners
    /\ s.discarding => /\ s.pending = <<>>
                       /\ q - Begins(B)[q] > maxPendingEventBytes
                       /\ s.discardTail = SubSeq(B, (q - 3) + 1, q)
    /\ ~s.discarding => /\ s.discardTail = <<>>
                        /\ s.pending = SubSeq(B, Begins(B)[q] + 1, q)
                        /\ q - Begins(B)[q] <= maxPendingEventBytes
    /\ Located(B, s.seen, EndedPlaces(B, q))

LEMMA Joins ==
    ASSUME NEW S, NEW s \in Seq(S), NEW t \in Seq(S)
    PROVE  /\ s \o t \in Seq(S) /\ Len(s \o t) = Len(s) + Len(t)
           /\ \A k \in 1..Len(s) : (s \o t)[k] = s[k]
           /\ \A k \in 1..Len(t) : (s \o t)[Len(s) + k] = t[k]
OBVIOUS

LEMMA Pieces ==
    ASSUME NEW B \in Seq(Nat), NEW a \in Nat, NEW z \in Nat, a <= z, z <= Len(B)
    PROVE  /\ SubSeq(B, a + 1, z) \o From(B, z) = From(B, a)
           /\ From(From(B, a), z - a) = From(B, z)
           /\ SubSeq(From(B, a), 1, z - a) = SubSeq(B, a + 1, z)
<1>1. PICK p, r, f : p = SubSeq(B, a + 1, z) /\ r = From(B, z) /\ f = From(B, a)
  OBVIOUS
<1>2. p \in Seq(Nat) /\ Len(p) = z - a /\ \A k \in 1..z - a : p[k] = B[a + k]
  BY <1>1, SubSeqFacts
<1>3. r \in Seq(Nat) /\ Len(r) = Len(B) - z /\ \A k \in 1..Len(B) - z : r[k] = B[z + k]
  BY <1>1, FromFacts
<1>4. a <= Len(B) /\ Len(B) \in Nat
  OBVIOUS
<1>5. f \in Seq(Nat) /\ Len(f) = Len(B) - a /\ \A k \in 1..Len(B) - a : f[k] = B[a + k]
  BY <1>1, <1>4, FromFacts
<1>6. p \o r = f
  <2>0. p \in Seq(Nat) /\ r \in Seq(Nat)
    BY <1>2, <1>3
  <2>3. /\ p \o r \in Seq(Nat) /\ Len(p \o r) = Len(p) + Len(r)
        /\ \A k \in 1..Len(p) : (p \o r)[k] = p[k]
        /\ \A k \in 1..Len(r) : (p \o r)[Len(p) + k] = r[k]
    BY <2>0, Joins
  <2>1. p \o r \in Seq(Nat) /\ Len(p \o r) = Len(f)
    BY <1>2, <1>3, <1>4, <1>5, <2>3
  <2>2. ASSUME NEW k \in 1..Len(f) PROVE (p \o r)[k] = f[k]
    <3>1. f[k] = B[a + k]
      BY <1>5
    <3>2. CASE k <= z - a
      <4>1. (p \o r)[k] = p[k] /\ k \in 1..z - a
        BY <1>2, <2>3, <3>2
      <4> QED BY <1>2, <3>1, <4>1
    <3>3. CASE ~(k <= z - a)
      <4>1. PICK j : j = k - (z - a)
        OBVIOUS
      <4>2. j \in 1..Len(B) - z /\ z + j = a + k
        BY <1>4, <1>5, <3>3, <4>1
      <4>3. (p \o r)[k] = r[j]
        <5>1. j \in 1..Len(r) /\ Len(p) + j = k
          BY <1>2, <1>3, <4>1, <4>2
        <5> QED BY <2>3, <5>1
      <4> QED BY <1>3, <3>1, <4>2, <4>3
    <3> QED BY <3>2, <3>3
  <2> QED BY <1>5, <2>1, <2>2, SameSeq
<1>7. PICK n : n = z - a
  OBVIOUS
<1>8. n \in Nat /\ n <= Len(f) /\ a + n = z
  BY <1>4, <1>5, <1>7
<1>9. From(f, n) = r
  <2>0. f \in Seq(Nat) /\ n \in Nat /\ n <= Len(f)
    BY <1>5, <1>8
  <2>1. From(f, n) \in Seq(Nat) /\ Len(From(f, n)) = Len(f) - n /\ \A k \in 1..Len(f) - n : From(f, n)[k] = f[n + k]
    BY <2>0, FromFacts
  <2>2. Len(f) - n = Len(r)
    BY <1>3, <1>4, <1>5, <1>7
  <2>3. ASSUME NEW k \in 1..Len(r) PROVE From(f, n)[k] = r[k]
    <3>1. n + k \in 1..Len(B) - a /\ a + (n + k) = z + k /\ k \in 1..Len(f) - n /\ k \in 1..Len(B) - z
      BY <1>3, <1>4, <1>5, <1>8, <2>2
    <3>2. f[n + k] = B[z + k]
      BY <1>5, <3>1
    <3> QED BY <1>3, <2>1, <3>1, <3>2
  <2> QED BY <1>3, <2>1, <2>2, <2>3, SameSeq
<1>10. SubSeq(f, 1, n) = p
  <2>1. PICK t : t = SubSeq(f, 0 + 1, n)
    OBVIOUS
  <2>2. t \in Seq(Nat) /\ Len(t) = n - 0 /\ \A k \in 1..n - 0 : t[k] = f[0 + k]
    BY <1>5, <1>8, <2>1, SubSeqFacts
  <2>3. Len(t) = Len(p)
    BY <1>2, <1>7, <1>8, <2>2
  <2>4. ASSUME NEW k \in 1..Len(p) PROVE t[k] = p[k]
    <3>1. k \in 1..n - 0 /\ 0 + k = k /\ k \in 1..Len(B) - a /\ k \in 1..z - a
      BY <1>2, <1>4, <1>7, <1>8
    <3> QED BY <1>2, <1>5, <2>2, <3>1
  <2>5. t = p
    BY <1>2, <2>2, <2>3, <2>4, SameSeq
  <2> QED BY <2>1, <2>5
<1> QED BY <1>1, <1>6, <1>7, <1>9, <1>10

LEMMA Rest ==
    ASSUME NEW B \in Seq(Nat), NEW a \in Nat, a <= Len(B)
    PROVE  /\ From(B, a) = <<>> <=> a = Len(B)
           /\ From(B, a) = SubSeq(B, a + 1, Len(B))
           /\ SubSeq(B, a + 1, a) = <<>>
<1>1. From(B, a) \in Seq(Nat) /\ Len(From(B, a)) = Len(B) - a
  BY FromFacts
<1>2. Len(B) \in Nat
  OBVIOUS
<1>3. From(B, a) = <<>> <=> a = Len(B)
  BY <1>1, <1>2
<1>4. SubSeq(B, a + 1, a) \in Seq(Nat) /\ Len(SubSeq(B, a + 1, a)) = a - a
  BY SubSeqFacts
<1>5. SubSeq(B, a + 1, a) = <<>>
  BY <1>4
<1> QED BY <1>3, <1>5 DEF From

\* The last three bytes.
LEMMA TailIs ==
    ASSUME NEW B \in Seq(Nat), NEW a \in Nat, NEW p, NEW d,
           p \o d = From(B, a), Len(B) - a > 3
    PROVE  joinedSuffix(p, d, maxBoundaryTailBytes) = SubSeq(B, (Len(B) - 3) + 1, Len(B))
<1>1. PICK f, n : f = From(B, a) /\ n = Len(B) - 3
  OBVIOUS
<1>2. Len(B) \in Nat /\ a <= Len(B) /\ n \in Nat /\ a <= n /\ n <= Len(B)
  BY <1>1
<1>3. Len(f) = Len(B) - a
  BY <1>1, <1>2, FromFacts
<1>4. Len(f) - 3 = n - a /\ Len(f) > 3
  BY <1>1, <1>2, <1>3
<1>5. joinedSuffix(p, d, 3) = From(f, n - a)
  BY <1>1, <1>4 DEF joinedSuffix
<1>6. From(f, n - a) = From(B, n)
  BY <1>1, <1>2, Pieces
<1>7. From(B, n) = SubSeq(B, n + 1, Len(B))
  BY <1>2, Rest
<1> QED BY <1>1, <1>5, <1>6, <1>7 DEF maxBoundaryTailBytes

\* The boundary b behind place a ends, at e, the event under way at q, of
\* which the bytes up to i are left.
EventEnd(B, q, a, b, i, e) ==
    /\ i = a + b.idx /\ e = i + b.sepLen /\ Begins(B)[q] <= i /\ q < e /\ i <= e
    /\ b.idx \in Nat /\ b.idx + b.sepLen = e - a
    /\ Begins(B)[e] = e
    /\ EndedPlaces(B, e) = EndedPlaces(B, q) \cup {<<Begins(B)[q], i>>}
    /\ From(From(B, a), b.idx + b.sepLen) = From(B, e)
    /\ SubSeq(From(B, a), 1, b.idx) = SubSeq(B, a + 1, i)

LEMMA FoundEnd ==
    ASSUME NEW B \in Seq(Nat), NEW q \in 0..Len(B), NEW a \in 0..q, Begins(B)[q] <= a,
           NEW b, Finds(b, From(B, a)), b.found,
           \A i \in Nat, l \in {2, 4} : Begins(B)[q] <= i /\ Sep(B, i, l) => a <= i /\ q < i + l
    PROVE  \E i \in Nat, e \in 1..Len(B) : EventEnd(B, q, a, b, i, e)
<1>1. a \in Nat /\ a <= Len(B) /\ q \in Nat /\ Begins(B)[q] \in Nat
  BY BeginsFacts
<1>2. PICK x \in Nat, l \in {2, 4} : x = b.idx /\ l = b.sepLen /\ Sep(From(B, a), x, l)
  BY DEF Finds, Sep
<1>3. \A j \in Nat, m \in {2, 4} : Sep(From(B, a), j, m) => x <= j
  BY <1>2 DEF Finds
<1>4. PICK i : i = a + x
  OBVIOUS
<1>5. i \in Nat /\ Begins(B)[q] <= i
  BY <1>1, <1>4
<1>6. Sep(B, i, l)
  BY <1>1, <1>2, <1>4, SepShift
<1>7. q < i + l
  BY <1>5, <1>6
<1>8. \A j \in Nat, m \in {2, 4} : Begins(B)[q] <= j /\ Sep(B, j, m) => i <= j
  <2> SUFFICES ASSUME NEW j \in Nat, NEW m \in {2, 4}, Begins(B)[q] <= j, Sep(B, j, m) PROVE i <= j
    OBVIOUS
  <2>1. PICK y : y = j - a
    OBVIOUS
  <2>2. y \in Nat /\ a + y = j
    BY <1>1, <2>1
  <2>3. Sep(From(B, a), y, m)
    BY <1>1, <2>2, SepShift
  <2>4. x <= y
    BY <1>3, <2>2, <2>3
  <2> QED BY <1>1, <1>4, <2>2, <2>4
<1>9. i + l \in 1..Len(B) /\ Begins(B)[i + l] = i + l
  BY <1>5, <1>6, <1>7, <1>8, NextBegins
<1>10. EndedPlaces(B, i + l) = EndedPlaces(B, q) \cup {<<Begins(B)[q], i>>}
  BY <1>5, <1>6, <1>7, <1>8, PlacesGrow
<1>11. PICK e : e = i + l
  OBVIOUS
<1>12. e \in 1..Len(B) /\ e \in Nat /\ x + l = e - a /\ a <= e /\ e <= Len(B) /\ i <= e
       /\ x = i - a /\ a <= i /\ i <= Len(B)
  BY <1>1, <1>4, <1>5, <1>9, <1>11
<1>13. From(From(B, a), e - a) = From(B, e)
  BY <1>1, <1>12, Pieces
<1>14. SubSeq(From(B, a), 1, i - a) = SubSeq(B, a + 1, i)
  BY <1>1, <1>5, <1>12, Pieces
<1>15. EventEnd(B, q, a, b, i, e)
  BY <1>2, <1>4, <1>5, <1>7, <1>9, <1>10, <1>11, <1>12, <1>13, <1>14 DEF EventEnd
<1> QED BY <1>5, <1>12, <1>15

LEMMA NoEnd ==
    ASSUME NEW B \in Seq(Nat), NEW q \in 0..Len(B), NEW a \in 0..q, Begins(B)[q] <= a,
           NEW b, Finds(b, From(B, a)), ~b.found,
           \A i \in Nat, l \in {2, 4} : Begins(B)[q] <= i /\ Sep(B, i, l) => a <= i /\ q < i + l
    PROVE  /\ Begins(B)[Len(B)] = Begins(B)[q]
           /\ EndedPlaces(B, Len(B)) = EndedPlaces(B, q)
<1>1. a \in Nat /\ a <= Len(B) /\ Len(B) \in 0..Len(B) /\ q <= Len(B)
  OBVIOUS
<1>2. ASSUME NEW i \in Nat, NEW l \in {2, 4}, Begins(B)[q] <= i, i + l <= Len(B) PROVE ~Sep(B, i, l)
  <2>1. SUFFICES ASSUME Sep(B, i, l) PROVE FALSE
    OBVIOUS
  <2>2. PICK y : y = i - a
    OBVIOUS
  <2>3. a <= i
    BY <1>2, <2>1
  <2>4. y \in Nat /\ a + y = i
    BY <1>1, <2>2, <2>3
  <2>5. Sep(From(B, a), y, l)
    BY <1>1, <2>1, <2>4, SepShift
  <2> QED BY <2>4, <2>5 DEF Finds
<1> QED BY <1>1, <1>2, EventGoesOn, PlacesStay

\* A boundary behind the beginning of an event under way is yet to come.
LEMMA Beyond ==
    ASSUME NEW B \in Seq(Nat), NEW q \in 0..Len(B)
    PROVE  \A i \in Nat, l \in {2, 4} : Begins(B)[q] <= i /\ Sep(B, i, l) => q < i + l
<1> SUFFICES ASSUME NEW i \in Nat, NEW l \in {2, 4}, Begins(B)[q] <= i, Sep(B, i, l)
             PROVE  q < i + l
  OBVIOUS
<1>1. ~(i + l <= q)
  BY NoneWithin
<1> QED BY <1>1

\* Between two events.
LEMMA AtStart ==
    ASSUME NEW B \in Seq(Nat), NEW e \in 0..Len(B), Begins(B)[e] = e, NEW s \in Scanners,
           ~s.discarding, s.pending = <<>>, s.discardTail = <<>>,
           Located(B, s.seen, EndedPlaces(B, e))
    PROVE  OnTrack(B, s, e)
<1>1. e \in Nat /\ e <= Len(B) /\ e - e = 0
  OBVIOUS
<1>2. SubSeq(B, e + 1, e) = <<>>
  BY <1>1, Rest
<1>3. 0 <= maxPendingEventBytes
  BY ScannerAssumption
<1> QED BY <1>1, <1>2, <1>3 DEF OnTrack

LEMMA TooLong ==
    ASSUME NEW B, NEW seen, NEW q, NEW e, NEW P \in Nat, NEW i \in Nat,
           Located(B, seen, EndedPlaces(B, q)), i - P > maxPendingEventBytes - maxBoundaryTailBytes,
           EndedPlaces(B, e) = EndedPlaces(B, q) \cup {<<P, i>>}
    PROVE  Located(B, seen, EndedPlaces(B, e))
<1>1. PICK D : D = EndedPlaces(B, q)
  OBVIOUS
<1>2. Located(B, seen, D)
  BY <1>1
<1>3. Located(B, seen, D \cup {<<P, i>>})
  BY <1>2, LeavesOut
<1> QED BY <1>1, <1>3

LEMMA ProcessEventKeeps ==
    ASSUME NEW s \in Scanners, NEW event, processEvent(s, event).seen \in Seq(Seq(Nat))
    PROVE  LET t == processEvent(s, event)
           IN  /\ t \in Scanners /\ t.pending = s.pending /\ t.discarding = s.discarding
               /\ t.discardTail = s.discardTail
<1>1. CASE HasData(event)
  <2>1. PICK seen : seen = Append(s.seen, event)
    OBVIOUS
  <2>2. PICK t : t = [s EXCEPT !.seen = seen]
    OBVIOUS
  <2>3. processEvent(s, event) = t
    BY <1>1, <2>1, <2>2 DEF processEvent
  <2>4. t.seen = seen /\ seen \in Seq(Seq(Nat))
    BY <2>2, <2>3 DEF Scanners
  <2> QED BY <2>2, <2>3, <2>4 DEF Scanners
<1>2. CASE ~HasData(event)
  BY <1>2 DEF processEvent
<1> QED BY <1>1, <1>2

\* The event under way is over: it is given to the observers, or was too long.
LEMMA EventOver ==
    ASSUME NEW B \in Seq(Nat), NEW q \in 0..Len(B), NEW a, a = Begins(B)[q],
           NEW b, Finds(b, From(B, a)), b.found,
           NEW s \in Scanners, ~s.discarding, s.pending = <<>>, s.discardTail = <<>>,
           Located(B, s.seen, EndedPlaces(B, q)),
           NEW t, t = IF b.idx > maxPendingEventBytes THEN s
                      ELSE processEvent(s, SubSeq(From(B, a), 1, b.idx))
    PROVE  \E e \in 1..Len(B) : /\ q < e /\ OnTrack(B, t, e) /\ t.pending = <<>>
                                /\ From(From(B, a), b.idx + b.sepLen) = From(B, e)
<1>1. a \in 0..q /\ Begins(B)[q] <= a
  BY BeginsFacts
<1>2. \A i \in Nat, l \in {2, 4} : Begins(B)[q] <= i /\ Sep(B, i, l) => a <= i /\ q < i + l
  BY Beyond
<1>3. PICK i \in Nat, e \in 1..Len(B) :
        /\ i = a + b.idx /\ e = i + b.sepLen /\ a <= i /\ q < e /\ i <= e
        /\ b.idx \in Nat
        /\ Begins(B)[e] = e
        /\ EndedPlaces(B, e) = EndedPlaces(B, q) \cup {<<a, i>>}
        /\ From(From(B, a), b.idx + b.sepLen) = From(B, e)
        /\ SubSeq(From(B, a), 1, b.idx) = SubSeq(B, a + 1, i)
  <2>1. PICK i \in Nat, e \in 1..Len(B) : EventEnd(B, q, a, b, i, e)
    BY <1>1, <1>2, FoundEnd
  <2> QED BY <2>1 DEF EventEnd
<1>4. e \in 0..Len(B) /\ i <= Len(B) /\ a \in Nat /\ i - a = b.idx
  <2>1. i = a + b.idx /\ i <= e /\ b.idx \in Nat
    BY <1>3
  <2>2. a \in Nat /\ Len(B) \in Nat
    BY <1>1
  <2> QED BY <2>1, <2>2
<1>5. CASE b.idx > maxPendingEventBytes
  <2>1. t = s
    BY <1>5
  <2>2. i - a > maxPendingEventBytes - maxBoundaryTailBytes
    <3>1. maxPendingEventBytes \in Nat
      BY ScannerAssumption
    <3> QED BY <1>4, <1>5, <3>1 DEF maxBoundaryTailBytes
  <2>3. Located(B, s.seen, EndedPlaces(B, e))
    <3>1. EndedPlaces(B, e) = EndedPlaces(B, q) \cup {<<a, i>>}
      BY <1>3
    <3> QED BY <1>4, <2>2, <3>1, TooLong
  <2>4. OnTrack(B, s, e)
    BY <1>3, <1>4, <2>3, AtStart
  <2> QED BY <1>3, <2>1, <2>4
<1>6. CASE ~(b.idx > maxPendingEventBytes)
  <2>1. t = processEvent(s, SubSeq(B, a + 1, i))
    BY <1>3, <1>6
  <2>2. i - a <= maxPendingEventBytes
    <3>1. maxPendingEventBytes \in Nat
      BY ScannerAssumption
    <3>2. i - a = b.idx /\ b.idx \in Nat
      BY <1>3, <1>4
    <3> QED BY <1>6, <3>1, <3>2
  <2>3. s.seen \in Seq(Seq(Nat))
    BY DEF Scanners
  <2>4. PICK D : D = EndedPlaces(B, q)
    OBVIOUS
  <2>5. t.seen \in Seq(Seq(Nat)) /\ Located(B, t.seen, EndedPlaces(B, e))
    <3>1. \A x \in D : x[2] \in Nat /\ x[2] < a
      BY <2>4, PlacesBefore
    <3>2. Located(B, s.seen, D) /\ a <= i
      BY <1>3, <2>4
    <3>3. LET r == processEvent(s, SubSeq(B, a + 1, i))
          IN  r.seen \in Seq(Seq(Nat)) /\ Located(B, r.seen, D \cup {<<a, i>>})
      BY <1>4, <2>2, <2>3, <3>1, <3>2, SeesNext
    <3> QED BY <1>3, <2>1, <2>4, <3>3
  <2>6. t \in Scanners /\ t.pending = <<>> /\ ~t.discarding /\ t.discardTail = <<>>
    BY <2>1, <2>5, ProcessEventKeeps
  <2>7. OnTrack(B, t, e)
    BY <1>3, <1>4, <2>5, <2>6, AtStart
  <2> QED BY <1>3, <2>6, <2>7
<1> QED BY <1>5, <1>6

\* The bytes end within an event.
LEMMA KeepsAll ==
    ASSUME NEW B \in Seq(Nat), NEW s \in Scanners, NEW a, a = Begins(B)[Len(B)],
           ~s.discarding, s.discardTail = <<>>, Located(B, s.seen, EndedPlaces(B, Len(B))),
           Len(From(B, a)) <= maxPendingEventBytes
    PROVE  OnTrack(B, [s EXCEPT !.pending = From(B, a)], Len(B))
<1>1. Len(B) \in 0..Len(B) /\ Len(B) \in Nat
  OBVIOUS
<1>2. a \in Nat /\ a <= Len(B)
  BY <1>1, BeginsFacts
<1>3. From(B, a) \in Seq(Nat) /\ Len(From(B, a)) = Len(B) - a /\ From(B, a) = SubSeq(B, a + 1, Len(B))
  <2>1. From(B, a) \in Seq(Nat) /\ Len(From(B, a)) = Len(B) - a
    BY <1>2, FromFacts
  <2>2. From(B, a) = SubSeq(B, a + 1, Len(B))
    BY <1>2, Rest
  <2> QED BY <2>1, <2>2
<1>4. PICK t : t = [s EXCEPT !.pending = From(B, a)]
  OBVIOUS
<1>5. /\ t \in Scanners /\ t.pending = From(B, a) /\ ~t.discarding /\ t.discardTail = <<>>
      /\ t.seen = s.seen
  BY <1>3, <1>4 DEF Scanners
<1>6. OnTrack(B, t, Len(B))
  BY <1>3, <1>5 DEF OnTrack
<1> QED BY <1>4, <1>6

LEMMA StartsDiscarding ==
    ASSUME NEW B \in Seq(Nat), NEW s \in Scanners, NEW a, a = Begins(B)[Len(B)],
           Located(B, s.seen, EndedPlaces(B, Len(B))),
           NEW p, NEW d, p \o d = From(B, a), Len(From(B, a)) > maxPendingEventBytes
    PROVE  OnTrack(B, startDiscarding(s, p, d), Len(B))
<1>1. Len(B) \in 0..Len(B) /\ Len(B) \in Nat
  OBVIOUS
<1>2. a \in Nat /\ a <= Len(B)
  BY <1>1, BeginsFacts
<1>3. Len(From(B, a)) = Len(B) - a
  BY <1>2, FromFacts
<1>4. Len(B) - a > maxPendingEventBytes /\ Len(B) - a > 3 /\ Len(B) - 3 \in Nat
  BY <1>1, <1>2, <1>3, ScannerAssumption DEF maxBoundaryTailBytes
<1>5. PICK tail : tail = SubSeq(B, (Len(B) - 3) + 1, Len(B))
  OBVIOUS
<1>6. joinedSuffix(p, d, maxBoundaryTailBytes) = tail
  BY <1>2, <1>4, <1>5, TailIs
<1>7. tail \in Seq(Nat)
  <2>1. PICK n : n = Len(B) - 3
    OBVIOUS
  <2>2. n \in Nat /\ n <= Len(B)
    BY <1>1, <1>4, <2>1
  <2> QED BY <1>1, <1>5, <2>1, <2>2, SubSeqFacts
<1>8. PICK t : t = startDiscarding(s, p, d)
  OBVIOUS
<1>9. t = [s EXCEPT !.pending = <<>>, !.discarding = TRUE, !.discardTail = tail]
  BY <1>6, <1>8 DEF startDiscarding
<1>10. /\ t \in Scanners /\ t.pending = <<>> /\ t.discarding /\ t.discardTail = tail
       /\ t.seen = s.seen
  <2>1. /\ s = [pending |-> s.pending, discarding |-> s.discarding, discardTail |-> s.discardTail, seen |-> s.seen]
        /\ s.seen \in Seq(Seq(Nat))
    BY DEF Scanners
  <2>2. t = [pending |-> <<>>, discarding |-> TRUE, discardTail |-> tail, seen |-> s.seen]
    BY <1>9, <2>1
  <2>3. <<>> \in Seq(Nat)
    OBVIOUS
  <2> QED BY <1>7, <2>1, <2>2, <2>3 DEF Scanners
<1>11. OnTrack(B, t, Len(B))
  BY <1>4, <1>5, <1>10 DEF OnTrack
<1> QED BY <1>8, <1>11

-----------------------------------------------------------------------------
(* The loop *)

InTurn(B, turn, e) ==
    /\ turn.rest = From(B, e) /\ OnTrack(B, turn.scanner, e)
    /\ e < Len(B) /\ ~turn.scanner.discarding => turn.scanner.pending = <<>>

LEMMA ScanNext ==
    ASSUME NEW B \in Seq(Nat), NEW q \in 0..Len(B), NEW turn, InTurn(B, turn, q)
    PROVE  \E e \in 0..Len(B) : InTurn(B, scanNext(turn), e) /\ (q < e \/ e = Len(B))
<1>1. PICK s, data : s = turn.scanner /\ data = turn.rest
  OBVIOUS
<1>2. data = From(B, q) /\ OnTrack(B, s, q) /\ (q < Len(B) /\ ~s.discarding => s.pending = <<>>)
  BY <1>1 DEF InTurn
<1>3. Len(B) \in Nat /\ q \in Nat /\ q <= Len(B) /\ Len(B) \in 0..Len(B)
  OBVIOUS
<1>4. data \in Seq(Nat) /\ Len(data) = Len(B) - q /\ (data = <<>> <=> q = Len(B))
  BY <1>2, <1>3, FromFacts, Rest
<1>5. s \in Scanners /\ Located(B, s.seen, EndedPlaces(B, q))
  BY <1>2 DEF OnTrack
<1>6. PICK P : P = Begins(B)[q]
  OBVIOUS
<1>7. P \in Nat /\ P <= q
  BY <1>6, BeginsFacts
<1>8. From(B, Len(B)) = <<>>
  BY <1>3, Rest
<1>9. \A i \in Nat, l \in {2, 4} : Begins(B)[q] <= i /\ Sep(B, i, l) => q < i + l
  BY Beyond
<1>10. CASE data = <<>>
  <2>1. scanNext(turn) = turn
    BY <1>1, <1>10 DEF scanNext
  <2> QED BY <1>4, <1>10, <2>1
<1>11. CASE data # <<>> /\ s.discarding
  <2>1. q < Len(B)
    BY <1>3, <1>4, <1>11
  <2>2. s.pending = <<>> /\ q - P > maxPendingEventBytes /\ s.discardTail = SubSeq(B, (q - 3) + 1, q)
    BY <1>2, <1>6, <1>11 DEF OnTrack
  <2>3. PICK a, tail : a = q - 3 /\ tail = s.discardTail
    OBVIOUS
  <2>4. a \in Nat /\ P <= a /\ a <= q /\ a \in 0..q /\ a <= Len(B)
    BY <1>3, <1>7, <2>2, <2>3, ScannerAssumption DEF maxBoundaryTailBytes
  <2>5. tail \in Seq(Nat) /\ Len(tail) = q - a /\ tail = SubSeq(B, a + 1, q)
    <3>1. tail = SubSeq(B, a + 1, q)
      BY <2>2, <2>3
    <3>2. SubSeq(B, a + 1, q) \in Seq(Nat) /\ Len(SubSeq(B, a + 1, q)) = q - a
      BY <1>3, <2>4, SubSeqFacts
    <3> QED BY <3>1, <3>2
  <2>6. tail \o data = From(B, a)
    BY <1>2, <1>3, <2>4, <2>5, Pieces
  <2>7. \A i \in Nat, l \in {2, 4} : Begins(B)[q] <= i /\ Sep(B, i, l) => a <= i /\ q < i + l
    BY <1>3, <1>9, <2>3, <2>4
  <2>8. \A i \in Nat, l \in {2, 4} : Sep(From(B, a), i, l) => i + l > Len(tail)
    <3> SUFFICES ASSUME NEW i \in Nat, NEW l \in {2, 4}, Sep(From(B, a), i, l)
                 PROVE  i + l > Len(tail)
      OBVIOUS
    <3>1. PICK j : j = a + i
      OBVIOUS
    <3>2. j \in Nat /\ P <= j
      BY <1>7, <2>4, <3>1
    <3>3. Sep(B, j, l)
      BY <2>4, <3>1, SepShift
    <3>4. q < j + l
      BY <1>6, <1>9, <3>2, <3>3
    <3> QED BY <1>3, <2>4, <2>5, <3>1, <3>4
  <2>9. PICK end : end = nextJoinedEventBoundary(tail, data)
    OBVIOUS
  <2>10. Finds(end, From(B, a))
    BY <1>4, <2>5, <2>6, <2>8, <2>9, NextJoinedBoundary
  <2>11. CASE ~end.found
    <3>1. Begins(B)[Len(B)] = P /\ EndedPlaces(B, Len(B)) = EndedPlaces(B, q)
      BY <1>6, <2>4, <2>7, <2>10, <2>11, NoEnd
    <3>2. PICK t : t = [s EXCEPT !.discardTail = joinedSuffix(@, data, maxBoundaryTailBytes)]
      OBVIOUS
    <3>3. scanNext(turn) = Turn(t, <<>>)
      BY <1>1, <1>11, <2>3, <2>9, <2>11, <3>2 DEF scanNext
    <3>4. Len(B) - a > 3
      BY <1>3, <2>1, <2>3
    <3>5. joinedSuffix(tail, data, maxBoundaryTailBytes) = SubSeq(B, (Len(B) - 3) + 1, Len(B))
      BY <2>4, <2>6, <3>4, TailIs
    <3>6. SubSeq(B, (Len(B) - 3) + 1, Len(B)) \in Seq(Nat)
      <4>1. PICK n : n = Len(B) - 3
        OBVIOUS
      <4>2. n \in Nat /\ n <= Len(B)
        BY <1>3, <2>4, <3>4, <4>1
      <4> QED BY <1>3, <4>1, <4>2, SubSeqFacts
    <3>7. /\ t \in Scanners /\ t.pending = <<>> /\ t.discarding /\ t.seen = s.seen
          /\ t.discardTail = SubSeq(B, (Len(B) - 3) + 1, Len(B))
      BY <1>5, <1>11, <2>2, <2>3, <3>2, <3>5, <3>6 DEF Scanners
    <3>8. Len(B) - P > maxPendingEventBytes
      BY <1>3, <1>7, <2>1, <2>2, ScannerAssumption
    <3>9. OnTrack(B, t, Len(B))
      BY <1>5, <3>1, <3>7, <3>8 DEF OnTrack
    <3>10. InTurn(B, scanNext(turn), Len(B))
      BY <1>3, <1>8, <3>3, <3>9 DEF InTurn, Turn
    <3> QED BY <1>3, <3>10
  <2>12. CASE end.found
    <3>1. PICK i \in Nat, e \in 1..Len(B) :
            /\ i = a + end.idx /\ P <= i /\ q < e
            /\ end.idx \in Nat
            /\ Begins(B)[e] = e
            /\ EndedPlaces(B, e) = EndedPlaces(B, q) \cup {<<P, i>>}
            /\ From(From(B, a), end.idx + end.sepLen) = From(B, e)
      <4>1. Begins(B)[q] <= a
        BY <1>6, <2>4
      <4>2. PICK i \in Nat, e \in 1..Len(B) : EventEnd(B, q, a, end, i, e)
        BY <2>4, <2>7, <2>10, <2>12, <4>1, FoundEnd
      <4> QED BY <1>6, <4>2 DEF EventEnd
    <3>2. PICK t : t = [s EXCEPT !.discarding = FALSE, !.discardTail = <<>>]
      OBVIOUS
    <3>3. scanNext(turn) = Turn(t, From(B, e))
      <4>1. AfterBoundary(tail, data, end) = From(B, e)
        BY <2>6, <3>1 DEF AfterBoundary
      <4> QED BY <1>1, <1>11, <2>3, <2>9, <2>12, <3>2, <4>1 DEF scanNext
    <3>4. /\ t \in Scanners /\ t.pending = <<>> /\ ~t.discarding /\ t.seen = s.seen
          /\ t.discardTail = <<>>
      BY <1>5, <2>2, <3>2 DEF Scanners
    <3>5. i - P > maxPendingEventBytes - maxBoundaryTailBytes
      <4>1. maxPendingEventBytes \in Nat /\ a \in Int /\ i \in Int /\ i >= a /\ a - P > maxPendingEventBytes - 3
        <5>1. maxPendingEventBytes \in Nat
          BY ScannerAssumption
        <5>2. i >= a
          BY <2>4, <3>1
        <5> QED BY <1>3, <1>7, <2>2, <2>3, <2>4, <5>1, <5>2
      <4> QED BY <1>7, <4>1 DEF maxBoundaryTailBytes
    <3>6. Located(B, t.seen, EndedPlaces(B, e))
      <4>1. EndedPlaces(B, e) = EndedPlaces(B, q) \cup {<<P, i>>} /\ t.seen = s.seen
        BY <3>1, <3>4
      <4>2. Located(B, s.seen, EndedPlaces(B, e))
        BY <1>5, <1>7, <3>5, <4>1, TooLong
      <4> QED BY <4>1, <4>2
    <3>7. e \in 0..Len(B)
      OBVIOUS
    <3>8. OnTrack(B, t, e)
      BY <3>1, <3>4, <3>6, <3>7, AtStart
    <3>9. InTurn(B, scanNext(turn), e)
      BY <3>3, <3>4, <3>8 DEF InTurn, Turn
    <3> QED BY <3>1, <3>7, <3>9
  <2>13. end.found \in BOOLEAN
    BY <2>10 DEF Finds
  <2> QED BY <2>11, <2>12, <2>13
<1>12. CASE data # <<>> /\ ~s.discarding
  <2>1. q < Len(B) /\ s.pending = <<>> /\ s.discardTail = <<>>
    BY <1>2, <1>3, <1>4, <1>12 DEF OnTrack
  <2>2. P = q
    <3>1. SubSeq(B, P + 1, q) = <<>>
      BY <1>2, <1>6, <1>12, <2>1 DEF OnTrack
    <3>2. Len(SubSeq(B, P + 1, q)) = q - P
      BY <1>3, <1>7, SubSeqFacts
    <3> QED BY <1>3, <1>7, <3>1, <3>2
  <2>3. PICK b : b = nextEventBoundary(data)
    OBVIOUS
  <2>4. Finds(b, From(B, q))
    BY <1>2, <1>4, <2>3, NextBoundary
  <2>5. CASE ~b.found
    <3>1. Begins(B)[Len(B)] = q /\ EndedPlaces(B, Len(B)) = EndedPlaces(B, q)
      <4>1. q \in 0..q /\ Begins(B)[q] <= q
        BY <1>3, <1>6, <2>2
      <4>2. \A i \in Nat, l \in {2, 4} : Begins(B)[q] <= i /\ Sep(B, i, l) => q <= i /\ q < i + l
        BY <1>6, <1>9, <2>2
      <4> QED BY <1>6, <2>2, <2>4, <2>5, <4>1, <4>2, NoEnd
    <3>2. scanNext(turn) = Turn(savePending(s, data), <<>>)
      BY <1>1, <1>12, <2>3, <2>5 DEF scanNext
    <3>3. OnTrack(B, savePending(s, data), Len(B))
      <4>1. CASE Len(data) > maxPendingEventBytes
        <5>1. <<>> \o data = From(B, q)
          BY <1>2, <1>4
        <5>2. OnTrack(B, startDiscarding(s, <<>>, data), Len(B))
          BY <1>2, <1>5, <3>1, <4>1, <5>1, StartsDiscarding
        <5> QED BY <4>1, <5>2 DEF savePending
      <4>2. CASE ~(Len(data) > maxPendingEventBytes)
        <5>1. Len(From(B, q)) <= maxPendingEventBytes
          BY <1>2, <1>3, <1>4, <4>2, ScannerAssumption
        <5>2. OnTrack(B, [s EXCEPT !.pending = From(B, q)], Len(B))
          BY <1>5, <1>12, <2>1, <3>1, <5>1, KeepsAll
        <5> QED BY <1>2, <4>2, <5>2 DEF savePending
      <4> QED BY <4>1, <4>2
    <3>4. InTurn(B, scanNext(turn), Len(B))
      BY <1>3, <1>8, <3>2, <3>3 DEF InTurn, Turn
    <3> QED BY <1>3, <3>4
  <2>6. CASE b.found
    <3>1. PICK t : t = IF b.idx > maxPendingEventBytes THEN s
                      ELSE processEvent(s, SubSeq(From(B, q), 1, b.idx))
      OBVIOUS
    <3>2. PICK e \in 1..Len(B) : /\ q < e /\ OnTrack(B, t, e) /\ t.pending = <<>>
                                 /\ From(From(B, q), b.idx + b.sepLen) = From(B, e)
      <4>1. q = Begins(B)[q]
        BY <1>6, <2>2
      <4>2. ~s.discarding /\ s.pending = <<>> /\ s.discardTail = <<>>
        BY <1>12, <2>1
      <4> QED BY <1>5, <2>4, <2>6, <3>1, <4>1, <4>2, EventOver
    <3>3. scanNext(turn) = Turn(t, From(B, e))
      BY <1>1, <1>2, <1>12, <2>3, <2>6, <3>1, <3>2 DEF scanNext
    <3>4. InTurn(B, scanNext(turn), e)
      BY <3>2, <3>3 DEF InTurn, Turn
    <3>5. e \in 0..Len(B)
      OBVIOUS
    <3> QED BY <3>2, <3>4, <3>5
  <2>7. b.found \in BOOLEAN
    BY <2>4 DEF Finds
  <2> QED BY <2>5, <2>6, <2>7
<1> QED BY <1>5, <1>10, <1>11, <1>12 DEF Scanners

LEMMA ScanTurns ==
    ASSUME NEW s, NEW data \in Seq(Nat)
    PROVE  \E turns : /\ turns[0] = Turn(s, data)
                      /\ \A k \in 1..Len(data) : turns[k] = scanNext(turns[k - 1])
                      /\ scan(s, data) = turns[Len(data)].scanner
<1> DEFINE N == Len(data)
           Step(g, k) == IF k = 0 THEN Turn(s, data) ELSE scanNext(g[k - 1])
           S == {k \in Nat : \E g : g = [j \in 0..k |-> Step(g, j)]}
<1>0. N \in Nat
  OBVIOUS
<1>1. 0 \in S
  <2> DEFINE g == [j \in 0..0 |-> Turn(s, data)]
  <2>1. g = [j \in 0..0 |-> Step(g, j)]
    OBVIOUS
  <2> QED BY <2>1
<1>2. ASSUME NEW k \in Nat, k \in S PROVE k + 1 \in S
  <2>1. PICK g : g = [j \in 0..k |-> Step(g, j)]
    BY <1>2
  <2> DEFINE h == [j \in 0..(k + 1) |-> IF j <= k THEN g[j] ELSE Step(g, j)]
  <2>2. \A j \in 0..k : h[j] = g[j] /\ g[j] = Step(g, j)
    <3> HIDE DEF Step
    <3>1. \A j \in 0..k : g[j] = Step(g, j)
      BY <2>1
    <3>2. \A j \in 0..k : h[j] = g[j]
      OBVIOUS
    <3> QED BY <3>1, <3>2
  <2>3. h[k + 1] = Step(g, k + 1)
    <3> HIDE DEF Step
    <3> QED OBVIOUS
  <2>4. ASSUME NEW j \in 0..(k + 1) PROVE h[j] = Step(h, j)
    <3> HIDE DEF h
    <3>1. CASE j = 0
      BY <2>2, <3>1
    <3>2. CASE j # 0
      <4>1. j - 1 \in 0..k /\ h[j - 1] = g[j - 1]
        BY <2>2, <3>2
      <4>2. Step(h, j) = Step(g, j)
        BY <4>1
      <4>3. h[j] = Step(g, j)
        <5> HIDE DEF Step
        <5>1. j \in 0..k \/ j = k + 1
          OBVIOUS
        <5> QED BY <2>2, <2>3, <5>1
      <4> QED BY <4>2, <4>3
    <3> QED BY <3>1, <3>2
  <2>5. h = [j \in 0..(k + 1) |-> Step(h, j)]
    <3>1. h = [j \in 0..(k + 1) |-> h[j]]
      <4> HIDE DEF Step
      <4> QED OBVIOUS
    <3> HIDE DEF h, Step
    <3> QED BY <2>4, <3>1
  <2> HIDE DEF h, Step
  <2> QED BY <2>5
<1>3. \E g : g = [j \in 0..N |-> Step(g, j)]
  <2>1. \A k \in Nat : k \in S
    <3> HIDE DEF S
    <3> QED BY <1>1, <1>2, AllNumbers
  <2> HIDE DEF Step
  <2> QED BY <1>0, <2>1
<1>4. PICK turns : turns = CHOOSE g : g = [j \in 0..N |-> Step(g, j)]
  OBVIOUS
<1>5. scan(s, data) = turns[N].scanner
  BY <1>4 DEF scan
<1>6. turns = [j \in 0..N |-> Step(turns, j)]
  <2> HIDE DEF Step
  <2> QED BY <1>3, <1>4
<1>7. \A j \in 0..N : turns[j] = Step(turns, j)
  <2> HIDE DEF Step
  <2> QED BY <1>6
<1>8. turns[0] = Turn(s, data)
  BY <1>0, <1>7
<1>9. \A k \in 1..N : turns[k] = scanNext(turns[k - 1])
  BY <1>0, <1>7
<1> QED BY <1>5, <1>8, <1>9

LEMMA ScanKeeps ==
    ASSUME NEW B \in Seq(Nat), NEW q \in 0..Len(B), NEW s, NEW data, InTurn(B, Turn(s, data), q)
    PROVE  OnTrack(B, scan(s, data), Len(B))
<1>1. q \in Nat /\ Len(B) \in Nat /\ q <= Len(B)
  OBVIOUS
<1>2. data = From(B, q)
  BY DEF InTurn, Turn
<1>3. data \in Seq(Nat) /\ Len(data) = Len(B) - q
  BY <1>1, <1>2, FromFacts
<1>4. PICK N : N = Len(data)
  OBVIOUS
<1>5. N \in Nat /\ q + N = Len(B)
  BY <1>1, <1>3, <1>4
<1>6. PICK turns : /\ turns[0] = Turn(s, data)
                   /\ \A k \in 1..N : turns[k] = scanNext(turns[k - 1])
                   /\ scan(s, data) = turns[N].scanner
  BY <1>3, <1>4, ScanTurns
<1> DEFINE Behind(k) == \E e \in 0..Len(B) : InTurn(B, turns[k], e) /\ (q + k <= e \/ e = Len(B))
           S == {k \in Nat : k <= N => Behind(k)}
<1>7. 0 \in S
  BY <1>1, <1>6
<1>8. ASSUME NEW k \in Nat, k \in S PROVE k + 1 \in S
  <2>1. SUFFICES ASSUME k + 1 <= N PROVE Behind(k + 1)
    OBVIOUS
  <2>2. k <= N /\ k + 1 \in 1..N /\ (k + 1) - 1 = k
    BY <1>5, <2>1
  <2>3. PICK d \in 0..Len(B) : InTurn(B, turns[k], d) /\ (q + k <= d \/ d = Len(B))
    BY <1>8, <2>2
  <2>4. turns[k + 1] = scanNext(turns[k])
    BY <1>6, <2>2
  <2>5. PICK e \in 0..Len(B) : InTurn(B, scanNext(turns[k]), e) /\ (d < e \/ e = Len(B))
    BY <2>3, ScanNext
  <2>6. q + (k + 1) <= e \/ e = Len(B)
    BY <1>1, <2>3, <2>5
  <2> QED BY <2>4, <2>5, <2>6
<1>9. \A k \in Nat : k \in S
  <2> HIDE DEF S
  <2> QED BY <1>7, <1>8, AllNumbers
<1>10. PICK e \in 0..Len(B) : InTurn(B, turns[N], e) /\ (q + N <= e \/ e = Len(B))
  BY <1>5, <1>9
<1>11. e = Len(B)
  BY <1>1, <1>5, <1>10
<1> QED BY <1>6, <1>10, <1>11 DEF InTurn

LEMMA BufferedTurns ==
    ASSUME NEW s, NEW data \in Seq(Nat)
    PROVE  \E turns : /\ turns[0] = Turn(s, data)
                      /\ \A k \in 1..Len(data) : turns[k] = bufferedNext(turns[k - 1])
                      /\ processBufferedEvents(s, data) = turns[Len(data)].scanner
<1> DEFINE N == Len(data)
           Step(g, k) == IF k = 0 THEN Turn(s, data) ELSE bufferedNext(g[k - 1])
           S == {k \in Nat : \E g : g = [j \in 0..k |-> Step(g, j)]}
<1>0. N \in Nat
  OBVIOUS
<1>1. 0 \in S
  <2> DEFINE g == [j \in 0..0 |-> Turn(s, data)]
  <2>1. g = [j \in 0..0 |-> Step(g, j)]
    OBVIOUS
  <2> QED BY <2>1
<1>2. ASSUME NEW k \in Nat, k \in S PROVE k + 1 \in S
  <2>1. PICK g : g = [j \in 0..k |-> Step(g, j)]
    BY <1>2
  <2> DEFINE h == [j \in 0..(k + 1) |-> IF j <= k THEN g[j] ELSE Step(g, j)]
  <2>2. \A j \in 0..k : h[j] = g[j] /\ g[j] = Step(g, j)
    <3> HIDE DEF Step
    <3>1. \A j \in 0..k : g[j] = Step(g, j)
      BY <2>1
    <3>2. \A j \in 0..k : h[j] = g[j]
      OBVIOUS
    <3> QED BY <3>1, <3>2
  <2>3. h[k + 1] = Step(g, k + 1)
    <3> HIDE DEF Step
    <3> QED OBVIOUS
  <2>4. ASSUME NEW j \in 0..(k + 1) PROVE h[j] = Step(h, j)
    <3> HIDE DEF h
    <3>1. CASE j = 0
      BY <2>2, <3>1
    <3>2. CASE j # 0
      <4>1. j - 1 \in 0..k /\ h[j - 1] = g[j - 1]
        BY <2>2, <3>2
      <4>2. Step(h, j) = Step(g, j)
        BY <4>1
      <4>3. h[j] = Step(g, j)
        <5> HIDE DEF Step
        <5>1. j \in 0..k \/ j = k + 1
          OBVIOUS
        <5> QED BY <2>2, <2>3, <5>1
      <4> QED BY <4>2, <4>3
    <3> QED BY <3>1, <3>2
  <2>5. h = [j \in 0..(k + 1) |-> Step(h, j)]
    <3>1. h = [j \in 0..(k + 1) |-> h[j]]
      <4> HIDE DEF Step
      <4> QED OBVIOUS
    <3> HIDE DEF h, Step
    <3> QED BY <2>4, <3>1
  <2> HIDE DEF h, Step
  <2> QED BY <2>5
<1>3. \E g : g = [j \in 0..N |-> Step(g, j)]
  <2>1. \A k \in Nat : k \in S
    <3> HIDE DEF S
    <3> QED BY <1>1, <1>2, AllNumbers
  <2> HIDE DEF Step
  <2> QED BY <1>0, <2>1
<1>4. PICK turns : turns = CHOOSE g : g = [j \in 0..N |-> Step(g, j)]
  OBVIOUS
<1>5. processBufferedEvents(s, data) = turns[N].scanner
  BY <1>4 DEF processBufferedEvents
<1>6. turns = [j \in 0..N |-> Step(turns, j)]
  <2> HIDE DEF Step
  <2> QED BY <1>3, <1>4
<1>7. \A j \in 0..N : turns[j] = Step(turns, j)
  <2> HIDE DEF Step
  <2> QED BY <1>6
<1>8. turns[0] = Turn(s, data)
  BY <1>0, <1>7
<1>9. \A k \in 1..N : turns[k] = bufferedNext(turns[k - 1])
  BY <1>0, <1>7
<1> QED BY <1>5, <1>8, <1>9

\* What is pending when the stream ends is one event, or none.
LEMMA BufferedEvent ==
    ASSUME NEW s, NEW data \in Seq(Nat),
           \A i \in Nat, l \in {2, 4} : ~Sep(data, i, l)
    PROVE  processBufferedEvents(s, data) = processEvent(s, data)
<1>1. PICK N : N = Len(data)
  OBVIOUS
<1>2. N \in Nat /\ (data = <<>> <=> N = 0)
  BY <1>1
<1>3. PICK turns : /\ turns[0] = Turn(s, data)
                   /\ \A k \in 1..N : turns[k] = bufferedNext(turns[k - 1])
                   /\ processBufferedEvents(s, data) = turns[N].scanner
  BY <1>1, BufferedTurns
<1>4. CASE data = <<>>
  <2>1. ~HasData(data)
    BY <1>4 DEF HasData
  <2>2. processBufferedEvents(s, data) = s
    BY <1>2, <1>3, <1>4 DEF Turn
  <2> QED BY <2>1, <2>2 DEF processEvent
<1>5. CASE data # <<>>
  <2>1. PICK t : t = processEvent(s, data)
    OBVIOUS
  <2>2. ~nextEventBoundary(data).found
    <3>1. Finds(nextEventBoundary(data), data)
      BY NextBoundary
    <3> QED BY <3>1 DEF Finds, Sep
  <2>3. bufferedNext(Turn(s, data)) = Turn(t, <<>>)
    BY <1>5, <2>1, <2>2 DEF bufferedNext, Turn
  <2>4. bufferedNext(Turn(t, <<>>)) = Turn(t, <<>>)
    BY DEF bufferedNext, Turn
  <2>5. 1 \in 1..N /\ 1 - 1 = 0
    BY <1>2, <1>5
  <2>6. turns[1] = Turn(t, <<>>)
    BY <1>3, <2>3, <2>5
  <2> DEFINE S == {k \in Nat : k + 1 <= N => turns[k + 1] = Turn(t, <<>>)}
  <2>7. 0 \in S
    BY <2>6
  <2>8. ASSUME NEW k \in Nat, k \in S PROVE k + 1 \in S
    <3>1. SUFFICES ASSUME (k + 1) + 1 <= N PROVE turns[(k + 1) + 1] = Turn(t, <<>>)
      OBVIOUS
    <3>2. k + 1 <= N /\ (k + 1) + 1 \in 1..N /\ ((k + 1) + 1) - 1 = k + 1
      BY <1>2, <3>1
    <3>3. turns[k + 1] = Turn(t, <<>>)
      BY <2>8, <3>2
    <3>4. turns[(k + 1) + 1] = bufferedNext(turns[k + 1])
      <4>1. PICK j : j = (k + 1) + 1
        OBVIOUS
      <4>2. turns[j] = bufferedNext(turns[j - 1])
        BY <1>3, <3>2, <4>1
      <4> QED BY <3>2, <4>1, <4>2
    <3> QED BY <2>4, <3>3, <3>4
  <2>9. \A k \in Nat : k \in S
    <3> HIDE DEF S
    <3> QED BY <2>7, <2>8, AllNumbers
  <2>10. turns[N] = Turn(t, <<>>)
    <3>1. PICK k : k = N - 1
      OBVIOUS
    <3>2. k \in Nat /\ k + 1 = N
      BY <1>2, <2>5, <3>1
    <3>3. k \in S
      BY <2>9, <3>2
    <3> QED BY <3>2, <3>3
  <2> QED BY <1>3, <2>1, <2>10 DEF Turn
<1> QED BY <1>4, <1>5

\* A chunk that arrives: the scanner goes on to the end of it.
LEMMA ChunkKeeps ==
    ASSUME NEW A \in Seq(Nat), NEW C \in Seq(Nat), NEW s, OnTrack(A, s, Len(A))
    PROVE  OnTrack(A \o C, processChunk(s, C), Len(A \o C))
<1>1. PICK B, q : B = A \o C /\ q = Len(A)
  OBVIOUS
<1>2. /\ B \in Seq(Nat) /\ Len(B) = q + Len(C) /\ Len(C) \in Nat /\ q \in Nat
      /\ (\A k \in 1..q : B[k] = A[k]) /\ (\A k \in 1..Len(C) : B[q + k] = C[k])
  BY <1>1, Joins
<1>3. Len(B) \in Nat /\ q \in 0..Len(B) /\ q <= Len(B) /\ Len(B) \in 0..Len(B) /\ q \in 0..q /\ q \in Nat
  BY <1>2
<1>0. B \in Seq(Nat)
  BY <1>2
<1>4. C = From(B, q)
  <2>1. From(B, q) \in Seq(Nat) /\ Len(From(B, q)) = Len(B) - q /\ \A k \in 1..Len(B) - q : From(B, q)[k] = B[q + k]
    BY <1>0, <1>3, FromFacts
  <2>2. Len(From(B, q)) = Len(C) /\ Len(B) - q = Len(C)
    BY <1>2, <2>1
  <2> QED BY <1>2, <2>1, <2>2, SameSeq
<1>5. PICK P : P = Begins(B)[q]
  OBVIOUS
<1>6. P = Begins(A)[q] /\ P \in Nat /\ P <= q /\ P \in 0..q /\ P <= Len(B)
  <2>1. Begins(A \o C)[q] = Begins(A)[q]
    BY <1>1, <1>2, PrefixBegins
  <2>2. P \in 0..q
    BY <1>2, <1>3, <1>5, BeginsFacts
  <2> QED BY <1>1, <1>2, <1>3, <1>5, <2>1, <2>2
<1>7. OnTrack(B, s, q)
  <2>1. \A a \in Nat : a <= q => SubSeq(B, a + 1, q) = SubSeq(A, a + 1, q)
    <3> SUFFICES ASSUME NEW a \in Nat, a <= q PROVE SubSeq(B, a + 1, q) = SubSeq(A, a + 1, q)
      OBVIOUS
    <3>1. /\ SubSeq(B, a + 1, q) \in Seq(Nat) /\ Len(SubSeq(B, a + 1, q)) = q - a
          /\ \A k \in 1..q - a : SubSeq(B, a + 1, q)[k] = B[a + k]
      BY <1>0, <1>3, SubSeqFacts
    <3>2. /\ SubSeq(A, a + 1, q) \in Seq(Nat) /\ Len(SubSeq(A, a + 1, q)) = q - a
          /\ \A k \in 1..q - a : SubSeq(A, a + 1, q)[k] = A[a + k]
      <4>1. q <= Len(A)
        BY <1>1, <1>2
      <4> QED BY <1>2, <4>1, SubSeqFacts
    <3>3. \A k \in 1..q - a : B[a + k] = A[a + k]
      <4> SUFFICES ASSUME NEW k \in 1..q - a PROVE B[a + k] = A[a + k]
        OBVIOUS
      <4>1. a + k \in 1..q
        BY <1>2
      <4> QED BY <1>2, <4>1
    <3>4. PICK x, y : x = SubSeq(B, a + 1, q) /\ y = SubSeq(A, a + 1, q)
      OBVIOUS
    <3>5. x \in Seq(Nat) /\ y \in Seq(Nat) /\ Len(x) = Len(y) /\ Len(x) = q - a
      BY <3>1, <3>2, <3>4
    <3>6. \A k \in 1..Len(x) : x[k] = y[k]
      BY <3>1, <3>2, <3>3, <3>4, <3>5
    <3> QED BY <3>4, <3>5, <3>6, SameSeq
  <2>2. Located(B, s.seen, EndedPlaces(B, q))
    <3>1. Located(A, s.seen, EndedPlaces(A, q)) /\ q \in 0..Len(A)
      BY <1>1, <1>2 DEF OnTrack
    <3> QED BY <1>1, <3>1, PrefixLocated
  <2>3. OnTrack(A, s, q)
    BY <1>1
  <2>4. CASE s.discarding
    <3>1. /\ s.pending = <<>> /\ q - P > maxPendingEventBytes
          /\ s.discardTail = SubSeq(A, (q - 3) + 1, q)
      BY <1>6, <2>3, <2>4 DEF OnTrack
    <3>2. PICK a : a = q - 3
      OBVIOUS
    <3>3. a \in Nat /\ a <= q
      BY <1>2, <1>6, <3>1, <3>2, ScannerAssumption DEF maxBoundaryTailBytes
    <3>4. SubSeq(B, a + 1, q) = SubSeq(A, a + 1, q)
      BY <2>1, <3>3
    <3> QED BY <1>5, <2>2, <2>3, <2>4, <3>1, <3>2, <3>4 DEF OnTrack
  <2>5. CASE ~s.discarding
    <3>1. SubSeq(B, P + 1, q) = SubSeq(A, P + 1, q)
      BY <1>6, <2>1
    <3> QED BY <1>5, <1>6, <2>2, <2>3, <2>5, <3>1 DEF OnTrack
  <2> QED BY <2>4, <2>5
<1>8. CASE s.pending = <<>>
  <2>1. InTurn(B, Turn(s, C), q)
    BY <1>4, <1>7, <1>8 DEF InTurn, Turn
  <2>2. OnTrack(B, scan(s, C), Len(B))
    BY <1>2, <1>3, <2>1, ScanKeeps
  <2>3. processChunk(s, C) = scan(s, C)
    BY <1>8 DEF processChunk
  <2> QED BY <1>1, <2>2, <2>3
<1>9. CASE s.pending # <<>>
  <2>1. PICK prefix : prefix = s.pending
    OBVIOUS
  <2>2. /\ s \in Scanners /\ ~s.discarding /\ s.discardTail = <<>>
        /\ prefix = SubSeq(B, P + 1, q) /\ Located(B, s.seen, EndedPlaces(B, q))
    BY <1>5, <1>7, <1>9, <2>1 DEF OnTrack
  <2>3. prefix \in Seq(Nat) /\ Len(prefix) = q - P
    <3>1. SubSeq(B, P + 1, q) \in Seq(Nat) /\ Len(SubSeq(B, P + 1, q)) = q - P
      <4>1. P \in Nat /\ q \in Nat /\ P <= q /\ q <= Len(B)
        BY <1>3, <1>6
      <4> QED BY <1>0, <4>1, SubSeqFacts
    <3> QED BY <2>2, <3>1
  <2>4. prefix \o C = From(B, P)
    <3>1. P \in Nat /\ q \in Nat /\ P <= q /\ q <= Len(B)
      BY <1>3, <1>6
    <3>2. SubSeq(B, P + 1, q) \o From(B, q) = From(B, P)
      BY <1>0, <3>1, Pieces
    <3> QED BY <1>4, <2>2, <3>2
  <2>5. \A i \in Nat, l \in {2, 4} : Begins(B)[q] <= i /\ Sep(B, i, l) => P <= i /\ q < i + l
    BY <1>2, <1>3, <1>5, Beyond
  <2>6. \A i \in Nat, l \in {2, 4} : Sep(From(B, P), i, l) => i + l > Len(prefix)
    <3> SUFFICES ASSUME NEW i \in Nat, NEW l \in {2, 4}, Sep(From(B, P), i, l)
                 PROVE  i + l > Len(prefix)
      OBVIOUS
    <3>1. PICK j : j = P + i
      OBVIOUS
    <3>2. j \in Nat /\ P <= j
      BY <1>6, <3>1
    <3>3. Sep(B, j, l)
      BY <1>2, <1>6, <3>1, SepShift
    <3>4. q < j + l
      BY <1>5, <2>5, <3>2, <3>3
    <3>5. Len(prefix) = q - P /\ P \in Nat /\ q \in Nat
      BY <1>3, <1>6, <2>3
    <3> QED BY <3>1, <3>4, <3>5
  <2>7. PICK b : b = nextJoinedEventBoundary(prefix, C)
    OBVIOUS
  <2>8. Finds(b, From(B, P))
    BY <2>3, <2>4, <2>6, <2>7, NextJoinedBoundary
  <2>9. CASE ~b.found
    <3>1. Begins(B)[Len(B)] = P /\ EndedPlaces(B, Len(B)) = EndedPlaces(B, q)
      <4>1. Begins(B)[q] <= P
        BY <1>5, <1>6
      <4>2. /\ Begins(B)[Len(B)] = Begins(B)[q]
            /\ EndedPlaces(B, Len(B)) = EndedPlaces(B, q)
        BY <1>2, <1>3, <1>6, <2>5, <2>8, <2>9, <4>1, NoEnd
      <4> QED BY <1>5, <4>2
    <3>2. P = Begins(B)[Len(B)] /\ Located(B, s.seen, EndedPlaces(B, Len(B)))
      BY <2>2, <3>1
    <3>3. CASE Len(From(B, P)) > maxPendingEventBytes
      <4>1. OnTrack(B, startDiscarding(s, prefix, C), Len(B))
        BY <1>2, <2>2, <2>4, <3>2, <3>3, StartsDiscarding
      <4>2. processChunk(s, C) = startDiscarding(s, prefix, C)
        BY <1>9, <2>1, <2>4, <2>7, <2>9, <3>3 DEF processChunk
      <4> QED BY <1>1, <4>1, <4>2
    <3>4. CASE ~(Len(From(B, P)) > maxPendingEventBytes)
      <4>1. Len(From(B, P)) <= maxPendingEventBytes
        <5>1. maxPendingEventBytes \in Nat /\ Len(From(B, P)) \in Int
          <6>1. Len(From(B, P)) = Len(B) - P
            BY <1>2, <1>6, FromFacts
          <6> QED BY <1>3, <1>6, <6>1, ScannerAssumption
        <5> QED BY <3>4, <5>1
      <4>2. OnTrack(B, [s EXCEPT !.pending = From(B, P)], Len(B))
        BY <1>2, <2>2, <3>2, <4>1, KeepsAll
      <4>3. processChunk(s, C) = [s EXCEPT !.pending = From(B, P)]
        BY <1>9, <2>1, <2>4, <2>7, <2>9, <3>4 DEF processChunk
      <4> QED BY <1>1, <4>2, <4>3
    <3> QED BY <3>3, <3>4
  <2>10. CASE b.found
    <3>1. PICK cleared : cleared = [s EXCEPT !.pending = <<>>]
      OBVIOUS
    <3>2. /\ cleared \in Scanners /\ ~cleared.discarding /\ cleared.pending = <<>>
          /\ cleared.discardTail = <<>> /\ cleared.seen = s.seen
      BY <2>2, <3>1 DEF Scanners
    <3>3. PICK t : t = IF b.idx > maxPendingEventBytes THEN cleared
                      ELSE processEvent(cleared, SubSeq(From(B, P), 1, b.idx))
      OBVIOUS
    <3>4. Located(B, cleared.seen, EndedPlaces(B, q))
      BY <2>2, <3>2
    <3>5. PICK e \in 1..Len(B) : /\ q < e /\ OnTrack(B, t, e) /\ t.pending = <<>>
                                 /\ From(From(B, P), b.idx + b.sepLen) = From(B, e)
      <4>1. q \in 0..Len(B)
        BY <1>3
      <4>2. cleared \in Scanners
        BY <3>2
      <4>3. ~cleared.discarding /\ cleared.pending = <<>> /\ cleared.discardTail = <<>>
        BY <3>2
      <4> QED BY <1>0, <1>5, <2>8, <2>10, <3>3, <3>4, <4>1, <4>2, <4>3, EventOver
    <3>6. processChunk(s, C) = scan(t, From(B, e))
      <4>1. AfterBoundary(prefix, C, b) = From(B, e)
        BY <2>4, <3>5 DEF AfterBoundary
      <4> QED BY <1>9, <2>1, <2>4, <2>7, <2>10, <3>1, <3>3, <4>1 DEF processChunk
    <3>7. InTurn(B, Turn(t, From(B, e)), e)
      BY <3>5 DEF InTurn, Turn
    <3>8. OnTrack(B, scan(t, From(B, e)), Len(B))
      <4>1. e \in 0..Len(B)
        BY <1>3
      <4> QED BY <1>0, <3>7, <4>1, ScanKeeps
    <3> QED BY <1>1, <3>6, <3>8
  <2>11. b.found \in BOOLEAN
    BY <2>8 DEF Finds
  <2> QED BY <2>9, <2>10, <2>11
<1> QED BY <1>8, <1>9

\* The end of the stream.
LEMMA CloseTells ==
    ASSUME NEW B \in Seq(Nat), NEW s, OnTrack(B, s, Len(B))
    PROVE  Located(B, processBufferedEvents(s, s.pending).seen, EventPlaces(B))
<1>1. PICK n, P, D : n = Len(B) /\ P = Begins(B)[n] /\ D = EndedPlaces(B, n)
  OBVIOUS
<1>2. n \in Nat /\ n \in 0..Len(B) /\ n <= Len(B)
  BY <1>1
<1>3. P \in Nat /\ P <= n
  BY <1>1, <1>2, BeginsFacts
<1>4. EventPlaces(B) = D \cup {<<P, n>>}
  BY <1>1 DEF EventPlaces
<1>5. s \in Scanners /\ Located(B, s.seen, D) /\ s.seen \in Seq(Seq(Nat))
  BY <1>1 DEF OnTrack, Scanners
<1>6. CASE s.discarding
  <2>1. s.pending = <<>> /\ n - P > maxPendingEventBytes
    BY <1>1, <1>6 DEF OnTrack
  <2>2. n - P > maxPendingEventBytes - maxBoundaryTailBytes
    BY <1>2, <1>3, <2>1, ScannerAssumption DEF maxBoundaryTailBytes
  <2>3. Located(B, s.seen, D \cup {<<P, n>>})
    BY <1>2, <1>3, <1>5, <2>2, LeavesOut
  <2>4. processBufferedEvents(s, <<>>) = processEvent(s, <<>>)
    <3>1. <<>> \in Seq(Nat) /\ \A i \in Nat, l \in {2, 4} : ~Sep(<<>>, i, l)
      BY DEF Sep
    <3> QED BY <3>1, BufferedEvent
  <2>5. processEvent(s, <<>>) = s
    BY DEF processEvent, HasData
  <2> QED BY <1>4, <2>1, <2>3, <2>4, <2>5
<1>7. CASE ~s.discarding
  <2>1. PICK pending : pending = s.pending
    OBVIOUS
  <2>2. pending = SubSeq(B, P + 1, n) /\ n - P <= maxPendingEventBytes
    BY <1>1, <1>7, <2>1 DEF OnTrack
  <2>3. pending \in Seq(Nat) /\ pending = From(B, P)
    <3>1. SubSeq(B, P + 1, n) \in Seq(Nat)
      BY <1>2, <1>3, SubSeqFacts
    <3>2. From(B, P) = SubSeq(B, P + 1, Len(B))
      BY <1>2, <1>3, Rest
    <3> QED BY <1>1, <2>2, <3>1, <3>2
  <2>4. ASSUME NEW i \in Nat, NEW l \in {2, 4} PROVE ~Sep(pending, i, l)
    <3>1. SUFFICES ASSUME Sep(pending, i, l) PROVE FALSE
      OBVIOUS
    <3>2. PICK j : j = P + i
      OBVIOUS
    <3>3. j \in Nat /\ P <= j /\ P <= Len(B)
      BY <1>2, <1>3, <3>2
    <3>4. Sep(B, j, l)
      BY <1>3, <2>3, <3>1, <3>2, <3>3, SepShift
    <3>5. n < j + l
      BY <1>1, <1>2, <3>3, <3>4, Beyond
    <3>6. j + l <= n
      BY <1>1, <3>4 DEF Sep
    <3> QED BY <1>2, <3>3, <3>5, <3>6
  <2>5. processBufferedEvents(s, pending) = processEvent(s, SubSeq(B, P + 1, n))
    BY <2>2, <2>3, <2>4, BufferedEvent
  <2>6. \A x \in D : x[2] \in Nat /\ x[2] < P
    BY <1>1, <1>2, PlacesBefore
  <2>7. LET t == processEvent(s, SubSeq(B, P + 1, n))
        IN  t.seen \in Seq(Seq(Nat)) /\ Located(B, t.seen, D \cup {<<P, n>>})
    BY <1>2, <1>3, <1>5, <2>2, <2>6, SeesNext
  <2> QED BY <1>4, <2>1, <2>5, <2>7
<1> QED BY <1>6, <1>7

-----------------------------------------------------------------------------
(* Until the stream ends the scanner is on its track. *)

ScannerInv ==
    /\ stream \in Seq(Nat) /\ ended \in BOOLEAN
    /\ ~ended => OnTrack(stream, scanner, Len(stream))
    /\ EventsExact

LEMMA ScannerInvariance == ScannerSpec => []ScannerInv
<1>1. ScannerInit => ScannerInv
  <2> SUFFICES ASSUME ScannerInit PROVE ScannerInv
    OBVIOUS
  <2>1. stream = <<>> /\ stream \in Seq(Nat) /\ Len(stream) = 0 /\ 0 \in 0..Len(stream) /\ ended = FALSE
    BY DEF ScannerInit
  <2>2. PICK s : s = scanner
    OBVIOUS
  <2>3. /\ s \in Scanners /\ ~s.discarding /\ s.pending = <<>> /\ s.discardTail = <<>>
        /\ s.seen = <<>>
    BY <2>2 DEF ScannerInit, Scanners
  <2>4. Begins(stream)[0] = 0
    BY <2>1, BeginsFacts
  <2>5. PICK D : D = EndedPlaces(stream, 0)
    OBVIOUS
  <2>6. \A x : x \notin D
    <3> SUFFICES ASSUME NEW x \in D PROVE FALSE
      OBVIOUS
    <3>1. x[2] \in Nat /\ x[2] < 0
      BY <2>1, <2>4, <2>5, PlacesBefore
    <3> QED BY <3>1
  <2>7. Located(stream, <<>>, D)
    <3>1. PICK none : none = [k \in {} |-> k]
      OBVIOUS
    <3>2. DOMAIN <<>> = {}
      OBVIOUS
    <3>3. none \in [DOMAIN <<>> -> D]
      BY <3>1, <3>2
    <3> QED BY <2>6, <3>2, <3>3 DEF Located
  <2>8. OnTrack(stream, s, 0)
    BY <2>1, <2>3, <2>4, <2>5, <2>7, AtStart
  <2> QED BY <2>1, <2>2, <2>8 DEF ScannerInv, EventsExact
<1>2. ScannerInv /\ [ScannerNext]_scannerVars => ScannerInv'
  <2> SUFFICES ASSUME ScannerInv, [ScannerNext]_scannerVars PROVE ScannerInv'
    OBVIOUS
  <2>1. PICK B, s : B = stream /\ s = scanner
    OBVIOUS
  <2>2. B \in Seq(Nat) /\ ended \in BOOLEAN /\ (~ended => OnTrack(B, s, Len(B)))
    BY <2>1 DEF ScannerInv
  <2>3. CASE ReadChunk
    <3>0. PICK n \in 1..(MaxStream - Len(stream)) :
            \E kinds \in [1..n -> {"data", "LF", "CR"}] :
               /\ stream' = stream \o Chunk(kinds)
               /\ scanner' = processChunk(scanner, Chunk(kinds))
      BY <2>3 DEF ReadChunk
    <3>1. PICK kinds \in [1..n -> {"data", "LF", "CR"}] :
            /\ stream' = stream \o Chunk(kinds)
            /\ scanner' = processChunk(scanner, Chunk(kinds))
      BY <3>0
    <3>2. PICK C : C = Chunk(kinds)
      OBVIOUS
    <3>3. C \in Seq(Nat)
      <4>1. n \in Nat /\ Len(stream) \in Nat
        BY <2>1, <2>2, ScannerAssumption
      <4>2. DOMAIN kinds = 1..n
        OBVIOUS
      <4>3. C = [k \in 1..n |-> IF kinds[k] = "data" THEN Data(Len(stream) + k)
                                ELSE IF kinds[k] = "LF" THEN LF ELSE CR]
        BY <3>2, <4>2 DEF Chunk
      <4>4. \A k \in 1..n : C[k] \in Nat
        BY <4>1, <4>3 DEF Data, LF, CR
      <4>5. C \in [1..n -> Nat]
        BY <4>3, <4>4
      <4> QED BY <4>1, <4>5
    <3>4. ~ended /\ ended' = ended
      BY <2>3 DEF ReadChunk
    <3>5. stream' = B \o C /\ scanner' = processChunk(s, C)
      BY <2>1, <3>1, <3>2
    <3>6. OnTrack(B \o C, processChunk(s, C), Len(B \o C))
      BY <2>2, <3>3, <3>4, ChunkKeeps
    <3>7. B \o C \in Seq(Nat)
      BY <2>2, <3>3
    <3>8. OnTrack(stream', scanner', Len(stream'))
      BY <3>5, <3>6
    <3> QED BY <2>2, <3>4, <3>5, <3>7, <3>8 DEF ScannerInv, EventsExact
  <2>4. CASE CloseScanner
    <3>1. ~ended /\ ended' = TRUE /\ stream' = B
      BY <2>1, <2>4 DEF CloseScanner
    <3>2. PICK r : r = processBufferedEvents(s, s.pending)
      OBVIOUS
    <3>3. scanner' = [r EXCEPT !.pending = <<>>]
      BY <2>1, <2>4, <3>2 DEF CloseScanner
    <3>4. Located(B, r.seen, EventPlaces(B))
      BY <2>2, <3>1, <3>2, CloseTells
    <3>5. scanner'.seen = r.seen
      BY <3>3
    <3>6. Located(stream', scanner'.seen, EventPlaces(stream'))
      BY <3>1, <3>4, <3>5
    <3> QED BY <2>2, <3>1, <3>6 DEF ScannerInv, EventsExact
  <2>5. CASE UNCHANGED scannerVars
    <3>1. stream' = stream /\ scanner' = scanner /\ ended' = ended
      BY <2>5 DEF scannerVars
    <3> QED BY <3>1 DEF ScannerInv, EventsExact
  <2> QED BY <2>3, <2>4, <2>5 DEF ScannerNext
<1> QED BY <1>1, <1>2, PTL DEF ScannerSpec

\* However the bytes are cut into chunks, the observers get the events of the
\* stream exactly, for every limit on an event and every length of the stream.
THEOREM EventsAreExact == ScannerSpec => []EventsExact
<1>1. ScannerInv => EventsExact
  BY DEF ScannerInv
<1> QED BY <1>1, ScannerInvariance, PTL
=============================================================================
