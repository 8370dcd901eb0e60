---------------------------- MODULE EventScanner -----------------------------
(* How the observers find the events in a stream (internal/streaming/
   observed_sse_stream.go): the bytes arrive in chunks that end anywhere, an
   event ends at an empty line in either convention, and of an event that is
   too long the scanner keeps three bytes, to see its end.

   A byte is LF, CR or a byte of data, which is told from the others by its
   place in the stream.                                                      *)
EXTENDS Naturals, Sequences, SequencesExt, FiniteSetsExt

CONSTANTS
  maxPendingEventBytes,
  MaxStream              \* bound: bytes of the stream

maxBoundaryTailBytes == 3

ASSUME ScannerAssumption ==
  maxPendingEventBytes \in Nat /\ maxPendingEventBytes > maxBoundaryTailBytes /\ MaxStream \in Nat

VARIABLES
  stream,    \* the bytes so far
  scanner,   \* pending, discarding, discardTail, and the events given to the observers
  ended

scannerVars == <<stream, scanner, ended>>

LF == 0
CR == 1
Data(n) == n + 2
Boundaries == {<<LF, LF>>, <<CR, LF, CR, LF>>}

-----------------------------------------------------------------------------
(* Boundaries; an index counts the bytes before it. *)

NoBoundary == [found |-> FALSE, idx |-> 0, sepLen |-> 0]
At(data, idx, boundary) == SubSeq(data, idx + 1, idx + Len(boundary)) = boundary
First(hits) ==
  IF hits = {} THEN NoBoundary ELSE CHOOSE h \in hits : \A g \in hits : h.idx <= g.idx

\* The first boundary among those that begin at one of the places.
FirstAt(data, places) ==
  First({[found |-> TRUE, idx |-> hit[1], sepLen |-> Len(hit[2])] :
           hit \in {h \in places \X Boundaries :
                      h[1] + Len(h[2]) <= Len(data) /\ At(data, h[1], h[2])}})

nextEventBoundary(data) == FirstAt(data, 0..Len(data))

\* Bug: only a boundary that begins with the last byte is seen across the join.
nextJoinedEventBoundaryLastByte(prefix, data) ==
  FirstAt(prefix \o data, (IF prefix = <<>> THEN 0 ELSE Len(prefix) - 1)..(Len(prefix) + Len(data)))

\* A boundary across the join begins within the last three bytes.
nextJoinedEventBoundary(prefix, data) ==
  LET start == IF Len(prefix) > maxBoundaryTailBytes THEN Len(prefix) - maxBoundaryTailBytes ELSE 0
      across == {h \in (start..Len(prefix)) \X Boundaries : h[1] + Len(h[2]) > Len(prefix)}
      joined == prefix \o data
  IN First({[found |-> TRUE, idx |-> h[1], sepLen |-> Len(h[2])] :
              h \in {h \in across \cup ((Len(prefix)..Len(joined)) \X Boundaries) :
                       h[1] + Len(h[2]) <= Len(joined) /\ At(joined, h[1], h[2])}})

From(data, n) == SubSeq(data, n + 1, Len(data))

\* What is left of data behind a boundary in prefix and data.
AfterBoundary(prefix, data, b) == From(prefix \o data, b.idx + b.sepLen)

joinedSuffix(prefix, data, n) ==
  LET joined == prefix \o data IN From(joined, IF Len(joined) > n THEN Len(joined) - n ELSE 0)

-----------------------------------------------------------------------------
(* The scanner. *)

HasData(event) == \E n \in DOMAIN event : event[n] \notin {LF, CR}

processEvent(s, event) == IF HasData(event) THEN [s EXCEPT !.seen = Append(@, event)] ELSE s

startDiscarding(s, prefix, data) ==
  [s EXCEPT !.pending = <<>>, !.discarding = TRUE,
            !.discardTail = joinedSuffix(prefix, data, maxBoundaryTailBytes)]

savePending(s, data) ==
  IF Len(data) > maxPendingEventBytes THEN startDiscarding(s, <<>>, data)
  ELSE [s EXCEPT !.pending = data]

\* One turn of the loop over the bytes behind the pending ones.
Turn(s, rest) == [scanner |-> s, rest |-> rest]

scanNext(turn) ==
  LET s == turn.scanner
      data == turn.rest
      end == nextJoinedEventBoundary(s.discardTail, data)
      b == nextEventBoundary(data)
  IN IF data = <<>> THEN turn
     ELSE IF s.discarding /\ ~end.found
     THEN Turn([s EXCEPT !.discardTail = joinedSuffix(@, data, maxBoundaryTailBytes)], <<>>)
     ELSE IF s.discarding
     THEN Turn([s EXCEPT !.discarding = FALSE, !.discardTail = <<>>],
               AfterBoundary(s.discardTail, data, end))
     ELSE IF ~b.found THEN Turn(savePending(s, data), <<>>)
     ELSE Turn(IF b.idx > maxPendingEventBytes THEN s ELSE processEvent(s, SubSeq(data, 1, b.idx)),
               From(data, b.idx + b.sepLen))

\* The loop; every turn takes a byte at least.
scan(s, data) ==
  LET turns[k \in 0..Len(data)] == IF k = 0 THEN Turn(s, data) ELSE scanNext(turns[k - 1])
  IN turns[Len(data)].scanner

processChunk(s, data) ==
  LET b == nextJoinedEventBoundary(s.pending, data)
      joined == s.pending \o data
      cleared == [s EXCEPT !.pending = <<>>]
  IN IF s.pending = <<>> THEN scan(s, data)
     ELSE IF ~b.found /\ Len(joined) > maxPendingEventBytes THEN startDiscarding(s, s.pending, data)
     ELSE IF ~b.found THEN [s EXCEPT !.pending = joined]
     ELSE scan(IF b.idx > maxPendingEventBytes THEN cleared
               ELSE processEvent(cleared, SubSeq(joined, 1, b.idx)),
               AfterBoundary(s.pending, data, b))

bufferedNext(turn) ==
  LET s == turn.scanner
      data == turn.rest
      b == nextEventBoundary(data)
  IN IF data = <<>> THEN turn
     ELSE IF ~b.found THEN Turn(processEvent(s, data), <<>>)
     ELSE Turn(processEvent(s, SubSeq(data, 1, b.idx)), From(data, b.idx + b.sepLen))

processBufferedEvents(s, data) ==
  LET turns[k \in 0..Len(data)] == IF k = 0 THEN Turn(s, data) ELSE bufferedNext(turns[k - 1])
  IN turns[Len(data)].scanner

-----------------------------------------------------------------------------
\* The next chunk, of any length.
Chunk(kinds) == [n \in DOMAIN kinds |-> IF kinds[n] = "data" THEN Data(Len(stream) + n)
                                        ELSE IF kinds[n] = "LF" THEN LF ELSE CR]

ReadChunk ==
  /\ ~ended
  /\ \E n \in 1..(MaxStream - Len(stream)) : \E kinds \in [1..n -> {"data", "LF", "CR"}] :
       /\ stream' = stream \o Chunk(kinds)
       /\ scanner' = processChunk(scanner, Chunk(kinds))
  /\ UNCHANGED ended

CloseScanner ==
  /\ ~ended /\ ended' = TRUE
  /\ scanner' = [processBufferedEvents(scanner, scanner.pending) EXCEPT !.pending = <<>>]
  /\ UNCHANGED stream

ScannerInit ==
  /\ stream = <<>> /\ ended = FALSE
  /\ scanner = [pending |-> <<>>, discarding |-> FALSE, discardTail |-> <<>>, seen |-> <<>>]

ScannerNext == ReadChunk \/ CloseScanner

ScannerSpec == ScannerInit /\ [][ScannerNext]_scannerVars

-----------------------------------------------------------------------------
(* Properties *)

\* A stream that is read at once: where the event begins that is under way
\* after n bytes.  An event ends at the first boundary behind its beginning.
EndsAt(bytes, begin, n, b) == begin + Len(b) <= n /\ At(bytes, n - Len(b), b)
Begins(bytes) ==
  LET begin[n \in 0..Len(bytes)] ==
        IF n = 0 THEN 0
        ELSE IF \E b \in Boundaries : EndsAt(bytes, begin[n - 1], n, b) THEN n
        ELSE begin[n - 1]
  IN begin

\* From where to where its events are: those that end within n bytes, and all.
EndedPlaces(bytes, n) ==
  {<<Begins(bytes)[c[1] - 1], c[1] - Len(c[2])>> :
     c \in {d \in (1..n) \X Boundaries : EndsAt(bytes, Begins(bytes)[d[1] - 1], d[1], d[2])}}
EventPlaces(bytes) == EndedPlaces(bytes, Len(bytes)) \cup {<<Begins(bytes)[Len(bytes)], Len(bytes)>>}

\* What the observers were given, and where it was in the stream.
Located(bytes, seen, places) ==
  \E at \in [DOMAIN seen -> places] :
    /\ \A k \in DOMAIN seen :
         /\ seen[k] = SubSeq(bytes, at[k][1] + 1, at[k][2])
         /\ HasData(seen[k]) /\ Len(seen[k]) <= maxPendingEventBytes
    /\ \A j, k \in DOMAIN seen : j < k => at[j][2] < at[k][1]
    /\ \A p \in places :
         HasData(SubSeq(bytes, p[1] + 1, p[2])) /\ p[2] - p[1] <= maxPendingEventBytes - maxBoundaryTailBytes
           => \E k \in DOMAIN seen : at[k] = p

\* Wherever the chunks end, the observers get the events of the stream, each
\* once and in order; of those, a too long one never, and one that ends within
\* three bytes of the limit perhaps not.
EventsExact == ended => Located(stream, scanner.seen, EventPlaces(stream))
=============================================================================
