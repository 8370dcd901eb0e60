---------------------------- MODULE AnswerStreams ----------------------------
(* A streamed answer on its way from the provider to the client: the adapter
   of the provider (StreamConverters), the observers of usage, audit log and
   conversation around it (usage/stream_observer.go, auditlog/
   stream_observer.go, server/conversation_responses.go), and for
   /v1/messages one more converter outside (anthropicapi/stream.go), all
   driven by flushStream, which reads and writes until either side ends and
   leaves the rest to a deferred Close.

   The provider sends the events of its protocol, and may stop or fail
   anywhere.  Its calls come one after the other, each with id and name in
   its first delta.  Pings, signatures and message_stop change nothing and
   are left out.                                                             *)
EXTENDS StreamConverters

CONSTANTS
  MaxBlocks,          \* bound: content blocks of an answer
  MaxPieces,          \* bound: pieces the blocks are sent in
  MaxContentCapture   \* pieces the audit log keeps of an answer

ASSUME StreamsAssumption ==
  MaxBlocks \in Nat /\ MaxPieces \in Nat /\ MaxContentCapture \in Nat

VARIABLES
  dialect,    \* the provider's protocol
  endpoint,   \* the client's
  source,     \* the provider: "fresh", "blocks", "stopped", "counted", "done"; then "ended",
              \* or "cut" when its connection ends before its answer
  sent,       \* its blocks so far: type, id, body, and whether it is open
  stop,       \* its stop reason
  adapter,    \* the provider's converter; its buffer is not read yet
  messages,   \* the converter for /v1/messages
  client,     \* what the client has understood
  observed,   \* what the observers have seen
  log,        \* what they have written
  pipe        \* flushStream: "open", "error", "gone", and "closed" after Close

provider == <<source, sent, stop>>
streamVars == <<dialect, endpoint, provider, adapter, messages, client, observed, log, pipe>>

Routes == {<<"anthropic", "chat">>, <<"anthropic", "messages">>, <<"anthropic", "responses">>,
           <<"openai", "messages">>, <<"openai", "responses">>}

-----------------------------------------------------------------------------
(* The observers.  The audit log keeps text and tool arguments up to a limit. *)

NothingSeen ==
  [usage |-> NoUsage, text |-> <<>>, calls |-> <<>>, captured |-> 0, truncated |-> FALSE,
   completed |-> FALSE, output |-> <<>>]

\* The part of a piece that appendLimitedStreamText keeps.
Kept(o, piece) ==
  IF o.truncated THEN <<>>
  ELSE SubSeq(piece, 1, IF Len(piece) <= MaxContentCapture - o.captured THEN Len(piece)
                        ELSE MaxContentCapture - o.captured)

appendLimitedStreamText(o, piece) ==
  [o EXCEPT !.captured = @ + Len(Kept(o, piece)),
            !.truncated = @ \/ Len(Kept(o, piece)) < Len(piece)]

appendText(o, piece) == [appendLimitedStreamText(o, piece) EXCEPT !.text = @ \o Kept(o, piece)]

appendToolCall(o, delta) ==
  LET k == delta.index
      known == IF k \in DOMAIN o.calls THEN o.calls[k] ELSE [id |-> NoId, body |-> <<>>]
      fed == [id |-> IF known.id = NoId THEN delta.id ELSE known.id,
              body |-> known.body \o Kept(o, delta.arguments)]
  IN [appendLimitedStreamText(o, delta.arguments) EXCEPT !.calls = Put(@, k, fed)]

CacheUsage(o, usage) == IF usage = NoUsage THEN o ELSE [o EXCEPT !.usage = usage]

Observe(o, e) ==
  CASE e.type = "chunk" ->
         LET after[n \in 0..Len(e.calls)] ==
               IF n = 0 THEN appendText(CacheUsage(o, e.usage), e.content)
               ELSE appendToolCall(after[n - 1], e.calls[n])
         IN after[Len(e.calls)]
    [] e.type = "text.delta" -> appendText(o, e.piece)
    [] e.type = "response.completed" ->
         [CacheUsage(o, e.usage) EXCEPT !.completed = TRUE, !.output = e.output]
    [] OTHER -> o

\* OnStreamClose of the three: a call leaves a record if there is anything to
\* record; the turn of a conversation is its input and the output seen.
OnStreamClose ==
  [audit |-> Append(log.audit, [text |-> observed.text, calls |-> observed.calls,
                                truncated |-> observed.truncated]),
   usage |-> IF observed.usage = NoUsage THEN log.usage ELSE Append(log.usage, observed.usage),
   turns |-> IF endpoint = "responses" /\ observed.completed
             THEN Append(log.turns, observed.output) ELSE log.turns]

-----------------------------------------------------------------------------
(* What a client makes of the events; broken when they break its protocol.   *)

NothingRead ==
  [begun |-> FALSE, text |-> <<>>, blocks |-> <<>>, calls |-> <<>>, items |-> <<>>, open |-> FALSE,
   stop |-> Unset, usage |-> NoUsage, ended |-> FALSE, broken |-> FALSE]

Expect(c, condition) == [c EXCEPT !.broken = @ \/ ~condition \/ c.ended]

Block(type, id, body) == [type |-> type, id |-> id, body |-> body]

TextRead(c, type, piece) == IF type = "text" THEN [c EXCEPT !.text = @ \o piece] ELSE c

\* A piece of the text or the reasoning of a chat completion.
ChatText(c, type, piece) ==
  IF piece = <<>> THEN c
  ELSE IF c.blocks # <<>> /\ Last(c.blocks).type = type
  THEN [TextRead(c, type, piece) EXCEPT !.blocks[Len(c.blocks)].body = @ \o piece]
  ELSE [TextRead(c, type, piece) EXCEPT !.blocks = Append(@, Block(type, NoId, piece))]

\* calls says which block is the call with an index.
ChatCall(c, delta) ==
  IF delta.index < Len(c.calls)
  THEN [Expect(c, delta.id = NoId) EXCEPT !.blocks[c.calls[delta.index + 1]].body = @ \o delta.arguments]
  ELSE [Expect(c, delta.id # NoId /\ delta.index = Len(c.calls)) EXCEPT
          !.blocks = Append(@, Block("tool", delta.id, delta.arguments)),
          !.calls = Append(@, Len(c.blocks) + 1)]

ChatRead(c, e) ==
  IF e.type = "[DONE]" THEN [Expect(c, TRUE) EXCEPT !.ended = TRUE]
  ELSE LET finished == [Expect(c, e.finish = Unset \/ c.stop = Unset) EXCEPT
                          !.stop = IF e.finish = Unset THEN @ ELSE e.finish,
                          !.usage = IF e.usage = NoUsage THEN @ ELSE e.usage]
           texted == ChatText(ChatText(finished, "thinking", e.reasoning), "text", e.content)
           after[n \in 0..Len(e.calls)] ==
             IF n = 0 THEN texted ELSE ChatCall(after[n - 1], e.calls[n])
       IN after[Len(e.calls)]

MessagesRead(c, e) ==
  CASE e.type = "message_start" -> [Expect(c, ~c.begun) EXCEPT !.begun = TRUE]
    [] e.type = "content_block_start" ->
         [Expect(c, c.begun /\ ~c.open /\ c.stop = Unset /\ e.index = Len(c.blocks)) EXCEPT
            !.open = TRUE, !.blocks = Append(@, Block(e.block, e.id, <<>>))]
    [] e.type = "content_block_delta" ->
         [TextRead(Expect(c, c.open /\ e.index = Len(c.blocks) - 1 /\ e.block = Last(c.blocks).type),
                   e.block, e.piece) EXCEPT !.blocks[Len(c.blocks)].body = @ \o e.piece]
    [] e.type = "content_block_stop" ->
         [Expect(c, c.open /\ e.index = Len(c.blocks) - 1) EXCEPT !.open = FALSE]
    [] e.type = "message_delta" ->
         [Expect(c, c.begun /\ ~c.open /\ c.stop = Unset) EXCEPT !.stop = e.stop, !.usage = e.usage]
    [] e.type = "message_stop" -> [Expect(c, c.stop # Unset) EXCEPT !.ended = TRUE]

\* The items of a response in the order of their output index, the message
\* first.  The arguments of a call are announced with the item, sent piece by
\* piece, and repeated at its end.  After response.completed only [DONE] comes.
OpenAt(c, index, item) ==
  /\ c.stop = Unset
  /\ index + 1 \in DOMAIN c.items
  /\ c.items[index + 1].item = item
  /\ ~c.items[index + 1].done

ItemAdded(c, e) ==
  [Expect(c, c.begun /\ c.stop = Unset /\ e.index = Len(c.items) /\ (e.item = "message" => e.index = 0)) EXCEPT
     !.items = Append(@, [item |-> e.item, id |-> e.id, announced |-> e.body, body |-> <<>>, done |-> FALSE])]

ItemDone(c, e) ==
  LET item == c.items[e.index + 1] IN
  IF ~OpenAt(c, e.index, e.item) THEN Expect(c, FALSE)
  ELSE [Expect(c, e.id = item.id /\ e.body \in {item.body, item.announced \o item.body}) EXCEPT
          !.items[e.index + 1].body = e.body, !.items[e.index + 1].done = TRUE]

Fed(c, index, item, piece) ==
  IF OpenAt(c, index, item) THEN [Expect(c, TRUE) EXCEPT !.items[index + 1].body = @ \o piece]
  ELSE Expect(c, FALSE)

ResponsesRead(c, e) ==
  CASE e.type = "response.created" -> [Expect(c, ~c.begun /\ c.stop = Unset) EXCEPT !.begun = TRUE]
    [] e.type = "item.added" -> ItemAdded(c, e)
    [] e.type = "item.done" -> ItemDone(c, e)
    [] e.type = "text.delta" -> TextRead(Fed(c, 0, "message", e.piece), "text", e.piece)
    [] e.type = "arguments.delta" -> Fed(c, e.index, "function_call", e.piece)
    [] e.type = "arguments.done" -> Expect(c, OpenAt(c, e.index, "function_call"))
    [] e.type = "response.completed" -> [Expect(c, c.stop = Unset) EXCEPT !.stop = "completed", !.usage = e.usage]
    [] e.type = "[DONE]" -> [Expect(c, c.stop # Unset) EXCEPT !.ended = TRUE]

Reads(c, e) ==
  CASE endpoint = "chat" -> ChatRead(c, e)
    [] endpoint = "messages" -> MessagesRead(c, e)
    [] endpoint = "responses" -> ResponsesRead(c, e)

-----------------------------------------------------------------------------
(* An answer, block by block: its text, its calls, its blocks as /v1/messages
   shows them, without empty texts and with neighbours of one kind as one, the
   size of what the audit log keeps of it, and its pieces.                   *)

NothingSaid == [text |-> <<>>, calls |-> <<>>, shown |-> <<>>, size |-> 0, pieces |-> 0]

Shown(blocks, b) ==
  IF b.type # "tool" /\ b.body = <<>> THEN blocks
  ELSE IF b.type # "tool" /\ blocks # <<>> /\ Last(blocks).type = b.type
  THEN [blocks EXCEPT ![Len(blocks)].body = @ \o b.body]
  ELSE Append(blocks, Block(b.type, b.id, b.body))

Said(answer, b) ==
  [text |-> IF b.type = "text" THEN answer.text \o b.body ELSE answer.text,
   calls |-> IF b.type = "tool" THEN Append(answer.calls, [id |-> b.id, body |-> b.body])
             ELSE answer.calls,
   shown |-> Shown(answer.shown, b),
   size |-> IF b.type = "thinking" THEN answer.size ELSE answer.size + Len(b.body),
   pieces |-> answer.pieces + Len(b.body)]

AnswerOf(blocks) ==
  LET after[n \in 0..Len(blocks)] == IF n = 0 THEN NothingSaid ELSE Said(after[n - 1], blocks[n])
  IN after[Len(blocks)]

-----------------------------------------------------------------------------
(* The provider. *)

Adapted(e) ==
  CASE dialect = "anthropic" /\ endpoint # "responses" -> ChatFromAnthropic(adapter, e)
    [] dialect = "anthropic" /\ endpoint = "responses" -> ResponsesFromAnthropic(adapter, e)
    [] dialect = "openai" /\ endpoint = "responses" -> ResponsesFromChat(adapter, e)
    [] OTHER -> emit(adapter, e)

\* A converter reads on when what it wrote was read.
AllRead == pipe = "open" /\ adapter.buffer = <<>> /\ messages.buffer = <<>>

Feed(e) ==
  /\ AllRead
  /\ adapter' = Adapted(e)
  /\ UNCHANGED <<dialect, endpoint, messages, client, observed, log, pipe>>

Open == sent # <<>> /\ Last(sent).open
Answer == AnswerOf(sent)
Piece == <<Answer.pieces + 1>>

Begun(type, body, open) ==
  Append(sent, [type |-> type, id |-> IF type = "tool" THEN Len(sent) + 1 ELSE NoId,
                body |-> body, open |-> open])

\* Arguments take the place of the empty object.
Continued(piece) == [sent EXCEPT ![Len(sent)].body = IF @ = <<Empty>> THEN piece ELSE @ \o piece]

Reasons == IF Answer.calls = <<>> THEN {"end_turn", "max_tokens"} ELSE {"tool_use", "max_tokens"}
Total == [input |-> 3, output |-> 2]

AnthropicStart ==
  /\ source = "fresh" /\ source' = "blocks"
  /\ Feed([type |-> "message_start", usage |-> [input |-> 3, output |-> 1]])
  /\ UNCHANGED <<sent, stop>>

AnthropicBlockStart(type, input) ==
  /\ source = "blocks" /\ ~Open /\ Len(sent) < MaxBlocks
  /\ sent' = Begun(type, input, TRUE)
  /\ Feed([type |-> "content_block_start", index |-> Len(sent), block |-> type,
           id |-> Last(sent').id, input |-> input])
  /\ UNCHANGED <<source, stop>>

AnthropicBlockDelta ==
  /\ Open /\ Answer.pieces < MaxPieces
  /\ sent' = Continued(Piece)
  /\ Feed([type |-> "content_block_delta", index |-> Len(sent) - 1, block |-> Last(sent).type,
           piece |-> Piece])
  /\ UNCHANGED <<source, stop>>

AnthropicBlockStop ==
  /\ Open
  /\ sent' = [sent EXCEPT ![Len(sent)].open = FALSE]
  /\ Feed([type |-> "content_block_stop", index |-> Len(sent) - 1])
  /\ UNCHANGED <<source, stop>>

AnthropicStop(reason) ==
  /\ source = "blocks" /\ ~Open
  /\ source' = "done" /\ stop' = reason
  /\ Feed([type |-> "message_delta", stop |-> reason, usage |-> [input |-> 0, output |-> 2]])
  /\ UNCHANGED sent

Anthropic ==
  /\ dialect = "anthropic" /\ source \in {"fresh", "blocks"}
  /\ \/ AnthropicStart
     \/ \E type \in {"thinking", "text"} : AnthropicBlockStart(type, <<>>)
     \/ \E input \in {<<>>, <<Empty>>, Piece} : AnthropicBlockStart("tool", input)
     \/ AnthropicBlockDelta
     \/ AnthropicBlockStop
     \/ \E reason \in Reasons : AnthropicStop(reason)

Finish == [end_turn |-> "stop", max_tokens |-> "length", tool_use |-> "tool_calls"]

\* A piece of text or reasoning begins a block where none of its type is last.
OpenAIText(type) ==
  /\ Answer.pieces < MaxPieces
  /\ IF sent # <<>> /\ Last(sent).type = type
     THEN sent' = Continued(Piece)
     ELSE Len(sent) < MaxBlocks /\ sent' = Begun(type, Piece, FALSE)
  /\ Feed(IF type = "text" THEN [NoChunk EXCEPT !.content = Piece] ELSE [NoChunk EXCEPT !.reasoning = Piece])
  /\ UNCHANGED <<source, stop>>

\* A call, which may be the end of the answer.
OpenAICall(arguments, last) ==
  /\ Len(sent) < MaxBlocks
  /\ sent' = Begun("tool", arguments, FALSE)
  /\ source' = IF last THEN "stopped" ELSE source
  /\ stop' = IF last THEN "tool_use" ELSE stop
  /\ Feed([NoChunk EXCEPT !.calls = <<CallDelta(Len(Answer.calls), Last(sent').id, arguments)>>,
                          !.finish = IF last THEN Finish["tool_use"] ELSE Unset])

OpenAIArguments ==
  /\ sent # <<>> /\ Last(sent).type = "tool" /\ Answer.pieces < MaxPieces
  /\ sent' = Continued(Piece)
  /\ Feed([NoChunk EXCEPT !.calls = <<CallDelta(Len(Answer.calls) - 1, NoId, Piece)>>])
  /\ UNCHANGED <<source, stop>>

OpenAIStop(reason) ==
  /\ source' = "stopped" /\ stop' = reason
  /\ Feed([NoChunk EXCEPT !.finish = Finish[reason]])
  /\ UNCHANGED sent

\* The usage comes in a chunk of its own, and [DONE] ends the answer.
OpenAIEnd ==
  \/ source = "stopped" /\ source' = "counted" /\ Feed([NoChunk EXCEPT !.usage = Total])
  \/ source = "counted" /\ source' = "done" /\ Feed(Done)

OpenAI ==
  /\ dialect = "openai"
  /\ \/ /\ source = "blocks"
        /\ \/ \E type \in {"thinking", "text"} : OpenAIText(type)
           \/ \E arguments \in {<<>>, Piece}, last \in BOOLEAN : OpenAICall(arguments, last)
           \/ OpenAIArguments
           \/ \E reason \in Reasons : OpenAIStop(reason)
     \/ OpenAIEnd /\ UNCHANGED <<sent, stop>>

\* The connection ends, after the whole answer or before.
EndOfSource ==
  /\ source \notin {"ended", "cut"}
  /\ source' = IF source = "done" THEN "ended" ELSE "cut"
  /\ Feed([type |-> "EOF"])
  /\ UNCHANGED <<sent, stop>>

-----------------------------------------------------------------------------
(* The handler. *)

\* The client gets an event, or has left and the write fails.
Deliver(e) ==
  \/ client' = Reads(client, e) /\ UNCHANGED pipe
  \/ pipe' = "gone" /\ UNCHANGED client

\* The next event of the adapter passes the observers.
Pass ==
  /\ pipe = "open" /\ messages.buffer = <<>> /\ adapter.buffer # <<>>
  /\ LET e == Head(adapter.buffer) IN
     /\ observed' = Observe(observed, e)
     /\ IF endpoint = "messages"
        THEN messages' = MessagesFromChat(messages, e) /\ UNCHANGED <<client, pipe>>
        ELSE Deliver(e) /\ UNCHANGED messages
  /\ adapter' = [adapter EXCEPT !.buffer = Tail(@)]
  /\ UNCHANGED <<dialect, endpoint, provider, log>>

Write ==
  /\ pipe = "open" /\ messages.buffer # <<>>
  /\ Deliver(Head(messages.buffer))
  /\ messages' = [messages EXCEPT !.buffer = Tail(@)]
  /\ UNCHANGED <<dialect, endpoint, provider, adapter, observed, log>>

ReadFails ==
  /\ AllRead /\ source \notin {"ended", "cut"}
  /\ pipe' = "error"
  /\ UNCHANGED <<dialect, endpoint, provider, adapter, messages, client, observed, log>>

\* Read returns EOF: after [DONE] for /v1/messages, else at the provider's.
EndOfStream ==
  /\ AllRead
  /\ IF endpoint = "messages" THEN messages.finalized ELSE source \in {"ended", "cut"}

\* The deferred Close, from the outer layer to the inner one.
CloseStream ==
  /\ pipe \in {"error", "gone"} \/ EndOfStream
  /\ pipe' = "closed"
  /\ messages' = [messages EXCEPT !.closed = TRUE]
  /\ log' = IF endpoint = "messages" /\ messages.closed THEN log ELSE OnStreamClose
  /\ UNCHANGED <<dialect, endpoint, provider, adapter, client, observed>>

StreamsInit ==
  /\ \E route \in Routes : dialect = route[1] /\ endpoint = route[2]
  /\ source = IF dialect = "anthropic" THEN "fresh" ELSE "blocks"
  /\ sent = <<>> /\ stop = Unset
  /\ adapter = CASE <<dialect, endpoint>> = <<"anthropic", "responses">> -> NewResponsesOutputEventState
                 [] <<dialect, endpoint>> = <<"openai", "responses">> -> NewOpenAIResponsesStreamConverter
                 [] dialect = "anthropic" /\ endpoint # "responses" -> newStreamConverter
                 [] OTHER -> [buffer |-> <<>>]
  /\ messages = NewStreamConverter
  /\ client = NothingRead /\ observed = NothingSeen
  /\ log = [audit |-> <<>>, usage |-> <<>>, turns |-> <<>>]
  /\ pipe = "open"

StreamsNext == Anthropic \/ OpenAI \/ EndOfSource \/ Pass \/ Write \/ ReadFails \/ CloseStream

StreamsSpec == StreamsInit /\ [][StreamsNext]_streamVars

-----------------------------------------------------------------------------
(* Properties *)

\* Text that follows a tool call has no place of its own in a response.
TextAfterCall == \E m, n \in DOMAIN sent : m < n /\ sent[m].type = "tool" /\ sent[n].type = "text"
Exempt == endpoint = "responses" /\ TextAfterCall

Whole == client.ended /\ stop # Unset /\ source # "cut"

\* The items of a response with an answer: its text, if it has any or nothing
\* else, and its calls, all of them done.
ItemsTell(items, answer) ==
  LET first == IF items # <<>> /\ items[1].item = "message" THEN 1 ELSE 0 IN
  /\ IF first = 1 THEN items[1].body = answer.text ELSE answer.text = <<>>
  /\ Len(items) = first + Len(answer.calls)
  /\ \A k \in DOMAIN answer.calls :
       /\ items[first + k].item = "function_call"
       /\ items[first + k].id = answer.calls[k].id /\ items[first + k].body = answer.calls[k].body
  /\ \A n \in DOMAIN items : items[n].done

\* The converters end a response that is cut off with response.completed and
\* [DONE] like a whole one.  The one for Anthropic does so even before
\* message_start, and leaves a call open that content_block_stop did not close.
CutBeforeStart == dialect = "anthropic" /\ source = "cut" /\ sent = <<>>
CutInCall == dialect = "anthropic" /\ source = "cut" /\ Open /\ Last(sent).type = "tool"

\* Everywhere else a response that has ended had begun, and its items are done.
EndsInOrder ==
  endpoint = "responses" /\ client.ended =>
    /\ client.begun \/ CutBeforeStart
    /\ \A n \in DOMAIN client.items :
         client.items[n].done \/ (n = Len(client.items) /\ CutInCall)

\* Whatever the provider sends, and wherever it breaks off, the client sees a
\* stream of its own protocol: at most one beginning, before everything else;
\* blocks and items that are opened once and in order, fed while they are open
\* and closed once, their parts in agreement; one end and nothing after it;
\* and its text is the beginning of the provider's.  A response that ends had
\* begun and has closed its items, unless it was cut at the two places above.
StreamWellFormed ==
  Exempt \/ (~client.broken /\ IsPrefix(client.text, Answer.text) /\ EndsInOrder)

\* A whole answer arrives whole: the texts, the reasoning where the protocol
\* has it, every call with its id and its arguments, the reason of the stop,
\* and the tokens.
AnswerArrives ==
  Whole /\ ~Exempt =>
    /\ IF endpoint = "responses" THEN ItemsTell(client.items, Answer) ELSE client.blocks = Answer.shown
    /\ client.usage = Total
    /\ client.stop = CASE endpoint = "chat" -> Finish[stop]
                       [] endpoint = "messages" -> IF Answer.calls # <<>> THEN "tool_use" ELSE stop
                       [] endpoint = "responses" -> "completed"

\* The pieces an audit entry has: of the text, and of the calls up to MaxBlocks.
PiecesKept(entry) ==
  LET upTo[k \in 0..MaxBlocks] ==
        IF k = 0 THEN Len(entry.text)
        ELSE upTo[k - 1] + (IF k - 1 \in DOMAIN entry.calls THEN Len(entry.calls[k - 1].body) ELSE 0)
  IN upTo[MaxBlocks]

\* Every stream leaves one audit entry, with what passed of the answer up to
\* the limit, and says when it was more; at most one usage entry, and one with
\* the whole answer's tokens when the client got it whole; and one turn of the
\* conversation then.  However the stream ends, Close reaches the observers.
RecordedOnce ==
  IF pipe # "closed" THEN log.audit = <<>> /\ log.usage = <<>> /\ log.turns = <<>>
  ELSE /\ Len(log.audit) = 1 /\ Len(log.usage) <= 1 /\ Len(log.turns) <= 1
       /\ IsPrefix(log.audit[1].text, Answer.text)
       /\ Whole =>
            LET entry == log.audit[1]
                size == IF endpoint = "responses" THEN Len(Answer.text) ELSE Answer.size
                known == IF endpoint = "responses" THEN 0 ELSE Len(Answer.calls)
            IN /\ DOMAIN entry.calls = 0..(known - 1)
               /\ \A k \in 1..known : /\ entry.calls[k - 1].id = Answer.calls[k].id
                                      /\ IsPrefix(entry.calls[k - 1].body, Answer.calls[k].body)
               /\ PiecesKept(entry) = IF size <= MaxContentCapture THEN size ELSE MaxContentCapture
               /\ entry.truncated <=> size > MaxContentCapture
               /\ log.usage = <<Total>>
               /\ Len(log.turns) = IF endpoint = "responses" THEN 1 ELSE 0

\* The turn that is appended to a conversation, when the client has got the
\* whole of a streamed answer, holds what the model answered ("the new exchange
\* (user input + model output) is appended to the store afterwards",
\* server/conversation_responses.go:16).
TurnIsWhole ==
  client.ended /\ source # "cut" /\ Answer.text # <<>> =>
    \A n \in DOMAIN log.turns : log.turns[n] # <<>>
=============================================================================
