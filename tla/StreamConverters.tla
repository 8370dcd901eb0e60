-------------------------- MODULE StreamConverters --------------------------
(* The converters between the streaming dialects, one SSE event at a time:

     Anthropic -> chat        internal/providers/anthropic/chat_stream.go
     Anthropic -> Responses   internal/providers/anthropic/responses.go
     chat -> Responses        internal/providers/responses_converter.go
     chat -> Messages         internal/anthropicapi/stream.go

   A converter is a record, and handling an event is an operator from one
   record to the next; what it writes is appended to the record's buffer, from
   which the layer above reads.  Text and tool arguments are sequences of
   pieces, and Empty is the empty JSON object, which a tool call without
   arguments begins with; an id is a number, and NoId stands for none, as
   Unset does for a reason or a type.                                        *)
EXTENDS Naturals, Sequences, SequencesExt

Empty == 0
NoId == 0
Unset == ""
NoUsage == [input |-> 0, output |-> 0]

\* A map with one entry more, or with another value for it.
Put(map, key, value) ==
  [k \in DOMAIN map \cup {key} |-> IF k = key THEN value ELSE map[k]]

emit(sc, event) == [sc EXCEPT !.buffer = Append(@, event)]

-----------------------------------------------------------------------------
(* Chat completion chunks.  A tool call delta names its call by index, and has
   the id and name in the first delta only.                                  *)

NoChunk == [type |-> "chunk", reasoning |-> <<>>, content |-> <<>>, calls |-> <<>>,
            finish |-> Unset, usage |-> NoUsage]
Done == [type |-> "[DONE]"]

CallDelta(index, id, arguments) == [index |-> index, id |-> id, arguments |-> arguments]

-----------------------------------------------------------------------------
(* Anthropic -> chat. *)

newStreamConverter ==
  [buffer |-> <<>>, calls |-> <<>>, next |-> 0, thinking |-> {}, usage |-> NoUsage,
   emittedToolCalls |-> FALSE]

\* Counts that are missing or zero leave the earlier ones.
mergeAnthropicUsage(usage, new) ==
  [field \in {"input", "output"} |-> IF new[field] # 0 THEN new[field] ELSE usage[field]]

emitCall(sc, delta) == emit([sc EXCEPT !.emittedToolCalls = TRUE], [NoChunk EXCEPT !.calls = <<delta>>])

ChatMessageStart(sc, e) ==
  emit([sc EXCEPT !.usage = mergeAnthropicUsage(@, e.usage)], NoChunk)

\* A tool call that begins with the placeholder is held back until its
\* arguments, or its end, are known.
ChatBlockStart(sc, e) ==
  LET held == e.input = <<Empty>>
      call == [index |-> sc.next, id |-> e.id, started |-> ~held]
      opened == [sc EXCEPT !.next = @ + 1, !.calls = Put(@, e.index, call)]
  IN CASE e.block = "thinking" -> [sc EXCEPT !.thinking = @ \cup {e.index}]
       [] e.block = "tool" /\ held -> opened
       [] e.block = "tool" /\ ~held -> emitCall(opened, CallDelta(call.index, e.id, e.input))
       [] OTHER -> sc

\* Bug: the deltas of a tool call find it by its place among the content blocks.
ChatBlockDeltaByBlock(sc, e) ==
  CASE e.block = "thinking" /\ e.index \in sc.thinking -> emit(sc, [NoChunk EXCEPT !.reasoning = e.piece])
    [] e.block = "text" -> emit(sc, [NoChunk EXCEPT !.content = e.piece])
    [] e.block = "tool" /\ e.index \in DOMAIN sc.calls ->
         LET call == sc.calls[e.index] IN
         emitCall([sc EXCEPT !.calls[e.index].started = TRUE],
                  CallDelta(e.index, IF call.started THEN NoId ELSE call.id, e.piece))
    [] OTHER -> sc

ChatBlockDelta(sc, e) ==
  CASE e.block = "thinking" /\ e.index \in sc.thinking -> emit(sc, [NoChunk EXCEPT !.reasoning = e.piece])
    [] e.block = "text" -> emit(sc, [NoChunk EXCEPT !.content = e.piece])
    [] e.block = "tool" /\ e.index \in DOMAIN sc.calls ->
         LET call == sc.calls[e.index] IN
         emitCall([sc EXCEPT !.calls[e.index].started = TRUE],
                  CallDelta(call.index, IF call.started THEN NoId ELSE call.id, e.piece))
    [] OTHER -> sc

ChatBlockStop(sc, e) ==
  IF e.index \in DOMAIN sc.calls /\ ~sc.calls[e.index].started
  THEN emitCall([sc EXCEPT !.calls[e.index].started = TRUE],
                CallDelta(sc.calls[e.index].index, sc.calls[e.index].id, <<Empty>>))
  ELSE sc

normalizeAnthropicStopReason(reason) ==
  CASE reason = "tool_use" -> "tool_calls"
    [] reason = "end_turn" -> "stop"
    [] reason = "max_tokens" -> "length"
    [] OTHER -> reason

mapStreamStopReason(sc, reason) ==
  IF reason = "tool_use" /\ ~sc.emittedToolCalls THEN reason ELSE normalizeAnthropicStopReason(reason)

ChatMessageDelta(sc, e) ==
  LET usage == mergeAnthropicUsage(sc.usage, e.usage) IN
  emit([sc EXCEPT !.usage = usage],
       [NoChunk EXCEPT !.finish = mapStreamStopReason(sc, e.stop), !.usage = usage])

ChatFromAnthropic(sc, e) ==
  CASE e.type = "message_start" -> ChatMessageStart(sc, e)
    [] e.type = "content_block_start" -> ChatBlockStart(sc, e)
    [] e.type = "content_block_delta" -> ChatBlockDelta(sc, e)
    [] e.type = "content_block_stop" -> ChatBlockStop(sc, e)
    [] e.type = "message_delta" -> ChatMessageDelta(sc, e)
    [] e.type = "EOF" -> emit(sc, Done)
    [] OTHER -> sc

-----------------------------------------------------------------------------
(* The output items of a Responses stream (responses_output_state.go). *)

NewResponsesOutputEventState ==
  [buffer |-> <<>>, calls |-> <<>>, next |-> 0, reserved |-> FALSE, started |-> FALSE,
   done |-> FALSE, text |-> <<>>, usage |-> NoUsage, sentDone |-> FALSE]

Item(type, item, index, id, body) ==
  [type |-> type, item |-> item, index |-> index, id |-> id, body |-> body]

StartAssistantOutput(sc) ==
  IF sc.started THEN sc
  ELSE emit([sc EXCEPT !.started = TRUE], Item("item.added", "message", 0, NoId, <<>>))

CompleteAssistantOutput(sc) ==
  IF ~sc.reserved \/ sc.done THEN sc
  ELSE emit(StartAssistantOutput([sc EXCEPT !.done = TRUE]), Item("item.done", "message", 0, NoId, sc.text))

\* A text ends where a tool call begins.
EndAssistantText(sc) == IF sc.started THEN CompleteAssistantOutput(sc) ELSE sc

AssistantText(sc, piece) ==
  emit([StartAssistantOutput(sc) EXCEPT !.text = @ \o piece], [type |-> "text.delta", piece |-> piece])

ToolCallArguments(call) ==
  IF call.placeholder /\ call.arguments = <<>> THEN <<Empty>> ELSE call.arguments

\* The item is announced once its id and name are there.
StartToolCall(sc, k) ==
  LET call == sc.calls[k] IN
  IF call.started \/ call.id = NoId THEN sc
  ELSE emit([sc EXCEPT !.calls[k].started = TRUE],
            Item("item.added", "function_call", call.index, call.id, ToolCallArguments(call)))

ArgumentsDelta(sc, k, piece) ==
  emit(sc, [type |-> "arguments.delta", index |-> sc.calls[k].index, piece |-> piece])

CompleteToolCall(sc, k) ==
  LET call == sc.calls[k] IN
  IF call.completed THEN sc
  ELSE emit(emit([sc EXCEPT !.calls[k].completed = TRUE],
                 [type |-> "arguments.done", index |-> call.index, body |-> ToolCallArguments(call)]),
            Item("item.done", "function_call", call.index, call.id, ToolCallArguments(call)))

NewCall(index, id) ==
  [index |-> index, id |-> id, arguments |-> <<>>, placeholder |-> FALSE, started |-> FALSE,
   completed |-> FALSE]

Created(sc) == emit(sc, [type |-> "response.created"])

\* response.completed carries the usage, and no output.
Completed(sc) ==
  emit(emit([sc EXCEPT !.sentDone = TRUE],
            [type |-> "response.completed", usage |-> sc.usage, output |-> <<>>]), Done)

-----------------------------------------------------------------------------
(* Anthropic -> Responses; thinking has no equivalent. *)

reserveAssistantMessageOutput(sc) ==
  IF sc.reserved THEN sc ELSE [sc EXCEPT !.reserved = TRUE, !.next = @ + 1]

ResponsesBlockStart(sc, e) ==
  LET before == EndAssistantText(sc)
      call == [NewCall(sc.next, e.id) EXCEPT
                 !.placeholder = e.input = <<Empty>>,
                 !.arguments = IF e.input = <<Empty>> THEN <<>> ELSE e.input]
  IN IF e.block # "tool" THEN sc
     ELSE StartToolCall([before EXCEPT !.next = @ + 1, !.calls = Put(@, e.index, call)], e.index)

ResponsesBlockDelta(sc, e) ==
  CASE e.block = "text" -> AssistantText(reserveAssistantMessageOutput(sc), e.piece)
    [] e.block = "tool" /\ e.index \in DOMAIN sc.calls ->
         ArgumentsDelta([sc EXCEPT !.calls[e.index].placeholder = FALSE,
                                   !.calls[e.index].arguments = @ \o e.piece], e.index, e.piece)
    [] OTHER -> sc

ResponsesBlockStop(sc, e) == IF e.index \in DOMAIN sc.calls THEN CompleteToolCall(sc, e.index) ELSE sc

\* An answer without text and tools still gets its message.
ResponsesMessageDelta(sc, e) ==
  LET counted == [sc EXCEPT !.usage = mergeAnthropicUsage(@, e.usage)] IN
  IF sc.calls = <<>> THEN reserveAssistantMessageOutput(counted) ELSE counted

ResponsesFromAnthropic(sc, e) ==
  CASE e.type = "message_start" -> Created([sc EXCEPT !.usage = mergeAnthropicUsage(@, e.usage)])
    [] e.type = "content_block_start" -> ResponsesBlockStart(sc, e)
    [] e.type = "content_block_delta" -> ResponsesBlockDelta(sc, e)
    [] e.type = "content_block_stop" -> ResponsesBlockStop(sc, e)
    [] e.type = "message_delta" -> ResponsesMessageDelta(sc, e)
    [] e.type = "EOF" -> Completed(CompleteAssistantOutput(sc))
    [] OTHER -> sc

-----------------------------------------------------------------------------
(* Chat -> Responses. *)

\* Tool calls that were not announced yet make place for the message.
reserveAssistantOutput(sc) ==
  IF sc.reserved THEN sc
  ELSE [sc EXCEPT !.reserved = TRUE,
                  !.calls = [k \in DOMAIN @ |-> IF sc.calls[k].started THEN sc.calls[k]
                                                ELSE [sc.calls[k] EXCEPT !.index = @ + 1]]]

ensureToolCallState(sc, index) ==
  IF index \in DOMAIN sc.calls THEN sc
  ELSE [sc EXCEPT !.calls = Put(@, index, NewCall(IF sc.reserved THEN index + 1 ELSE index, NoId))]

\* A call announced late repeats the arguments it has collected so far.
handleToolCallDelta(sc, delta) ==
  LET k == delta.index
      known == ensureToolCallState(sc, k)
      fed == [known EXCEPT !.calls[k].id = IF delta.id = NoId THEN @ ELSE delta.id,
                           !.calls[k].arguments = @ \o delta.arguments]
      after == StartToolCall(fed, k)
      late == after.calls[k].started /\ ~fed.calls[k].started
      piece == IF late THEN fed.calls[k].arguments ELSE delta.arguments
  IN IF ~after.calls[k].started \/ piece = <<>> THEN after ELSE ArgumentsDelta(after, k, piece)

handleToolCallDeltas(sc, deltas) ==
  LET after[n \in 0..Len(deltas)] ==
        IF n = 0 THEN EndAssistantText(sc) ELSE handleToolCallDelta(after[n - 1], deltas[n])
  IN after[Len(deltas)]

\* In the order of their index; a call that never got its id is dropped.
completePendingToolCalls(sc) ==
  LET behind == Max(DOMAIN sc.calls \cup {0}) + 1
      below[n \in 0..behind] ==
        IF n = 0 THEN sc
        ELSE IF n - 1 \in DOMAIN sc.calls /\ sc.calls[n - 1].started
        THEN CompleteToolCall(below[n - 1], n - 1)
        ELSE below[n - 1]
  IN below[behind]

ResponsesChunk(sc, chunk) ==
  LET counted == [sc EXCEPT !.usage = IF chunk.usage = NoUsage THEN @ ELSE chunk.usage]
      texted == IF chunk.content = <<>> THEN counted
                ELSE AssistantText(reserveAssistantOutput(counted), chunk.content)
      called == IF chunk.calls = <<>> THEN texted ELSE handleToolCallDeltas(texted, chunk.calls)
  IN IF chunk.finish = "tool_calls" THEN completePendingToolCalls(called) ELSE called

\* The response is announced before the provider is read.
NewOpenAIResponsesStreamConverter == Created(NewResponsesOutputEventState)

\* Bug: the end of the stream completes the message only.
ResponsesFromChatLeavesCalls(sc, e) ==
  CASE e.type = "chunk" -> ResponsesChunk(sc, e)
    [] e.type \in {"[DONE]", "EOF"} /\ ~sc.sentDone -> Completed(CompleteAssistantOutput(sc))
    [] OTHER -> sc

ResponsesFromChat(sc, e) ==
  CASE e.type = "chunk" -> ResponsesChunk(sc, e)
    [] e.type \in {"[DONE]", "EOF"} /\ ~sc.sentDone ->
         Completed(completePendingToolCalls(CompleteAssistantOutput(sc)))
    [] OTHER -> sc

-----------------------------------------------------------------------------
(* Chat -> Messages. *)

NewStreamConverter ==
  [buffer |-> <<>>, started |-> FALSE, blockOpen |-> FALSE, blockType |-> Unset, curIndex |-> 0,
   nextIndex |-> 0, toolBlock |-> <<>>, stopReason |-> Unset, usage |-> NoUsage, finalized |-> FALSE,
   closed |-> FALSE]

ensureStarted(sc) ==
  IF sc.started THEN sc ELSE emit([sc EXCEPT !.started = TRUE], [type |-> "message_start"])

closeBlock(sc) ==
  IF ~sc.blockOpen THEN sc
  ELSE emit([sc EXCEPT !.blockOpen = FALSE], [type |-> "content_block_stop", index |-> sc.curIndex])

openBlock(sc, type, id) ==
  emit([sc EXCEPT !.curIndex = sc.nextIndex, !.nextIndex = @ + 1, !.blockOpen = TRUE, !.blockType = type],
       [type |-> "content_block_start", index |-> sc.nextIndex, block |-> type, id |-> id])

ensureBlock(sc, type) ==
  IF sc.blockOpen /\ sc.blockType = type THEN sc ELSE openBlock(closeBlock(sc), type, NoId)

BlockDelta(sc, index, type, piece) ==
  emit(sc, [type |-> "content_block_delta", index |-> index, block |-> type, piece |-> piece])

handleText(sc, type, piece) ==
  IF piece = <<>> THEN sc
  ELSE LET opened == ensureBlock(sc, type) IN BlockDelta(opened, opened.curIndex, type, piece)

handleToolCall(sc, delta) ==
  LET opened == openBlock(closeBlock(sc), "tool", delta.id)
      known == IF delta.index \in DOMAIN sc.toolBlock THEN sc
               ELSE [opened EXCEPT !.toolBlock = Put(@, delta.index, opened.curIndex)]
  IN IF delta.arguments = <<>> THEN known
     ELSE BlockDelta(known, known.toolBlock[delta.index], "tool", delta.arguments)

stopReasonFromFinish(finish, hasToolCalls) ==
  CASE hasToolCalls \/ finish = "tool_calls" -> "tool_use"
    [] ~hasToolCalls /\ finish \in {"stop", "content_filter"} -> "end_turn"
    [] ~hasToolCalls /\ finish = "length" -> "max_tokens"
    [] OTHER -> finish

handleChunk(sc, chunk) ==
  LET begun == ensureStarted(sc)
      counted == [begun EXCEPT !.usage = IF chunk.usage = NoUsage THEN @ ELSE chunk.usage]
      texted == handleText(handleText(counted, "thinking", chunk.reasoning), "text", chunk.content)
      after[n \in 0..Len(chunk.calls)] ==
        IF n = 0 THEN texted ELSE handleToolCall(after[n - 1], chunk.calls[n])
      called == after[Len(chunk.calls)]
  IN IF chunk.finish = Unset THEN called
     ELSE [called EXCEPT !.stopReason = stopReasonFromFinish(chunk.finish, called.toolBlock # <<>>)]

\* Bug: the end of the stream closes the converter, as Close does.
finalizeCloses(sc) ==
  IF sc.finalized THEN sc
  ELSE LET ended == closeBlock(ensureStarted([sc EXCEPT !.finalized = TRUE, !.closed = TRUE])) IN
       emit(emit(ended, [type |-> "message_delta", usage |-> sc.usage,
                         stop |-> IF sc.stopReason = Unset THEN "end_turn" ELSE sc.stopReason]),
            [type |-> "message_stop"])

finalize(sc) ==
  IF sc.finalized THEN sc
  ELSE LET ended == closeBlock(ensureStarted([sc EXCEPT !.finalized = TRUE])) IN
       emit(emit(ended, [type |-> "message_delta", usage |-> sc.usage,
                         stop |-> IF sc.stopReason = Unset THEN "end_turn" ELSE sc.stopReason]),
            [type |-> "message_stop"])

MessagesFromChat(sc, e) == IF e.type = "chunk" THEN handleChunk(sc, e) ELSE finalize(sc)
=============================================================================
