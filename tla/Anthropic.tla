----------------------------- MODULE Anthropic -----------------------------
(***************************************************************************)
(* The Anthropic adapter (provider/internal/anthropic): a prepared request *)
(* as Messages parameters, a message as a Response, and the fold of one    *)
(* streamed event into the accumulated message and the caller's deltas.    *)
(*                                                                         *)
(* A message is what the SDK decodes: items (text, thinking, redacted,     *)
(* call, server), the stop reason and the usage.                           *)
(***************************************************************************)
EXTENDS AdapterRules, FiniteSets

\* The Messages API has no seed, and the adapter maps no effort.
Ceiling == Gates \ {"ReasoningEffort", "Seed"}

\* anthropicCapabilities: the families of the table differ in thinking.
Profiles == {Ceiling, Ceiling \ {"Thinking"}}

\* New: the effective profile stays under the ceiling.
New(caps) == ApplyOverride(Ceiling, caps)

\* normalizeErr; e: what the SDK made of a response, if there was one.
NormalizeErr(e, ctx, requests) ==
    IF e = Nothing THEN NoResponseError(ctx, requests)
    ELSE NormalizeSDKError(e.status, e.type, e.tooLong)

----------------------------------------------------------------------------
\* The request.

\* structuredOutputToolName: the synthetic tool, unless the caller has tools.
StructuredOutputTool(p) ==
    IF p.schema = Nothing \/ p.tools # <<>> THEN Nothing ELSE <<"emit_answer">>

\* toAnthropicInputSchema: the SDK cannot encode the empty root key.
InputSchemaOK(s) == s # "emptykey"

MediaOK(b) ==
    CheckedMIME(b) \subseteq IF b.kind = "image" THEN {"png"} ELSE {"pdf"}

\* anthropicThinkingBlock: only a signed (or redacted) payload can be replayed.
ThinkingOK1(b) == b.raw # Nothing /\ b.raw.sig # Nothing

BlocksOK(m) ==
    /\ \A i \in DOMAIN m.content :
        LET b == m.content[i]
        IN  /\ IsMedia(b) => MediaOK(b)
            /\ b.kind = "thinking" /\ b.provider = "anthropic" => ThinkingOK1(b)
    /\ \A i \in DOMAIN m.calls : ValidJSON(m.calls[i].args)

\* anthropicToolResultBlock: joined text, or every block when there is media.
ToolResultBlock(m) ==
    [kind |-> "tool_result", id |-> m.callID, error |-> m.isError,
     content |-> IF HasMedia(m) THEN m.content ELSE <<Text(TextOf(m.content))>>]

ThinkingBlock(b) == [kind |-> b.raw.type, text |-> b.raw.text, sig |-> b.raw.sig]

AssistantBlocks(m) ==
    LET kept == SelectSeq(m.content, LAMBDA b :
                    IF b.kind = "text" THEN b.text # <<>> ELSE b.provider = "anthropic")
    IN  OrEmptyText(
            [i \in DOMAIN kept |-> IF kept[i].kind = "text" THEN kept[i] ELSE ThinkingBlock(kept[i])]
            \o [i \in DOMAIN m.calls |->
                    [kind |-> "tool_use", id |-> m.calls[i].id, name |-> m.calls[i].name]])

\* The pending tool results go out as one user turn.
Flush(conv) ==
    IF conv.pending = <<>> THEN conv
    ELSE [out |-> Append(conv.out, [role |-> "user", blocks |-> conv.pending]), pending |-> <<>>]

\* Mutation: every tool result is a turn of its own.
ConvertUncoalesced(conv, m) ==
    LET turn(role, blocks) ==
            [out |-> Append(Flush(conv).out, [role |-> role, blocks |-> blocks]), pending |-> <<>>]
    IN  CASE m.role = "tool" -> turn("user", <<ToolResultBlock(m)>>)
          [] m.role = "system" -> turn("user", <<Text(TextOf(m.content))>>)
          [] m.role = "user" -> turn("user", OrEmptyText(m.content))
          [] m.role = "assistant" -> turn("assistant", AssistantBlocks(m))

\* One message of toAnthropicMessages' loop.
Convert(conv, m) ==
    LET turn(role, blocks) ==
            [out |-> Append(Flush(conv).out, [role |-> role, blocks |-> blocks]), pending |-> <<>>]
    IN  CASE m.role = "tool" -> [conv EXCEPT !.pending = Append(@, ToolResultBlock(m))]
          [] m.role = "system" -> turn("user", <<Text(TextOf(m.content))>>)
          [] m.role = "user" -> turn("user", OrEmptyText(m.content))
          [] m.role = "assistant" -> turn("assistant", AssistantBlocks(m))

ToMessages(msgs) == Flush(FoldLeft(Convert, [out |-> <<>>, pending |-> <<>>], msgs)).out

\* markLastBlock: thinking blocks cannot be marked.
Markable(message) ==
    {i \in DOMAIN message.blocks : message.blocks[i].kind \notin {"thinking", "redacted"}}

\* applyCacheBreakpoints: the last two messages with a markable block.
Breakpoints(messages) ==
    LET markable == {i \in DOMAIN messages : Markable(messages[i]) # {}}
    IN  {i \in markable : Cardinality({j \in markable : j > i}) < 2}

\* applyAnthropicToolChoice, overwritten by the synthetic tool.
WireChoice(p) ==
    IF StructuredOutputTool(p) # Nothing THEN <<"tool", StructuredOutputTool(p)>>
    ELSE CASE p.choice.mode = "auto" -> <<"auto">>
           [] p.choice.mode = "none" -> <<"none">>
           [] p.choice.mode = "required" -> <<"any">>
           [] p.choice.mode = "tool" -> <<"tool", p.choice.name>>

\* buildParams.  Manual thinking allows no forced tool.
Build(p) ==
    LET messages == ToMessages(p.messages)
    IN  IF \/ \E i \in DOMAIN p.messages : ~BlocksOK(p.messages[i])
           \/ \E i \in DOMAIN p.tools : ~InputSchemaOK(p.tools[i].params)
           \/ StructuredOutputTool(p) # Nothing /\ ~InputSchemaOK(p.schema)
           \/ p.thinking # Nothing /\ WireChoice(p)[1] \in {"any", "tool"}
        THEN Refused
        ELSE [refused |-> FALSE,
              messages |-> messages,
              marks |-> Breakpoints(messages),
              maxTokens |-> p.maxTokens,
              fields |-> p.fields,
              seed |-> p.seed,
              thinking |-> IF p.thinking = Nothing THEN Nothing ELSE <<"budget", p.thinking.budget>>,
              choice |-> WireChoice(p),
              tools |-> [i \in DOMAIN p.tools |-> p.tools[i].name],
              schema |-> IF StructuredOutputTool(p) # Nothing THEN "constrained" ELSE Nothing]

----------------------------------------------------------------------------
\* The response.

MapStop(stop, hasCalls) ==
    CASE stop \in {"end_turn", "stop_sequence"} -> "end_turn"
      [] stop = "tool_use" -> "tool_use"
      [] stop = "max_tokens" -> "max_tokens"
      [] stop = "refusal" -> "refusal"
      [] OTHER -> StopFallback(hasCalls)   \* pause_turn too

\* The reported input excludes what was read from or written to the cache.
ToUsage(u) == Usage(u.fresh + u.cached + u.written, u.output + u.reasoning, u.cached)

ToBlock(item) ==
    IF item.kind = "text" THEN Text(item.body)
    ELSE [kind |-> "thinking", provider |-> "anthropic",
          text |-> IF item.kind = "thinking" THEN item.body ELSE <<>>,
          raw |-> [type |-> item.kind, text |-> item.body, sig |-> item.sig]]

\* A call's input is {} until a fragment of it arrives.
Input(item) == IF item.body = <<>> THEN <<"{}">> ELSE item.body

\* toResponse; a server tool's block is dropped.
ToResponse(msg) ==
    LET shown == SelectSeq(msg.items, LAMBDA it : it.kind \in {"text", "thinking", "redacted"})
        used == SelectSeq(msg.items, LAMBDA it : it.kind = "call")
        blocks == [i \in DOMAIN shown |-> ToBlock(shown[i])]
    IN  [text |-> TextOf(blocks),
         blocks |-> blocks,
         calls |-> [i \in DOMAIN used |-> Call(used[i].id, used[i].name, Input(used[i]))],
         usage |-> ToUsage(msg.usage),
         stop |-> MapStop(msg.stop, used # <<>>)]

\* finalize: the synthetic tool's lone call is the answer's text.
Finalize(resp, synthetic) ==
    IF synthetic # Nothing /\ Len(resp.calls) = 1 /\ resp.calls[1].name = synthetic
    THEN [resp EXCEPT !.text = resp.calls[1].args, !.calls = <<>>, !.stop = "end_turn",
                      !.blocks = Append(@, Text(resp.calls[1].args))]
    ELSE resp

Respond(msg, synthetic) == Finalize(ToResponse(msg), synthetic)

NoCompletion(msg) == msg.items = <<>> /\ msg.stop = Nothing

\* noCompletionError: by the error type the body names.
NoCompletionError(status, type) == NormalizeSDKError(status, type, FALSE)

Complete(msg, synthetic, type) ==
    IF NoCompletion(msg) THEN Fail(NoCompletionError(200, type)) ELSE Succeed(Respond(msg, synthetic))

----------------------------------------------------------------------------
\* The stream.  The accumulated message is the SDK's; toolSeq counts calls.

Acc0 == [items |-> <<>>, stop |-> Nothing, usage |-> Nothing,
         toolSeq |-> 0, pos |-> <<>>, sawStop |-> FALSE]

Absorbed(acc, deltas) == [acc |-> acc, deltas |-> deltas]

\* content_block_start: a call is announced before its arguments.
BlockStart(acc, ev, synthetic) ==
    LET empty == [ev.item EXCEPT !.body = <<>>,
                                 !.sig = IF ev.item.kind = "redacted" THEN @ ELSE Nothing]
        opened == [acc EXCEPT !.items = Append(@, empty), !.pos = Append(@, acc.toolSeq)]
    IN  IF ev.item.kind # "call" THEN Absorbed(opened, <<>>)
        ELSE Absorbed([opened EXCEPT !.toolSeq = @ + 1],
                      IF ev.item.name = synthetic THEN <<>>
                      ELSE <<CallDelta(acc.toolSeq, ev.item.id, ev.item.name, <<>>)>>)

\* Mutation: the position counts content blocks.
BlockDeltaByBlock(acc, ev, synthetic) ==
    LET i == Len(acc.items)
        item == acc.items[i]
        grown == [acc EXCEPT !.items[i].body = @ \o ev.frag]
    IN  Absorbed(grown,
            CASE item.kind = "text" -> <<TextDelta(ev.frag)>>
              [] item.kind = "thinking" -> <<ThinkingDelta(ev.frag)>>
              [] item.kind = "call" -> <<CallDelta(i - 1, item.id, item.name, ev.frag)>>
              [] OTHER -> <<>>)

\* forwardBlockDelta.  The synthetic tool's fragments surface as text.
BlockDelta(acc, ev, synthetic) ==
    LET i == Len(acc.items)
        item == acc.items[i]
        grown == [acc EXCEPT !.items[i].body = @ \o ev.frag]
    IN  Absorbed(grown,
            CASE item.kind = "text" -> <<TextDelta(ev.frag)>>
              [] item.kind = "thinking" -> <<ThinkingDelta(ev.frag)>>
              [] item.kind = "call" ->
                    IF ev.frag = <<>> THEN <<>>
                    ELSE IF item.name = synthetic THEN <<TextDelta(ev.frag)>>
                    ELSE <<CallDelta(acc.pos[i], item.id, item.name, ev.frag)>>
              [] OTHER -> <<>>)

\* One event of the stream, in the order Accumulate insists on.
Absorb(acc, ev, synthetic) ==
    CASE ev.type = "start" -> BlockStart(acc, ev, synthetic)
      [] ev.type = "delta" -> BlockDelta(acc, ev, synthetic)
      [] ev.type = "signature" -> Absorbed([acc EXCEPT !.items[Len(acc.items)].sig = ev.item.sig], <<>>)
      [] ev.type = "finish" -> Absorbed([acc EXCEPT !.stop = ev.stop, !.usage = ev.usage], <<>>)
      [] ev.type = "end" -> Absorbed([acc EXCEPT !.sawStop = TRUE], <<>>)

\* The end of Stream: message_stop must have come, and something before it.
StreamEnd(acc, synthetic, ctx, requests) ==
    IF ~acc.sawStop THEN Fail(NormalizeErr(Nothing, ctx, requests))
    ELSE IF NoCompletion(acc) THEN Fail(NoCompletionError(200, Nothing))
    ELSE Succeed(Respond(acc, synthetic))
============================================================================
