------------------------------- MODULE OpenAI -------------------------------
(***************************************************************************)
(* The OpenAI adapter (provider/internal/openai), first-party and          *)
(* compatible: a prepared request as Chat Completions parameters, a        *)
(* completion as a Response, and the fold of one streamed chunk.           *)
(*                                                                         *)
(* A completion is what the SDK decodes: content, refusal, reasoning,      *)
(* reasoning details, tool calls, the finish reason and the usage.         *)
(***************************************************************************)
EXTENDS AdapterRules

\* Chat Completions has no reasoning budget, no top_k and text tool results.
Ceiling == Gates \ {"Thinking", "TopK", "ToolResultMedia"}

\* openAICapabilities and openAICompatibleCapabilities.
Profiles ==
    {Ceiling, Ceiling \ {"ReasoningEffort"}, Ceiling \ {"ReasoningEffort", "StructuredOutput"},
     Ceiling \ {"ReasoningEffort", "StructuredOutput", "ToolChoice"}}

New(caps) == ApplyOverride(Ceiling, caps)

\* normalizeErr; the error of a committed stream has status 200.
NormalizeErr(e, ctx, requests) ==
    IF e = Nothing THEN NoResponseError(ctx, requests)
    ELSE NormalizeSDKError(e.status, e.type, e.tooLong)

----------------------------------------------------------------------------
\* The request.

\* openAIUserParts: no document by URL; the first-party profile checks types.
MediaOK(b, checkMIME) ==
    /\ b.kind = "document" => b.url = Nothing
    /\ checkMIME => CheckedMIME(b) \subseteq IF b.kind = "image" THEN {"png"} ELSE {"pdf"}

\* emitFields: an own-tag thinking block must hold reasoning to send back.
EmitFieldsOK(b) == b.raw # Nothing /\ (b.raw.content # <<>> \/ b.raw.details # <<>>)

Own(b, tag) == b.kind = "thinking" /\ b.provider = tag

BlocksOK(m, checkMIME, tag) ==
    \A i \in DOMAIN m.content :
        /\ IsMedia(m.content[i]) => MediaOK(m.content[i], checkMIME)
        /\ Own(m.content[i], tag) => EmitFieldsOK(m.content[i])

\* The arguments of a call without any are an empty object.
WireArgs(args) == IF args = <<>> THEN <<"{}">> ELSE args

\* The reasoning keys of the own-tag blocks; a later block's keys win.
Extra(m, tag) ==
    LET own == SelectSeq(m.content, LAMBDA b : Own(b, tag))
        last(field) == FoldLeft(LAMBDA found, b : IF b.raw[field] # <<>> THEN b.raw[field] ELSE found,
                                <<>>, own)
    IN  [content |-> last("content"), details |-> last("details")]

Convert(m, tag) ==
    CASE m.role = "user" -> [role |-> "user", parts |-> OrEmptyText(m.content)]
      [] m.role = "system" -> [role |-> "system", text |-> TextOf(m.content)]
      [] m.role = "tool" -> [role |-> "tool", text |-> TextOf(m.content), id |-> m.callID]
      [] m.role = "assistant" ->
            [role |-> "assistant", text |-> TextOf(m.content), extra |-> Extra(m, tag),
             calls |-> [i \in DOMAIN m.calls |-> [m.calls[i] EXCEPT !.args = WireArgs(@)]]]

WireChoice(p) ==
    CASE p.choice.mode = "auto" -> <<"auto">>
      [] p.choice.mode = "none" -> <<"none">>
      [] p.choice.mode = "required" -> <<"any">>
      [] p.choice.mode = "tool" -> <<"tool", p.choice.name>>

\* buildParams; checkMIME and tag tell a first-party adapter from a compatible one.
Build(p, checkMIME, tag) ==
    IF \E i \in DOMAIN p.messages : ~BlocksOK(p.messages[i], checkMIME, tag)
    THEN Refused
    ELSE [refused |-> FALSE,
          messages |-> [i \in DOMAIN p.messages |-> Convert(p.messages[i], tag)],
          marks |-> {},
          maxTokens |-> p.maxTokens,
          fields |-> p.fields,
          seed |-> p.seed,
          thinking |-> IF p.thinking = Nothing THEN Nothing ELSE <<"effort", p.thinking.effort>>,
          choice |-> WireChoice(p),
          tools |-> [i \in DOMAIN p.tools |-> p.tools[i].name],
          schema |-> IF p.schema # Nothing THEN "constrained" ELSE Nothing]

----------------------------------------------------------------------------
\* The response.

Bodies(msg, kind) ==
    LET of == SelectSeq(msg.items, LAMBDA it : it.kind = kind)
    IN  FlattenSeq([i \in DOMAIN of |-> of[i].body])

\* The completion the SDK decodes from a whole body.
Decode(msg) ==
    LET used == SelectSeq(msg.items, LAMBDA it : it.kind = "call")
        details == SelectSeq(msg.items, LAMBDA it : it.kind = "details")
    IN  [content |-> Bodies(msg, "text"), refusal |-> Bodies(msg, "refusal"),
         reasoning |-> Bodies(msg, "thinking"),
         details |-> [i \in DOMAIN details |-> [key |-> details[i].name, text |-> details[i].body]],
         calls |-> [i \in DOMAIN used |-> Call(used[i].id, used[i].name, used[i].body)],
         stop |-> msg.stop, usage |-> msg.usage]

MapStop(stop, hasCalls) ==
    CASE stop = "stop" -> IF hasCalls THEN "tool_use" ELSE "end_turn"
      [] stop \in {"tool_calls", "function_call"} -> "tool_use"
      [] stop = "length" -> "max_tokens"
      [] stop = "content_filter" -> "content_filter"
      [] OTHER -> StopFallback(hasCalls)   \* abort, or no reason at all

\* What the endpoint reports: reasoning inside the completion, or beside it.
CompletionTokens(u) == u.output + IF u.inside THEN u.reasoning ELSE 0
TotalTokens(u) == u.fresh + u.cached + u.output + u.reasoning

\* Reasoning is folded in only where the total proves that it is not inside.
ToUsage(u) ==
    LET prompt == u.fresh + u.cached
        out == CompletionTokens(u)
        beside == u.reasoning > 0 /\ TotalTokens(u) = prompt + out + u.reasoning
    IN  Usage(prompt, IF beside THEN out + u.reasoning ELSE out, u.cached)

\* toResponse: a refusal takes the place of the text.
ToResponse(cc, tag) ==
    LET refused == cc.refusal # <<>>
        text == IF refused THEN cc.refusal ELSE cc.content
        thinking == IF cc.reasoning = <<>> /\ cc.details = <<>> THEN <<>>
                    ELSE <<[kind |-> "thinking", provider |-> tag, text |-> cc.reasoning,
                            raw |-> [content |-> cc.reasoning, details |-> cc.details]]>>
    IN  [text |-> text,
         blocks |-> thinking \o IF text = <<>> THEN <<>> ELSE <<Text(text)>>,
         calls |-> cc.calls,
         usage |-> IF cc.usage = Nothing THEN EstimateUsage ELSE ToUsage(cc.usage),
         stop |-> IF refused THEN "refusal" ELSE MapStop(cc.stop, cc.calls # <<>>)]

Respond(msg, tag) == ToResponse(Decode(msg), tag)

\* No choices at all: nothing was said and no reason given.
NoChoices(msg) == msg.items = <<>> /\ msg.stop = Nothing

NoCompletion(type) == NormalizeSDKError(200, type, FALSE)

Complete(msg, tag, type) ==
    IF NoChoices(msg) THEN Fail(NoCompletion(type)) ELSE Succeed(Respond(msg, tag))

----------------------------------------------------------------------------
\* The stream.

Zero == Call(Nothing, <<>>, <<>>)

\* cc: the SDK's accumulated completion; seen: toolCallTracker, the wire
\* indices in the order they appeared, each with its id and name so far.
Acc0 == [cc |-> [content |-> <<>>, refusal |-> <<>>, reasoning |-> <<>>, details |-> <<>>,
                 calls |-> <<>>, stop |-> Nothing, usage |-> Nothing],
         seen |-> <<>>]

Absorbed(acc, deltas) == [acc |-> acc, deltas |-> deltas]

\* A fragment's id replaces the one before, and its name is added to it.
Identified(c, item) ==
    [c EXCEPT !.id = IF item.id = Nothing THEN @ ELSE item.id, !.name = @ \o item.name]

\* The SDK places a fragment at its wire index n, with zero entries below.
Placed(calls, n, ev) ==
    LET padded == calls \o [k \in 1..(n - Len(calls)) |-> Zero]
    IN  [padded EXCEPT ![n] = [Identified(@, ev.item) EXCEPT !.args = @ \o ev.frag]]

\* The tracker numbers the wire indices by first appearance.
Position(seen, n) == CHOOSE k \in DOMAIN seen : seen[k].at = n

Tracked(seen, n, item) ==
    LET met == IF \E k \in DOMAIN seen : seen[k].at = n THEN seen
               ELSE Append(seen, [at |-> n, id |-> Nothing, name |-> <<>>])
    IN  [met EXCEPT ![Position(met, n)] = Identified(@, item)]

\* Mutation: a delta says only what its own fragment carried.
CallFragmentForgetful(acc, ev) ==
    LET n == ev.item.index + 1
        seen == Tracked(acc.seen, n, ev.item)
    IN  Absorbed([cc |-> [acc.cc EXCEPT !.calls = Placed(@, n, ev)], seen |-> seen],
                 <<CallDelta(Position(seen, n) - 1, ev.item.id, ev.item.name, ev.frag)>>)

(***************************************************************************)
(* A fragment of a call.  Its delta repeats what the call is known by so   *)
(* far, whether or not the wire does.                                      *)
(***************************************************************************)
CallFragment(acc, ev) ==
    LET n == ev.item.index + 1
        seen == Tracked(acc.seen, n, ev.item)
        p == Position(seen, n)
    IN  Absorbed([cc |-> [acc.cc EXCEPT !.calls = Placed(@, n, ev)], seen |-> seen],
                 <<CallDelta(p - 1, seen[p].id, seen[p].name, ev.frag)>>)

\* detailsMerger: fragments of one (index, type) join where the first stands.
MergeDetail(details, key, frag) ==
    IF \E i \in DOMAIN details : details[i].key = key
    THEN [i \in DOMAIN details |->
            IF details[i].key = key THEN [details[i] EXCEPT !.text = @ \o frag] ELSE details[i]]
    ELSE Append(details, [key |-> key, text |-> frag])

\* One chunk of choice 0: what Stream accumulates and what deltas() emits.
Absorb(acc, ev) ==
    CASE ev.type = "delta" /\ ev.item.kind = "thinking" ->
            Absorbed([acc EXCEPT !.cc.reasoning = @ \o ev.frag], <<ThinkingDelta(ev.frag)>>)
      [] ev.type = "delta" /\ ev.item.kind = "details" ->
            Absorbed([acc EXCEPT !.cc.details = MergeDetail(@, ev.item.name, ev.frag)], <<>>)
      [] ev.type = "delta" /\ ev.item.kind = "text" ->
            Absorbed([acc EXCEPT !.cc.content = @ \o ev.frag], <<TextDelta(ev.frag)>>)
      [] ev.type = "delta" /\ ev.item.kind = "refusal" ->
            Absorbed([acc EXCEPT !.cc.refusal = @ \o ev.frag], <<>>)
      [] ev.type = "delta" /\ ev.item.kind = "call" -> CallFragment(acc, ev)
      [] ev.type = "finish" -> Absorbed([acc EXCEPT !.cc.stop = ev.stop], <<>>)
      [] ev.type = "end" -> Absorbed([acc EXCEPT !.cc.usage = ev.usage], <<>>)

\* Mutation: the zero entries stay.
FoldedWithGhosts(acc) == acc.cc

\* compactGhostToolCalls: an index that no fragment used leaves nothing.
Folded(acc) == [acc.cc EXCEPT !.calls = SelectSeq(@, LAMBDA c : c # Zero)]

\* A chunk the accumulator refuses.
BadChunk == "server"

\* The end of Stream: without a finish_reason the generation was cut.
StreamEnd(acc, tag, ctx, requests) ==
    IF acc.cc.stop = Nothing THEN Fail(NormalizeErr(Nothing, ctx, requests))
    ELSE Succeed(ToResponse(Folded(acc), tag))
============================================================================
