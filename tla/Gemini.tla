------------------------------- MODULE Gemini -------------------------------
(***************************************************************************)
(* The Google adapter (provider/internal/google): a prepared request as    *)
(* genai contents and config, a response as a Response, and the fold of    *)
(* one streamed part into the aggregate.                                   *)
(*                                                                         *)
(* A response is what genai decodes: the first candidate's parts (text,    *)
(* thinking, call), its finish reason, the usage, and whether the prompt   *)
(* was blocked.                                                            *)
(***************************************************************************)
EXTENDS AdapterRules

\* The Gemini API has a field for every gate.
Ceiling == Gates

\* googleCapabilities: effort and tool-result media are Gemini 3's; the
\* table takes thinking, tools and structured output away from others.
Profiles ==
    LET older == Gates \ {"ReasoningEffort", "ToolResultMedia"}
    IN  {Gates, older, older \ {"Thinking"}, older \ {"Thinking", "ToolChoice"},
         older \ {"StructuredOutput"}, older \ {"Thinking", "ToolChoice", "StructuredOutput"}}

New(caps) == ApplyOverride(Ceiling, caps)

\* Mutation: a body without a code is judged by that.
NormalizeErrByCode(e, ctx, requests, status) ==
    IF e = Nothing THEN NoResponseError(ctx, requests)
    ELSE NormalizeSDKError(e.status, Nothing, e.tooLong)

\* normalizeErr; a body without a code leaves the wire's status to go by.
NormalizeErr(e, ctx, requests, status) ==
    IF e = Nothing THEN NoResponseError(ctx, requests)
    ELSE NormalizeSDKError(IF e.status = 0 THEN status ELSE e.status, Nothing, e.tooLong)

\* A panic of genai while it reads a response.
PanicError(status) == NormalizeSDKError(status, Nothing, FALSE)

----------------------------------------------------------------------------
\* The request.

\* googleUserParts; a data: URL's own MediaType is checked as well.
UserMediaOK(b) ==
    /\ CheckedMIME(b) \subseteq {"png", "pdf"}
    /\ CheckedMIME(b) # {} /\ b.mime # Nothing => b.mime \in {"png", "pdf"}

\* googleToolResultParts: inline bytes only.
ResultMediaOK(b) == b.data /\ b.mime \in {"png", "pdf"}

BlocksOK(m) ==
    /\ \A i \in DOMAIN m.content :
        LET b == m.content[i]
        IN  IsMedia(b) => IF m.role = "tool" THEN ResultMediaOK(b) ELSE UserMediaOK(b)
    /\ \A i \in DOMAIN m.calls : ValidJSON(m.calls[i].args)

\* A signature carrier: the part of a signed call, as toResponse kept it.
IsCarrier(b) == b.kind = "thinking" /\ b.provider = "google" /\ b.raw # Nothing /\ b.raw.kind = "call"

\* A thought to send back; a block whose payload was lost is skipped.
IsThought(b) == b.kind = "thinking" /\ b.provider = "google" /\ b.raw # Nothing /\ b.raw.kind # "call"

\* Mutation: a signature is matched by the call's name alone.
SignatureOfName(m, call) ==
    FoldLeft(LAMBDA sig, b : IF IsCarrier(b) /\ b.raw.name = call.name THEN b.raw.sig ELSE sig,
             Nothing, m.content)

\* The signature of the last carrier with the call's id and name.
SignatureOf(m, call) ==
    FoldLeft(LAMBDA sig, b : IF IsCarrier(b) /\ b.raw.id = call.id /\ b.raw.name = call.name
                             THEN b.raw.sig ELSE sig,
             Nothing, m.content)

AssistantParts(m) ==
    LET kept == SelectSeq(m.content, LAMBDA b :
                    IF b.kind = "text" THEN b.text # <<>> ELSE IsThought(b))
    IN  OrEmptyText(
            [i \in DOMAIN kept |->
                IF kept[i].kind = "text" THEN kept[i]
                ELSE [kind |-> "thought", text |-> kept[i].raw.text, sig |-> kept[i].raw.sig]]
            \o [i \in DOMAIN m.calls |->
                    [kind |-> "call", id |-> m.calls[i].id, name |-> m.calls[i].name,
                     sig |-> SignatureOf(m, m.calls[i])]])

(***************************************************************************)
(* toGoogleContents: names maps a call's id to its function, from the      *)
(* assistant turns converted so far; an unknown id stands for itself.      *)
(***************************************************************************)
Convert(conv, m) ==
    LET turn(role, parts) == Append(conv.out, [role |-> role, parts |-> parts])
        declared == {<<m.calls[i].id, m.calls[i].name>> : i \in DOMAIN m.calls}
        overwritten == {d \in conv.names : \E e \in declared : e[1] = d[1]}
        name == IF \E d \in conv.names : d[1] = m.callID
                THEN (CHOOSE d \in conv.names : d[1] = m.callID)[2] ELSE <<m.callID>>
    IN  CASE m.role = "user" -> [conv EXCEPT !.out = turn("user", OrEmptyText(m.content))]
          [] m.role = "system" -> [conv EXCEPT !.out = turn("user", <<Text(TextOf(m.content))>>)]
          [] m.role = "assistant" ->
                [out |-> turn("model", AssistantParts(m)),
                 names |-> (conv.names \ overwritten) \cup {d \in declared : d[1] # Nothing}]
          [] m.role = "tool" ->
                [conv EXCEPT !.out = turn("user",
                    <<[kind |-> "response", id |-> m.callID, name |-> name, error |-> m.isError,
                       content |-> <<Text(TextOf(m.content))>>
                                   \o SelectSeq(m.content, IsMedia)]>>)]

ToContents(msgs) == FoldLeft(Convert, [out |-> <<>>, names |-> {}], msgs).out

(***************************************************************************)
(* signForeignCalls: from the last user turn that is not a function        *)
(* response on, the first call of every model turn gets the bypass if it   *)
(* has no signature.                                                       *)
(***************************************************************************)
SignForeignCalls(contents) ==
    LET asks(c) == c.role = "user" /\ \E i \in DOMAIN c.parts : c.parts[i].kind # "response"
        current(n) == ~\E k \in DOMAIN contents : k >= n /\ asks(contents[k])
        first(c, i) == c.parts[i].kind = "call" /\ \A j \in 1..(i - 1) : c.parts[j].kind # "call"
    IN  [n \in DOMAIN contents |->
            IF contents[n].role = "model" /\ current(n)
            THEN [contents[n] EXCEPT !.parts = [i \in DOMAIN @ |->
                    IF first(contents[n], i) /\ @[i].sig = Nothing
                    THEN [@[i] EXCEPT !.sig = "bypass"] ELSE @[i]]]
            ELSE contents[n]]

\* Conversion to int32: the machine keeps the low bits.
Int32(n) == ((n + MaxInt32 + 1) % (2 * (MaxInt32 + 1))) - MaxInt32 - 1

WireChoice(p) ==
    CASE p.choice.mode = "auto" -> <<"auto">>
      [] p.choice.mode = "none" -> <<"none">>
      [] p.choice.mode = "required" -> <<"any">>
      [] p.choice.mode = "tool" -> <<"tool", p.choice.name>>

\* Effort wins over a budget, whose range nothing checks.
WireThinking(p) ==
    IF p.thinking = Nothing THEN Nothing
    ELSE IF p.thinking.effort # Nothing THEN <<"effort", p.thinking.effort>>
    ELSE <<"budget", Int32(p.thinking.budget)>>

\* buildRequest; signing: requiresThoughtSignatures of the model.  Limits and
\* seeds that genai's int32 cannot hold are refused.
Build(p, signing) ==
    IF \/ \E i \in DOMAIN p.messages : ~BlocksOK(p.messages[i])
       \/ p.maxTokens > MaxInt32
       \/ p.seed # Nothing /\ p.seed \notin -(MaxInt32 + 1)..MaxInt32
    THEN Refused
    ELSE [refused |-> FALSE,
          messages |-> IF signing THEN SignForeignCalls(ToContents(p.messages)) ELSE ToContents(p.messages),
          marks |-> {},
          maxTokens |-> Int32(p.maxTokens),
          fields |-> p.fields,
          seed |-> IF p.seed = Nothing THEN Nothing ELSE Int32(p.seed),
          thinking |-> WireThinking(p),
          choice |-> WireChoice(p),
          tools |-> [i \in DOMAIN p.tools |-> p.tools[i].name],
          schema |-> IF p.schema # Nothing /\ p.tools = <<>> THEN "constrained" ELSE Nothing]

----------------------------------------------------------------------------
\* The response.

MapStop(stop, hasCalls) ==
    CASE stop \in {"STOP", "FINISH_REASON_UNSPECIFIED", Nothing} ->
            IF hasCalls THEN "tool_use" ELSE "end_turn"
      [] stop = "MAX_TOKENS" -> "max_tokens"
      [] stop = "SAFETY" -> "content_filter"   \* RECITATION, BLOCKLIST, ... too
      [] OTHER -> StopFallback(hasCalls)

\* The prompt count includes the cached tokens, the candidates' excludes thoughts.
ToUsage(u) == Usage(u.fresh + u.cached, u.output + u.reasoning, u.cached)

FunctionCallArgs(body) == IF body = <<>> THEN <<"{}">> ELSE body

\* A signed call also leaves a carrier of its signature.
ToBlocks(part) ==
    CASE part.kind = "call" ->
            IF part.sig = Nothing THEN <<>>
            ELSE <<[kind |-> "thinking", provider |-> "google", text |-> <<>>,
                    raw |-> [kind |-> "call", id |-> part.id, name |-> part.name, sig |-> part.sig]]>>
      [] part.kind = "thinking" ->
            <<[kind |-> "thinking", provider |-> "google", text |-> part.body,
               raw |-> [kind |-> "thought", text |-> part.body, sig |-> part.sig]]>>
      [] part.kind = "text" -> IF part.body = <<>> THEN <<>> ELSE <<Text(part.body)>>

ToResponse(msg) ==
    LET blocks == FlattenSeq([i \in DOMAIN msg.items |-> ToBlocks(msg.items[i])])
        used == SelectSeq(msg.items, LAMBDA it : it.kind = "call")
    IN  [text |-> TextOf(blocks),
         blocks |-> blocks,
         calls |-> [i \in DOMAIN used |->
                        Call(used[i].id, used[i].name, FunctionCallArgs(used[i].body))],
         usage |-> IF msg.usage = Nothing THEN EstimateUsage ELSE ToUsage(msg.usage),
         stop |-> IF msg.blocked /\ msg.items = <<>> /\ msg.stop = Nothing THEN "content_filter"
                  ELSE MapStop(msg.stop, used # <<>>)]

\* checkCompletion: no candidate, and no blocked prompt either.
NoCandidate(msg) == ~msg.blocked /\ msg.items = <<>> /\ msg.stop = Nothing
CheckCompletion == NormalizeSDKError(200, Nothing, FALSE)

Complete(msg) ==
    IF NoCandidate(msg) THEN Fail(CheckCompletion) ELSE Succeed(ToResponse(msg))

----------------------------------------------------------------------------
\* The stream: the aggregate, the calls handed to fn, any finishReason seen.

Acc0 == [items |-> <<>>, stop |-> Nothing, usage |-> Nothing, blocked |-> FALSE,
         calls |-> 0, sawFinish |-> FALSE]

Absorbed(acc, deltas) == [acc |-> acc, deltas |-> deltas]

PlainText(part) == part.kind = "text" /\ part.sig = Nothing

\* absorbChunk, one part: plain text joins plain text, all else is kept.
AbsorbPart(acc, part) ==
    LET n == Len(acc.items)
        joins == n > 0 /\ PlainText(acc.items[n]) /\ PlainText(part)
        kept == [acc EXCEPT !.items = Append(@, part)]
    IN  CASE part.kind = "call" ->
                Absorbed([kept EXCEPT !.calls = @ + 1],
                         <<CallDelta(acc.calls, part.id, part.name, FunctionCallArgs(part.body))>>)
          [] part.kind = "thinking" -> Absorbed(kept, <<ThinkingDelta(part.body)>>)
          [] part.kind = "text" ->
                Absorbed(IF joins THEN [acc EXCEPT !.items[n].body = @ \o part.body] ELSE kept,
                         <<TextDelta(part.body)>>)

\* A chunk: one part, a finishReason (UNSPECIFIED is not kept), or the usage.
Absorb(acc, ev) ==
    CASE ev.type = "delta" -> AbsorbPart(acc, [ev.item EXCEPT !.body = ev.frag])
      [] ev.type = "finish" ->
            Absorbed([acc EXCEPT !.sawFinish = TRUE,
                        !.stop = IF ev.stop = "FINISH_REASON_UNSPECIFIED" THEN @ ELSE ev.stop], <<>>)
      [] ev.type = "end" -> Absorbed([acc EXCEPT !.usage = ev.usage, !.blocked = ev.blocked], <<>>)

\* The end of Stream: genai reports neither a cut nor the context's end.
StreamEnd(acc, ctx, requests) ==
    IF ctx # "live" THEN Fail(NormalizeErr(Nothing, ctx, requests, 200))
    ELSE IF acc.items # <<>> /\ ~acc.sawFinish THEN Fail(NormalizeErr(Nothing, ctx, requests, 200))
    ELSE IF NoCandidate(acc) /\ ~acc.sawFinish THEN Fail(CheckCompletion)
    ELSE Succeed(ToResponse(acc))
============================================================================
