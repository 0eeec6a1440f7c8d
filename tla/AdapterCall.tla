---------------------------- MODULE AdapterCall ----------------------------
(***************************************************************************)
(* One call of a provider adapter, and the turn after it.                  *)
(*                                                                         *)
(* New checks the profile, Complete or Stream prepares and builds the      *)
(* request, the SDK refuses it or sends it, and the endpoint answers: with *)
(* an error, with a body that holds no completion, with a whole message,   *)
(* or with the message in fragments that may stop, break or end early      *)
(* anywhere.  The caller's context can end at any moment and the callback  *)
(* can fail at any fragment.  A response with tool calls then goes into    *)
(* the history, and the next request is built for the same provider or for *)
(* another one.                                                            *)
(***************************************************************************)
EXTENDS AdapterRules, FiniteSets

(***************************************************************************)
(* What may be called: sets of [provider, caps, signing, reqs, msgs, modes] *)
(* of which a call takes one request, one message the endpoint has to say, *)
(* and one mode: "complete", "stream", "silent" (Stream with a nil fn), or *)
(* "synthetic" (llmkit.Stream over a client that only completes).          *)
(***************************************************************************)
CONSTANT Scenarios

\* What each vendor's messages are made of.
ItemKinds(provider) ==
    CASE provider = "anthropic" -> {"text", "thinking", "redacted", "call", "server"}
      [] provider \in {"openai", "compat"} -> {"text", "thinking", "details", "refusal", "call"}
      [] provider = "google" -> {"text", "thinking", "call"}

Items(provider) ==
    [kind : ItemKinds(provider), id : {Nothing} \cup STRING, name : Seq(STRING),
     body : Seq(STRING), sig : {Nothing} \cup STRING, index : Nat]

ASSUME ScenarioAssumption ==
    \A s \in Scenarios :
        /\ s.provider \in {"anthropic", "openai", "compat", "google"}
        /\ s.modes \subseteq {"complete", "stream", "silent", "synthetic"}
        /\ \A msg \in s.msgs : msg.items \in Seq(Items(s.provider))

A == INSTANCE Anthropic
O == INSTANCE OpenAI
G == INSTANCE Gemini

VARIABLES
    call,       \* the adapter, the request and what the endpoint will say
    pc,         \* "new", "built", "sent", "rejected", "streaming", "done", "replayed"
    ctx,        \* the call's context: "live", "canceled" or "deadline"
    requests,   \* Wire.requests
    status,     \* Wire.status
    wire,       \* the request on the wire
    got,        \* how many events of each item have arrived
    tail,       \* how many of the closing events have arrived
    acc,        \* the stream's accumulated message
    deltas,     \* what fn was given
    result,     \* what the call returned
    told,       \* the error the endpoint reported: a status or code, a type, a phrase
    again       \* the next turn: the provider asked and its request

vars == <<call, pc, ctx, requests, status, wire, got, tail, acc, deltas, result, told, again>>

----------------------------------------------------------------------------
\* The adapters, by provider; "compat" is the OpenAI-compatible one.

Providers == {"anthropic", "openai", "compat", "google"}

OpenAIs == {"openai", "compat"}

CeilingOf(provider) ==
    CASE provider = "anthropic" -> A!Ceiling
      [] provider \in OpenAIs -> O!Ceiling
      [] provider = "google" -> G!Ceiling

Configured ==
    CASE call.provider = "anthropic" -> A!New(call.caps)
      [] call.provider \in OpenAIs -> O!New(call.caps)
      [] call.provider = "google" -> G!New(call.caps)

\* signing: a Gemini model that rejects unsigned calls.
BuildFor(provider, p, signing) ==
    CASE provider = "anthropic" -> A!Build(p)
      [] provider = "openai" -> O!Build(p, TRUE, "openai")
      [] provider = "compat" -> O!Build(p, FALSE, "compat")
      [] provider = "google" -> G!Build(p, signing)

Prepared == Prepare(call.caps, call.req)
Synthetic == A!StructuredOutputTool(Prepared)

\* Complete on a whole body; type: the error the body names, if it names one.
Completed(type) ==
    CASE call.provider = "anthropic" -> A!Complete(call.msg, Synthetic, type)
      [] call.provider \in OpenAIs -> O!Complete(call.msg, call.provider, type)
      [] call.provider = "google" -> G!Complete(call.msg)

Normalized == Completed(Nothing).resp

ErrorOf(e) ==
    CASE call.provider = "anthropic" -> A!NormalizeErr(e, ctx, requests)
      [] call.provider \in OpenAIs -> O!NormalizeErr(e, ctx, requests)
      [] call.provider = "google" -> G!NormalizeErr(e, ctx, requests, status)

Acc0 ==
    CASE call.provider = "anthropic" -> A!Acc0
      [] call.provider \in OpenAIs -> O!Acc0
      [] call.provider = "google" -> G!Acc0

AbsorbEvent(ev) ==
    CASE call.provider = "anthropic" -> A!Absorb(acc, ev, Synthetic)
      [] call.provider \in OpenAIs -> O!Absorb(acc, ev)
      [] call.provider = "google" -> G!Absorb(acc, ev)

StreamEnd ==
    CASE call.provider = "anthropic" -> A!StreamEnd(acc, Synthetic, ctx, requests)
      [] call.provider \in OpenAIs -> O!StreamEnd(acc, call.provider, ctx, requests)
      [] call.provider = "google" -> G!StreamEnd(acc, ctx, requests)

----------------------------------------------------------------------------
\* The endpoint's events.

Event(type, item, frag) ==
    [type |-> type, item |-> item, frag |-> frag,
     stop |-> call.msg.stop, usage |-> call.msg.usage, blocked |-> call.msg.blocked]

\* One delta per fragment of the body; an item without any has an empty one.
Deltas(item) ==
    IF item.body = <<>> THEN <<Event("delta", item, <<>>)>>
    ELSE [i \in DOMAIN item.body |-> Event("delta", item, <<item.body[i]>>)]

\* A fragment of a Chat Completions call: the first one carries the id, and
\* a compatible endpoint may repeat it; a name is sent in pieces too.
CallPiece(item, first, name, frag) ==
    Event("delta",
          [item EXCEPT !.id = IF first \/ call.provider = "compat" THEN @ ELSE Nothing, !.name = name],
          frag)

\* The name, piece by piece, and the arguments after it.
CallPieces(item) ==
    [k \in DOMAIN item.name |-> CallPiece(item, k = 1, <<item.name[k]>>, <<>>)]
    \o [k \in DOMAIN item.body |-> CallPiece(item, FALSE, <<>>, <<item.body[k]>>)]

(***************************************************************************)
(* How an item travels.  Anthropic opens a block, fills it and signs it;   *)
(* Gemini sends calls whole and signs the last part of a thought; the      *)
(* others send fragments.                                                  *)
(***************************************************************************)
ItemEvents(item) ==
    CASE call.provider = "anthropic" ->
            <<Event("start", item, <<>>)>>
            \o (IF item.kind = "redacted" THEN <<>> ELSE Deltas(item))
            \o (IF item.kind = "thinking" THEN <<Event("signature", item, <<>>)>> ELSE <<>>)
      [] call.provider = "google" /\ item.kind = "call" -> <<Event("delta", item, item.body)>>
      [] call.provider = "google" /\ item.kind # "call" ->
            [i \in DOMAIN item.body |->
                Event("delta", IF i = Len(item.body) THEN item ELSE [item EXCEPT !.sig = Nothing],
                      <<item.body[i]>>)]
      [] call.provider \in OpenAIs /\ item.kind = "call" -> CallPieces(item)
      [] call.provider \in OpenAIs /\ item.kind # "call" -> Deltas(item)

Arrived(i) == got[i] = Len(ItemEvents(call.msg.items[i]))
IsCall(i) == call.msg.items[i].kind = "call"

\* Chat Completions may interleave its items; calls begin in index order.
MayArrive(i) ==
    /\ ~Arrived(i)
    /\ IF call.provider \in OpenAIs
       THEN IsCall(i) /\ got[i] = 0 => \A j \in 1..(i - 1) : IsCall(j) => got[j] > 0
       ELSE \A j \in 1..(i - 1) : Arrived(j)

\* The finish reason, if there is one, and the end with the usage.
Closing ==
    (IF call.msg.stop = Nothing THEN <<>> ELSE <<Event("finish", Nothing, <<>>)>>)
    \o <<Event("end", Nothing, <<>>)>>

----------------------------------------------------------------------------
\* The call.

Init ==
    /\ \E s \in Scenarios : \E req \in s.reqs, msg \in s.msgs, mode \in s.modes :
        call = [provider |-> s.provider, caps |-> s.caps, signing |-> s.signing,
                req |-> req, msg |-> msg, mode |-> mode]
    /\ pc = "new" /\ ctx = "live"
    /\ requests = 0 /\ status = 0 /\ wire = Nothing
    /\ got = [i \in DOMAIN call.msg.items |-> 0] /\ tail = 0
    /\ acc = Acc0 /\ deltas = <<>>
    /\ result = Nothing /\ told = Nothing /\ again = Nothing

Report(r, said) ==
    /\ result' = r /\ told' = said /\ pc' = "done"
    /\ UNCHANGED <<call, ctx, requests, status, wire, got, tail, acc, deltas, again>>

Return(r) == Report(r, Nothing)

(***************************************************************************)
(* New, then Prepare and the adapter's own mapping.  A refusal at any of   *)
(* the three is an invalid request, and nothing has been sent.             *)
(***************************************************************************)
BuildRequest ==
    /\ pc = "new"
    /\ LET built == IF Prepared.refused THEN Refused
                    ELSE BuildFor(call.provider, Prepared, call.signing)
       IN  IF ~Configured \/ built.refused
           THEN Return(Fail("invalid_request"))
           ELSE /\ wire' = built /\ pc' = "built"
                /\ UNCHANGED <<call, ctx, requests, status, got, tail, acc, deltas, result, told, again>>

\* The SDK gives up before the transport: it cannot encode the request, or ctx ended.
SDKRefuses == pc = "built" /\ Return(Fail(ErrorOf(Nothing)))

\* RoundTrip counts on entry.
Send ==
    /\ pc = "built"
    /\ requests' = requests + 1 /\ pc' = "sent"
    /\ UNCHANGED <<call, ctx, status, wire, got, tail, acc, deltas, result, told, again>>

\* A dial error, a reset, or the context's end.
TransportFails == pc = "sent" /\ Return(Fail(ErrorOf(Nothing)))

ErrorStatuses == {400, 401, 413, 429, 500, 529}

\* A type an error body names, or none that VendorKind knows.
NamedTypes == {Nothing} \cup ErrorTypes

\* A status from 400 on is the SDK's error; Gemini's body may lack the code.
Rejected ==
    /\ pc = "sent" /\ status = 0
    /\ status' \in ErrorStatuses /\ pc' = "rejected"
    /\ UNCHANGED <<call, ctx, requests, wire, got, tail, acc, deltas, result, told, again>>

ErrorBody ==
    /\ pc = "rejected"
    /\ \E type \in NamedTypes, tooLong \in BOOLEAN,
          coded \in IF call.provider = "google" THEN BOOLEAN ELSE {TRUE} :
        Report(Fail(ErrorOf(SDKError(IF coded THEN status ELSE 0, type, tooLong))),
               SDKError(status, type, tooLong))

Whole == call.mode \in {"complete", "synthetic"}

(***************************************************************************)
(* llmkit.Stream without a StreamingClient: the blocks in order, the text  *)
(* if no block holds it, then every call.                                  *)
(***************************************************************************)
Synthesized(resp) ==
    [i \in DOMAIN resp.blocks |->
        IF resp.blocks[i].kind = "text" THEN TextDelta(resp.blocks[i].text)
        ELSE ThinkingDelta(resp.blocks[i].text)]
    \o (IF resp.text # <<>> /\ \A i \in DOMAIN resp.blocks : resp.blocks[i].kind # "text"
        THEN <<TextDelta(resp.text)>> ELSE <<>>)
    \o [i \in DOMAIN resp.calls |->
            CallDelta(i - 1, resp.calls[i].id, resp.calls[i].name, resp.calls[i].args)]

\* Complete, a body below 400: a completion, or none and the type it names
\* (genai drops what a body without a completion says).
Answered ==
    /\ pc = "sent" /\ Whole
    /\ status' = 200 /\ pc' = "done"
    /\ \E type \in IF call.provider = "google" THEN {Nothing} ELSE NamedTypes :
        /\ result' = Completed(type)
        /\ told' = IF result'.ok THEN Nothing ELSE SDKError(200, type, FALSE)
    /\ deltas' = IF call.mode = "synthetic" /\ result'.ok THEN Synthesized(result'.resp) ELSE deltas
    /\ UNCHANGED <<call, ctx, requests, wire, got, tail, acc, again>>

\* Complete: the body breaks off, which no decoder accepts; genai may panic.
BodyCut ==
    /\ pc = "sent" /\ Whole
    /\ status' = 200 /\ pc' = "done"
    /\ \/ result' = Fail(ErrorOf(Nothing))
       \/ call.provider = "google" /\ result' = Fail(G!PanicError(200))
    /\ UNCHANGED <<call, ctx, requests, wire, got, tail, acc, deltas, told, again>>

OpenStream ==
    /\ pc = "sent" /\ ~Whole
    /\ status' = 200 /\ pc' = "streaming"
    /\ UNCHANGED <<call, ctx, requests, wire, got, tail, acc, deltas, result, told, again>>

\* An event is accumulated first; then its fragments go to fn, if there is one.
Take(ev) ==
    /\ acc' = AbsorbEvent(ev).acc
    /\ deltas' = IF call.mode = "stream" THEN deltas \o AbsorbEvent(ev).deltas ELSE deltas
    /\ UNCHANGED <<call, pc, ctx, requests, status, wire, result, told, again>>

Fragment ==
    /\ pc = "streaming" /\ tail = 0
    /\ \E i \in DOMAIN got :
        /\ MayArrive(i)
        /\ Take(ItemEvents(call.msg.items[i])[got[i] + 1])
        /\ got' = [got EXCEPT ![i] = @ + 1]
    /\ UNCHANGED tail

Close ==
    /\ pc = "streaming" /\ \A i \in DOMAIN got : Arrived(i)
    /\ tail < Len(Closing)
    /\ Take(Closing[tail + 1])
    /\ tail' = tail + 1
    /\ UNCHANGED got

\* fn refuses a fragment it is given.
CallbackFails ==
    /\ pc = "streaming" /\ call.mode = "stream"
    /\ \E i \in DOMAIN got :
        MayArrive(i) /\ AbsorbEvent(ItemEvents(call.msg.items[i])[got[i] + 1]).deltas # <<>>
    /\ Return(Fail("callback"))

\* An event out of sequence, a chunk that does not fit, or a panic of genai's reader.
Violated ==
    /\ pc = "streaming"
    /\ Return(Fail(CASE call.provider = "anthropic" -> ErrorOf(Nothing)
                     [] call.provider \in OpenAIs -> O!BadChunk
                     [] call.provider = "google" -> G!PanicError(status)))

\* Gemini's error objects have a code, or none, where the others' have a type.
InBandErrors ==
    IF call.provider = "google"
    THEN {SDKError(code, Nothing, tooLong) : code \in {0, 400, 401, 429, 500}, tooLong \in BOOLEAN}
    ELSE {SDKError(200, type, FALSE) : type \in NamedTypes}

\* The committed stream carries an error object.
InBandError ==
    /\ pc = "streaming"
    /\ \E e \in InBandErrors :
        Report(Fail(ErrorOf(e)), [e EXCEPT !.status = IF @ = 0 THEN status ELSE @])

\* The connection breaks; genai's iterator only logs it.
Reset == pc = "streaming" /\ call.provider # "google" /\ Return(Fail(ErrorOf(Nothing)))

\* The stream ends without an error, after the last event or before it.
EndOfStream == pc = "streaming" /\ Return(StreamEnd)

\* The caller cancels, or the attempt's RequestTimeout passes.
ContextEnds ==
    /\ pc \in {"new", "built", "sent", "rejected", "streaming"} /\ ctx = "live"
    /\ ctx' \in {"canceled", "deadline"}
    /\ UNCHANGED <<call, pc, requests, status, wire, got, tail, acc, deltas, result, told, again>>

----------------------------------------------------------------------------
\* The next turn.

\* surrogateCallID: by the call's place, and unlike any id a vendor gives.
SurrogateCallID == <<"llmkit-c0", "llmkit-c1">>

FillEmptyCallIDs(calls) ==
    [i \in DOMAIN calls |-> IF calls[i].id = Nothing THEN [calls[i] EXCEPT !.id = SurrogateCallID[i]]
                            ELSE calls[i]]

Message(role, content, calls, callID) ==
    [role |-> role, content |-> content, calls |-> calls, callID |-> callID, isError |-> FALSE]

\* The assistant's message carries the response's blocks; one result per call.
NextMessages ==
    LET calls == FillEmptyCallIDs(result.resp.calls)
    IN  call.req.messages
        \o <<Message("assistant", result.resp.blocks, calls, Nothing)>>
        \o [i \in DOMAIN calls |-> Message("tool", <<Text(<<"r">>)>>, <<>>, calls[i].id)]

NextCaps(provider) == IF provider = call.provider THEN call.caps ELSE CeilingOf(provider)

\* A fallback chain or a change of model may ask another provider.
Replay ==
    /\ pc = "done" /\ result.ok /\ result.resp.calls # <<>>
    /\ \E provider \in Providers :
        LET p == Prepare(NextCaps(provider), [call.req EXCEPT !.messages = NextMessages])
        IN  again' = [provider |-> provider,
                      wire |-> IF p.refused THEN Refused ELSE BuildFor(provider, p, call.signing)]
    /\ pc' = "replayed"
    /\ UNCHANGED <<call, ctx, requests, status, wire, got, tail, acc, deltas, result, told>>

Next ==
    \/ BuildRequest \/ SDKRefuses \/ Send
    \/ TransportFails \/ Rejected \/ ErrorBody \/ Answered \/ BodyCut
    \/ OpenStream \/ Fragment \/ Close \/ CallbackFails
    \/ Violated \/ InBandError \/ Reset \/ EndOfStream
    \/ ContextEnds \/ Replay

Spec == Init /\ [][Next]_vars
----------------------------------------------------------------------------
\* Properties.

OrEmptyObject(args) == IF args = <<>> THEN <<"{}">> ELSE args
WithObjects(calls) == [i \in DOMAIN calls |-> [calls[i] EXCEPT !.args = OrEmptyObject(@)]]

Joined(deltas_, kind) ==
    LET of == SelectSeq(deltas_, LAMBDA d : d.kind = kind)
    IN  FlattenSeq([i \in DOMAIN of |-> of[i].text])

Thought(resp) ==
    LET blocks == ThinkingOf(resp.blocks) IN FlattenSeq([i \in DOMAIN blocks |-> blocks[i].text])

\* The opaque payloads a provider wants back: signatures, or reasoning details.
Opaque(b) == IF "sig" \in DOMAIN b.raw THEN b.raw.sig ELSE b.raw.details
Signed(resp) ==
    LET blocks == SelectSeq(ThinkingOf(resp.blocks), LAMBDA b : Opaque(b) # Nothing)
    IN  [i \in DOMAIN blocks |-> Opaque(blocks[i])]

\* Every token of the exchange, each once.
AllTokens(u) == Usage(u.fresh + u.cached + u.written, u.output + u.reasoning, u.cached)

(***************************************************************************)
(* A successful call returns the whole message, however it travelled: a    *)
(* stream's Response is Complete's (StreamingClient's contract), no stream *)
(* that was cut succeeds, and the usage counts every token once, whichever *)
(* convention the vendor reports in.  It is an estimate only if no report  *)
(* arrived.                                                                *)
(***************************************************************************)
StreamIsComplete ==
    result # Nothing /\ result.ok =>
        /\ result.resp.text = Normalized.text
        /\ result.resp.text = TextOf(result.resp.blocks)
        /\ WithObjects(result.resp.calls) = WithObjects(Normalized.calls)
        /\ result.resp.stop = Normalized.stop
        /\ Thought(result.resp) = Thought(Normalized)
        /\ Signed(result.resp) = Signed(Normalized)
        /\ IF call.msg.usage # Nothing /\ (Whole \/ tail = Len(Closing))
           THEN result.resp.usage = AllTokens(call.msg.usage)
           ELSE result.resp.usage = EstimateUsage

(***************************************************************************)
(* No stream that was cut succeeds: a Response is returned only after      *)
(* every fragment of every item has arrived and the message was closed,    *)
(* although genai's iterator ends a broken stream as it ends a whole one.  *)
(***************************************************************************)
CutStreamsFail ==
    result # Nothing /\ result.ok /\ ~Whole => tail > 0 /\ \A i \in DOMAIN got : Arrived(i)

(***************************************************************************)
(* What fn was given is the Response: the text, the thinking, and each     *)
(* call's arguments at the index it has in ToolCalls.  Every fragment of a *)
(* call repeats its id, whether or not the wire does, and as much of its   *)
(* name as has arrived; the last one has the name in full.  (The text of   *)
(* OpenAI's refusal is not streamed.)                                      *)
(***************************************************************************)
DeltasRebuild ==
    result # Nothing /\ result.ok /\ call.mode \in {"stream", "synthetic"} =>
        LET calls == result.resp.calls
            of(i) == SelectSeq(deltas, LAMBDA d : d.kind = "call" /\ d.index = i - 1)
        IN  /\ result.resp.stop # "refusal" => Joined(deltas, "text") = result.resp.text
            /\ Joined(deltas, "thinking") = Thought(result.resp)
            /\ {d \in Range(deltas) : d.kind = "call" /\ d.index \notin 0..(Len(calls) - 1)} = {}
            /\ \A i \in DOMAIN calls :
                /\ of(i) # <<>> /\ Last(of(i)).name = calls[i].name
                /\ \A k \in DOMAIN of(i) :
                    of(i)[k].id = calls[i].id /\ IsPrefix(of(i)[k].name, calls[i].name)
                /\ OrEmptyObject(Joined(of(i), "call")) = OrEmptyObject(calls[i].args)

\* What an error from the endpoint says: a status or a code by itself, below
\* 400 the type the body names.
Transient(said) ==
    IF said.status >= 400 THEN said.status = 429 \/ said.status >= 500
    ELSE said.type \notin ErrorTypes \ {"overloaded_error", "rate_limit_error"}

Credential(said) ==
    IF said.status >= 400 THEN said.status \in {401, 403}
    ELSE said.type \in {"authentication_error", "permission_error", "billing_error", "insufficient_quota"}

TooLong(said) == said.status = 413 \/ (said.status = 400 /\ said.tooLong)

(***************************************************************************)
(* A failure is named for what happened, since the retry stage acts on the *)
(* name: a request that was never sent is not tried again, nor is one the  *)
(* caller canceled before any status; a lost connection is tried again; an *)
(* error the endpoint reported is judged by what it says, before the       *)
(* stream or inside it and whatever became of the context; and a call that *)
(* was sent is blamed on the request or the credential only if it says so. *)
(***************************************************************************)
FailureNamed ==
    result # Nothing /\ ~result.ok /\ result.kind # "callback" =>
        /\ requests = 0 /\ ctx # "deadline" => ~Retryable(result.kind)
        /\ requests = 1 /\ status = 0 =>
            result.kind = IF ctx = "canceled" THEN "canceled" ELSE "server"
        /\ result.kind = "canceled" => ctx = "canceled"
        /\ requests = 1 /\ told = Nothing => result.kind \in {"canceled", "server"}
        /\ told # Nothing =>
            /\ Retryable(result.kind) = Transient(told)
            /\ (result.kind = "auth") = Credential(told)
            /\ (result.kind = "context_too_long") = TooLong(told)

WireBlocks(m) ==
    CASE "blocks" \in DOMAIN m -> m.blocks [] "parts" \in DOMAIN m -> m.parts [] OTHER -> <<>>

MediaIn(blocks) == Len(SelectSeq(blocks, IsMedia))

\* The media of a request, those inside tool results included.
MediaSent(w) ==
    FoldLeft(LAMBDA n, m :
        n + MediaIn(WireBlocks(m))
          + FoldLeft(LAMBDA k, b : k + IF "content" \in DOMAIN b THEN MediaIn(b.content) ELSE 0,
                     0, WireBlocks(m)),
        0, w.messages)

MediaAsked == FoldLeft(LAMBDA n, m : n + MediaIn(m.content), 0, call.req.messages)

\* A budget alone, larger than the int32 that genai carries it in.
Wraps(thinking) ==
    /\ call.provider = "google" /\ "Thinking" \in call.caps
    /\ thinking # Nothing /\ thinking.budget > MaxInt32
    /\ thinking.effort = Nothing \/ "ReasoningEffort" \notin call.caps

\* It is sent as the number of that width it wraps to.
Wrapped(budget) ==
    /\ wire.thinking[1] = "budget"
    /\ wire.thinking[2] \in -(MaxInt32 + 1)..MaxInt32
    /\ (budget - wire.thinking[2]) % (2 * (MaxInt32 + 1)) = 0

\* What is sent of the thinking config is what was asked for and is allowed.
ThinkingHonest ==
    LET asked == call.req.thinking
        allowed == IF asked = Nothing THEN {}
                   ELSE {<<"budget", asked.budget>> : x \in {"Thinking"} \cap call.caps}
                        \cup {<<"effort", asked.effort>> : x \in {"ReasoningEffort"} \cap call.caps}
        real == allowed \ {<<"budget", 0>>, <<"effort", Nothing>>}
    IN  IF real = {} THEN wire.thinking = Nothing ELSE wire.thinking \in real

Forced == wire.choice[1] \in {"any", "tool"}

(***************************************************************************)
(* What goes on the wire is what was asked for, as far as the profile      *)
(* allows: limits and seeds keep their numbers, an optional field is       *)
(* dropped only for its own capability, no image or document is lost, a    *)
(* tool choice is kept or gives way to the forced answer tool, a schema    *)
(* binds whenever there are no tools, and a forced tool never goes with    *)
(* manual thinking.  A budget that Gemini's int32 cannot hold is the one   *)
(* number that is not kept: nothing checks it, and it wraps.               *)
(***************************************************************************)
WireHonest ==
    wire # Nothing =>
        /\ wire.maxTokens = IF call.req.maxTokens > 0 THEN call.req.maxTokens ELSE DefaultMaxTokens
        /\ wire.fields = call.req.fields \cap call.caps
        /\ wire.seed = IF "Seed" \in call.caps THEN call.req.seed ELSE Nothing
        /\ IF Wraps(call.req.thinking) THEN Wrapped(call.req.thinking.budget) ELSE ThinkingHonest
        /\ MediaSent(wire) = MediaAsked
        /\ \/ Forced /\ wire.schema = "constrained" /\ call.req.tools = <<>>
           \/ (wire.choice[1] = "any") = (call.req.choice.mode = "required")
              /\ wire.choice[1] # "any" => wire.choice[1] = call.req.choice.mode
        /\ (wire.schema = "constrained") =>
              "StructuredOutput" \in call.caps /\ call.req.schema \in {"object", "emptykey"}
        /\ "StructuredOutput" \in call.caps /\ call.req.schema = "object" /\ call.req.tools = <<>> =>
              wire.schema = "constrained"
        /\ ~(call.provider = "anthropic" /\ Forced /\ wire.thinking # Nothing)

ItemCalls == SelectSeq(call.msg.items, LAMBDA it : it.kind = "call")

\* The request without the new turn is one the next provider accepts.
Askable(provider) ==
    LET p == Prepare(NextCaps(provider), call.req)
    IN  ~p.refused /\ ~BuildFor(provider, p, call.signing).refused

Ids(seq) == [i \in DOMAIN seq |-> seq[i].id]
OfKind(seq, kind) == SelectSeq(seq, LAMBDA b : b.kind = kind)

\* The call ids of the assistant's turn, and those of the results after it.
CallIds(w) ==
    LET k == Len(call.req.messages) + 1
    IN  CASE again.provider = "anthropic" -> Ids(OfKind(w.messages[k].blocks, "tool_use"))
          [] again.provider \in OpenAIs -> Ids(w.messages[k].calls)
          [] again.provider = "google" -> Ids(OfKind(w.messages[k].parts, "call"))

ResultIds(w) ==
    LET k == Len(call.req.messages) + 1
    IN  CASE again.provider = "anthropic" -> Ids(w.messages[k + 1].blocks)
          [] again.provider \in OpenAIs ->
                [i \in 1..(Len(w.messages) - k) |-> w.messages[k + i].id]
          [] again.provider = "google" ->
                [i \in 1..(Len(w.messages) - k) |-> w.messages[k + i].parts[1].id]

(***************************************************************************)
(* The turn after a tool call is one every provider accepts, the one that  *)
(* made the call and any other: the calls are answered one by one in the   *)
(* turn right after them (one turn for Anthropic), under distinct ids that *)
(* are not empty; Gemini's responses name their function, and a model that *)
(* wants signatures gets one on the first call.                            *)
(***************************************************************************)
ReplayAccepted ==
    again # Nothing /\ Askable(again.provider)
        /\ (\A i \in DOMAIN ItemCalls : ValidJSON(ItemCalls[i].body)) =>
        /\ ~again.wire.refused
        /\ CallIds(again.wire) = ResultIds(again.wire)
        /\ IsInjective(CallIds(again.wire)) /\ Nothing \notin Range(CallIds(again.wire))
        /\ again.provider = "anthropic" => Len(again.wire.messages) = Len(call.req.messages) + 2
        /\ again.provider = "google" =>
            LET k == Len(call.req.messages) + 1
                calls == OfKind(again.wire.messages[k].parts, "call")
            IN  /\ \A i \in DOMAIN calls : again.wire.messages[k + i].parts[1].name = calls[i].name
                /\ call.signing => calls[1].sig # Nothing

\* The thinking of the assistant's turn as the next request carries it.
Echo ==
    LET m == again.wire.messages[Len(call.req.messages) + 1]
        kept == SelectSeq(WireBlocks(m), LAMBDA b : b.kind \in {"thinking", "redacted", "thought"})
        sigs == SelectSeq([i \in DOMAIN kept |-> kept[i].sig], LAMBDA s : s # Nothing)
    IN  IF again.provider \in OpenAIs THEN [text |-> m.extra.content, sigs |-> m.extra.details]
        ELSE [text |-> FlattenSeq([i \in DOMAIN kept |-> kept[i].text]), sigs |-> sigs]

\* The same, as the endpoint sent it.
Sent ==
    LET kept == SelectSeq(call.msg.items, LAMBDA it : it.kind \in {"thinking", "redacted"})
        sigs == SelectSeq([i \in DOMAIN kept |-> kept[i].sig], LAMBDA s : s # Nothing)
    IN  [text |-> FlattenSeq([i \in DOMAIN kept |-> kept[i].body]),
         sigs |-> IF call.provider \in OpenAIs THEN O!Decode(call.msg).details ELSE sigs]

\* Gemini's calls carry their own signatures again; scope picks the calls.
SignaturesBack(scope(_)) ==
    again.provider = "google" /\ call.provider = "google" =>
        LET calls == OfKind(again.wire.messages[Len(call.req.messages) + 1].parts, "call")
        IN  \A i \in DOMAIN calls :
                ItemCalls[i].sig # Nothing /\ scope(ItemCalls[i]) => calls[i].sig = ItemCalls[i].sig

(***************************************************************************)
(* A provider gets back exactly the thinking and the signatures it sent,   *)
(* streamed or not, each on its own call, and nobody else's.  (A call that *)
(* Gemini gave no id is another matter: SignatureReturned.)                *)
(***************************************************************************)
EchoedUnchanged ==
    again # Nothing /\ ~again.wire.refused =>
        /\ IF again.provider = call.provider THEN Echo = Sent ELSE Echo = [text |-> <<>>, sigs |-> <<>>]
        /\ SignaturesBack(LAMBDA it : it.id # Nothing)

(***************************************************************************)
(* "Signatures Gemini produced are sent back unchanged" (docs/providers.md *)
(* line 84), of every call.                                                *)
(***************************************************************************)
SignatureReturned ==
    again # Nothing /\ ~again.wire.refused => SignaturesBack(LAMBDA it : TRUE)
============================================================================
