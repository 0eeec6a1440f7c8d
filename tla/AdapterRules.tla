--------------------------- MODULE AdapterRules ---------------------------
(***************************************************************************)
(* The rules every provider adapter shares (internal/adapter): Prepare,    *)
(* which validates a Request and gates it on the model's profile before    *)
(* anything is sent, and the classification of a failed call, with the     *)
(* rule that a call which sent nothing is a refusal.                       *)
(*                                                                         *)
(* A profile is the set of the wire-gated Capabilities fields that are     *)
(* true.  Texts, arguments and reasoning are sequences of fragments, so    *)
(* that a stream can deliver them piece by piece.                          *)
(***************************************************************************)
EXTENDS Integers, Sequences, SequencesExt

\* wireGates: the Capabilities fields that decide what goes on the wire.
Gates == {"StructuredOutput", "Thinking", "ReasoningEffort", "ToolChoice",
          "StopSequences", "TopP", "TopK", "Seed", "ToolResultMedia"}

\* The optional fields of a Request that a profile may drop silently, as it
\* may the Seed, which is carried as a number.
SilentFields == {"StopSequences", "TopP", "TopK"}

CONSTANT Nothing   \* an absent field, id, payload or report

\* The error types that VendorKind tells apart.  It does not tell api_error,
\* server_error, timeout_error and an unknown type from an absent one.
ErrorTypes ==
    {"overloaded_error", "rate_limit_error", "invalid_request_error", "not_found_error",
     "authentication_error", "permission_error", "billing_error", "insufficient_quota"}

\* What is absent is none of the things it is the absence of.
ASSUME NothingAssumption ==
    /\ Nothing \notin ErrorTypes
    /\ Nothing \notin [status : Nat, type : {Nothing} \cup ErrorTypes, tooLong : BOOLEAN]

Refused == [refused |-> TRUE]
DefaultMaxTokens == 4
MaxInt32 == 100    \* stands for math.MaxInt32

----------------------------------------------------------------------------
\* Messages and blocks.

Text(t) == [kind |-> "text", text |-> t]

\* Message.Text: the concatenation of the text blocks.
TextOf(blocks) ==
    FlattenSeq([i \in DOMAIN blocks |->
        IF blocks[i].kind = "text" THEN blocks[i].text ELSE <<>>])

ThinkingOf(blocks) == SelectSeq(blocks, LAMBDA b : b.kind = "thinking")

IsMedia(b) == b.kind \in {"image", "document"}
HasMedia(m) == \E i \in DOMAIN m.content : IsMedia(m.content[i])

RoleBlockKinds(role) ==
    CASE role \in {"user", "tool"} -> {"text", "image", "document"}
      [] role = "assistant" -> {"text", "thinking"}
      [] role = "system" -> {"text"}
      [] OTHER -> {}

\* Exactly one source; inline bytes need a media type.
ValidMediaBlock(b) ==
    /\ b.data # (b.url # Nothing)
    /\ b.data => b.mime # Nothing

ValidMessages(msgs) ==
    \A i \in DOMAIN msgs :
        /\ msgs[i].role \in {"system", "user", "assistant", "tool"}
        /\ \A j \in DOMAIN msgs[i].content :
            LET b == msgs[i].content[j]
            IN  /\ b.kind \in RoleBlockKinds(msgs[i].role)
                /\ IsMedia(b) => ValidMediaBlock(b)

\* gateToolResultMedia.
MediaGate(msgs, caps) ==
    "ToolResultMedia" \in caps
        \/ \A i \in DOMAIN msgs : msgs[i].role = "tool" => ~HasMedia(msgs[i])

\* DataURLMediaType: the media type a data: URL names; no other URL has one.
DataURLMediaType == ("data:png" :> "png") @@ ("data:pdf" :> "pdf") @@ ("data:odd" :> "odd")

\* What an adapter's table of media types is asked about.
CheckedMIME(b) ==
    IF b.data THEN {b.mime}
    ELSE IF b.url \in DOMAIN DataURLMediaType THEN {DataURLMediaType[b.url]} ELSE {}

----------------------------------------------------------------------------
\* Prepare.

\* A mode the profile cannot express is refused, never dropped.
ToolChoiceOK(choice, caps) ==
    /\ choice.mode \in {"auto", "none", "required", "tool"}
    /\ choice.mode # "auto" => "ToolChoice" \in caps
    /\ choice.mode = "tool" => choice.name # Nothing

Efforts == {Nothing, "low", "high"}

ThinkingOK(thinking, caps) ==
    \/ thinking = Nothing
    \/ /\ thinking.effort \in Efforts
       /\ \/ caps \cap {"Thinking", "ReasoningEffort"} = {}
          \/ thinking.budget > 0
          \/ thinking.budget = 0 /\ thinking.effort # Nothing

\* Mutation: what one capability allows goes out under the other as well.
KeptThinkingUngated(thinking, caps) ==
    IF thinking = Nothing \/ caps \cap {"Thinking", "ReasoningEffort"} = {} THEN Nothing
    ELSE thinking

\* Each field is kept under its own capability; nothing kept is no config.
KeptThinking(thinking, caps) ==
    IF thinking = Nothing THEN Nothing
    ELSE LET kept == [budget |-> IF "Thinking" \in caps THEN thinking.budget ELSE 0,
                      effort |-> IF "ReasoningEffort" \in caps THEN thinking.effort ELSE Nothing]
         IN  IF kept = [budget |-> 0, effort |-> Nothing] THEN Nothing ELSE kept

(***************************************************************************)
(* decodeSchemaObject: absent and null count as not supplied, an object    *)
(* (with or without an empty key) passes, anything else is refused.        *)
(***************************************************************************)
SchemaOK(s) == s \in {"absent", "null", "object", "emptykey"}
Decoded(s) == IF s \in {"absent", "null"} THEN Nothing ELSE s

Prepare(caps, req) ==
    IF \/ ~ValidMessages(req.messages)
       \/ ~MediaGate(req.messages, caps)
       \/ ~ToolChoiceOK(req.choice, caps)
       \/ ~ThinkingOK(req.thinking, caps)
       \/ \E i \in DOMAIN req.tools : ~SchemaOK(req.tools[i].params)
       \/ "StructuredOutput" \in caps /\ ~SchemaOK(req.schema)
    THEN Refused
    ELSE [refused |-> FALSE,
          messages |-> req.messages,
          maxTokens |-> IF req.maxTokens <= 0 THEN DefaultMaxTokens ELSE req.maxTokens,
          fields |-> req.fields \cap caps,
          seed |-> IF "Seed" \in caps THEN req.seed ELSE Nothing,
          thinking |-> KeptThinking(req.thinking, caps),
          choice |-> req.choice,
          tools |-> [i \in DOMAIN req.tools |->
                        [name |-> req.tools[i].name, params |-> Decoded(req.tools[i].params)]],
          schema |-> IF "StructuredOutput" \in caps THEN Decoded(req.schema) ELSE Nothing]

\* ApplyOverride: a profile above what the adapter maps is refused by New.
ApplyOverride(ceiling, effective) == effective \cap Gates \subseteq ceiling

----------------------------------------------------------------------------
\* Failures.  The kinds are llmkit's sentinels; "canceled" is no APIError.

ClassifyStatus(status, tooLong) ==
    CASE status = 429 -> "rate_limited"
      [] status \in {401, 403} -> "auth"
      [] status = 413 -> "context_too_long"
      [] status = 400 -> IF tooLong THEN "context_too_long" ELSE "invalid_request"
      [] status = 529 -> "overloaded"
      [] status >= 500 /\ status # 529 -> "server"
      [] OTHER -> "invalid_request"

VendorKind(type) ==
    CASE type = "overloaded_error" -> "overloaded"
      [] type = "rate_limit_error" -> "rate_limited"
      [] type \in {"invalid_request_error", "not_found_error"} -> "invalid_request"
      [] type \in {"authentication_error", "permission_error", "billing_error", "insufficient_quota"} -> "auth"
      [] OTHER -> "server"

\* The status decides from 400 on, the body's error type below.
NormalizeSDKError(status, type, tooLong) ==
    IF status >= 400 THEN ClassifyStatus(status, tooLong) ELSE VendorKind(type)

\* A caller's cancellation is terminal; a deadline and a reset can be retried.
TransportError(ctx) ==
    IF ctx = "canceled" THEN "canceled" ELSE NormalizeSDKError(0, Nothing, FALSE)

\* Mutation: the requests are not counted.
NoResponseErrorUncounted(ctx, requests) == TransportError(ctx)

\* Nothing reached the transport under a live context: the SDK refused.
NoResponseError(ctx, requests) ==
    IF requests = 0 /\ ctx = "live"
    THEN NormalizeSDKError(0, "invalid_request_error", FALSE)
    ELSE TransportError(ctx)

\* What a call returns, and the error an SDK made of an HTTP response.
Succeed(resp) == [ok |-> TRUE, kind |-> Nothing, resp |-> resp]
Fail(kind) == [ok |-> FALSE, kind |-> kind, resp |-> Nothing]
SDKError(status, type, tooLong) == [status |-> status, type |-> type, tooLong |-> tooLong]

\* llmkit.Classify: what the retry stage tries again.
Retryable(kind) == kind \in {"rate_limited", "overloaded", "server"}

StopFallback(hasCalls) == IF hasCalls THEN "tool_use" ELSE "error"

(***************************************************************************)
(* The tokens of an exchange: fresh, cached and newly cached input, output *)
(* and reasoning.  Every vendor reports them in a convention of its own;   *)
(* the normalized Usage counts all input as input and reasoning as output. *)
(* Without a report the adapter estimates.                                 *)
(***************************************************************************)
Usage(input, output, cacheRead) ==
    [input |-> input, output |-> output, cacheRead |-> cacheRead]

EstimateUsage == Usage(-1, -1, -1)   \* stands for byte counts over four

----------------------------------------------------------------------------
\* Small helpers of the adapters' mappings.

\* An assistant turn's arguments that encoding/json refuses.
ValidJSON(args) == ~\E i \in DOMAIN args : args[i] = "cut"

\* A turn is never empty on the wire.
OrEmptyText(parts) == IF parts = <<>> THEN <<Text(<<>>)>> ELSE parts

Call(id, name, args) == [id |-> id, name |-> name, args |-> args]

\* The fragments a stream hands to the caller's fn.
TextDelta(t) == [kind |-> "text", text |-> t]
ThinkingDelta(t) == [kind |-> "thinking", text |-> t]
CallDelta(index, id, name, args) ==
    [kind |-> "call", index |-> index, id |-> id, name |-> name, text |-> args]
============================================================================
