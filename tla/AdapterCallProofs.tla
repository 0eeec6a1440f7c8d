------------------------- MODULE AdapterCallProofs -------------------------
(***************************************************************************)
(* Proofs about AdapterCall: how a failed call is named, for every request *)
(* and every message the endpoint may have to say.                         *)
(***************************************************************************)
EXTENDS AdapterCall, TLAPS

(***************************************************************************)
(* Where a call is says what the wire has seen: how many requests and      *)
(* which status.  A result exists only at the end.                         *)
(***************************************************************************)
WireSeen ==
    /\ call.provider \in Providers
    /\ ctx \in {"live", "canceled", "deadline"}
    /\ pc \in {"new", "built", "sent", "rejected", "streaming", "done", "replayed"}
    /\ pc \notin {"done", "replayed"} => result = Nothing /\ told = Nothing
    /\ pc \in {"new", "built"} => requests = 0 /\ status = 0
    /\ pc = "sent" => requests = 1 /\ status = 0
    /\ pc = "rejected" => requests = 1 /\ status \in ErrorStatuses
    /\ pc = "streaming" => requests = 1 /\ status = 200

\* What FailureNamed says of a failure's kind: under a context, a wire and
\* what the endpoint reported.
NamedFor(kind, cx, sent, code, said) ==
    /\ sent = 0 /\ cx # "deadline" => ~Retryable(kind)
    /\ sent = 1 /\ code = 0 => kind = IF cx = "canceled" THEN "canceled" ELSE "server"
    /\ kind = "canceled" => cx = "canceled"
    /\ sent = 1 /\ said = Nothing => kind \in {"canceled", "server"}
    /\ said # Nothing =>
        /\ Retryable(kind) = Transient(said)
        /\ (kind = "auth") = Credential(said)
        /\ (kind = "context_too_long") = TooLong(said)

\* FailureNamed is NamedFor of the result's kind.
LEMMA NamedForResult ==
    FailureNamed <=> (result # Nothing /\ ~result.ok /\ result.kind # "callback"
                        => NamedFor(result.kind, ctx, requests, status, told))
BY DEF FailureNamed, NamedFor

\* What VendorKind makes of a type, an absent one included.
LEMMA VendorKinds ==
    ASSUME NEW type \in NamedTypes
    PROVE  VendorKind(type) =
             IF type = "overloaded_error" THEN "overloaded"
             ELSE IF type = "rate_limit_error" THEN "rate_limited"
             ELSE IF type \in {"invalid_request_error", "not_found_error"} THEN "invalid_request"
             ELSE IF type = Nothing THEN "server" ELSE "auth"
<1>1. Nothing \notin ErrorTypes
  BY NothingAssumption, Zenon
<1>2. CASE type = Nothing
  <2>1. /\ type # "overloaded_error" /\ type # "rate_limit_error"
        /\ type # "invalid_request_error" /\ type # "not_found_error"
        /\ type # "authentication_error" /\ type # "permission_error"
        /\ type # "billing_error" /\ type # "insufficient_quota"
    BY <1>1, <1>2 DEF ErrorTypes
  <2> QED BY <2>1, <1>2, Zenon DEF VendorKind
<1>3. CASE type \in ErrorTypes
  <2>1. type # Nothing
    BY <1>1, <1>3
  <2> QED BY <2>1, <1>3 DEF VendorKind, ErrorTypes
<1> QED BY <1>2, <1>3 DEF NamedTypes

(***************************************************************************)
(* noResponseError names what happened when the SDK made no error of its   *)
(* own: a refusal before the transport, the context's end, or a connection *)
(* lost before or after a 200.                                             *)
(***************************************************************************)
LEMMA NoResponseNamed ==
    ASSUME NEW cx \in {"live", "canceled", "deadline"},
           NEW sent \in {0, 1}, NEW code \in {0, 200}, sent = 0 => code = 0
    PROVE  NamedFor(NoResponseError(cx, sent), cx, sent, code, Nothing)
<1>0. Nothing \in NamedTypes /\ "invalid_request_error" \in NamedTypes
      /\ Nothing # "invalid_request_error"
  BY NothingAssumption DEF NamedTypes, ErrorTypes
<1>1. /\ NormalizeSDKError(0, Nothing, FALSE) = "server"
      /\ NormalizeSDKError(0, "invalid_request_error", FALSE) = "invalid_request"
  <2>1. VendorKind("invalid_request_error") = "invalid_request"
    BY DEF VendorKind
  <2>2. VendorKind(Nothing) = "server"
    <3>1. Nothing \notin ErrorTypes
      BY NothingAssumption, Zenon
    <3>2. /\ Nothing # "overloaded_error" /\ Nothing # "rate_limit_error"
          /\ Nothing \notin {"invalid_request_error", "not_found_error"}
      BY <3>1 DEF ErrorTypes
    <3> QED BY <3>2, <1>0, VendorKinds, Zenon
  <2> QED BY <2>1, <2>2 DEF NormalizeSDKError
<1>2. NoResponseError(cx, sent) =
        IF sent = 0 /\ cx = "live" THEN "invalid_request"
        ELSE IF cx = "canceled" THEN "canceled" ELSE "server"
  BY <1>1 DEF NoResponseError, TransportError
<1> QED BY <1>2 DEF NamedFor, Retryable

\* An error the endpoint reported, told from an absent one.
LEMMA SDKErrorIs ==
    ASSUME NEW code \in Nat, NEW type \in NamedTypes, NEW tooLong \in BOOLEAN
    PROVE  LET e == SDKError(code, type, tooLong)
           IN  e # Nothing /\ e.status = code /\ e.type = type /\ e.tooLong = tooLong
<1> DEFINE e == SDKError(code, type, tooLong)
<1>1. e \in [status : Nat, type : {Nothing} \cup ErrorTypes, tooLong : BOOLEAN]
  BY DEF SDKError, NamedTypes
<1>2. e # Nothing
  BY <1>1, NothingAssumption, Zenon
<1>3. e.status = code /\ e.type = type /\ e.tooLong = tooLong
  BY DEF SDKError
<1> QED BY <1>2, <1>3

(***************************************************************************)
(* What the endpoint reported is judged by what it says, under any context *)
(* and behind any status of the response it came in.                       *)
(***************************************************************************)
LEMMA ReportNamed ==
    ASSUME NEW cx, NEW seen \in Nat \ {0},
           NEW code \in Nat, NEW type \in NamedTypes, NEW tooLong \in BOOLEAN
    PROVE  NamedFor(NormalizeSDKError(code, type, tooLong), cx, 1, seen, SDKError(code, type, tooLong))
<1> DEFINE e == SDKError(code, type, tooLong)
           kind == NormalizeSDKError(code, type, tooLong)
<1>1. e # Nothing /\ e.status = code /\ e.type = type /\ e.tooLong = tooLong
  BY SDKErrorIs
<1> HIDE DEF e
<1>2. CASE code >= 400
  <2>1. kind = ClassifyStatus(code, tooLong)
    BY <1>2 DEF NormalizeSDKError
  <2>2. kind = IF code = 429 THEN "rate_limited" ELSE IF code \in {401, 403} THEN "auth"
               ELSE IF code = 413 THEN "context_too_long"
               ELSE IF code = 400 THEN (IF tooLong THEN "context_too_long" ELSE "invalid_request")
               ELSE IF code = 529 THEN "overloaded"
               ELSE IF code >= 500 THEN "server" ELSE "invalid_request"
    BY <2>1 DEF ClassifyStatus
  <2> HIDE DEF kind
  <2>3. /\ kind # "canceled"
        /\ Retryable(kind) = (code = 429 \/ code >= 500)
        /\ (kind = "auth") = (code \in {401, 403})
        /\ (kind = "context_too_long") = (code = 413 \/ (code = 400 /\ tooLong))
    BY <2>2, <1>2 DEF Retryable
  <2>4. /\ Transient(e) = (code = 429 \/ code >= 500)
        /\ Credential(e) = (code \in {401, 403})
        /\ TooLong(e) = (code = 413 \/ (code = 400 /\ tooLong))
    BY <1>1, <1>2 DEF Transient, Credential, TooLong
  <2> QED BY <1>1, <2>3, <2>4 DEF NamedFor, e, kind
<1>3. CASE ~(code >= 400)
  <2>1. kind = VendorKind(type)
    BY <1>3 DEF NormalizeSDKError
  <2>2. kind = IF type = "overloaded_error" THEN "overloaded"
               ELSE IF type = "rate_limit_error" THEN "rate_limited"
               ELSE IF type \in {"invalid_request_error", "not_found_error"} THEN "invalid_request"
               ELSE IF type = Nothing THEN "server" ELSE "auth"
    BY <2>1, VendorKinds
  <2>3. Nothing \notin ErrorTypes
    BY NothingAssumption, Zenon
  <2> HIDE DEF kind
  <2>4. /\ kind # "canceled" /\ kind # "context_too_long"
        /\ Retryable(kind) = (type \notin ErrorTypes \ {"overloaded_error", "rate_limit_error"})
        /\ (kind = "auth") = (type \in {"authentication_error", "permission_error", "billing_error",
                                        "insufficient_quota"})
    <3>1. CASE type = Nothing
      <4>1. kind = "server"
        BY <2>2, <2>3, <3>1 DEF ErrorTypes
      <4> QED BY <4>1, <2>3, <3>1 DEF Retryable, ErrorTypes
    <3>2. CASE type \in ErrorTypes
      <4>1. type # Nothing
        BY <2>3, <3>2
      <4> QED BY <4>1, <2>2, <3>2 DEF Retryable, ErrorTypes
    <3> QED BY <3>1, <3>2 DEF NamedTypes
  <2>5. /\ Transient(e) = (type \notin ErrorTypes \ {"overloaded_error", "rate_limit_error"})
        /\ Credential(e) = (type \in {"authentication_error", "permission_error", "billing_error",
                                      "insufficient_quota"})
        /\ TooLong(e) = FALSE
    BY <1>1, <1>3 DEF Transient, Credential, TooLong
  <2>6. /\ kind # "canceled"
        /\ Retryable(kind) = Transient(e)
        /\ (kind = "auth") = Credential(e)
        /\ (kind = "context_too_long") = TooLong(e)
    BY <2>4, <2>5
  <2>7. NamedFor(kind, cx, 1, seen, e)
    BY <1>1, <2>6 DEF NamedFor
  <2> QED BY <2>7 DEF e, kind
<1> QED BY <1>2, <1>3

\* The same, of what a committed response says.
LEMMA CommittedReportNamed ==
    ASSUME NEW cx, NEW type \in NamedTypes
    PROVE  NamedFor(NormalizeSDKError(200, type, FALSE), cx, 1, 200, SDKError(200, type, FALSE))
<1>1. \A tooLong \in BOOLEAN :
        NamedFor(NormalizeSDKError(200, type, tooLong), cx, 1, 200, SDKError(200, type, tooLong))
  BY ReportNamed
<1> QED BY <1>1, Zenon

\* After a 200 and without a word of the endpoint, any context.
LEMMA CommittedNamed ==
    \A cx : NamedFor("server", cx, 1, 200, Nothing)
BY DEF NamedFor, Retryable

\* What a committed stream says that has no completion in it.
LEMMA CommittedKind == NormalizeSDKError(200, Nothing, FALSE) = "server"
<1>1. Nothing \notin ErrorTypes /\ Nothing \in NamedTypes
  BY NothingAssumption, Zenon DEF NamedTypes
<1>2. /\ Nothing # "overloaded_error" /\ Nothing # "rate_limit_error"
      /\ Nothing \notin {"invalid_request_error", "not_found_error"}
  BY <1>1 DEF ErrorTypes
<1>3. VendorKind(Nothing) = "server"
  BY <1>1, <1>2, VendorKinds, Zenon
<1> QED BY <1>3 DEF NormalizeSDKError

\* The three adapters share the rules of internal/adapter.
LEMMA SameRules ==
    /\ \A code, type, tooLong :
        /\ A!NormalizeSDKError(code, type, tooLong) = NormalizeSDKError(code, type, tooLong)
        /\ O!NormalizeSDKError(code, type, tooLong) = NormalizeSDKError(code, type, tooLong)
        /\ G!NormalizeSDKError(code, type, tooLong) = NormalizeSDKError(code, type, tooLong)
    /\ \A cx, sent :
        /\ A!NoResponseError(cx, sent) = NoResponseError(cx, sent)
        /\ O!NoResponseError(cx, sent) = NoResponseError(cx, sent)
        /\ G!NoResponseError(cx, sent) = NoResponseError(cx, sent)
<1>1. \A type : /\ A!VendorKind(type) = VendorKind(type)
                /\ O!VendorKind(type) = VendorKind(type)
                /\ G!VendorKind(type) = VendorKind(type)
  BY DEF A!VendorKind, O!VendorKind, G!VendorKind, VendorKind
<1>2. \A code, tooLong : /\ A!ClassifyStatus(code, tooLong) = ClassifyStatus(code, tooLong)
                         /\ O!ClassifyStatus(code, tooLong) = ClassifyStatus(code, tooLong)
                         /\ G!ClassifyStatus(code, tooLong) = ClassifyStatus(code, tooLong)
  BY DEF A!ClassifyStatus, O!ClassifyStatus, G!ClassifyStatus, ClassifyStatus
<1>3. \A code, type, tooLong :
        /\ A!NormalizeSDKError(code, type, tooLong) = NormalizeSDKError(code, type, tooLong)
        /\ O!NormalizeSDKError(code, type, tooLong) = NormalizeSDKError(code, type, tooLong)
        /\ G!NormalizeSDKError(code, type, tooLong) = NormalizeSDKError(code, type, tooLong)
  BY <1>1, <1>2 DEF A!NormalizeSDKError, O!NormalizeSDKError, G!NormalizeSDKError, NormalizeSDKError
<1>4. \A cx, sent :
        /\ A!NoResponseError(cx, sent) = NoResponseError(cx, sent)
        /\ O!NoResponseError(cx, sent) = NoResponseError(cx, sent)
        /\ G!NoResponseError(cx, sent) = NoResponseError(cx, sent)
  BY <1>3 DEF A!NoResponseError, O!NoResponseError, G!NoResponseError, NoResponseError,
              A!TransportError, O!TransportError, G!TransportError, TransportError
<1> QED BY <1>3, <1>4

\* The adapter a call goes through says what an error is named.
LEMMA ErrorOfProvider ==
    ASSUME call.provider \in Providers, NEW e
    PROVE  ErrorOf(e) = IF call.provider = "anthropic" THEN A!NormalizeErr(e, ctx, requests)
                        ELSE IF call.provider = "google" THEN G!NormalizeErr(e, ctx, requests, status)
                        ELSE O!NormalizeErr(e, ctx, requests)
<1>1. CASE call.provider = "anthropic"
  BY <1>1 DEF ErrorOf, OpenAIs
<1>2. CASE call.provider = "google"
  BY <1>2 DEF ErrorOf, OpenAIs
<1>3. CASE call.provider \in OpenAIs
  BY <1>3 DEF ErrorOf, OpenAIs
<1> QED BY <1>1, <1>2, <1>3 DEF Providers, OpenAIs

\* Without an error of the SDK's, every adapter asks noResponseError.
LEMMA ErrorOfNothing ==
    ASSUME call.provider \in Providers
    PROVE  ErrorOf(Nothing) = NoResponseError(ctx, requests)
BY ErrorOfProvider, SameRules DEF A!NormalizeErr, O!NormalizeErr, G!NormalizeErr

\* An SDK's error goes through normalizeSDKError; Gemini's names no type.
LEMMA ErrorOfSDK ==
    ASSUME call.provider \in Providers,
           NEW code \in Nat, NEW type \in NamedTypes, NEW tooLong \in BOOLEAN
    PROVE  ErrorOf(SDKError(code, type, tooLong)) =
             IF call.provider = "google"
             THEN NormalizeSDKError(IF code = 0 THEN status ELSE code, Nothing, tooLong)
             ELSE NormalizeSDKError(code, type, tooLong)
<1> DEFINE e == SDKError(code, type, tooLong)
<1>1. e # Nothing /\ e.status = code /\ e.type = type /\ e.tooLong = tooLong
  BY SDKErrorIs
<1> HIDE DEF e
<1> QED
  BY <1>1, ErrorOfProvider, SameRules
  DEF A!NormalizeErr, O!NormalizeErr, G!NormalizeErr, e

----------------------------------------------------------------------------
\* A failure is named for what happened.

\* What Report does to the state that WireSeen and FailureNamed speak of.
LEMMA ReportKept ==
    ASSUME WireSeen, NEW kind, NEW said,
           kind = "callback" \/ NamedFor(kind, ctx, requests, status, said),
           Report(Fail(kind), said)
    PROVE  WireSeen' /\ FailureNamed'
<1>1. /\ result' = Fail(kind) /\ told' = said /\ pc' = "done"
      /\ UNCHANGED <<call, ctx, requests, status>>
  BY DEF Report
<1>2. WireSeen'
  BY <1>1 DEF WireSeen, Providers
<1>3. result'.kind = kind
  BY <1>1 DEF Fail
<1>4. result'.kind # "callback" => NamedFor(result'.kind, ctx', requests', status', told')
  BY <1>1, <1>3
<1> QED BY <1>2, <1>4 DEF FailureNamed, NamedFor, Transient, Credential, TooLong

\* What the adapters make of the end of a stream fails under its right name.
LEMMA StreamEndNamed ==
    ASSUME WireSeen, pc = "streaming"
    PROVE  \/ \E resp : StreamEnd = Succeed(resp)
           \/ \E kind : StreamEnd = Fail(kind) /\ NamedFor(kind, ctx, requests, status, Nothing)
<1>1. /\ call.provider \in Providers /\ ctx \in {"live", "canceled", "deadline"}
      /\ requests = 1 /\ status = 200
  BY DEF WireSeen
<1>2. NamedFor(NoResponseError(ctx, requests), ctx, requests, status, Nothing)
  BY <1>1, NoResponseNamed
<1>3. NamedFor(NormalizeSDKError(200, Nothing, FALSE), ctx, requests, status, Nothing)
  <2>1. NamedFor("server", ctx, 1, 200, Nothing)
    BY CommittedNamed, Zenon
  <2> QED BY <2>1, <1>1, CommittedKind
<1>4. CASE call.provider = "anthropic"
  <2>1. StreamEnd = A!StreamEnd(acc, Synthetic, ctx, requests)
    BY <1>4 DEF StreamEnd, OpenAIs
  <2>2. \/ StreamEnd = A!Fail(A!NormalizeErr(Nothing, ctx, requests))
        \/ StreamEnd = A!Fail(A!NoCompletionError(200, Nothing))
        \/ StreamEnd = A!Succeed(A!Respond(acc, Synthetic))
    BY <2>1, Zenon DEF A!StreamEnd
  <2>3. /\ A!NormalizeErr(Nothing, ctx, requests) = NoResponseError(ctx, requests)
        /\ A!NoCompletionError(200, Nothing) = NormalizeSDKError(200, Nothing, FALSE)
    BY SameRules, Zenon DEF A!NormalizeErr, A!NoCompletionError
  <2>4. \/ StreamEnd = Fail(NoResponseError(ctx, requests))
        \/ StreamEnd = Fail(NormalizeSDKError(200, Nothing, FALSE))
        \/ StreamEnd = Succeed(A!Respond(acc, Synthetic))
    BY <2>2, <2>3, Zenon DEF A!Fail, Fail, A!Succeed, Succeed
  <2> QED BY <2>4, <1>2, <1>3, Zenon
<1>5. CASE call.provider \in OpenAIs
  <2>1. StreamEnd = O!StreamEnd(acc, call.provider, ctx, requests)
    BY <1>5 DEF StreamEnd, OpenAIs
  <2>2. \/ StreamEnd = O!Fail(O!NormalizeErr(Nothing, ctx, requests))
        \/ StreamEnd = O!Succeed(O!ToResponse(O!Folded(acc), call.provider))
    BY <2>1, Zenon DEF O!StreamEnd
  <2>3. O!NormalizeErr(Nothing, ctx, requests) = NoResponseError(ctx, requests)
    BY SameRules, Zenon DEF O!NormalizeErr
  <2>4. \/ StreamEnd = Fail(NoResponseError(ctx, requests))
        \/ StreamEnd = Succeed(O!ToResponse(O!Folded(acc), call.provider))
    BY <2>2, <2>3, Zenon DEF O!Fail, Fail, O!Succeed, Succeed
  <2> QED BY <2>4, <1>2, Zenon
<1>6. CASE call.provider = "google"
  <2>1. StreamEnd = G!StreamEnd(acc, ctx, requests)
    BY <1>6 DEF StreamEnd, OpenAIs
  <2>2. \/ StreamEnd = G!Fail(G!NormalizeErr(Nothing, ctx, requests, 200))
        \/ StreamEnd = G!Fail(G!CheckCompletion)
        \/ StreamEnd = G!Succeed(G!ToResponse(acc))
    BY <2>1, Zenon DEF G!StreamEnd
  <2>3. /\ G!NormalizeErr(Nothing, ctx, requests, 200) = NoResponseError(ctx, requests)
        /\ G!CheckCompletion = NormalizeSDKError(200, Nothing, FALSE)
    BY SameRules, Zenon DEF G!NormalizeErr, G!CheckCompletion
  <2>4. \/ StreamEnd = Fail(NoResponseError(ctx, requests))
        \/ StreamEnd = Fail(NormalizeSDKError(200, Nothing, FALSE))
        \/ StreamEnd = Succeed(G!ToResponse(acc))
    BY <2>2, <2>3, Zenon DEF G!Fail, Fail, G!Succeed, Succeed
  <2> QED BY <2>4, <1>2, <1>3, Zenon
<1> QED BY <1>1, <1>4, <1>5, <1>6 DEF Providers, OpenAIs

\* A whole body holds a completion, or the kind of failure it names; genai
\* drops what it names.
LEMMA CompletedNamed ==
    ASSUME call.provider \in Providers, NEW type \in NamedTypes,
           call.provider = "google" => type = Nothing
    PROVE  \/ \E resp : Completed(type) = Succeed(resp)
           \/ \E kind : /\ Completed(type) = Fail(kind)
                        /\ NamedFor(kind, ctx, 1, 200, SDKError(200, type, FALSE))
<1> DEFINE said == SDKError(200, type, FALSE)
<1>1. NamedFor(NormalizeSDKError(200, type, FALSE), ctx, 1, 200, said)
  BY CommittedReportNamed
<1> HIDE DEF said
<1>2. CASE call.provider = "anthropic"
  <2>1. Completed(type) = A!Complete(call.msg, Synthetic, type)
    BY <1>2 DEF Completed, OpenAIs
  <2>2. \/ Completed(type) = A!Fail(A!NoCompletionError(200, type))
        \/ Completed(type) = A!Succeed(A!Respond(call.msg, Synthetic))
    BY <2>1, Zenon DEF A!Complete
  <2>3. \/ Completed(type) = Fail(NormalizeSDKError(200, type, FALSE))
        \/ Completed(type) = Succeed(A!Respond(call.msg, Synthetic))
    BY <2>2, SameRules, Zenon DEF A!Fail, Fail, A!Succeed, Succeed, A!NoCompletionError
  <2> QED BY <2>3, <1>1, Zenon DEF said
<1>3. CASE call.provider \in OpenAIs
  <2>1. Completed(type) = O!Complete(call.msg, call.provider, type)
    BY <1>3 DEF Completed, OpenAIs
  <2>2. \/ Completed(type) = O!Fail(O!NoCompletion(type))
        \/ Completed(type) = O!Succeed(O!Respond(call.msg, call.provider))
    BY <2>1, Zenon DEF O!Complete
  <2>3. \/ Completed(type) = Fail(NormalizeSDKError(200, type, FALSE))
        \/ Completed(type) = Succeed(O!Respond(call.msg, call.provider))
    BY <2>2, SameRules, Zenon DEF O!Fail, Fail, O!Succeed, Succeed, O!NoCompletion
  <2> QED BY <2>3, <1>1, Zenon DEF said
<1>4. CASE call.provider = "google"
  <2>1. Completed(type) = G!Complete(call.msg)
    BY <1>4 DEF Completed, OpenAIs
  <2>2. \/ Completed(type) = G!Fail(G!CheckCompletion)
        \/ Completed(type) = G!Succeed(G!ToResponse(call.msg))
    BY <2>1, Zenon DEF G!Complete
  <2>3. \/ Completed(type) = Fail(NormalizeSDKError(200, type, FALSE))
        \/ Completed(type) = Succeed(G!ToResponse(call.msg))
    BY <2>2, <1>4, SameRules, Zenon DEF G!Fail, Fail, G!Succeed, Succeed, G!CheckCompletion
  <2> QED BY <2>3, <1>1, Zenon DEF said
<1> QED BY <1>2, <1>3, <1>4 DEF Providers, OpenAIs

\* The states before a call.
LEMMA WireSeenInit == Init => WireSeen /\ FailureNamed
<1> SUFFICES ASSUME Init PROVE WireSeen /\ FailureNamed
  OBVIOUS
<1>1. call.provider \in Providers
  <2>1. PICK s \in Scenarios : call.provider = s.provider
    BY DEF Init
  <2> QED BY <2>1, ScenarioAssumption DEF Providers
<1>2. /\ pc = "new" /\ ctx = "live" /\ requests = 0 /\ status = 0
      /\ result = Nothing /\ told = Nothing
  BY DEF Init
<1> QED BY <1>1, <1>2 DEF WireSeen, FailureNamed

(***************************************************************************)
(* Every step keeps the two: the steps that return name the failure by     *)
(* what the wire has seen, and no step after them touches what the name    *)
(* was judged by.                                                          *)
(***************************************************************************)
LEMMA WireSeenNext ==
    ASSUME WireSeen, FailureNamed, [Next]_vars
    PROVE  WireSeen' /\ FailureNamed'
<1>0. call.provider \in Providers /\ ctx \in {"live", "canceled", "deadline"}
  BY DEF WireSeen
<1>1. CASE BuildRequest
  <2>1. CASE Return(Fail("invalid_request"))
    <3>1. NamedFor("invalid_request", ctx, requests, status, Nothing)
      BY <1>1 DEF BuildRequest, WireSeen, NamedFor, Retryable
    <3>2. Report(Fail("invalid_request"), Nothing)
      BY <2>1 DEF Return
    <3> QED BY <3>1, <3>2, ReportKept
  <2>2. CASE pc' = "built" /\ UNCHANGED <<call, ctx, requests, status, result, told>>
    BY <2>2, <1>1 DEF BuildRequest, WireSeen, FailureNamed
  <2> QED BY <1>1, <2>1, <2>2 DEF BuildRequest
<1>2. CASE SDKRefuses \/ TransportFails \/ Reset
  <2>1. NamedFor(ErrorOf(Nothing), ctx, requests, status, Nothing)
    BY <1>2, <1>0, ErrorOfNothing, NoResponseNamed DEF SDKRefuses, TransportFails, Reset, WireSeen
  <2>2. Report(Fail(ErrorOf(Nothing)), Nothing)
    BY <1>2 DEF SDKRefuses, TransportFails, Reset, Return
  <2> QED BY <2>1, <2>2, ReportKept
<1>3. CASE Send
  BY <1>3 DEF Send, WireSeen, FailureNamed
<1>4. CASE Rejected
  BY <1>4 DEF Rejected, WireSeen, FailureNamed
<1>5. CASE ErrorBody
  <2>1. PICK type \in NamedTypes, tooLong \in BOOLEAN,
             coded \in IF call.provider = "google" THEN BOOLEAN ELSE {TRUE} :
            Report(Fail(ErrorOf(SDKError(IF coded THEN status ELSE 0, type, tooLong))),
                   SDKError(status, type, tooLong))
    BY <1>5 DEF ErrorBody
  <2>2. requests = 1 /\ status \in ErrorStatuses
    BY <1>5 DEF ErrorBody, WireSeen
  <2>3. status \in Nat \ {0} /\ status >= 400
    BY <2>2 DEF ErrorStatuses
  <2>4. NamedFor(NormalizeSDKError(status, type, tooLong), ctx, requests, status,
                 SDKError(status, type, tooLong))
    BY <2>2, <2>3, ReportNamed
  <2>5. ErrorOf(SDKError(IF coded THEN status ELSE 0, type, tooLong)) =
          NormalizeSDKError(status, type, tooLong)
    <3>1. CASE call.provider = "google"
      <4>1. PICK code \in Nat : code = IF coded THEN status ELSE 0
        BY <2>3
      <4>2. (IF code = 0 THEN status ELSE code) = status
        BY <4>1, <2>3
      <4>3. ErrorOf(SDKError(code, type, tooLong)) =
              NormalizeSDKError(IF code = 0 THEN status ELSE code, Nothing, tooLong)
        BY <3>1, <1>0, ErrorOfSDK, Zenon
      <4>4. NormalizeSDKError(status, Nothing, tooLong) = NormalizeSDKError(status, type, tooLong)
        BY <2>3 DEF NormalizeSDKError
      <4> QED BY <4>1, <4>2, <4>3, <4>4, Zenon
    <3>2. CASE call.provider # "google"
      <4>1. coded = TRUE /\ status \in Nat
        BY <3>2, <2>3
      <4>2. ErrorOf(SDKError(status, type, tooLong)) = NormalizeSDKError(status, type, tooLong)
        BY <3>2, <4>1, <1>0, ErrorOfSDK, Zenon
      <4> QED BY <4>1, <4>2, Zenon
    <3> QED BY <3>1, <3>2
  <2> QED BY <2>1, <2>4, <2>5, ReportKept
<1>6. CASE Answered
  <2>1. PICK type \in IF call.provider = "google" THEN {Nothing} ELSE NamedTypes :
            /\ result' = Completed(type)
            /\ told' = IF result'.ok THEN Nothing ELSE SDKError(200, type, FALSE)
    BY <1>6 DEF Answered
  <2>2. requests' = 1 /\ status' = 200 /\ pc' = "done" /\ ctx' = ctx /\ call' = call
    BY <1>6 DEF Answered, WireSeen
  <2>3. WireSeen'
    BY <2>2, <1>0 DEF WireSeen
  <2>4. type \in NamedTypes /\ (call.provider = "google" => type = Nothing)
    BY <2>1 DEF NamedTypes
  <2>5. CASE \E resp : Completed(type) = Succeed(resp)
    <3>1. PICK resp : Completed(type) = Succeed(resp)
      BY <2>5, Zenon
    <3>2. result'.ok = TRUE
      BY <3>1, <2>1 DEF Succeed
    <3> QED BY <2>3, <3>2 DEF FailureNamed
  <2>6. CASE \E kind : /\ Completed(type) = Fail(kind)
                       /\ NamedFor(kind, ctx, 1, 200, SDKError(200, type, FALSE))
    <3>1. PICK kind : /\ Completed(type) = Fail(kind)
                      /\ NamedFor(kind, ctx, 1, 200, SDKError(200, type, FALSE))
      BY <2>6, Zenon
    <3>2. result'.kind = kind /\ result'.ok = FALSE
      BY <3>1, <2>1 DEF Fail
    <3>3. told' = SDKError(200, type, FALSE)
      BY <2>1, <3>2, Zenon
    <3>4. NamedFor(result'.kind, ctx', requests', status', told')
      BY <3>1, <3>2, <3>3, <2>2, Zenon
    <3> QED BY <2>3, <3>4 DEF FailureNamed, NamedFor, Transient, Credential, TooLong
  <2> QED BY <2>4, <2>5, <2>6, <1>0, CompletedNamed
<1>7. CASE BodyCut
  <2>1. /\ requests = 1 /\ requests' = 1 /\ status' = 200 /\ pc' = "done"
        /\ ctx' = ctx /\ call' = call /\ told' = Nothing
    BY <1>7 DEF BodyCut, WireSeen
  <2>2. WireSeen'
    BY <2>1, <1>0 DEF WireSeen
  <2>3. PICK kind : result' = Fail(kind) /\ NamedFor(kind, ctx, 1, 200, Nothing)
    <3>1. NamedFor(ErrorOf(Nothing), ctx, 1, 200, Nothing)
      BY <2>1, <1>0, ErrorOfNothing, NoResponseNamed
    <3>2. NamedFor(G!PanicError(200), ctx, 1, 200, Nothing)
      <4>1. NamedFor("server", ctx, 1, 200, Nothing)
        BY CommittedNamed, Zenon
      <4>2. G!PanicError(200) = "server"
        BY SameRules, CommittedKind DEF G!PanicError
      <4> QED BY <4>1, <4>2
    <3> QED BY <1>7, <3>1, <3>2 DEF BodyCut
  <2> QED BY <2>1, <2>2, <2>3 DEF Fail, FailureNamed, NamedFor
<1>8. CASE OpenStream
  BY <1>8 DEF OpenStream, WireSeen, FailureNamed
<1>9. CASE Fragment \/ Close
  BY <1>9 DEF Fragment, Close, Take, WireSeen, FailureNamed
<1>10. CASE CallbackFails
  <2>1. Report(Fail("callback"), Nothing)
    BY <1>10 DEF CallbackFails, Return
  <2> QED BY <2>1, ReportKept
<1>11. CASE Violated
  <2>1. requests = 1 /\ status = 200
    BY <1>11 DEF Violated, WireSeen
  <2>2. NamedFor(ErrorOf(Nothing), ctx, requests, status, Nothing)
    BY <2>1, <1>0, ErrorOfNothing, NoResponseNamed
  <2>3. NamedFor("server", ctx, requests, status, Nothing)
    BY <2>1, CommittedNamed
  <2>4. O!BadChunk = "server" /\ G!PanicError(status) = "server"
    BY <2>1, SameRules, CommittedKind DEF O!BadChunk, G!PanicError
  <2>5. Report(Fail(ErrorOf(Nothing)), Nothing) \/ Report(Fail("server"), Nothing)
    BY <1>0, <1>11, <2>4 DEF Violated, OpenAIs, Providers, Return
  <2> QED BY <2>2, <2>3, <2>5, ReportKept
<1>12. CASE InBandError
  <2>1. requests = 1 /\ status = 200
    BY <1>12 DEF InBandError, WireSeen
  <2>2. PICK e \in InBandErrors :
          Report(Fail(ErrorOf(e)), [e EXCEPT !.status = IF @ = 0 THEN status ELSE @])
    BY <1>12 DEF InBandError
  <2>3. CASE call.provider = "google"
    <3>1. PICK code \in {0, 400, 401, 429, 500}, tooLong \in BOOLEAN :
            e = SDKError(code, Nothing, tooLong)
      BY <2>2, <2>3 DEF InBandErrors
    <3>2. PICK seen \in Nat : seen = IF code = 0 THEN status ELSE code
      BY <2>1
    <3>3. Nothing \in NamedTypes /\ code \in Nat
      BY DEF NamedTypes
    <3>4. [e EXCEPT !.status = IF @ = 0 THEN status ELSE @] = SDKError(seen, Nothing, tooLong)
      BY <3>1, <3>2 DEF SDKError
    <3>5. ErrorOf(e) = NormalizeSDKError(seen, Nothing, tooLong)
      <4>1. ErrorOf(SDKError(code, Nothing, tooLong)) =
              NormalizeSDKError(IF code = 0 THEN status ELSE code, Nothing, tooLong)
        BY <3>3, <2>3, <1>0, ErrorOfSDK
      <4> QED BY <4>1, <3>1, <3>2, Zenon
    <3>6. NamedFor(ErrorOf(e), ctx, requests, status, SDKError(seen, Nothing, tooLong))
      BY <3>3, <3>5, <2>1, ReportNamed
    <3> QED BY <2>2, <3>4, <3>6, ReportKept
  <2>4. CASE call.provider # "google"
    <3>1. PICK type \in NamedTypes : e = SDKError(200, type, FALSE)
      <4>1. InBandErrors = {SDKError(200, type, FALSE) : type \in NamedTypes}
        BY <2>4 DEF InBandErrors
      <4> QED BY <2>2, <4>1, Zenon
    <3>2. [e EXCEPT !.status = IF @ = 0 THEN status ELSE @] = SDKError(200, type, FALSE)
      <4>1. \A tooLong : LET x == SDKError(200, type, tooLong)
                         IN  [x EXCEPT !.status = IF @ = 0 THEN status ELSE @] = x
        BY DEF SDKError
      <4> QED BY <3>1, <4>1, Zenon
    <3>3. ErrorOf(e) = NormalizeSDKError(200, type, FALSE)
      <4>1. 200 \in Nat /\ FALSE \in BOOLEAN
        OBVIOUS
      <4>2. ErrorOf(SDKError(200, type, FALSE)) = NormalizeSDKError(200, type, FALSE)
        BY <4>1, <2>4, <1>0, ErrorOfSDK, Zenon
      <4> QED BY <3>1, <4>2, Zenon
    <3>4. NamedFor(ErrorOf(e), ctx, requests, status, SDKError(200, type, FALSE))
      <4>1. NamedFor(NormalizeSDKError(200, type, FALSE), ctx, 1, 200, SDKError(200, type, FALSE))
        BY CommittedReportNamed, Zenon
      <4> QED BY <4>1, <3>3, <2>1, Zenon
    <3> QED BY <2>2, <3>2, <3>4, ReportKept
  <2> QED BY <2>3, <2>4
<1>13. CASE EndOfStream
  <2>1. pc = "streaming" /\ Report(StreamEnd, Nothing)
    BY <1>13 DEF EndOfStream, Return
  <2>2. CASE \E resp : StreamEnd = Succeed(resp)
    BY <2>1, <2>2, <1>0 DEF Report, Succeed, WireSeen, FailureNamed
  <2>3. CASE \E kind : StreamEnd = Fail(kind) /\ NamedFor(kind, ctx, requests, status, Nothing)
    BY <2>1, <2>3, ReportKept
  <2> QED BY <2>1, <2>2, <2>3, StreamEndNamed
<1>14. CASE ContextEnds
  BY <1>14 DEF ContextEnds, WireSeen, FailureNamed
<1>15. CASE Replay
  BY <1>15 DEF Replay, WireSeen, FailureNamed, Transient, Credential, TooLong
<1>16. CASE UNCHANGED vars
  BY <1>16 DEF vars, WireSeen, FailureNamed, Transient, Credential, TooLong
<1> QED
  BY <1>1, <1>2, <1>3, <1>4, <1>5, <1>6, <1>7, <1>8, <1>9, <1>10, <1>11, <1>12, <1>13, <1>14, <1>15,
     <1>16 DEF Next

(***************************************************************************)
(* A failure is named for what happened, whichever vendor, request and     *)
(* endpoint: nothing is retried that was never sent or that the caller     *)
(* canceled, a lost connection always is, and an error the endpoint        *)
(* reported, by a status or inside a committed stream, is judged by what   *)
(* it says (normalizeErr, noResponseError and checkCompletion of the three *)
(* adapters, vendorKind and classifyStatus of internal/adapter).           *)
(***************************************************************************)
THEOREM FailuresNamed == Spec => []FailureNamed
<1>1. Init => WireSeen /\ FailureNamed
  BY WireSeenInit
<1>2. WireSeen /\ FailureNamed /\ [Next]_vars => (WireSeen /\ FailureNamed)'
  BY WireSeenNext
<1> QED BY <1>1, <1>2, PTL DEF Spec

----------------------------------------------------------------------------
\* No stream that was cut succeeds.

\* An accumulator that no closing event has reached.
Unfinished ==
    CASE call.provider = "anthropic" -> "sawStop" \in DOMAIN acc /\ acc.sawStop = FALSE
      [] call.provider \in OpenAIs ->
            "cc" \in DOMAIN acc /\ "stop" \in DOMAIN acc.cc /\ acc.cc.stop = Nothing
      [] call.provider = "google" ->
            /\ {"sawFinish", "blocked", "stop"} \subseteq DOMAIN acc
            /\ acc.sawFinish = FALSE /\ acc.blocked = FALSE /\ acc.stop = Nothing

(***************************************************************************)
(* While no closing event has arrived the accumulator is unfinished; a     *)
(* closing event arrives only after every fragment.                        *)
(***************************************************************************)
StreamInOrder ==
    /\ call.provider \in Providers
    /\ call.msg.items \in Seq(Items(call.provider))
    /\ DOMAIN got = DOMAIN call.msg.items
    /\ \A i \in DOMAIN got : got[i] \in 0..Len(ItemEvents(call.msg.items[i]))
    /\ tail \in Nat
    /\ tail = 0 => Unfinished
    /\ tail > 0 => \A i \in DOMAIN got : Arrived(i)

\* The events an item travels as: none of them closes the message.
FragmentTypes == IF call.provider = "anthropic" THEN {"start", "delta", "signature"} ELSE {"delta"}

\* Of an item they keep the kind; its id, name or signature may be missing.
FragmentsOf(item) ==
    [type : FragmentTypes, item : {it \in Items(call.provider) : it.kind = item.kind}, frag : Seq(STRING),
     stop : {call.msg.stop}, usage : {call.msg.usage}, blocked : {call.msg.blocked}]

\* An event about an item, of a type that opens, fills or signs.
LEMMA EventIsFragment ==
    ASSUME NEW item, NEW type \in FragmentTypes,
           NEW it \in Items(call.provider), it.kind = item.kind, NEW frag \in Seq(STRING)
    PROVE  Event(type, it, frag) \in FragmentsOf(item)
BY DEF Event, FragmentsOf

\* A body, and the strings it is made of.
LEMMA Pieces ==
    ASSUME NEW body \in Seq(STRING)
    PROVE  /\ Len(body) \in Nat /\ DOMAIN body = 1..Len(body)
           /\ \A i \in DOMAIN body : <<body[i]>> \in Seq(STRING)
OBVIOUS

\* The deltas of an item.
LEMMA DeltasAreFragments ==
    ASSUME NEW item \in Items(call.provider)
    PROVE  Deltas(item) \in Seq(FragmentsOf(item))
<1>0. /\ item.body \in Seq(STRING) /\ <<>> \in Seq(STRING)
      /\ "delta" \in FragmentTypes
  BY DEF Items, FragmentTypes
<1>1. Event("delta", item, <<>>) \in FragmentsOf(item)
  BY <1>0, EventIsFragment
<1>2. \A i \in DOMAIN item.body : Event("delta", item, <<item.body[i]>>) \in FragmentsOf(item)
  BY <1>0, Pieces, EventIsFragment
<1>3. CASE item.body = <<>>
  BY <1>1, <1>3 DEF Deltas
<1>4. CASE item.body # <<>>
  <2>1. Deltas(item) = [i \in DOMAIN item.body |-> Event("delta", item, <<item.body[i]>>)]
    BY <1>4, Zenon DEF Deltas
  <2>2. DOMAIN item.body = 1..Len(item.body) /\ Len(item.body) \in Nat
    BY <1>0
  <2>3. Deltas(item) \in [1..Len(item.body) -> FragmentsOf(item)]
    BY <1>2, <2>1, <2>2, Zenon
  <2> QED BY <2>2, <2>3
<1> QED BY <1>3, <1>4

\* A fragment of a Chat Completions call, with or without the id.
LEMMA PieceIsFragment ==
    ASSUME NEW item \in Items(call.provider), NEW first \in BOOLEAN,
           NEW name \in Seq(STRING), NEW frag \in Seq(STRING)
    PROVE  CallPiece(item, first, name, frag) \in FragmentsOf(item)
<1> DEFINE it == [item EXCEPT !.id = IF first \/ call.provider = "compat" THEN @ ELSE Nothing,
                              !.name = name]
<1>1. it \in Items(call.provider) /\ it.kind = item.kind
  BY DEF Items
<1>2. "delta" \in FragmentTypes
  BY DEF FragmentTypes
<1> HIDE DEF it
<1>3. Event("delta", it, frag) \in FragmentsOf(item)
  BY <1>1, <1>2, EventIsFragment
<1> QED BY <1>3 DEF CallPiece, it

\* The name's fragments and the arguments'.
LEMMA CallPiecesAreFragments ==
    ASSUME NEW item \in Items(call.provider)
    PROVE  CallPieces(item) \in Seq(FragmentsOf(item))
<1> DEFINE S == FragmentsOf(item)
           names == [k \in DOMAIN item.name |-> CallPiece(item, k = 1, <<item.name[k]>>, <<>>)]
           args == [k \in DOMAIN item.body |-> CallPiece(item, FALSE, <<>>, <<item.body[k]>>)]
<1>0. item.name \in Seq(STRING) /\ item.body \in Seq(STRING) /\ <<>> \in Seq(STRING)
  BY DEF Items
<1>1. \A k \in DOMAIN item.name : CallPiece(item, k = 1, <<item.name[k]>>, <<>>) \in S
  <2> SUFFICES ASSUME NEW k \in DOMAIN item.name
               PROVE  CallPiece(item, k = 1, <<item.name[k]>>, <<>>) \in S
    BY Zenon
  <2>1. PICK first \in BOOLEAN : first = (k = 1)
    OBVIOUS
  <2>2. CallPiece(item, first, <<item.name[k]>>, <<>>) \in S
    BY <1>0, Pieces, PieceIsFragment
  <2> QED BY <2>1, <2>2, Zenon
<1>2. \A k \in DOMAIN item.body : CallPiece(item, FALSE, <<>>, <<item.body[k]>>) \in S
  BY <1>0, Pieces, PieceIsFragment
<1>3. names \in Seq(S)
  <2>1. DOMAIN item.name = 1..Len(item.name) /\ Len(item.name) \in Nat
    BY <1>0
  <2>2. names \in [1..Len(item.name) -> S]
    BY <1>1, <2>1, Zenon
  <2> HIDE DEF names, S
  <2> QED BY <2>1, <2>2
<1>4. args \in Seq(S)
  <2>1. DOMAIN item.body = 1..Len(item.body) /\ Len(item.body) \in Nat
    BY <1>0
  <2>2. args \in [1..Len(item.body) -> S]
    BY <1>2, <2>1, Zenon
  <2> HIDE DEF args, S
  <2> QED BY <2>1, <2>2
<1>5. CallPieces(item) = names \o args
  BY Zenon DEF CallPieces
<1> HIDE DEF S, names, args
<1>6. names \o args \in Seq(S)
  BY <1>3, <1>4
<1> QED BY <1>5, <1>6, Zenon DEF S

\* Whatever the vendor, an item travels as fragments of it.
LEMMA ItemEventsAreFragments ==
    ASSUME call.provider \in Providers, NEW item \in Items(call.provider)
    PROVE  ItemEvents(item) \in Seq(FragmentsOf(item))
<1>0. /\ item.body \in Seq(STRING) /\ <<>> \in Seq(STRING)
      /\ "delta" \in FragmentTypes
  BY DEF Items, FragmentTypes
<1>1. Deltas(item) \in Seq(FragmentsOf(item))
  BY DeltasAreFragments
<1>2. CASE call.provider = "anthropic"
  <2> DEFINE S == FragmentsOf(item)
             first == <<Event("start", item, <<>>)>>
             middle == IF item.kind = "redacted" THEN <<>> ELSE Deltas(item)
             last == IF item.kind = "thinking" THEN <<Event("signature", item, <<>>)>> ELSE <<>>
  <2>1. ItemEvents(item) = first \o middle \o last
    BY <1>2 DEF ItemEvents, OpenAIs
  <2>2. Event("start", item, <<>>) \in S /\ Event("signature", item, <<>>) \in S
    <3>1. "start" \in FragmentTypes /\ "signature" \in FragmentTypes
      BY <1>2 DEF FragmentTypes
    <3> QED BY <1>0, <3>1, EventIsFragment
  <2>3. first \in Seq(S) /\ last \in Seq(S)
    BY <2>2
  <2>4. middle \in Seq(S)
    BY <1>1
  <2> HIDE DEF S, first, middle, last
  <2>5. first \o middle \o last \in Seq(S)
    BY <2>3, <2>4
  <2> QED BY <2>1, <2>5, Zenon DEF S
<1>3. CASE call.provider = "google" /\ item.kind = "call"
  <2>1. ItemEvents(item) = <<Event("delta", item, item.body)>>
    BY <1>3 DEF ItemEvents, OpenAIs
  <2>2. Event("delta", item, item.body) \in FragmentsOf(item)
    BY <1>0, EventIsFragment
  <2> QED BY <2>1, <2>2
<1>4. CASE call.provider = "google" /\ item.kind # "call"
  <2> DEFINE ev(i) == Event("delta", IF i = Len(item.body) THEN item ELSE [item EXCEPT !.sig = Nothing],
                            <<item.body[i]>>)
  <2>1. ItemEvents(item) = [i \in DOMAIN item.body |-> ev(i)]
    BY <1>4 DEF ItemEvents, OpenAIs
  <2>2. \A i \in DOMAIN item.body : ev(i) \in FragmentsOf(item)
    <3> SUFFICES ASSUME NEW i \in DOMAIN item.body PROVE ev(i) \in FragmentsOf(item)
      BY Zenon
    <3>1. PICK it : it = IF i = Len(item.body) THEN item ELSE [item EXCEPT !.sig = Nothing]
      BY Zenon
    <3>2. it \in Items(call.provider) /\ it.kind = item.kind
      BY <3>1 DEF Items
    <3>3. Event("delta", it, <<item.body[i]>>) \in FragmentsOf(item)
      BY <1>0, <3>2, Pieces, EventIsFragment
    <3> QED BY <3>1, <3>3, Zenon
  <2> HIDE DEF ev
  <2>3. DOMAIN item.body = 1..Len(item.body) /\ Len(item.body) \in Nat
    BY <1>0
  <2>4. ItemEvents(item) \in [1..Len(item.body) -> FragmentsOf(item)]
    BY <2>1, <2>2, <2>3, Zenon
  <2> QED BY <2>3, <2>4
<1>5. CASE call.provider \in OpenAIs /\ item.kind = "call"
  <2>1. ItemEvents(item) = CallPieces(item)
    BY <1>5 DEF ItemEvents, OpenAIs
  <2> QED BY <2>1, CallPiecesAreFragments
<1>6. CASE call.provider \in OpenAIs /\ item.kind # "call"
  <2>1. ItemEvents(item) = Deltas(item)
    BY <1>6 DEF ItemEvents, OpenAIs
  <2> QED BY <2>1, <1>1
<1> QED BY <1>2, <1>3, <1>4, <1>5, <1>6 DEF Providers, OpenAIs

\* The event of a fragment: what it is about, and that it is no closing one.
LEMMA FragmentShape ==
    ASSUME call.provider \in Providers, NEW item \in Items(call.provider),
           NEW ev \in FragmentsOf(item)
    PROVE  /\ ev.type \in FragmentTypes
           /\ ev.item.kind = item.kind /\ item.kind \in ItemKinds(call.provider)
           /\ "kind" \in DOMAIN ev.item
BY DEF FragmentsOf, Items

\* Anthropic: no fragment sets sawStop.
LEMMA AnthropicUnfinished ==
    ASSUME NEW a, NEW ev, NEW synthetic, "sawStop" \in DOMAIN a, a.sawStop = FALSE,
           ev.type \in {"start", "delta", "signature"}
    PROVE  LET b == A!Absorb(a, ev, synthetic).acc IN "sawStop" \in DOMAIN b /\ b.sawStop = FALSE
<1>1. CASE ev.type = "start"
  <2>1. A!Absorb(a, ev, synthetic) = A!BlockStart(a, ev, synthetic)
    BY <1>1 DEF A!Absorb
  <2>2. \A x, y : LET opened == [a EXCEPT !.items = x, !.pos = y]
                  IN  /\ "sawStop" \in DOMAIN opened /\ opened.sawStop = FALSE
                      /\ \A z : LET more == [opened EXCEPT !.toolSeq = z]
                                IN  "sawStop" \in DOMAIN more /\ more.sawStop = FALSE
    OBVIOUS
  <2> QED BY <2>1, <2>2 DEF A!BlockStart, A!Absorbed
<1>2. CASE ev.type = "delta"
  <2>1. A!Absorb(a, ev, synthetic) = A!BlockDelta(a, ev, synthetic)
    BY <1>2 DEF A!Absorb
  <2>2. A!BlockDelta(a, ev, synthetic).acc = [a EXCEPT !.items[Len(a.items)].body = @ \o ev.frag]
    BY DEF A!BlockDelta, A!Absorbed
  <2> QED BY <2>1, <2>2
<1>3. CASE ev.type = "signature"
  <2>1. A!Absorb(a, ev, synthetic).acc = [a EXCEPT !.items[Len(a.items)].sig = ev.item.sig]
    BY <1>3 DEF A!Absorb, A!Absorbed
  <2> QED BY <2>1
<1> QED BY <1>1, <1>2, <1>3

\* Chat Completions: no fragment sets the finish reason.
LEMMA OpenAIUnfinished ==
    ASSUME NEW a, NEW ev, "cc" \in DOMAIN a, "stop" \in DOMAIN a.cc, a.cc.stop = Nothing,
           ev.type = "delta", ev.item.kind \in {"text", "thinking", "details", "refusal", "call"}
    PROVE  LET b == O!Absorb(a, ev).acc
           IN  "cc" \in DOMAIN b /\ "stop" \in DOMAIN b.cc /\ b.cc.stop = Nothing
<1>1. CASE ev.item.kind = "thinking"
  <2>1. O!Absorb(a, ev).acc = [a EXCEPT !.cc.reasoning = @ \o ev.frag]
    BY <1>1 DEF O!Absorb, O!Absorbed
  <2> QED BY <2>1
<1>2. CASE ev.item.kind = "details"
  <2>1. O!Absorb(a, ev).acc = [a EXCEPT !.cc.details = O!MergeDetail(@, ev.item.name, ev.frag)]
    BY <1>2 DEF O!Absorb, O!Absorbed
  <2> QED BY <2>1
<1>3. CASE ev.item.kind = "text"
  <2>1. O!Absorb(a, ev).acc = [a EXCEPT !.cc.content = @ \o ev.frag]
    BY <1>3 DEF O!Absorb, O!Absorbed
  <2> QED BY <2>1
<1>4. CASE ev.item.kind = "refusal"
  <2>1. O!Absorb(a, ev).acc = [a EXCEPT !.cc.refusal = @ \o ev.frag]
    BY <1>4 DEF O!Absorb, O!Absorbed
  <2> QED BY <2>1
<1>5. CASE ev.item.kind = "call"
  <2>1. O!Absorb(a, ev) = O!CallFragment(a, ev)
    BY <1>5 DEF O!Absorb
  <2>2. PICK calls, seen : O!CallFragment(a, ev).acc = [cc |-> [a.cc EXCEPT !.calls = calls], seen |-> seen]
    BY Zenon DEF O!CallFragment, O!Absorbed
  <2> QED BY <2>1, <2>2
<1> QED BY <1>1, <1>2, <1>3, <1>4, <1>5

\* Gemini: no part sets the finish reason, and none blocks the prompt.
LEMMA GeminiUnfinished ==
    ASSUME NEW a, NEW ev, {"sawFinish", "blocked", "stop"} \subseteq DOMAIN a,
           a.sawFinish = FALSE, a.blocked = FALSE, a.stop = Nothing,
           ev.type = "delta", "kind" \in DOMAIN ev.item, ev.item.kind \in {"text", "thinking", "call"}
    PROVE  LET b == G!Absorb(a, ev).acc
           IN  /\ {"sawFinish", "blocked", "stop"} \subseteq DOMAIN b
               /\ b.sawFinish = FALSE /\ b.blocked = FALSE /\ b.stop = Nothing
<1> DEFINE part == [ev.item EXCEPT !.body = ev.frag]
           kept == [a EXCEPT !.items = Append(@, part)]
           Open(b) == /\ {"sawFinish", "blocked", "stop"} \subseteq DOMAIN b
                      /\ b.sawFinish = FALSE /\ b.blocked = FALSE /\ b.stop = Nothing
<1>1. G!Absorb(a, ev) = G!AbsorbPart(a, part)
  BY DEF G!Absorb
<1>2. part.kind = ev.item.kind
  OBVIOUS
<1>3. Open(kept)
  OBVIOUS
<1> HIDE DEF part
<1>4. CASE part.kind = "call"
  <2>1. G!AbsorbPart(a, part).acc = [kept EXCEPT !.calls = @ + 1]
    BY <1>4 DEF G!AbsorbPart, G!Absorbed
  <2> QED BY <1>1, <1>3, <2>1
<1>5. CASE part.kind = "thinking"
  <2>1. G!AbsorbPart(a, part).acc = kept
    BY <1>5 DEF G!AbsorbPart, G!Absorbed
  <2> QED BY <1>1, <1>3, <2>1
<1>6. CASE part.kind = "text"
  <2>1. \/ G!AbsorbPart(a, part).acc = kept
        \/ G!AbsorbPart(a, part).acc = [a EXCEPT !.items[Len(a.items)].body = @ \o part.body]
    BY <1>6 DEF G!AbsorbPart, G!Absorbed
  <2>2. Open([a EXCEPT !.items[Len(a.items)].body = @ \o part.body])
    OBVIOUS
  <2> QED BY <1>1, <1>3, <2>1, <2>2
<1> QED BY <1>2, <1>4, <1>5, <1>6

\* A fragment leaves the accumulator unfinished.
LEMMA FragmentUnfinished ==
    ASSUME call.provider \in Providers, NEW item \in Items(call.provider),
           NEW ev \in FragmentsOf(item), Unfinished, acc' = AbsorbEvent(ev).acc, call' = call
    PROVE  Unfinished'
<1>1. /\ ev.type \in FragmentTypes /\ "kind" \in DOMAIN ev.item
      /\ ev.item.kind \in ItemKinds(call.provider)
  BY FragmentShape
<1>2. CASE call.provider = "anthropic"
  <2>1. acc' = A!Absorb(acc, ev, Synthetic).acc
    BY <1>2 DEF AbsorbEvent, OpenAIs
  <2>2. "sawStop" \in DOMAIN acc /\ acc.sawStop = FALSE
    BY <1>2 DEF Unfinished, OpenAIs
  <2>3. ev.type \in {"start", "delta", "signature"}
    BY <1>1, <1>2 DEF FragmentTypes
  <2>4. "sawStop" \in DOMAIN acc' /\ acc'.sawStop = FALSE
    BY <2>1, <2>2, <2>3, AnthropicUnfinished
  <2> QED BY <2>4, <1>2 DEF Unfinished, OpenAIs
<1>3. CASE call.provider \in OpenAIs
  <2>1. acc' = O!Absorb(acc, ev).acc
    BY <1>3 DEF AbsorbEvent, OpenAIs
  <2>2. "cc" \in DOMAIN acc /\ "stop" \in DOMAIN acc.cc /\ acc.cc.stop = Nothing
    BY <1>3 DEF Unfinished, OpenAIs
  <2>3. ev.type = "delta"
    BY <1>1, <1>3 DEF FragmentTypes, OpenAIs
  <2>4. ev.item.kind \in {"text", "thinking", "details", "refusal", "call"}
    BY <1>1, <1>3 DEF ItemKinds, OpenAIs
  <2>5. "cc" \in DOMAIN acc' /\ "stop" \in DOMAIN acc'.cc /\ acc'.cc.stop = Nothing
    BY <2>1, <2>2, <2>3, <2>4, OpenAIUnfinished
  <2> QED BY <2>5, <1>3 DEF Unfinished, OpenAIs
<1>4. CASE call.provider = "google"
  <2>1. acc' = G!Absorb(acc, ev).acc
    BY <1>4 DEF AbsorbEvent, OpenAIs
  <2>2. /\ {"sawFinish", "blocked", "stop"} \subseteq DOMAIN acc
        /\ acc.sawFinish = FALSE /\ acc.blocked = FALSE /\ acc.stop = Nothing
    BY <1>4 DEF Unfinished, OpenAIs
  <2>3. ev.type = "delta"
    BY <1>1, <1>4 DEF FragmentTypes
  <2>4. ev.item.kind \in {"text", "thinking", "call"}
    BY <1>1, <1>4 DEF ItemKinds
  <2>5. /\ {"sawFinish", "blocked", "stop"} \subseteq DOMAIN acc'
        /\ acc'.sawFinish = FALSE /\ acc'.blocked = FALSE /\ acc'.stop = Nothing
    BY <1>1, <2>1, <2>2, <2>3, <2>4, GeminiUnfinished
  <2> QED BY <2>5, <1>4 DEF Unfinished, OpenAIs
<1> QED BY <1>2, <1>3, <1>4 DEF Providers, OpenAIs

\* No adapter makes a Response of an unfinished accumulator.
LEMMA UnfinishedFails ==
    ASSUME call.provider \in Providers, Unfinished
    PROVE  StreamEnd.ok = FALSE
<1>1. CASE call.provider = "anthropic"
  <2>1. StreamEnd = A!StreamEnd(acc, Synthetic, ctx, requests)
    BY <1>1 DEF StreamEnd, OpenAIs
  <2>2. acc.sawStop = FALSE
    BY <1>1 DEF Unfinished, OpenAIs
  <2> QED BY <2>1, <2>2 DEF A!StreamEnd, A!Fail
<1>2. CASE call.provider \in OpenAIs
  <2>1. StreamEnd = O!StreamEnd(acc, call.provider, ctx, requests)
    BY <1>2 DEF StreamEnd, OpenAIs
  <2>2. acc.cc.stop = Nothing
    BY <1>2 DEF Unfinished, OpenAIs
  <2> QED BY <2>1, <2>2 DEF O!StreamEnd, O!Fail
<1>3. CASE call.provider = "google"
  <2>1. StreamEnd = G!StreamEnd(acc, ctx, requests)
    BY <1>3 DEF StreamEnd, OpenAIs
  <2>2. acc.sawFinish = FALSE /\ acc.blocked = FALSE /\ acc.stop = Nothing
    BY <1>3 DEF Unfinished, OpenAIs
  <2>3. acc.items = <<>> => G!NoCandidate(acc)
    BY <2>2 DEF G!NoCandidate
  <2> QED BY <2>1, <2>2, <2>3 DEF G!StreamEnd, G!Fail
<1> QED BY <1>1, <1>2, <1>3 DEF Providers, OpenAIs

\* The states before a call.
LEMMA StreamInOrderInit == Init => StreamInOrder /\ CutStreamsFail
<1> SUFFICES ASSUME Init PROVE StreamInOrder /\ CutStreamsFail
  OBVIOUS
<1>1. PICK s \in Scenarios : call.provider = s.provider /\ call.msg \in s.msgs
  BY DEF Init
<1>2. call.provider \in Providers /\ call.msg.items \in Seq(Items(call.provider))
  BY <1>1, ScenarioAssumption DEF Providers
<1>3. /\ got = [i \in DOMAIN call.msg.items |-> 0] /\ tail = 0 /\ acc = Acc0 /\ result = Nothing
  BY DEF Init
<1>4. \A i \in DOMAIN got : got[i] \in 0..Len(ItemEvents(call.msg.items[i]))
  <2> SUFFICES ASSUME NEW i \in DOMAIN got PROVE got[i] \in 0..Len(ItemEvents(call.msg.items[i]))
    OBVIOUS
  <2>1. call.msg.items[i] \in Items(call.provider) /\ got[i] = 0
    BY <1>2, <1>3
  <2>2. ItemEvents(call.msg.items[i]) \in Seq(FragmentsOf(call.msg.items[i]))
    BY <1>2, <2>1, ItemEventsAreFragments
  <2>3. Len(ItemEvents(call.msg.items[i])) \in Nat
    BY <2>2
  <2> QED BY <2>1, <2>3
<1>5. Unfinished
  <2>1. CASE call.provider = "anthropic"
    BY <2>1, <1>3 DEF Acc0, A!Acc0, Unfinished, OpenAIs
  <2>2. CASE call.provider \in OpenAIs
    BY <2>2, <1>3 DEF Acc0, O!Acc0, Unfinished, OpenAIs
  <2>3. CASE call.provider = "google"
    BY <2>3, <1>3 DEF Acc0, G!Acc0, Unfinished, OpenAIs
  <2> QED BY <1>2, <2>1, <2>2, <2>3 DEF Providers, OpenAIs
<1> QED BY <1>2, <1>3, <1>4, <1>5 DEF StreamInOrder, CutStreamsFail

\* The events of the endpoint depend on the call alone.
LEMMA SameEvents ==
    ASSUME call' = call
    PROVE  \A item : ItemEvents(item)' = ItemEvents(item)
BY DEF ItemEvents, Deltas, CallPieces, CallPiece, Event

\* What has arrived depends on the call and on what was sent.
LEMMA SameArrived ==
    ASSUME call' = call, got' = got
    PROVE  \A i : Arrived(i)' = Arrived(i)
BY SameEvents DEF Arrived

\* A step that leaves the stream alone leaves it in order.
LEMMA StreamUntouched ==
    ASSUME StreamInOrder, UNCHANGED <<call, got, tail, acc>>
    PROVE  StreamInOrder'
<1>1. Unfinished' = Unfinished
  BY DEF Unfinished
<1>2. \A i \in DOMAIN got' : (got[i] \in 0..Len(ItemEvents(call.msg.items[i])))'
  BY SameEvents DEF StreamInOrder
<1>3. tail > 0 => \A i \in DOMAIN got : Arrived(i)'
  BY SameArrived DEF StreamInOrder
<1> QED BY <1>1, <1>2, <1>3 DEF StreamInOrder

\* Every step of the stream keeps its order.
LEMMA StreamInOrderNext ==
    ASSUME StreamInOrder, [Next]_vars
    PROVE  StreamInOrder'
<1>1. CASE Fragment
  <2>1. tail = 0 /\ tail' = tail /\ call' = call
    BY <1>1 DEF Fragment, Take
  <2>2. PICK i \in DOMAIN got :
          /\ MayArrive(i)
          /\ Take(ItemEvents(call.msg.items[i])[got[i] + 1])
          /\ got' = [got EXCEPT ![i] = @ + 1]
    BY <1>1 DEF Fragment
  <2> DEFINE item == call.msg.items[i]
             ev == ItemEvents(item)[got[i] + 1]
  <2>3. item \in Items(call.provider) /\ call.provider \in Providers
    BY DEF StreamInOrder
  <2>4. ItemEvents(item) \in Seq(FragmentsOf(item))
    BY <2>3, ItemEventsAreFragments
  <2>5. got[i] \in 0..Len(ItemEvents(item)) /\ got[i] # Len(ItemEvents(item))
    BY <2>2 DEF StreamInOrder, MayArrive, Arrived
  <2>6. Len(ItemEvents(item)) \in Nat
    BY <2>4
  <2>7. got[i] + 1 \in 1..Len(ItemEvents(item))
    BY <2>5, <2>6
  <2>8. ev \in FragmentsOf(item)
    BY <2>4, <2>7
  <2>9. acc' = AbsorbEvent(ev).acc
    BY <2>2 DEF Take
  <2> HIDE DEF ev
  <2>10. Unfinished'
    <3>1. Unfinished
      BY <2>1 DEF StreamInOrder
    <3> QED BY <3>1, <2>1, <2>3, <2>8, <2>9, FragmentUnfinished
  <2>11. DOMAIN got' = DOMAIN call'.msg.items
    BY <2>1, <2>2 DEF StreamInOrder
  <2>12. \A j \in DOMAIN got' : got'[j] \in 0..Len(ItemEvents(call.msg.items[j])')
    <3> SUFFICES ASSUME NEW j \in DOMAIN got'
                 PROVE  got'[j] \in 0..Len(ItemEvents(call.msg.items[j])')
      BY Zenon
    <3>1. j \in DOMAIN got /\ got[j] \in 0..Len(ItemEvents(call.msg.items[j]))
      BY <2>2 DEF StreamInOrder
    <3>2. ItemEvents(call.msg.items[j])' = ItemEvents(call.msg.items[j])
      BY <2>1, SameEvents
    <3>3. CASE j = i
      <4>1. got'[j] = got[i] + 1
        BY <2>2, <3>1, <3>3
      <4> QED BY <4>1, <3>2, <3>3, <2>7
    <3>4. CASE j # i
      <4>1. got'[j] = got[j]
        BY <2>2, <3>1, <3>4
      <4> QED BY <4>1, <3>1, <3>2
    <3> QED BY <3>3, <3>4
  <2>13. /\ call'.provider \in Providers /\ call'.msg.items \in Seq(Items(call'.provider))
         /\ tail' = 0
    BY <2>1 DEF StreamInOrder
  <2> QED BY <2>1, <2>10, <2>11, <2>12, <2>13 DEF StreamInOrder
<1>2. CASE Close
  <2>1. /\ call' = call /\ got' = got /\ tail' = tail + 1
        /\ \A i \in DOMAIN got : Arrived(i)
    BY <1>2 DEF Close, Take
  <2>2. \A item : ItemEvents(item)' = ItemEvents(item)
    BY <2>1, SameEvents
  <2>3. \A i \in DOMAIN got' : Arrived(i)'
    BY <2>1, SameArrived
  <2>4. tail' \in Nat /\ tail' # 0
    BY <2>1 DEF StreamInOrder
  <2>5. \A i \in DOMAIN got' : got'[i] \in 0..Len(ItemEvents(call.msg.items[i])')
    BY <2>1, <2>2 DEF StreamInOrder
  <2> QED BY <2>1, <2>3, <2>4, <2>5 DEF StreamInOrder
<1>3. CASE ~Fragment /\ ~Close
  <2>1. UNCHANGED <<call, got, tail, acc>>
    BY <1>3 DEF Next, vars, BuildRequest, SDKRefuses, Send, TransportFails, Rejected, ErrorBody,
       Answered, BodyCut, OpenStream, CallbackFails, Violated, InBandError, Reset, EndOfStream,
       ContextEnds, Replay, Return, Report
  <2> QED BY <2>1, StreamUntouched
<1> QED BY <1>1, <1>2, <1>3

\* A step either leaves the result, fails, answers a whole body, or ends the stream.
LEMMA ResultOfStep ==
    ASSUME WireSeen, [Next]_vars
    PROVE  \/ result' = result
           \/ result'.ok = FALSE
           \/ Whole
           \/ result' = StreamEnd
<1>1. CASE BuildRequest \/ SDKRefuses \/ TransportFails \/ CallbackFails \/ Reset
  <2>1. result' = result \/ \E kind : Return(Fail(kind))
    BY <1>1 DEF BuildRequest, SDKRefuses, TransportFails, CallbackFails, Reset
  <2> QED BY <2>1 DEF Return, Report, Fail
<1>2. CASE ErrorBody \/ Violated \/ InBandError
  <2>1. \E kind, said : Report(Fail(kind), said)
    BY <1>2 DEF ErrorBody, Violated, InBandError, Return
  <2> QED BY <2>1 DEF Report, Fail
<1>3. CASE Answered \/ BodyCut
  BY <1>3 DEF Answered, BodyCut
<1>4. CASE EndOfStream
  BY <1>4 DEF EndOfStream, Return, Report
<1>5. CASE Send \/ Rejected \/ OpenStream \/ ContextEnds \/ Replay \/ UNCHANGED vars
  BY <1>5 DEF Send, Rejected, OpenStream, ContextEnds, Replay, vars
<1>6. CASE Fragment \/ Close
  BY <1>6 DEF Fragment, Close, Take
<1> QED BY <1>1, <1>2, <1>3, <1>4, <1>5, <1>6 DEF Next

\* Once there is a result the stream is over.
LEMMA StreamOver ==
    ASSUME WireSeen, [Next]_vars, result # Nothing \/ result' # result
    PROVE  UNCHANGED <<call, got, tail>>
<1>1. CASE Fragment \/ Close
  <2>1. pc = "streaming" /\ result' = result
    BY <1>1 DEF Fragment, Close, Take
  <2>2. result = Nothing
    BY <2>1 DEF WireSeen
  <2> QED BY <2>1, <2>2
<1>2. CASE ~Fragment /\ ~Close
  BY <1>2 DEF Next, vars, BuildRequest, SDKRefuses, Send, TransportFails, Rejected, ErrorBody,
     Answered, BodyCut, OpenStream, CallbackFails, Violated, InBandError, Reset, EndOfStream,
     ContextEnds, Replay, Return, Report
<1> QED BY <1>1, <1>2

\* A result that succeeds is one of a stream that was closed.
LEMMA CutStreamsFailNext ==
    ASSUME WireSeen, StreamInOrder, CutStreamsFail, [Next]_vars
    PROVE  CutStreamsFail'
<1> SUFFICES ASSUME (result # Nothing /\ result.ok /\ ~Whole)'
             PROVE  (tail > 0 /\ \A i \in DOMAIN got : Arrived(i))'
  BY DEF CutStreamsFail
<1>1. call' = call /\ got' = got /\ tail' = tail
  BY StreamOver
<1>2. ~Whole
  BY <1>1 DEF Whole
<1>3. tail > 0 /\ \A i \in DOMAIN got : Arrived(i)
  <2>1. CASE result' = result
    BY <2>1, <1>2 DEF CutStreamsFail
  <2>2. CASE result' = StreamEnd
    <3>1. tail # 0
      BY <2>2, UnfinishedFails DEF StreamInOrder
    <3> QED BY <3>1 DEF StreamInOrder
  <2> QED BY <2>1, <2>2, <1>2, ResultOfStep
<1>4. \A item : ItemEvents(item)' = ItemEvents(item)
  BY <1>1, SameEvents
<1> QED BY <1>1, <1>3, <1>4 DEF Arrived

(***************************************************************************)
(* No stream that was cut succeeds, whichever vendor, whatever the message *)
(* and wherever the connection broke: a Response is returned only when all *)
(* of the message has arrived and was closed (the ends of Stream in the    *)
(* three adapters).                                                        *)
(***************************************************************************)
THEOREM CutStreamsNeverSucceed == Spec => []CutStreamsFail
<1> DEFINE Inv == WireSeen /\ FailureNamed /\ StreamInOrder /\ CutStreamsFail
<1>1. Init => Inv
  BY WireSeenInit, StreamInOrderInit
<1>2. Inv /\ [Next]_vars => Inv'
  BY WireSeenNext, StreamInOrderNext, CutStreamsFailNext
<1>3. Inv => CutStreamsFail
  OBVIOUS
<1> QED BY <1>1, <1>2, <1>3, PTL DEF Spec

=============================================================================
