---------------------------- MODULE StreamRetry ----------------------------
(***************************************************************************)
(* One streamed completion through the provider stages: Fallback over its  *)
(* members (provider/fallback.go), and inside each member the retry stage  *)
(* (provider/stage_retry.go) around retry.Do (retry/retry.go) with the     *)
(* stream's idle watch.  Complete takes the same path without deltas.      *)
(*                                                                         *)
(* Four actors interleave: the goroutine of the call, the goroutines that  *)
(* the idle timer spawns, the caller's context and the attempt's own       *)
(* deadline.  Time is abstracted to the question fire asks: has the idle   *)
(* deadline passed.  The wire below the stages is external: it may deliver *)
(* deltas, succeed or fail at any time, and it fails once its callback     *)
(* has.                                                                    *)
(***************************************************************************)
EXTENDS Integers, Sequences

CONSTANTS
    Members,      \* how many clients Fallback tries
    MaxAttempts,  \* retry.Config.MaxAttempts
    Idle,         \* Options.StreamIdleTimeout is positive
    Serializes,   \* the stack holds a serializeStage
    MaxDeltas     \* bound: deltas of one attempt

ASSUME StackAssumption ==
    /\ Members \in Nat \ {0} /\ MaxAttempts \in Nat \ {0} /\ MaxDeltas \in Nat
    /\ Idle \in BOOLEAN /\ Serializes \in BOOLEAN

VARIABLES
    pc,           \* where the call's goroutine stands
    member,       \* the member Fallback is calling
    attempt,      \* retry.Do's attempt counter in that member
    err,          \* the attempt's error, then the member's
    retryable,    \* what classify said of it
    delivered,    \* retryClient.Stream: a delta passed in this attempt
    fbDelivered,  \* fallbackClient.Stream: a delta reached the caller
    sent,         \* deltas of this attempt so far
    mustFail,     \* the wire's callback returned an error
    fnFailed,     \* ... and it was the caller's own
    ctxDone,      \* the caller's context has ended
    actxDone,     \* the attempt's context has ended
    armed,        \* idleWatch.timer is running
    due,          \* now is not before idleWatch.deadline
    firing,       \* fire goroutines that have not taken the lock yet
    paused,       \* idleWatch.paused
    tripped,      \* idleWatch.tripped
    stopped,      \* idleWatch.done
    result,       \* what the call returns
    shown,        \* history: the attempt behind each delta the caller saw
    lateStarts    \* history: attempts begun after the caller's context ended

callVars  == <<pc, member, attempt, err, retryable, delivered, fbDelivered, result>>
wireVars  == <<sent, mustFail, fnFailed>>
ctxVars   == <<ctxDone, actxDone>>
watchVars == <<armed, due, firing, paused, tripped, stopped>>
histVars  == <<shown, lateStarts>>
vars      == <<callVars, wireVars, ctxVars, watchVars, histVars>>

\* llmkit.Classify: idle failures are ErrServer, context errors are terminal.
Retryable == {"retryable", "idle"}

Errors == Retryable \cup {"terminal", "callback", "cancelled"}

Init ==
    /\ pc = "begin" /\ member = 1 /\ attempt = 1
    /\ err = "none" /\ retryable = FALSE /\ result = "none"
    /\ delivered = FALSE /\ fbDelivered = FALSE
    /\ sent = 0 /\ mustFail = FALSE /\ fnFailed = FALSE
    /\ ctxDone = FALSE /\ actxDone = FALSE
    /\ armed = FALSE /\ due = FALSE /\ firing = 0
    /\ paused = FALSE /\ tripped = FALSE /\ stopped = TRUE
    /\ shown = <<>> /\ lateStarts = 0

----------------------------------------------------------------------------
\* An attempt begins: a child context and, when configured, a new watch.
BeginAttempt ==
    /\ pc = "begin"
    /\ pc' = "wire"
    /\ err' = "none"
    /\ delivered' = FALSE
    /\ sent' = 0 /\ mustFail' = FALSE /\ fnFailed' = FALSE
    /\ actxDone' = ctxDone
    /\ armed' = Idle /\ due' = FALSE /\ firing' = 0
    /\ paused' = FALSE /\ tripped' = FALSE /\ stopped' = ~Idle
    /\ lateStarts' = IF ctxDone THEN lateStarts + 1 ELSE lateStarts
    /\ UNCHANGED <<member, attempt, retryable, fbDelivered, result, ctxDone, shown>>

(***************************************************************************)
(* The wire has a delta.  The watch's wrapper drops it once the watch has  *)
(* tripped; otherwise the clock stops and the callback runs.  A delta that *)
(* serializeStage swallows passes the retry stage and not the caller.      *)
(***************************************************************************)
Delta(visible) ==
    /\ pc = "wire"
    /\ ~mustFail
    /\ sent < MaxDeltas
    /\ visible \/ Serializes
    /\ sent' = sent + 1
    /\ IF tripped
       THEN /\ mustFail' = TRUE
            /\ UNCHANGED <<pc, delivered, fbDelivered, shown, armed, paused>>
       ELSE /\ pc' = "callback"
            /\ delivered' = TRUE
            /\ fbDelivered' = (fbDelivered \/ visible)
            /\ shown' = IF visible THEN Append(shown, <<member, attempt>>) ELSE shown
            /\ armed' = FALSE
            /\ paused' = Idle
            /\ UNCHANGED mustFail
    /\ UNCHANGED <<member, attempt, err, retryable, result, fnFailed, ctxVars, due,
                   firing, tripped, stopped, lateStarts>>

\* The callback returns and the clock starts again, also behind an error.
CallbackReturns(failed) ==
    /\ pc = "callback"
    /\ pc' = "wire"
    /\ paused' = FALSE
    /\ armed' = (Idle /\ ~tripped /\ ~stopped)
    /\ due' = (due /\ (tripped \/ stopped))
    /\ mustFail' = failed
    /\ fnFailed' = failed
    /\ UNCHANGED <<member, attempt, err, retryable, delivered, fbDelivered, result, sent,
                   ctxVars, firing, tripped, stopped, histVars>>

\* The inner Stream returns; the callback's error if there was one.
WireReturns(e) ==
    /\ pc = "wire"
    /\ e = "none" => ~mustFail
    /\ e = "callback" <=> fnFailed
    /\ pc' = "returned"
    /\ err' = e
    /\ UNCHANGED <<member, attempt, retryable, delivered, fbDelivered, result, wireVars,
                   ctxVars, watchVars, histVars>>

\* streamAttempt: the idle error replaces the wire's, and the watch stops.
EndAttempt ==
    /\ pc = "returned"
    /\ pc' = "classify"
    /\ err' = IF err # "none" /\ tripped /\ ~ctxDone THEN "idle" ELSE err
    /\ stopped' = TRUE
    /\ armed' = FALSE
    /\ UNCHANGED <<member, attempt, retryable, delivered, fbDelivered, result, wireVars,
                   ctxVars, due, firing, paused, tripped, histVars>>

----------------------------------------------------------------------------
\* Mutation: a delta already delivered does not make the failure terminal.
ClassifyAlways ==
    /\ pc = "classify"
    /\ retryable' = (err \in Retryable)
    /\ pc' = IF err = "none" THEN "member" ELSE "decide"
    /\ UNCHANGED <<member, attempt, err, delivered, fbDelivered, result, wireVars, ctxVars,
                   watchVars, histVars>>

\* The stage's classifier: after a delta, terminal while the caller is there.
Classify ==
    /\ pc = "classify"
    /\ retryable' = (err \in Retryable /\ (delivered => ctxDone))
    /\ pc' = IF err = "none" THEN "member" ELSE "decide"
    /\ UNCHANGED <<member, attempt, err, delivered, fbDelivered, result, wireVars, ctxVars,
                   watchVars, histVars>>

\* Mutation: the caller's context is not consulted after a failure.
DecideWithoutContext ==
    /\ pc = "decide"
    /\ pc' = IF ~retryable \/ attempt >= MaxAttempts THEN "member" ELSE "sleep"
    /\ UNCHANGED <<member, attempt, err, retryable, delivered, fbDelivered, result, wireVars,
                   ctxVars, watchVars, histVars>>

\* retry.Do after a failure: the parent context, then the attempts left.
Decide ==
    /\ pc = "decide"
    /\ err' = IF ctxDone /\ retryable THEN "cancelled" ELSE err
    /\ pc' = IF ctxDone \/ ~retryable \/ attempt >= MaxAttempts THEN "member" ELSE "sleep"
    /\ UNCHANGED <<member, attempt, retryable, delivered, fbDelivered, result, wireVars,
                   ctxVars, watchVars, histVars>>

\* Mutation: the attempt counter stands still.
SleepUncounted ==
    /\ pc = "sleep"
    /\ pc' = "begin"
    /\ UNCHANGED <<member, attempt, err, retryable, delivered, fbDelivered, result, wireVars,
                   ctxVars, watchVars, histVars>>

(***************************************************************************)
(* sleepBeforeRetry waits for the timer or the context; when both are      *)
(* ready the select may take either.                                       *)
(***************************************************************************)
Sleep ==
    /\ pc = "sleep"
    /\ \/ /\ pc' = "begin"
          /\ attempt' = attempt + 1
          /\ UNCHANGED err
       \/ /\ ctxDone
          /\ pc' = "member"
          /\ err' = "cancelled"
          /\ UNCHANGED attempt
    /\ UNCHANGED <<member, retryable, delivered, fbDelivered, result, wireVars, ctxVars,
                   watchVars, histVars>>

\* fallsThrough, and the member's failure that ends or moves on the call.
FallsThrough == err \in Retryable /\ ~ctxDone

MemberReturns ==
    /\ pc = "member"
    /\ IF err # "none" /\ ~fbDelivered /\ FallsThrough /\ member < Members
       THEN /\ member' = member + 1
            /\ attempt' = 1
            /\ pc' = "begin"
            /\ UNCHANGED result
       ELSE /\ result' = IF err = "none" THEN "ok" ELSE err
            /\ pc' = "done"
            /\ UNCHANGED <<member, attempt>>
    /\ UNCHANGED <<err, retryable, delivered, fbDelivered, wireVars, ctxVars, watchVars,
                   histVars>>

----------------------------------------------------------------------------
\* The timer, the contexts and time.

\* The idle deadline passes, and later the timer spawns its goroutine.
TimePasses ==
    /\ ~stopped /\ ~due
    /\ due' = TRUE
    /\ UNCHANGED <<callVars, wireVars, ctxVars, armed, firing, paused, tripped, stopped,
                   histVars>>

TimerExpires ==
    /\ armed /\ due
    /\ armed' = FALSE
    /\ firing' = firing + 1
    /\ UNCHANGED <<callVars, wireVars, ctxVars, due, paused, tripped, stopped, histVars>>

\* Mutation: fire trusts the timer and not the deadline.
FireStale ==
    /\ firing > 0
    /\ firing' = firing - 1
    /\ tripped' = (tripped \/ (~stopped /\ ~paused /\ ~actxDone))
    /\ UNCHANGED <<callVars, wireVars, ctxVars, armed, due, paused, stopped, histVars>>

Fire ==
    /\ firing > 0
    /\ firing' = firing - 1
    /\ tripped' = (tripped \/ (~stopped /\ ~paused /\ due /\ ~actxDone))
    /\ UNCHANGED <<callVars, wireVars, ctxVars, armed, due, paused, stopped, histVars>>

AttemptTimesOut ==
    /\ pc \in {"wire", "callback"}
    /\ ~actxDone
    /\ actxDone' = TRUE
    /\ UNCHANGED <<callVars, wireVars, ctxDone, watchVars, histVars>>

CallerEnds ==
    /\ pc # "done"
    /\ ~ctxDone
    /\ ctxDone' = TRUE
    /\ actxDone' = TRUE
    /\ UNCHANGED <<callVars, wireVars, watchVars, histVars>>

----------------------------------------------------------------------------
\* A step of the call's goroutine.
CallStep ==
    \/ BeginAttempt
    \/ \E visible \in BOOLEAN : Delta(visible)
    \/ \E failed \in BOOLEAN : CallbackReturns(failed)
    \/ \E e \in {"none", "retryable", "terminal", "callback"} : WireReturns(e)
    \/ EndAttempt
    \/ Classify
    \/ Decide
    \/ Sleep
    \/ MemberReturns

Returned == pc = "done" /\ UNCHANGED vars

Next == CallStep \/ TimePasses \/ TimerExpires \/ Fire \/ AttemptTimesOut \/ CallerEnds
            \/ Returned

Spec == Init /\ [][Next]_vars

(***************************************************************************)
(* The goroutine runs, the caller's callback returns, and the wire returns *)
(* because every attempt has a deadline that the adapters honour.          *)
(***************************************************************************)
FairSpec == Spec /\ WF_vars(CallStep)

----------------------------------------------------------------------------
\* Properties.

(***************************************************************************)
(* The caller never sees two attempts mixed: once a delta has reached it,  *)
(* neither the retry stage nor Fallback begins another attempt, whatever   *)
(* the timer, the deadline and the caller's context do.                    *)
(***************************************************************************)
OneVoice ==
    \A i \in 1..Len(shown) : shown[i] = <<member, attempt>> /\ pc \notin {"begin", "sleep"}

(***************************************************************************)
(* The idle watch trips only on silence: not while the caller's callback   *)
(* runs, and not from a timer goroutine that was overtaken by a delta.     *)
(***************************************************************************)
TripsOnSilence ==
    [][~tripped /\ tripped' => pc \in {"wire", "returned"} /\ due /\ ~paused]_vars

(***************************************************************************)
(* Retries stop in time and not before: after the caller's context ends at *)
(* most one more attempt is begun, over all members, the one whose wait or *)
(* member change had already passed its check; and a retryable failure is  *)
(* returned only when every attempt of the last member was made, a delta   *)
(* had passed, or the caller is gone.                                      *)
(***************************************************************************)
GivesUpInTime ==
    /\ lateStarts <= 1
    /\ result \in Retryable =>
        \/ member = Members /\ attempt = MaxAttempts
        \/ delivered
        \/ ctxDone

\* Every call returns.
CallReturns == <>(pc = "done")
============================================================================
