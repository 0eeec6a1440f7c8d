------------------------- MODULE StreamRetryProofs -------------------------
(***************************************************************************)
(* Theorems about one streamed completion, for any number of members,      *)
(* attempts and deltas, with the idle watch on or off and with or without  *)
(* a serializing stage.                                                    *)
(***************************************************************************)
EXTENDS StreamRetry, SequenceTheorems, TLAPS

Attempts == (1..Members) \X (1..MaxAttempts)

RetryTypeOK ==
    /\ pc \in {"begin", "wire", "callback", "returned", "classify", "decide", "sleep",
               "member", "done"}
    /\ member \in 1..Members
    /\ attempt \in 1..MaxAttempts
    /\ pc = "sleep" => attempt < MaxAttempts
    /\ err \in Errors \cup {"none"}
    /\ result \in Errors \cup {"none", "ok"}
    /\ sent \in Nat /\ firing \in Nat /\ lateStarts \in Nat
    /\ shown \in Seq(Attempts)

FlagsOK ==
    /\ retryable \in BOOLEAN /\ delivered \in BOOLEAN /\ fbDelivered \in BOOLEAN
    /\ mustFail \in BOOLEAN /\ fnFailed \in BOOLEAN
    /\ ctxDone \in BOOLEAN /\ actxDone \in BOOLEAN
    /\ armed \in BOOLEAN /\ due \in BOOLEAN /\ paused \in BOOLEAN
    /\ tripped \in BOOLEAN /\ stopped \in BOOLEAN

\* What the caller saw came from the attempt that is still the current one.
VoiceInv ==
    /\ fbDelivered => delivered /\ pc \notin {"begin", "sleep"}
    /\ \A i \in 1..Len(shown) : fbDelivered /\ shown[i] = <<member, attempt>>

\* Which failures the retry loop may repeat, and which leave the member.
VerdictInv ==
    /\ pc = "decide" =>
        /\ retryable => err \in Retryable /\ (delivered => ctxDone)
        /\ ~retryable => err \notin Retryable \/ delivered
    /\ pc = "member" /\ err \in Retryable =>
        attempt = MaxAttempts \/ delivered \/ ctxDone
    /\ result # "none" => pc = "done"

\* At most one attempt begins after the context ended, and none follows it.
LateInv ==
    /\ lateStarts <= 1
    /\ lateStarts > 0 => ctxDone /\ pc \notin {"begin", "sleep"}

\* The watch is live only between the attempt's begin and its end.
WatchInv ==
    /\ ~Idle => stopped
    /\ pc = "callback" => paused = Idle
    /\ pc \notin {"wire", "callback", "returned"} => stopped

RetryInv ==
    RetryTypeOK /\ FlagsOK /\ VoiceInv /\ VerdictInv /\ LateInv /\ WatchInv /\ GivesUpInTime

----------------------------------------------------------------------------
\* A delta of the current attempt joins the history.
LEMMA ShowOne ==
    ASSUME NEW s \in Seq(Attempts), NEW a \in Attempts, \A i \in 1..Len(s) : s[i] = a
    PROVE  /\ Append(s, a) \in Seq(Attempts)
           /\ \A i \in 1..Len(Append(s, a)) : Append(s, a)[i] = a
  BY AppendProperties

(***************************************************************************)
(* The state keeps its types; in particular retry.Do never counts an       *)
(* attempt past MaxAttempts and Fallback never a member past its last.     *)
(***************************************************************************)
LEMMA RetryStepTypes ==
    ASSUME RetryTypeOK, [Next]_vars
    PROVE  RetryTypeOK'
  <1> USE StackAssumption
  <1> <<member, attempt>> \in Attempts
    BY DEF RetryTypeOK, Attempts
  <1>1. CASE BeginAttempt
    BY <1>1 DEF BeginAttempt, RetryTypeOK
  <1>2. ASSUME NEW visible \in BOOLEAN, Delta(visible) PROVE RetryTypeOK'
    <2>1. shown' = shown \/ shown' = Append(shown, <<member, attempt>>)
      BY <1>2 DEF Delta
    <2>2. shown' \in Seq(Attempts)
      <3>1. shown \in Seq(Attempts) /\ Append(shown, <<member, attempt>>) \in Seq(Attempts)
        BY AppendProperties, Zenon DEF RetryTypeOK
      <3> QED BY <2>1, <3>1, Zenon
    <2> QED BY <1>2, <2>2 DEF Delta, RetryTypeOK, ctxVars
  <1>3. ASSUME NEW failed \in BOOLEAN, CallbackReturns(failed) PROVE RetryTypeOK'
    BY <1>3 DEF CallbackReturns, RetryTypeOK, ctxVars, histVars
  <1>4. ASSUME NEW e \in {"none", "retryable", "terminal", "callback"}, WireReturns(e)
        PROVE  RetryTypeOK'
    BY <1>4 DEF WireReturns, RetryTypeOK, Errors, Retryable, wireVars, ctxVars, watchVars,
                histVars
  <1>5. CASE EndAttempt
    BY <1>5 DEF EndAttempt, RetryTypeOK, Errors, Retryable, wireVars, ctxVars, histVars
  <1>6. CASE Classify
    BY <1>6 DEF Classify, RetryTypeOK, wireVars, ctxVars, watchVars, histVars
  <1>7. CASE Decide
    BY <1>7 DEF Decide, RetryTypeOK, Errors, wireVars, ctxVars, watchVars, histVars
  <1>8. CASE Sleep
    BY <1>8 DEF Sleep, RetryTypeOK, Errors, wireVars, ctxVars, watchVars, histVars
  <1>9. CASE MemberReturns
    BY <1>9 DEF MemberReturns, RetryTypeOK, wireVars, ctxVars, watchVars, histVars
  <1>10. CASE TimePasses \/ TimerExpires \/ Fire
    BY <1>10 DEF TimePasses, TimerExpires, Fire, RetryTypeOK, callVars, wireVars, ctxVars,
                 histVars
  <1>11. CASE AttemptTimesOut \/ CallerEnds
    BY <1>11 DEF AttemptTimesOut, CallerEnds, RetryTypeOK, callVars, wireVars, watchVars,
                 histVars
  <1>12. CASE UNCHANGED vars
    BY <1>12 DEF vars, RetryTypeOK, callVars, wireVars, ctxVars, watchVars, histVars
  <1> QED BY <1>1, <1>2, <1>3, <1>4, <1>5, <1>6, <1>7, <1>8, <1>9, <1>10, <1>11, <1>12
          DEF Next, CallStep, Returned

\* The flags stay Boolean.
LEMMA FlagsStepTypes ==
    ASSUME FlagsOK, [Next]_vars
    PROVE  FlagsOK'
  <1>0. Idle \in BOOLEAN
    BY StackAssumption
  <1> USE DEF FlagsOK
  <1>1. CASE BeginAttempt
    BY <1>0, <1>1, Zenon DEF BeginAttempt
  <1>2. ASSUME NEW visible \in BOOLEAN, Delta(visible) PROVE FlagsOK'
    BY <1>0, <1>2, Zenon DEF Delta, ctxVars
  <1>3. ASSUME NEW failed \in BOOLEAN, CallbackReturns(failed) PROVE FlagsOK'
    BY <1>0, <1>3, Zenon DEF CallbackReturns, ctxVars
  <1>4. ASSUME NEW e \in {"none", "retryable", "terminal", "callback"}, WireReturns(e)
        PROVE  FlagsOK'
    BY <1>4, Zenon DEF WireReturns, wireVars, ctxVars, watchVars
  <1>5. CASE EndAttempt
    BY <1>5, Zenon DEF EndAttempt, wireVars, ctxVars
  <1>6. CASE Classify
    BY <1>6, Zenon DEF Classify, wireVars, ctxVars, watchVars
  <1>7. CASE Decide
    BY <1>7, Zenon DEF Decide, wireVars, ctxVars, watchVars
  <1>8. CASE Sleep
    BY <1>8, Zenon DEF Sleep, wireVars, ctxVars, watchVars
  <1>9. CASE MemberReturns
    BY <1>9, Zenon DEF MemberReturns, wireVars, ctxVars, watchVars
  <1>10. CASE TimePasses
    BY <1>10, Zenon DEF TimePasses, callVars, wireVars, ctxVars
  <1>11. CASE TimerExpires
    BY <1>11, Zenon DEF TimerExpires, callVars, wireVars, ctxVars
  <1>12. CASE Fire
    BY <1>12, Zenon DEF Fire, callVars, wireVars, ctxVars
  <1>13. CASE AttemptTimesOut
    BY <1>13, Zenon DEF AttemptTimesOut, callVars, wireVars, watchVars
  <1>14. CASE CallerEnds
    BY <1>14, Zenon DEF CallerEnds, callVars, wireVars, watchVars
  <1>15. CASE UNCHANGED vars
    BY <1>15, Zenon DEF vars, callVars, wireVars, ctxVars, watchVars
  <1> QED BY <1>1, <1>2, <1>3, <1>4, <1>5, <1>6, <1>7, <1>8, <1>9, <1>10, <1>11, <1>12,
             <1>13, <1>14, <1>15
          DEF Next, CallStep, Returned

\* The parts of the invariant that a step of the timer or a context can touch.
LEMMA OtherActorsKeep ==
    ASSUME RetryInv, TimePasses \/ TimerExpires \/ Fire \/ AttemptTimesOut \/ CallerEnds
                        \/ UNCHANGED vars
    PROVE  VoiceInv' /\ VerdictInv' /\ LateInv' /\ WatchInv' /\ GivesUpInTime'
  <1> USE DEF callVars, wireVars, histVars
  <1>1. /\ UNCHANGED <<pc, member, attempt, err, retryable, delivered, fbDelivered, result>>
        /\ UNCHANGED <<shown, lateStarts, paused, stopped>>
        /\ ctxDone => ctxDone'
    BY DEF TimePasses, TimerExpires, Fire, AttemptTimesOut, CallerEnds, vars, ctxVars,
           watchVars
  <1>2. VoiceInv'
    BY <1>1 DEF RetryInv, VoiceInv
  <1>3. VerdictInv'
    BY <1>1 DEF RetryInv, VerdictInv
  <1>4. LateInv'
    BY <1>1 DEF RetryInv, LateInv
  <1>5. WatchInv'
    BY <1>1 DEF RetryInv, WatchInv
  <1>6. GivesUpInTime'
    BY <1>1 DEF RetryInv, GivesUpInTime
  <1> QED BY <1>2, <1>3, <1>4, <1>5, <1>6

(***************************************************************************)
(* A step of the call's goroutine keeps the invariant.  The two ways back  *)
(* to "begin" are the ones that matter: retry.Do sleeps only when no delta *)
(* has passed and the context was there, and Fallback moves on only when   *)
(* nothing has reached the caller.                                         *)
(***************************************************************************)
LEMMA CallStepKeeps ==
    ASSUME RetryInv, CallStep
    PROVE  VoiceInv' /\ VerdictInv' /\ LateInv' /\ WatchInv' /\ GivesUpInTime'
  <1> USE StackAssumption
  <1> DEFINE Kept == VoiceInv' /\ VerdictInv' /\ LateInv' /\ WatchInv' /\ GivesUpInTime'
  <1> <<member, attempt>> \in Attempts /\ shown \in Seq(Attempts)
    BY DEF RetryInv, RetryTypeOK, Attempts
  <1> USE DEF RetryInv, RetryTypeOK, VoiceInv, VerdictInv, LateInv, WatchInv, GivesUpInTime,
              wireVars, ctxVars, watchVars, histVars
  <1>1. CASE BeginAttempt
    <2>1. VoiceInv' /\ VerdictInv' /\ LateInv'
      BY <1>1 DEF BeginAttempt, Retryable
    <2>2. GivesUpInTime'
      BY <1>1 DEF BeginAttempt, Retryable
    <2>3. WatchInv'
      BY <1>1 DEF BeginAttempt
    <2> QED BY <2>1, <2>2, <2>3
  <1>2. ASSUME NEW visible \in BOOLEAN, Delta(visible) PROVE Kept
    <2>1. CASE tripped
      BY <1>2, <2>1 DEF Delta
    <2>2. CASE ~tripped
      <3>1. VoiceInv'
        <4>1. CASE visible
          <5>1. shown' = Append(shown, <<member, attempt>>)
            BY <1>2, <2>2, <4>1 DEF Delta
          <5> QED BY <1>2, <2>2, <4>1, <5>1, ShowOne DEF Delta
        <4>2. CASE ~visible
          BY <1>2, <2>2, <4>2 DEF Delta
        <4> QED BY <4>1, <4>2
      <3> QED BY <1>2, <2>2, <3>1 DEF Delta
    <2> QED BY <2>1, <2>2
  <1>3. ASSUME NEW failed \in BOOLEAN, CallbackReturns(failed) PROVE Kept
    BY <1>3 DEF CallbackReturns
  <1>4. ASSUME NEW e \in {"none", "retryable", "terminal", "callback"}, WireReturns(e)
        PROVE  Kept
    BY <1>4 DEF WireReturns
  <1>5. CASE EndAttempt
    BY <1>5 DEF EndAttempt
  <1>6. CASE Classify
    BY <1>6 DEF Classify, Retryable
  <1>7. CASE Decide
    BY <1>7 DEF Decide, Retryable
  <1>8. CASE Sleep
    BY <1>8 DEF Sleep, Retryable
  <1>9. CASE MemberReturns
    BY <1>9 DEF MemberReturns, FallsThrough, Retryable
  <1> QED BY <1>1, <1>2, <1>3, <1>4, <1>5, <1>6, <1>7, <1>8, <1>9 DEF CallStep

\* The inductive invariant of a streamed call.
THEOREM RetryInvariant == Spec => []RetryInv
  <1>1. Init => RetryInv
    <2>1. <<>> \in Seq(Attempts) /\ Len(<<>>) = 0
      BY EmptySeq
    <2>2. Init => FlagsOK
      BY DEF Init, FlagsOK
    <2> QED BY <2>1, <2>2, StackAssumption DEF Init, RetryInv, RetryTypeOK, VoiceInv, VerdictInv,
            LateInv, WatchInv, GivesUpInTime, Errors, Retryable
  <1>2. RetryInv /\ [Next]_vars => RetryInv'
    <2> SUFFICES ASSUME RetryInv, [Next]_vars PROVE RetryInv'
      OBVIOUS
    <2>1. RetryTypeOK'
      BY RetryStepTypes DEF RetryInv
    <2>2. VoiceInv' /\ VerdictInv' /\ LateInv' /\ WatchInv' /\ GivesUpInTime'
      BY OtherActorsKeep, CallStepKeeps DEF Next, Returned
    <2>3. FlagsOK'
      BY FlagsStepTypes DEF RetryInv
    <2> QED BY <2>1, <2>2, <2>3 DEF RetryInv
  <1> QED BY <1>1, <1>2, PTL DEF Spec

(***************************************************************************)
(* The caller of retryClient.Stream and fallbackClient.Stream sees the     *)
(* deltas of one attempt of one member only, for any interleaving of the   *)
(* idle timer, the attempt's deadline and the caller's context.            *)
(***************************************************************************)
THEOREM VoicesNeverMixed == Spec => []OneVoice
  <1>1. RetryInv => OneVoice
    BY DEF RetryInv, VoiceInv, OneVoice
  <1> QED BY <1>1, RetryInvariant, PTL

(***************************************************************************)
(* retry.Do and Fallback stop at the caller's context with at most one     *)
(* attempt begun after it, and return a retryable failure only when        *)
(* nothing was left to try.                                                *)
(***************************************************************************)
THEOREM RetriesStopInTime == Spec => []GivesUpInTime
  <1>1. RetryInv => GivesUpInTime
    BY DEF RetryInv
  <1> QED BY <1>1, RetryInvariant, PTL

(***************************************************************************)
(* idleWatch.fire trips only while the wire is silent past its deadline:   *)
(* the paused and done flags close the callback and the attempt's end to   *)
(* a goroutine the timer had spawned before.                               *)
(***************************************************************************)
THEOREM WatchTripsOnSilence == Spec => TripsOnSilence
  <1> DEFINE Step == ~tripped /\ tripped' => pc \in {"wire", "returned"} /\ due /\ ~paused
  <1>1. RetryInv /\ [Next]_vars => Step
    <2> SUFFICES ASSUME RetryInv, [Next]_vars, ~tripped, tripped'
                 PROVE  pc \in {"wire", "returned"} /\ due /\ ~paused
      OBVIOUS
    <2>1. Fire
      BY DEF Next, CallStep, BeginAttempt, Delta, CallbackReturns, WireReturns, EndAttempt,
             Classify, Decide, Sleep, MemberReturns, TimePasses, TimerExpires, Returned,
             AttemptTimesOut, CallerEnds, vars, watchVars
    <2>2. ~stopped /\ ~paused /\ due
      BY <2>1 DEF Fire, RetryInv, RetryTypeOK
    <2> QED BY <2>2 DEF RetryInv, RetryTypeOK, WatchInv
  <1> QED BY <1>1, RetryInvariant, PTL DEF Spec, TripsOnSilence
============================================================================
