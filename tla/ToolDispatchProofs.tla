------------------------- MODULE ToolDispatchProofs ------------------------
(***************************************************************************)
(* Theorems about the tool phase of a turn, for any number of calls, in    *)
(* the sequential and the parallel mode, with and without a policy.        *)
(***************************************************************************)
EXTENDS ToolDispatch, SequenceTheorems, TLAPS

Quiet == {"idle", "done"}

DispatchTypeOK ==
    /\ calls \in AllCalls
    /\ registered \subseteq 1..calls
    /\ pc \in {"authorize", "loop", "call", "fan", "wait", "commit", "committed", "panicked"}
    /\ next \in 1..(calls + 1)
    /\ executed \in 0..calls
    /\ at \in [AllCalls -> Quiet \cup {"start", "running", "failed", "deadline", "health", "end"}]
    /\ out \in [AllCalls -> {"none", "ok", "error", "health", "toolPanic"}]
    /\ res \in [AllCalls -> {"none", "ok", "error", "timeout", "toolPanic"}]
    /\ slot \in [AllCalls -> [what : {"none", "denied", "notRun", "unknown", "ok", "error",
                                      "timeout", "toolPanic"},
                              args : {"model", "rewritten"}]]
    /\ ended \in {"no", "cancelled", "deadline"}
    /\ args \in [AllCalls -> {"model", "rewritten", "invalid"}]
    /\ ran \subseteq AllCalls

\* What is known of a call from where its runTool stands.
Shape(i) ==
    /\ at[i] \in {"idle", "start"} => i \notin ran
    /\ at[i] \in {"idle", "start", "running"} => out[i] = "none"
    /\ at[i] = "idle" => slot[i].what \in {"none", "denied", "notRun"}
    /\ at[i] = "start" => slot[i].what = "none"
    /\ at[i] \notin Quiet => ~Denied(i)
    /\ at[i] \in {"failed", "deadline", "health"} =>
        out[i] \in {"error", "health"} /\ res[i] = "error"
    /\ at[i] = "end" => res[i] \in Reports[out[i]] /\ res[i] # "none"
    /\ at[i] = "done" => slot[i].what \in Reports[out[i]] \/ hookPanic \/ pc = "panicked"
    /\ slot[i].args = IF args[i] = "rewritten" THEN "rewritten" ELSE "model"
    /\ i > calls => at[i] = "idle"

\* What the policy has settled of a call.
Settled(i) == i \in registered => i \in allowed \/ Denied(i)

AuthInv ==
    /\ pc = "authorize" =>
        /\ next <= calls
        /\ \A i \in AllCalls : at[i] = "idle"
        /\ \A i \in 1..(next - 1) : Settled(i)
    /\ pc \notin {"authorize", "panicked"} => \A i \in 1..calls : Settled(i)

\* Who may be inside runTool, and how far the sequential loop has come.
ModeInv ==
    /\ pc \in {"loop", "call"} => ~FansOut
    /\ pc \in {"fan", "wait"} => FansOut
    /\ pc = "call" => next <= calls
    /\ ~FansOut => ~hookPanic
    /\ pc = "fan" => \A i \in AllCalls : at[i] = "idle"
    /\ \A i \in AllCalls : at[i] \notin Quiet => pc = "wait" \/ (pc = "call" /\ i = next)
    /\ pc \in {"loop", "call"} =>
        /\ \A i \in 1..(next - 1) : at[i] = "done" \/ Denied(i)
        /\ \A i \in next..calls : at[i] = "idle" \/ (pc = "call" /\ i = next)

\* What executeTools has returned.
ResultInv ==
    /\ pc \in {"commit", "committed"} =>
        /\ executed < calls => ended # "no"
        /\ \A i \in 1..executed : slot[i].what \in Reports[out[i]]
        /\ ran \subseteq 1..executed
    /\ log = IF pc = "committed" THEN [i \in 1..executed |-> slot[i]] ELSE <<>>

DispatchInv ==
    /\ DispatchTypeOK
    /\ \A i \in AllCalls : Shape(i)
    /\ AuthInv /\ ModeInv /\ ResultInv
    /\ ran \subseteq allowed

----------------------------------------------------------------------------
\* What a result may report, outcome by outcome.
LEMMA ReportsCases ==
    /\ Reports["none"] = {"denied", "notRun", "unknown"}
    /\ Reports["ok"] = {"ok"}
    /\ Reports["error"] = {"error", "timeout"}
    /\ Reports["health"] = {"error", "timeout"}
    /\ Reports["toolPanic"] = {"toolPanic"}
  BY DEF Reports

\* The names for the facts that every step below starts from.
What == {"none", "denied", "notRun", "unknown", "ok", "error", "timeout", "toolPanic"}
Slot == [what : What, args : {"model", "rewritten"}]

\* One field of a slot is written; the other slots and fields stay.
LEMMA SlotWrite ==
    ASSUME NEW s \in [AllCalls -> Slot], NEW i \in AllCalls, NEW w \in What
    PROVE  /\ [s EXCEPT ![i].what = w] \in [AllCalls -> Slot]
           /\ [s EXCEPT ![i].what = w][i].what = w
           /\ [s EXCEPT ![i].what = w][i].args = s[i].args
           /\ \A j \in AllCalls : j # i => [s EXCEPT ![i].what = w][j] = s[j]
  BY DEF Slot

(***************************************************************************)
(* authorizeCalls decides one call and goes on: what it may write is the   *)
(* call's own slot and arguments, and the call is decided afterwards.      *)
(***************************************************************************)
LEMMA AuthorizeKeeps ==
    ASSUME DispatchInv, pc = "authorize", Advance,
           UNCHANGED <<config, executed, log, callVars, ctxVars>>,
           slot' \in [AllCalls -> Slot],
           args' \in [AllCalls -> {"model", "rewritten", "invalid"}],
           allowed \subseteq allowed',
           \A i \in AllCalls : i # next => slot'[i] = slot[i] /\ args'[i] = args[i],
           slot'[next].what \in {"none", "denied", "notRun"},
           slot'[next].args = IF args'[next] = "rewritten" THEN "rewritten" ELSE "model",
           \/ next \notin registered \/ next \in allowed'
           \/ slot'[next].what \in {"denied", "notRun"}
    PROVE  DispatchInv'
  <1> USE DispatchAssumption DEF config, callVars, ctxVars, AllCalls
  <1>1. /\ calls \in AllCalls /\ next \in 1..calls /\ next \in AllCalls
        /\ \A i \in AllCalls : at[i] = "idle"
    BY DEF DispatchInv, DispatchTypeOK, AuthInv
  <1>2. ran = {}
    BY <1>1 DEF DispatchInv, DispatchTypeOK, Shape
  <1>3. CASE next < calls
    <2>1. pc' = pc /\ next' = next + 1
      BY <1>3 DEF Advance
    <2>2. DispatchTypeOK'
      BY <1>1, <1>3, <2>1 DEF DispatchInv, DispatchTypeOK, Slot, What
    <2>3. \A i \in AllCalls : Shape(i)'
      BY <1>1, <2>1 DEF DispatchInv, Shape, Denied, Quiet
    <2>4. AuthInv'
      BY <1>1, <1>3, <2>1 DEF DispatchInv, AuthInv, Settled, Denied
    <2>5. ModeInv'
      BY <1>1, <2>1 DEF DispatchInv, ModeInv, FansOut, Quiet
    <2>6. ResultInv' /\ (ran \subseteq allowed)'
      BY <1>2, <2>1 DEF DispatchInv, ResultInv
    <2> QED BY <2>2, <2>3, <2>4, <2>5, <2>6 DEF DispatchInv
  <1>4. CASE next = calls
    <2>1. pc' = Dispatch /\ next' = 1
      BY <1>1, <1>4 DEF Advance
    <2>2. pc' = IF FansOut THEN "fan" ELSE "loop"
      BY <2>1 DEF Dispatch
    <2>3. DispatchTypeOK'
      BY <1>1, <2>1, <2>2 DEF DispatchInv, DispatchTypeOK, Slot, What
    <2>4. \A i \in AllCalls : Shape(i)'
      BY <1>1, <2>2 DEF DispatchInv, Shape, Denied, Quiet
    <2>5. AuthInv'
      BY <1>1, <1>4, <2>1, <2>2 DEF DispatchInv, AuthInv, Settled, Denied
    <2>6. ModeInv'
      BY <1>1, <2>1, <2>2 DEF DispatchInv, ModeInv, FansOut, Quiet
    <2>7. ResultInv' /\ (ran \subseteq allowed)'
      BY <1>2, <2>2 DEF DispatchInv, ResultInv
    <2> QED BY <2>3, <2>4, <2>5, <2>6, <2>7 DEF DispatchInv
  <1> QED BY <1>1, <1>3, <1>4

\* The pass over the calls before the first Tool.Run.
LEMMA AuthorizationKeeps ==
    ASSUME DispatchInv,
           \/ SkipUnknown \/ NotAuthorized \/ Deny \/ PolicyPanics
           \/ \E given \in {"model", "rewritten", "invalid"} : Allow(given)
    PROVE  DispatchInv'
  <1> USE DispatchAssumption DEF authVars
  <1>1. /\ slot \in [AllCalls -> Slot]
        /\ args \in [AllCalls -> {"model", "rewritten", "invalid"}]
        /\ calls \in AllCalls /\ next \in 1..(calls + 1)
    BY DEF DispatchInv, DispatchTypeOK, Slot, What
  <1>2. pc = "authorize" => /\ next \in AllCalls
                            /\ slot[next].what \in {"none", "denied", "notRun"}
                            /\ slot[next].args = IF args[next] = "rewritten"
                                                 THEN "rewritten" ELSE "model"
    <2> SUFFICES ASSUME pc = "authorize"
                 PROVE  /\ next \in AllCalls
                        /\ slot[next].what \in {"none", "denied", "notRun"}
                        /\ slot[next].args = IF args[next] = "rewritten"
                                             THEN "rewritten" ELSE "model"
      OBVIOUS
    <2>1. next \in AllCalls
      BY <1>1 DEF DispatchInv, AuthInv, AllCalls
    <2>2. Shape(next) /\ at[next] = "idle"
      BY <2>1 DEF DispatchInv, AuthInv
    <2> QED BY <2>1, <2>2 DEF Shape
  <1>3. CASE SkipUnknown
    BY <1>1, <1>2, <1>3, AuthorizeKeeps DEF SkipUnknown
  <1>4. CASE NotAuthorized
    <2>1. pc = "authorize" /\ slot' = [slot EXCEPT ![next].what = "notRun"]
      BY <1>4 DEF NotAuthorized
    <2>2. "notRun" \in What
      BY DEF What
    <2>3. /\ slot' \in [AllCalls -> Slot] /\ slot'[next].what = "notRun"
          /\ slot'[next].args = slot[next].args
          /\ \A i \in AllCalls : i # next => slot'[i] = slot[i]
      BY <1>1, <1>2, <2>1, <2>2, SlotWrite
    <2> QED BY <1>1, <1>2, <1>4, <2>1, <2>3, AuthorizeKeeps DEF NotAuthorized
  <1>5. CASE Deny
    <2>1. pc = "authorize" /\ slot' = [slot EXCEPT ![next].what = "denied"]
      BY <1>5 DEF Deny
    <2>2. "denied" \in What
      BY DEF What
    <2>3. /\ slot' \in [AllCalls -> Slot] /\ slot'[next].what = "denied"
          /\ slot'[next].args = slot[next].args
          /\ \A i \in AllCalls : i # next => slot'[i] = slot[i]
      BY <1>1, <1>2, <2>1, <2>2, SlotWrite
    <2> QED BY <1>1, <1>2, <1>5, <2>1, <2>3, AuthorizeKeeps DEF Deny
  <1>6. ASSUME NEW given \in {"model", "rewritten", "invalid"}, Allow(given)
        PROVE  DispatchInv'
    <2> DEFINE a == IF given = "rewritten" THEN given ELSE "model"
    <2>1. /\ pc = "authorize" /\ next \in AllCalls
          /\ slot' = [slot EXCEPT ![next].args = a]
          /\ args' = [args EXCEPT ![next] = given]
      BY <1>2, <1>6 DEF Allow
    <2>2. /\ slot' \in [AllCalls -> Slot] /\ slot'[next].what = slot[next].what
          /\ slot'[next].args = a
          /\ \A i \in AllCalls : i # next => slot'[i] = slot[i]
      BY <1>1, <2>1 DEF Slot
    <2>3. /\ args' \in [AllCalls -> {"model", "rewritten", "invalid"}]
          /\ args'[next] = given
          /\ \A i \in AllCalls : i # next => args'[i] = args[i]
      BY <1>1, <2>1
    <2>4. next \in allowed' /\ allowed \subseteq allowed'
      BY <1>6 DEF Allow
    <2> QED BY <1>1, <1>2, <1>6, <2>1, <2>2, <2>3, <2>4, AuthorizeKeeps DEF Allow
  <1>7. CASE PolicyPanics
    <2> USE <1>7 DEF PolicyPanics, config, callVars, ctxVars
    <2>1. DispatchTypeOK'
      BY DEF DispatchInv, DispatchTypeOK
    <2>2. \A i \in AllCalls : Shape(i)'
      BY DEF DispatchInv, Shape, Denied, AuthInv
    <2>3. AuthInv' /\ ModeInv'
      BY DEF DispatchInv, AuthInv, ModeInv, FansOut, Quiet
    <2>4. ResultInv' /\ (ran \subseteq allowed)'
      BY DEF DispatchInv, ResultInv
    <2> QED BY <2>1, <2>2, <2>3, <2>4 DEF DispatchInv
  <1> QED BY <1>3, <1>4, <1>5, <1>6, <1>7

----------------------------------------------------------------------------
\* Facts about the state that the steps of the dispatch start from.
LEMMA DispatchFacts ==
    ASSUME DispatchInv
    PROVE  /\ calls \in Nat \ {0} /\ next \in Nat \ {0} /\ executed \in Nat
           /\ next <= calls + 1 /\ executed <= calls
           /\ calls \in AllCalls /\ 1..calls \subseteq AllCalls
           /\ slot \in [AllCalls -> Slot]
  BY DispatchAssumption DEF DispatchInv, DispatchTypeOK, AllCalls, Slot, What

\* The loop's own steps around the calls.
LEMMA LoopKeeps ==
    ASSUME DispatchInv, LeaveLoop \/ SkipDenied \/ CallNext \/ FanOut \/ WaitAll \/ Commit
    PROVE  DispatchInv'
  <1> USE DispatchFacts, ReportsCases DEF AllCalls, config, callVars, authVars, ctxVars
  <1>1. CASE LeaveLoop
    <2> USE <1>1 DEF LeaveLoop
    <2>1. DispatchTypeOK'
      BY DEF DispatchInv, DispatchTypeOK
    <2>2. \A i \in AllCalls : Shape(i)'
      BY DEF DispatchInv, Shape, Denied
    <2>3. AuthInv'
      BY DEF DispatchInv, AuthInv, Settled, Denied
    <2>4. ModeInv'
      BY DEF DispatchInv, ModeInv, FansOut
    <2>5. \A i \in 1..(next - 1) : slot[i].what \in Reports[out[i]]
      <3> SUFFICES ASSUME NEW i \in 1..(next - 1) PROVE slot[i].what \in Reports[out[i]]
        OBVIOUS
      <3>1. Shape(i) /\ i \in AllCalls /\ ~hookPanic
        BY DEF DispatchInv, ModeInv
      <3>2. at[i] = "done" \/ (at[i] = "idle" /\ Denied(i))
        BY <3>1 DEF DispatchInv, ModeInv, Quiet
      <3> QED BY <3>1, <3>2 DEF Shape, Denied
    <2>6. ran \subseteq 1..(next - 1)
      <3> SUFFICES ASSUME NEW i \in ran, i \notin 1..(next - 1) PROVE FALSE
        OBVIOUS
      <3>1. Shape(i) /\ i \in AllCalls
        BY DEF DispatchInv, DispatchTypeOK
      <3>2. at[i] = "idle"
        BY <3>1 DEF DispatchInv, ModeInv, Shape
      <3> QED BY <3>1, <3>2 DEF Shape
    <2>7. ResultInv'
      BY <2>5, <2>6 DEF DispatchInv, ResultInv
    <2> QED BY <2>1, <2>2, <2>3, <2>4, <2>7 DEF DispatchInv
  <1>2. CASE SkipDenied
    <2> USE <1>2 DEF SkipDenied
    <2>1. DispatchTypeOK'
      BY DEF DispatchInv, DispatchTypeOK
    <2>2. \A i \in AllCalls : Shape(i)'
      BY DEF DispatchInv, Shape, Denied
    <2>3. AuthInv'
      BY DEF DispatchInv, AuthInv, Settled, Denied
    <2>4. ModeInv'
      BY DEF DispatchInv, ModeInv, FansOut, Denied
    <2>5. ResultInv' /\ (ran \subseteq allowed)'
      BY DEF DispatchInv, ResultInv
    <2> QED BY <2>1, <2>2, <2>3, <2>4, <2>5 DEF DispatchInv
  <1>3. CASE CallNext
    <2> USE <1>3 DEF CallNext
    <2>1. /\ next \in AllCalls /\ at[next] = "idle"
          /\ \A i \in AllCalls : at'[i] = IF i = next THEN "start" ELSE at[i]
      BY DEF DispatchInv, ModeInv, DispatchTypeOK
    <2>2. DispatchTypeOK'
      BY <2>1 DEF DispatchInv, DispatchTypeOK, Quiet
    <2>3. \A i \in AllCalls : Shape(i)'
      BY <2>1 DEF DispatchInv, Shape, Denied, Quiet
    <2>4. AuthInv'
      BY DEF DispatchInv, AuthInv, Settled, Denied
    <2>5. ModeInv'
      BY <2>1 DEF DispatchInv, ModeInv, FansOut, Denied, Quiet
    <2>6. ResultInv' /\ (ran \subseteq allowed)'
      BY DEF DispatchInv, ResultInv
    <2> QED BY <2>2, <2>3, <2>4, <2>5, <2>6 DEF DispatchInv
  <1>4. CASE FanOut
    <2> USE <1>4 DEF FanOut
    <2>1. /\ \A i \in AllCalls : at[i] = "idle"
          /\ \A i \in AllCalls :
                at'[i] = IF i > calls THEN "idle" ELSE IF Denied(i) THEN "done" ELSE "start"
      BY DEF DispatchInv, ModeInv
    <2>2. DispatchTypeOK'
      BY <2>1 DEF DispatchInv, DispatchTypeOK, Quiet
    <2>3. \A i \in AllCalls : Shape(i)'
      BY <2>1 DEF DispatchInv, Shape, Denied, Quiet
    <2>4. AuthInv'
      BY DEF DispatchInv, AuthInv, Settled, Denied
    <2>5. ModeInv'
      BY DEF DispatchInv, ModeInv, FansOut, Quiet
    <2>6. ResultInv' /\ (ran \subseteq allowed)'
      BY DEF DispatchInv, ResultInv
    <2> QED BY <2>2, <2>3, <2>4, <2>5, <2>6 DEF DispatchInv
  <1>5. CASE WaitAll
    <2> USE <1>5 DEF WaitAll, AllReturned
    <2>1. DispatchTypeOK'
      BY DEF DispatchInv, DispatchTypeOK
    <2>2. \A i \in AllCalls : Shape(i)'
      BY DEF DispatchInv, Shape, Denied
    <2>3. AuthInv'
      BY DEF DispatchInv, AuthInv, Settled, Denied
    <2>4. ModeInv'
      BY DEF DispatchInv, ModeInv, FansOut, Shape, Quiet
    <2>5. ~hookPanic => /\ \A i \in 1..calls : slot[i].what \in Reports[out[i]]
                        /\ ran \subseteq 1..calls
      BY DEF DispatchInv, DispatchTypeOK, Shape
    <2>6. ResultInv'
      BY <2>5 DEF DispatchInv, ResultInv
    <2> QED BY <2>1, <2>2, <2>3, <2>4, <2>6 DEF DispatchInv
  <1>6. CASE Commit
    <2> USE <1>6 DEF Commit
    <2>1. DispatchTypeOK'
      BY DEF DispatchInv, DispatchTypeOK
    <2>2. \A i \in AllCalls : Shape(i)'
      BY DEF DispatchInv, Shape, Denied
    <2>3. AuthInv'
      BY DEF DispatchInv, AuthInv, Settled, Denied
    <2>4. ModeInv'
      BY DEF DispatchInv, ModeInv, FansOut
    <2>5. ResultInv' /\ (ran \subseteq allowed)'
      BY DEF DispatchInv, ResultInv
    <2> QED BY <2>1, <2>2, <2>3, <2>4, <2>5 DEF DispatchInv
  <1> QED BY <1>1, <1>2, <1>3, <1>4, <1>5, <1>6

----------------------------------------------------------------------------
\* A call inside runTool belongs to the loop's phase of running tools.
LEMMA InsideCall ==
    ASSUME DispatchInv, NEW i \in AllCalls, at[i] \notin Quiet
    PROVE  /\ Shape(i) /\ i \in 1..calls /\ ~Denied(i)
           /\ pc = "wait" \/ (pc = "call" /\ i = next)
           /\ FansOut <=> pc = "wait"
           /\ i \in registered => i \in allowed
  <1>1. Shape(i) /\ i \in 1..calls
    BY DispatchFacts DEF DispatchInv, Shape, Quiet, AllCalls
  <1>2. ~Denied(i)
    BY <1>1 DEF Shape
  <1>3. pc = "wait" \/ (pc = "call" /\ i = next)
    BY DEF DispatchInv, ModeInv
  <1>4. FansOut <=> pc = "wait"
    BY <1>3 DEF DispatchInv, ModeInv
  <1>5. i \in registered => i \in allowed
    BY <1>1, <1>2, <1>3 DEF DispatchInv, AuthInv, Settled
  <1> QED BY <1>1, <1>2, <1>3, <1>4, <1>5

\* A result goes to its slot and the loop's goroutine goes on.
LEMMA SettleKeeps ==
    ASSUME DispatchInv, NEW i \in AllCalls, NEW what \in What, at[i] \in {"start", "end"},
           what \in Reports[out[i]], Settle(i, what),
           UNCHANGED <<config, executed, log, out, res, hookPanic, ran, authVars, ctxVars>>
    PROVE  DispatchInv'
  <1> USE DispatchFacts, ReportsCases DEF config, authVars, ctxVars
  <1>1. /\ Shape(i) /\ i \in 1..calls /\ ~Denied(i)
        /\ pc = "wait" \/ (pc = "call" /\ i = next)
        /\ FansOut <=> pc = "wait"
        /\ i \in registered => i \in allowed
    BY InsideCall DEF Quiet
  <1>2. /\ slot' \in [AllCalls -> Slot] /\ slot'[i].what = what
        /\ slot'[i].args = slot[i].args
        /\ \A j \in AllCalls : j # i => slot'[j] = slot[j]
    <2>1. slot' = [slot EXCEPT ![i].what = what]
      BY DEF Settle
    <2> QED BY <2>1, SlotWrite
  <1>3. /\ at' \in [AllCalls -> Quiet \cup {"start", "running", "failed", "deadline", "health", "end"}]
        /\ at'[i] = "done" /\ \A j \in AllCalls : j # i => at'[j] = at[j]
    BY DEF Settle, Move, DispatchInv, DispatchTypeOK, Quiet
  <1>4. IF FansOut THEN pc' = pc /\ next' = next ELSE pc' = "loop" /\ next' = next + 1
    BY DEF Settle
  <1>5. DispatchTypeOK'
    BY <1>1, <1>2, <1>3, <1>4 DEF DispatchInv, DispatchTypeOK, Slot, What
  <1>6. \A j \in AllCalls : Shape(j)'
    <2> SUFFICES ASSUME NEW j \in AllCalls PROVE Shape(j)'
      OBVIOUS
    <2>1. CASE j = i
      BY <1>1, <1>2, <1>3, <2>1 DEF Shape, Quiet
    <2>2. CASE j # i
      BY <1>1, <1>2, <1>3, <1>4, <2>2 DEF DispatchInv, Shape, Denied
    <2> QED BY <2>1, <2>2
  <1>7. AuthInv'
    BY <1>1, <1>2, <1>4 DEF DispatchInv, AuthInv, Settled, Denied
  <1>8. ModeInv'
    <2>1. CASE FansOut
      BY <1>1, <1>2, <1>3, <1>4, <2>1 DEF DispatchInv, ModeInv, FansOut, Quiet
    <2>2. CASE ~FansOut
      <3>1. /\ pc = "call" /\ i = next /\ pc' = "loop" /\ next' = next + 1 /\ ~hookPanic
            /\ ~FansOut'
        BY <1>1, <1>4, <2>2 DEF DispatchInv, ModeInv, FansOut
      <3>2. \A j \in AllCalls : at'[j] \in Quiet
        BY <1>3, <3>1 DEF DispatchInv, ModeInv, Quiet
      <3>3. \A j \in 1..(next' - 1) : at'[j] = "done" \/ Denied(j)'
        BY <1>2, <1>3, <3>1 DEF DispatchInv, ModeInv, Denied, AllCalls
      <3>4. \A j \in next'..calls : at'[j] = "idle"
        BY <1>3, <3>1 DEF DispatchInv, ModeInv, AllCalls
      <3> QED BY <3>1, <3>2, <3>3, <3>4 DEF ModeInv, Quiet
    <2> QED BY <2>1, <2>2
  <1>9. ResultInv' /\ (ran \subseteq allowed)'
    BY <1>1, <1>4 DEF DispatchInv, ResultInv
  <1> QED BY <1>5, <1>6, <1>7, <1>8, <1>9 DEF DispatchInv

\* runTool of one call, step by step.
LEMMA CallKeeps ==
    ASSUME DispatchInv, NEW i \in AllCalls,
           CallStep(i) \/ DeadlinePasses(i) \/ \E o \in Outcomes : ToolReturns(i, o)
    PROVE  DispatchInv'
  <1> USE DispatchFacts, ReportsCases
      DEF config, loopVars, callVars, authVars, ctxVars
  <1>0. at[i] \notin Quiet =>
            /\ Shape(i) /\ i \in 1..calls /\ ~Denied(i)
            /\ pc = "wait" \/ (pc = "call" /\ i = next)
            /\ FansOut <=> pc = "wait"
            /\ i \in registered => i \in allowed
    BY InsideCall
  <1>1. CASE UnknownTool(i)
    <2>1. out[i] = "none"
      BY <1>0, <1>1 DEF UnknownTool, Shape, Quiet
    <2>2. "unknown" \in What /\ "unknown" \in Reports[out[i]]
      BY <2>1 DEF What
    <2> QED BY <1>1, <2>2, SettleKeeps DEF UnknownTool
  <1>2. CASE EndCall(i)
    <2>1. res[i] \in Reports[out[i]] /\ res[i] \in What
      BY <1>0, <1>2 DEF EndCall, Shape, Quiet, DispatchInv, DispatchTypeOK, What
    <2> QED BY <1>2, <2>1, SettleKeeps DEF EndCall
  <1>3. CASE RunTool(i)
    <2> USE <1>0, <1>3 DEF RunTool, Move
    <2>1. DispatchTypeOK'
      BY DEF DispatchInv, DispatchTypeOK, Quiet
    <2>2. \A j \in AllCalls : Shape(j)'
      BY DEF DispatchInv, DispatchTypeOK, Shape, Denied, Quiet
    <2>3. AuthInv'
      BY DEF DispatchInv, AuthInv, Settled, Denied, Quiet
    <2>4. ModeInv'
      BY DEF DispatchInv, DispatchTypeOK, ModeInv, FansOut, Denied, Quiet
    <2>5. ResultInv' /\ (ran \subseteq allowed)'
      BY DEF DispatchInv, ResultInv, Quiet
    <2> QED BY <2>1, <2>2, <2>3, <2>4, <2>5 DEF DispatchInv
  <1>4. CASE CheckRun(i)
    <2> USE <1>0, <1>4 DEF CheckRun, Move
    <2>1. DispatchTypeOK'
      BY DEF DispatchInv, DispatchTypeOK, Quiet
    <2>2. \A j \in AllCalls : Shape(j)'
      BY DEF DispatchInv, DispatchTypeOK, Shape, Denied, Quiet
    <2>3. AuthInv'
      BY DEF DispatchInv, AuthInv, Settled, Denied, Quiet
    <2>4. ModeInv'
      BY DEF DispatchInv, DispatchTypeOK, ModeInv, FansOut, Denied, Quiet
    <2>5. ResultInv' /\ (ran \subseteq allowed)'
      BY DEF DispatchInv, ResultInv, Quiet
    <2> QED BY <2>1, <2>2, <2>3, <2>4, <2>5 DEF DispatchInv
  <1>5. CASE CheckDeadline(i)
    <2> USE <1>0, <1>5 DEF CheckDeadline, Move
    <2>1. DispatchTypeOK'
      BY DEF DispatchInv, DispatchTypeOK, Quiet
    <2>2. \A j \in AllCalls : Shape(j)'
      BY DEF DispatchInv, DispatchTypeOK, Shape, Denied, Quiet
    <2>3. AuthInv'
      BY DEF DispatchInv, AuthInv, Settled, Denied, Quiet
    <2>4. ModeInv'
      <3>1. /\ at[i] \notin Quiet /\ UNCHANGED <<pc, next, calls, parallel, hookPanic, slot>>
            /\ at' = [at EXCEPT ![i] = "end"] \/ at' = [at EXCEPT ![i] = "health"]
        BY DEF Quiet
      <3>2. \A j \in AllCalls : j # i => at'[j] = at[j]
        BY <3>1 DEF DispatchInv, DispatchTypeOK
      <3> QED BY <1>0, <3>1, <3>2 DEF DispatchInv, ModeInv, FansOut, Denied, Quiet, AllCalls
    <2>5. ResultInv' /\ (ran \subseteq allowed)'
      BY DEF DispatchInv, ResultInv, Quiet
    <2> QED BY <2>1, <2>2, <2>3, <2>4, <2>5 DEF DispatchInv
  <1>6. CASE FireHealth(i)
    <2> USE <1>0, <1>6 DEF FireHealth, Move
    <2>1. DispatchTypeOK'
      BY DEF DispatchInv, DispatchTypeOK, Quiet
    <2>2. \A j \in AllCalls : Shape(j)'
      BY DEF DispatchInv, DispatchTypeOK, Shape, Denied, Quiet
    <2>3. AuthInv'
      BY DEF DispatchInv, AuthInv, Settled, Denied, Quiet
    <2>4. ModeInv'
      BY DEF DispatchInv, DispatchTypeOK, ModeInv, FansOut, Denied, Quiet
    <2>5. ResultInv' /\ (ran \subseteq allowed)'
      BY DEF DispatchInv, ResultInv, Quiet
    <2> QED BY <2>1, <2>2, <2>3, <2>4, <2>5 DEF DispatchInv
  <1>7. CASE HookPanics(i)
    <2> USE <1>0, <1>7 DEF HookPanics, Move
    <2>1. DispatchTypeOK'
      BY DEF DispatchInv, DispatchTypeOK, Quiet
    <2>2. \A j \in AllCalls : Shape(j)'
      BY DEF DispatchInv, DispatchTypeOK, Shape, Denied, Quiet
    <2>3. AuthInv'
      BY DEF DispatchInv, AuthInv, Settled, Denied, Quiet
    <2>4. ModeInv'
      BY DEF DispatchInv, DispatchTypeOK, ModeInv, FansOut, Denied, Quiet
    <2>5. ResultInv' /\ (ran \subseteq allowed)'
      BY DEF DispatchInv, ResultInv, Quiet
    <2> QED BY <2>1, <2>2, <2>3, <2>4, <2>5 DEF DispatchInv
  <1>8. CASE DeadlinePasses(i)
    <2> USE <1>8 DEF DeadlinePasses
    <2>1. DispatchTypeOK'
      BY DEF DispatchInv, DispatchTypeOK, Quiet
    <2>2. \A j \in AllCalls : Shape(j)'
      BY DEF DispatchInv, DispatchTypeOK, Shape, Denied, Quiet
    <2>3. AuthInv'
      BY DEF DispatchInv, AuthInv, Settled, Denied, Quiet
    <2>4. ModeInv'
      BY DEF DispatchInv, DispatchTypeOK, ModeInv, FansOut, Denied, Quiet
    <2>5. ResultInv' /\ (ran \subseteq allowed)'
      BY DEF DispatchInv, ResultInv, Quiet
    <2> QED BY <2>1, <2>2, <2>3, <2>4, <2>5 DEF DispatchInv
  <1>9. ASSUME NEW o \in Outcomes, ToolReturns(i, o) PROVE DispatchInv'
    <2> USE <1>0, <1>9 DEF ToolReturns, Move, Outcomes
    <2>1. DispatchTypeOK'
      BY DEF DispatchInv, DispatchTypeOK, Quiet
    <2>2. \A j \in AllCalls : Shape(j)'
      BY DEF DispatchInv, DispatchTypeOK, Shape, Denied, Quiet
    <2>3. AuthInv'
      BY DEF DispatchInv, AuthInv, Settled, Denied, Quiet
    <2>4. ModeInv'
      BY DEF DispatchInv, DispatchTypeOK, ModeInv, FansOut, Denied, Quiet
    <2>5. ResultInv' /\ (ran \subseteq allowed)'
      BY DEF DispatchInv, ResultInv, Quiet
    <2> QED BY <2>1, <2>2, <2>3, <2>4, <2>5 DEF DispatchInv
  <1> QED BY <1>1, <1>2, <1>3, <1>4, <1>5, <1>6, <1>7, <1>8, <1>9 DEF CallStep

\* The inductive invariant of the tool phase.
THEOREM DispatchInvariant == Spec => []DispatchInv
  <1>1. Init => DispatchInv
    <2> SUFFICES ASSUME Init PROVE DispatchInv
      OBVIOUS
    <2> USE DispatchAssumption DEF Init, Dispatch, AllCalls, Empty
    <2>1. DispatchTypeOK
      BY DEF DispatchTypeOK, Quiet
    <2>2. \A i \in AllCalls : Shape(i)
      BY DEF Shape, Denied, Quiet
    <2>3. AuthInv
      BY DEF AuthInv, Settled
    <2>4. ModeInv
      BY DEF ModeInv, FansOut, Quiet
    <2>5. ResultInv /\ ran \subseteq allowed
      BY DEF ResultInv
    <2> QED BY <2>1, <2>2, <2>3, <2>4, <2>5 DEF DispatchInv
  <1>2. DispatchInv /\ [Next]_vars => DispatchInv'
    <2> SUFFICES ASSUME DispatchInv, [Next]_vars PROVE DispatchInv'
      OBVIOUS
    <2>1. CASE LoopStep
      BY <2>1, AuthorizationKeeps, LoopKeeps DEF LoopStep
    <2>2. ASSUME NEW i \in AllCalls,
                 CallStep(i) \/ DeadlinePasses(i) \/ \E o \in Outcomes : ToolReturns(i, o)
          PROVE  DispatchInv'
      BY <2>2, CallKeeps
    <2>3. ASSUME NEW how \in {"cancelled", "deadline"}, CallerEnds(how) PROVE DispatchInv'
      <3> USE <2>3 DEF CallerEnds, config, loopVars, callVars, authVars
      <3>1. DispatchTypeOK'
        BY DEF DispatchInv, DispatchTypeOK
      <3>2. \A j \in AllCalls : Shape(j)'
        BY DEF DispatchInv, Shape, Denied
      <3>3. AuthInv' /\ ModeInv'
        BY DEF DispatchInv, AuthInv, ModeInv, FansOut, Settled, Denied
      <3>4. ResultInv' /\ (ran \subseteq allowed)'
        BY DEF DispatchInv, ResultInv
      <3> QED BY <3>1, <3>2, <3>3, <3>4 DEF DispatchInv
    <2>4. CASE UNCHANGED vars
      <3> USE <2>4 DEF vars, config, loopVars, callVars, authVars, ctxVars
      <3>1. DispatchTypeOK'
        BY DEF DispatchInv, DispatchTypeOK
      <3>2. \A j \in AllCalls : Shape(j)'
        BY DEF DispatchInv, Shape, Denied
      <3>3. AuthInv' /\ ModeInv'
        BY DEF DispatchInv, AuthInv, ModeInv, FansOut, Settled, Denied
      <3>4. ResultInv' /\ (ran \subseteq allowed)'
        BY DEF DispatchInv, ResultInv
      <3> QED BY <3>1, <3>2, <3>3, <3>4 DEF DispatchInv
    <2> QED BY <2>1, <2>2, <2>3, <2>4 DEF Next, Returned
  <1> QED BY <1>1, <1>2, PTL DEF Spec

(***************************************************************************)
(* executeTools runs no tool that authorizeCalls has not let through, nor  *)
(* any while a call of the turn is undecided: a denied call, or one whose  *)
(* turn came after the context had ended, keeps its verdict in its slot,   *)
(* and both modes skip a slot that is filled.                              *)
(***************************************************************************)
THEOREM PolicyComesFirst == Spec => []AuthorizedFirst
  <1>1. DispatchInv => AuthorizedFirst
    <2> SUFFICES ASSUME DispatchInv, pc = "authorize" PROVE ran = {}
      BY DEF DispatchInv, AuthorizedFirst
    <2> QED BY DEF DispatchInv, DispatchTypeOK, AuthInv, Shape
  <1> QED BY <1>1, DispatchInvariant, PTL

(***************************************************************************)
(* The results that Runner.run commits are those of the calls that ran, at *)
(* their own places with the arguments they were given, and a hook's panic *)
(* that reaches the loop finds no call running and leaves no record.       *)
(***************************************************************************)
THEOREM WhatRanIsRecorded == Spec => []RanIsRecorded
  <1>1. DispatchInv => RanIsRecorded
    <2> SUFFICES ASSUME DispatchInv PROVE RanIsRecorded
      OBVIOUS
    <2>1. ASSUME pc = "committed"
          PROVE  /\ ran \subseteq 1..Len(log)
                 /\ Len(log) < calls => ended # "no"
                 /\ \A i \in 1..Len(log) :
                       /\ log[i].what \in Reports[out[i]]
                       /\ args[i] # "invalid" /\ i \in ran => log[i].args = args[i]
      <3>1. log = [i \in 1..executed |-> slot[i]] /\ executed \in Nat /\ executed <= calls
        BY <2>1, DispatchFacts DEF DispatchInv, ResultInv
      <3>2. Len(log) = executed
        BY <3>1
      <3>3. ASSUME NEW i \in 1..executed
            PROVE  /\ log[i] = slot[i]
                   /\ args[i] # "invalid" => slot[i].args = args[i]
        <4>1. i \in AllCalls /\ log[i] = slot[i]
          BY <3>1, DispatchFacts DEF AllCalls
        <4> QED BY <4>1 DEF DispatchInv, DispatchTypeOK, Shape
      <3> QED BY <2>1, <3>2, <3>3 DEF DispatchInv, ResultInv
    <2>2. ASSUME pc = "panicked"
          PROVE  log = <<>> /\ \A i \in 1..calls : at[i] \in {"idle", "done"}
      BY <2>2, DispatchFacts DEF DispatchInv, ResultInv, ModeInv, Quiet
    <2> QED BY <2>1, <2>2 DEF RanIsRecorded
  <1> QED BY <1>1, DispatchInvariant, PTL
============================================================================
