------------------------ MODULE SupervisedRunProofs ------------------------
(***************************************************************************)
(* Theorems about a supervised sandbox run, for every set of backends,     *)
(* idle threshold, growth ceiling and workspace size.                      *)
(***************************************************************************)
EXTENDS SupervisedRun, TLAPS

Early == {"check", "admit", "prepare", "build", "start"}
Late  == {"growth", "classify", "settle"}

SupervisorTypeOK ==
    /\ pc \in Early \cup {"join", "wait", "drain"} \cup Late \cup {"done"}
    /\ proc \in {"none", "running", "exit0", "exit1", "signalled", "killed"}
    /\ runCtx \in {"none", "live", "cancelled", "deadline"}
    /\ kill \in {"none", "pending", "sent"}
    /\ wd \in {"off", "waiting", "changed", "unchanged", "cancelling", "stopped"}
    /\ workspace \in {"none", "copy", "removed", "callers"}
    /\ runErr \in {"none", "launch", "ctx", "nil", "code", "signal"}
    /\ verdict \in {"none", "cancelled", "quota", "exit", "timeout", "infra"}
    /\ outcome \in {"none", "refused", "cancelled", "quota", "exit", "timeout", "infra"}
    /\ size \in Nat /\ exitSize \in Nat /\ sampled \in Nat /\ flat \in Nat

\* Where the child can be, and what is left once it has ended.
ChildInv ==
    /\ pc \in Early => proc = "none"
    /\ pc \in {"drain", "done"} \cup Late => proc # "running"
    /\ proc \in {"none", "running"} => ~rest
    /\ proc = "none" => size = 0
    /\ rest => lingered

\* Why runCtx has ended: every kill of ours has its flag up.
CauseInv ==
    /\ pc \in Early \ {"start"} => runCtx = "none"
    /\ pc \in {"start", "join", "wait"} => runCtx # "none"
    /\ kill # "none" => runCtx \in {"cancelled", "deadline"}
    /\ wd = "cancelling" => idleKilled \/ quotaExceeded
    /\ runCtx = "cancelled" => callerEnded \/ idleKilled \/ quotaExceeded
    /\ proc = "killed" /\ pc # "done" => kill = "sent"

\* What Wait returned for the child that ended.
ErrorInv ==
    pc \in Late \cup {"drain"} =>
        /\ proc = "killed" => runErr = "signal" /\ kill = "sent"
        /\ proc = "exit1" => runErr = "code"

\* What the classification has settled.
VerdictInv ==
    /\ verdict = "none" => pc # "settle"
    /\ verdict # "none" =>
        /\ pc \in {"settle", "done"}
        /\ proc = "killed" => verdict \in {"quota", "timeout", "cancelled"}
        /\ proc = "exit1" => verdict \in {"exit", "quota", "cancelled"}
        /\ verdict = "cancelled" => callerEnded
        /\ pc = "done" /\ verdict # "infra" => outcome = verdict

Breach == Watched /\ Ceiling > 0 /\ exitSize > Ceiling /\ ~lingered

\* The growth that is judged is the growth the child left.
GrowthInv ==
    /\ pc \in Early \cup {"join", "wait", "drain"} => exitSize = 0
    /\ pc = "growth" /\ ~lingered => exitSize = size
    /\ pc = "classify" /\ Breach => quotaExceeded
    /\ pc = "settle" /\ Breach => verdict \in {"quota", "cancelled"}
    /\ pc = "done" /\ Breach => outcome \in {"quota", "cancelled"}

\* The workspace and the watchdog.
CleanupInv ==
    /\ pc \in Early \ {"start"} => wd = "off"
    /\ pc \in Late => doneClosed
    /\ workspace \in {"copy", "removed"} => ~ownWorkspace

SupervisorInv ==
    /\ SupervisorTypeOK /\ ChildInv /\ CauseInv /\ ErrorInv /\ VerdictInv
    /\ GrowthInv /\ CleanupInv /\ LeavesNothing

----------------------------------------------------------------------------
\* A step of runSupervised keeps the invariant.
LEMMA SuperStepKeeps ==
    ASSUME SupervisorInv, SuperStep
    PROVE  SupervisorInv'
  <1> USE SupervisorAssumption
  <1> USE DEF config, superVars, ctxVars, procVars, dogVars, Early, Late,
              SupervisorInv, SupervisorTypeOK, ChildInv, CauseInv, ErrorInv, VerdictInv,
              GrowthInv, CleanupInv, LeavesNothing, Breach, Watched, Alive
  <1>1. CASE CheckSpec
    BY <1>1 DEF CheckSpec, Return
  <1>2. CASE Admit
    BY <1>2 DEF Admit, Return
  <1>3. CASE Prepare
    BY <1>3 DEF Prepare, Return
  <1>4. CASE Build
    BY <1>4 DEF Build, Return
  <1>5. CASE StartFails
    BY <1>5 DEF StartFails
  <1>6. CASE StartChild
    BY <1>6 DEF StartChild
  <1>7. CASE Join
    BY <1>7 DEF Join, Armed, JoinFails, Return
  <1>8. CASE Collect
    BY <1>8 DEF Collect
  <1>9. CASE WaitReturns
    BY <1>9 DEF WaitReturns
  <1>10. CASE CheckGrowthCeiling
    <2>1. quotaExceeded => quotaExceeded'
      BY <1>10 DEF CheckGrowthCeiling
    <2>2. Watched /\ Ceiling > 0 /\ size > Ceiling => quotaExceeded'
      BY <1>10 DEF CheckGrowthCeiling
    <2> QED BY <1>10, <2>1, <2>2 DEF CheckGrowthCeiling
  <1>11. CASE Classify
    BY <1>11 DEF Classify, ClassifyRun
  <1>12. CASE Settle
    <2>1. rest' => rest
      BY <1>12 DEF Settle
    <2>2. backend = "cli" /\ (verdict \in {"quota", "timeout"} \/ callerEnded) => ~rest'
      BY <1>12 DEF Settle, Reaps
    <2>3. /\ pc = "settle" /\ pc' = "done"
          /\ workspace' = IF workspace = "copy" THEN "removed" ELSE workspace
          /\ \/ verdict \in {"exit", "quota", "timeout"} /\ outcome' = verdict
             \/ verdict \in {"cancelled", "infra"} /\ callerEnded /\ outcome' = "cancelled"
             \/ verdict = "infra" /\ ~callerEnded /\ outcome' \in {"exit", "infra"}
      BY <1>12 DEF Settle, Return
    <2>4. UNCHANGED <<config, runErr, verdict, doneClosed, ctxVars, proc, holds, kill, size,
                      exitSize, lingered, dogVars, progress, quotaExceeded>>
      BY <1>12 DEF Settle
    <2> QED BY <2>1, <2>2, <2>3, <2>4
  <1> QED BY <1>1, <1>2, <1>3, <1>4, <1>5, <1>6, <1>7, <1>8, <1>9, <1>10, <1>11, <1>12 DEF SuperStep

\* A step of the watchdog goroutine keeps the invariant.
LEMMA WatchdogStepKeeps ==
    ASSUME SupervisorInv, WatchdogStep
    PROVE  SupervisorInv'
  <1> USE SupervisorAssumption
  <1> USE DEF config, superVars, ctxVars, procVars, dogVars, Early, Late,
              SupervisorInv, SupervisorTypeOK, ChildInv, CauseInv, ErrorInv, VerdictInv,
              GrowthInv, CleanupInv, LeavesNothing, Breach, Watched, Alive
  <1>1. CASE Tick
    BY <1>1 DEF Tick
  <1>2. CASE JudgeGrowth
    BY <1>2 DEF JudgeGrowth, OverCeiling
  <1>3. CASE JudgeProgress
    BY <1>3 DEF JudgeProgress
  <1>4. CASE JudgeStall
    BY <1>4 DEF JudgeStall
  <1>5. CASE CancelRun
    BY <1>5 DEF CancelRun
  <1>6. CASE WatchdogStops
    BY <1>6 DEF WatchdogStops
  <1> QED BY <1>1, <1>2, <1>3, <1>4, <1>5, <1>6 DEF WatchdogStep

\* A step of the child, of os/exec's kill or of a context keeps the invariant.
LEMMA OutsideStepKeeps ==
    ASSUME SupervisorInv,
           \/ \E newSize \in 0..MaxSize : Works(newSize)
           \/ ChildEnds \/ CancelCmd \/ KillLands \/ RestEnds \/ CallerEnds
           \/ DeadlinePasses
    PROVE  SupervisorInv'
  <1> USE SupervisorAssumption
  <1> USE DEF config, superVars, ctxVars, procVars, dogVars, Early, Late,
              SupervisorInv, SupervisorTypeOK, ChildInv, CauseInv, ErrorInv, VerdictInv,
              GrowthInv, CleanupInv, LeavesNothing, Breach, Watched, Alive
  <1>1. CASE ChildEnds
    BY <1>1 DEF ChildEnds, Ends
  <1>2. CASE CancelCmd
    BY <1>2 DEF CancelCmd
  <1>3. CASE KillLands
    BY <1>3 DEF KillLands, Ends
  <1>4. CASE RestEnds
    BY <1>4 DEF RestEnds
  <1>5. CASE CallerEnds
    BY <1>5 DEF CallerEnds
  <1>6. CASE DeadlinePasses
    BY <1>6 DEF DeadlinePasses
  <1>7. ASSUME NEW newSize \in 0..MaxSize, Works(newSize) PROVE SupervisorInv'
    BY <1>7 DEF Works
  <1> QED BY <1>1, <1>2, <1>3, <1>4, <1>5, <1>6, <1>7

\* The inductive invariant of a supervised run.
THEOREM SupervisorInvariant == Spec => []SupervisorInv
  <1>1. Init => SupervisorInv
    BY SupervisorAssumption
       DEF Init, SupervisorInv, SupervisorTypeOK, ChildInv, CauseInv, ErrorInv, VerdictInv,
           GrowthInv, CleanupInv, LeavesNothing, Breach, Alive, Early, Late
  <1>2. SupervisorInv /\ [Next]_vars => SupervisorInv'
    <2>1. ASSUME SupervisorInv, UNCHANGED vars PROVE SupervisorInv'
      BY <2>1 DEF vars, config, superVars, ctxVars, procVars, dogVars, SupervisorInv,
         SupervisorTypeOK, ChildInv, CauseInv, ErrorInv, VerdictInv, GrowthInv, CleanupInv,
         LeavesNothing, Breach, Watched, Alive
    <2> QED BY <2>1, SuperStepKeeps, WatchdogStepKeeps, OutsideStepKeeps DEF Next, Returned
  <1> QED BY <1>1, <1>2, PTL DEF Spec

(***************************************************************************)
(* runSupervised reports a kill of its own as quota, timeout or cancelled, *)
(* because watchIdle raises its flag before it cancels runCtx, and keeps a *)
(* failing command's own exit code when a kill comes too late.             *)
(***************************************************************************)
THEOREM KillsNamed == Spec => []KillsAreNamed
  <1>1. SupervisorInv => KillsAreNamed
    BY DEF SupervisorInv, VerdictInv, KillsAreNamed
  <1> QED BY <1>1, SupervisorInvariant, PTL

(***************************************************************************)
(* A workspace that the child and its descendants leave over the growth    *)
(* ceiling is reported, however the child ended: checkGrowthCeiling runs   *)
(* after Wait and classifyRun ranks its flag over the exit.                *)
(***************************************************************************)
THEOREM BreachIsReported == Spec => []BreachReported
  <1>1. SupervisorInv => BreachReported
    BY DEF SupervisorInv, GrowthInv, Breach, BreachReported
  <1> QED BY <1>1, SupervisorInvariant, PTL

(***************************************************************************)
(* On every return path of runSupervised the fresh copy is removed and     *)
(* the caller's directory kept, the watchdog is stopped or told to, and    *)
(* no container outlives a CLI run that was killed or given up.            *)
(***************************************************************************)
THEOREM NothingLeft == Spec => []LeavesNothing
  <1>1. SupervisorInv => LeavesNothing
    BY DEF SupervisorInv
  <1> QED BY <1>1, SupervisorInvariant, PTL
============================================================================
