--------------------------- MODULE SupervisedRun ---------------------------
(***************************************************************************)
(* One supervised sandbox run: runSupervised and classifyRun               *)
(* (sandbox/run.go) against the watchdog goroutine (sandbox/watchdog.go),  *)
(* the child and its descendants, the run deadline and the caller's        *)
(* context.  The three backends install different hooks around this one    *)
(* supervisor.                                                             *)
(*                                                                         *)
(* Sizes are net growth over the baseline taken before the child starts;   *)
(* time is counted in the watchdog's ticks.                                *)
(***************************************************************************)
EXTENDS Integers

CONSTANTS
    Backends,      \* of "cli", "bwrap" and "host"
    IdleTicks,     \* ticks without progress that make an idle stall; 0: off
    Ceiling,       \* the growth ceiling; 0: off
    MaxSize        \* bound: growth the child can reach

ASSUME SupervisorAssumption ==
    /\ Backends \subseteq {"cli", "bwrap", "host"}
    /\ IdleTicks \in Nat /\ Ceiling \in Nat /\ MaxSize \in Nat

VARIABLES
    backend,        \* whose hooks the run has
    ownWorkspace,   \* Spec.Workspace is set: the directory is the caller's
    pc,             \* where runSupervised stands
    callerEnded,    \* the caller's ctx has ended
    runCtx,         \* runCtx.Err(): whichever end came first
    proc,           \* the child, and how it ended
    rest,           \* what is alive after the child: a container, descendants
    holds,          \* and it holds the output pipe open
    kill,           \* cmd.Cancel: not called, deferred by hostKiller, delivered
    size,           \* net workspace growth
    progress,       \* the fingerprint changed since the last sample
    wd,             \* where the watchdog goroutine stands
    sampled,        \* the size of the watchdog's last sample
    flat,           \* ticks since lastChange
    idleKilled, quotaExceeded,
    doneClosed,     \* close(done)
    workspace,      \* the directory: none, a fresh copy, removed, the caller's
    runErr,         \* what Start or Wait returned
    verdict,        \* what classifyRun returned
    outcome,        \* what the caller is told
    exitSize,       \* history: growth when the child had ended
    lingered        \* history: descendants outlived the child

config    == <<backend, ownWorkspace>>
superVars == <<pc, workspace, runErr, verdict, outcome, doneClosed>>
ctxVars   == <<callerEnded, runCtx>>
procVars  == <<proc, rest, holds, kill, size, exitSize, lingered>>
dogVars   == <<wd, sampled, flat, idleKilled>>
vars == <<config, superVars, ctxVars, procVars, dogVars, progress, quotaExceeded>>

\* The hooks a backend sets.  HostExec has no watchdog and no ceiling.
Admits   == backend = "bwrap"
Joins    == backend = "bwrap"
KillTree == backend = "host"
Reaps    == backend \in {"cli", "bwrap"}
MapsExit == backend = "host"
Watched  == backend # "host" /\ (IdleTicks > 0 \/ Ceiling > 0)

Init ==
    /\ backend \in Backends /\ ownWorkspace \in BOOLEAN
    /\ pc = "check" /\ workspace = "none" /\ runErr = "none" /\ doneClosed = FALSE
    /\ verdict = "none" /\ outcome = "none"
    /\ callerEnded \in BOOLEAN /\ runCtx = "none"
    /\ proc = "none" /\ rest = FALSE /\ holds = FALSE /\ kill = "none"
    /\ size = 0 /\ exitSize = 0 /\ lingered = FALSE
    /\ progress = FALSE
    /\ wd = "off" /\ sampled = 0 /\ flat = 0
    /\ idleKilled = FALSE /\ quotaExceeded = FALSE

----------------------------------------------------------------------------
\* runSupervised returns: the deferred removal takes a fresh copy away.
Return(what) ==
    /\ pc' = "done"
    /\ outcome' = what
    /\ workspace' = IF workspace = "copy" THEN "removed" ELSE workspace

\* Workspace checks, then an ended caller, then the backend's admission.
CheckSpec ==
    /\ pc = "check"
    /\ \/ ownWorkspace /\ Return("refused")
       \/ callerEnded /\ Return("cancelled")
       \/ ~callerEnded /\ pc' = "admit" /\ UNCHANGED <<outcome, workspace>>
    /\ UNCHANGED <<config, runErr, verdict, doneClosed, ctxVars, procVars, dogVars, progress,
                   quotaExceeded>>

\* The admission hook has run; an end of the caller outranks its error.
Admit ==
    /\ pc = "admit"
    /\ \/ Admits /\ callerEnded /\ Return("cancelled")
       \/ Admits /\ ~callerEnded /\ Return("refused")
       \/ (Admits => ~callerEnded) /\ pc' = "prepare" /\ UNCHANGED <<outcome, workspace>>
    /\ UNCHANGED <<config, runErr, verdict, doneClosed, ctxVars, procVars, dogVars, progress,
                   quotaExceeded>>

\* WriteFiles into the caller's directory, or a fresh copy.
Prepare ==
    /\ pc = "prepare"
    /\ \/ Return("infra")
       \/ /\ workspace' = IF ownWorkspace THEN "callers" ELSE "copy"
          /\ pc' = "build"
          /\ UNCHANGED outcome
    /\ UNCHANGED <<config, runErr, verdict, doneClosed, ctxVars, procVars, dogVars, progress,
                   quotaExceeded>>

\* runCtx is derived, the command is built, the watchdog is started.
Build ==
    /\ pc = "build"
    /\ runCtx' = IF callerEnded THEN "cancelled" ELSE "live"
    /\ \/ Return("infra") /\ UNCHANGED wd
       \/ /\ pc' = "start"
          /\ wd' = IF Watched THEN "waiting" ELSE "off"
          /\ UNCHANGED <<outcome, workspace>>
    /\ UNCHANGED <<config, runErr, verdict, doneClosed, callerEnded, procVars, sampled, flat,
                   idleKilled, progress, quotaExceeded>>

\* cmd.Start refuses an ended context and may fail to launch.
StartFails ==
    /\ pc = "start"
    /\ runErr' \in {"launch"} \cup (IF runCtx = "live" THEN {} ELSE {"ctx"})
    /\ doneClosed' = TRUE
    /\ pc' = "growth"
    /\ UNCHANGED <<config, workspace, verdict, outcome, ctxVars, procVars, dogVars, progress,
                   quotaExceeded>>

StartChild ==
    /\ pc = "start"
    /\ runCtx = "live"
    /\ proc' = "running"
    /\ pc' = "join"
    /\ UNCHANGED <<config, workspace, runErr, verdict, outcome, doneClosed, ctxVars, rest, holds,
                   kill, size, exitSize, lingered, dogVars, progress, quotaExceeded>>

\* afterStart has run: a kill that hostKiller deferred is delivered now.
Armed ==
    /\ pc' = "wait"
    /\ kill' = IF kill = "pending" THEN "sent" ELSE kill
    /\ UNCHANGED <<proc, rest, holds, doneClosed, outcome, workspace>>

\* A failed cgroup join kills and reaps, and waits for the child to be gone.
JoinFails ==
    /\ Joins
    /\ proc' = IF proc = "running" THEN "killed" ELSE proc
    /\ rest' = FALSE /\ holds' = FALSE
    /\ Return("infra")
    /\ UNCHANGED kill

\* Mutation: afterStart forgets the kill it deferred.
JoinForgetsKill ==
    /\ pc = "join"
    /\ pc' = "wait"
    /\ UNCHANGED <<proc, rest, holds, kill, doneClosed, outcome, workspace>>
    /\ UNCHANGED <<config, runErr, verdict, ctxVars, size, exitSize, lingered, dogVars, progress,
                   quotaExceeded>>

Join ==
    /\ pc = "join"
    /\ (JoinFails /\ doneClosed' = TRUE) \/ Armed
    /\ UNCHANGED <<config, runErr, verdict, ctxVars, size, exitSize, lingered, dogVars, progress,
                   quotaExceeded>>

(***************************************************************************)
(* cmd.Wait (os/exec) first collects the child.  A nonzero exit is the     *)
(* command's own code and a kill is a signal; a clean exit is reported as  *)
(* the context's error when cmd.Cancel had returned nil, which it does for *)
(* a child that is dead and not collected, and hostKiller's in any case.   *)
(* From then on the context is not watched any more.                       *)
(***************************************************************************)
Collect ==
    /\ pc = "wait"
    /\ proc \notin {"none", "running"}
    /\ \/ proc = "exit0" /\ kill # "sent" /\ runErr' = "nil"
       \/ proc = "exit0" /\ (kill = "sent" \/ (KillTree /\ runCtx # "live")) /\ runErr' = "ctx"
       \/ proc = "exit1" /\ runErr' = "code"
       \/ proc \in {"killed", "signalled"} /\ runErr' = "signal"
    /\ pc' = "drain"
    /\ UNCHANGED <<config, workspace, verdict, outcome, doneClosed, ctxVars, procVars, dogVars,
                   progress, quotaExceeded>>

\* It then waits, without a WaitDelay, until no process holds the output pipe.
WaitReturns ==
    /\ pc = "drain"
    /\ ~holds
    /\ exitSize' = size
    /\ doneClosed' = TRUE
    /\ pc' = "growth"
    /\ UNCHANGED <<config, workspace, runErr, verdict, outcome, ctxVars, proc, rest, holds,
                   kill, size,
                   lingered, dogVars, progress, quotaExceeded>>

\* Mutation: growth is left to the watchdog's ticks.
SkipGrowthCheck ==
    /\ pc = "growth"
    /\ pc' = "classify"
    /\ UNCHANGED <<config, workspace, runErr, verdict, outcome, doneClosed, ctxVars, procVars,
                   dogVars,
                   progress, quotaExceeded>>

CheckGrowthCeiling ==
    /\ pc = "growth"
    /\ quotaExceeded' = (quotaExceeded \/ (Watched /\ Ceiling > 0 /\ size > Ceiling))
    /\ pc' = "classify"
    /\ UNCHANGED <<config, workspace, runErr, verdict, outcome, doneClosed, ctxVars, procVars,
                   dogVars,
                   progress>>

\* The precedence of classifyRun.
ClassifyRun ==
    IF callerEnded THEN "cancelled"
    ELSE IF quotaExceeded THEN "quota"
    ELSE IF runErr \in {"nil", "code"} THEN "exit"
    ELSE IF idleKilled \/ runCtx = "deadline" THEN "timeout"
    ELSE "infra"

Classify ==
    /\ pc = "classify"
    /\ verdict' = ClassifyRun
    /\ pc' = "settle"
    /\ UNCHANGED <<config, workspace, runErr, outcome, doneClosed, ctxVars, procVars, dogVars,
                   progress,
                   quotaExceeded>>

\* Mutation: only the caller's end is reaped.
SettleReapsCancelled ==
    /\ pc = "settle"
    /\ rest' = (rest /\ ~(Reaps /\ callerEnded))
    /\ \/ verdict \in {"exit", "quota", "timeout"} /\ Return(verdict)
       \/ verdict \in {"cancelled", "infra"} /\ callerEnded /\ Return("cancelled")
       \/ verdict = "infra" /\ ~callerEnded /\ MapsExit /\ runErr # "ctx" /\ Return("exit")
       \/ verdict = "infra" /\ ~callerEnded /\ Return("infra")
    /\ UNCHANGED <<config, runErr, verdict, doneClosed, ctxVars, proc, holds, kill, size,
                   exitSize,
                   lingered, dogVars, progress, quotaExceeded>>

(***************************************************************************)
(* The rest of runSupervised: reap our kills and the caller's end, then    *)
(* report.  A caller that ends after the classification turns an error     *)
(* into the cancelled one; HostExec maps a launch failure or a foreign     *)
(* signal to an exit status.                                               *)
(***************************************************************************)
Settle ==
    /\ pc = "settle"
    /\ rest' = (rest /\ ~(Reaps /\ (verdict \in {"quota", "timeout"} \/ callerEnded)))
    /\ \/ verdict \in {"exit", "quota", "timeout"} /\ Return(verdict)
       \/ verdict \in {"cancelled", "infra"} /\ callerEnded /\ Return("cancelled")
       \/ verdict = "infra" /\ ~callerEnded /\ MapsExit /\ runErr # "ctx" /\ Return("exit")
       \/ verdict = "infra" /\ ~callerEnded /\ Return("infra")
    /\ UNCHANGED <<config, runErr, verdict, doneClosed, ctxVars, proc, holds, kill, size,
                   exitSize,
                   lingered, dogVars, progress, quotaExceeded>>

----------------------------------------------------------------------------
(***************************************************************************)
(* watchIdle.  A tick samples the fingerprint; the sample is judged, and a *)
(* kill raises its flag before it cancels runCtx.                          *)
(***************************************************************************)
Tick ==
    /\ wd = "waiting"
    /\ wd' = IF progress THEN "changed" ELSE "unchanged"
    /\ sampled' = size
    /\ progress' = FALSE
    /\ UNCHANGED <<config, superVars, ctxVars, procVars, flat, idleKilled, quotaExceeded>>

OverCeiling == Ceiling > 0 /\ sampled > Ceiling

JudgeGrowth ==
    /\ wd \in {"changed", "unchanged"}
    /\ OverCeiling
    /\ quotaExceeded' = TRUE
    /\ wd' = "cancelling"
    /\ UNCHANGED <<config, superVars, ctxVars, procVars, sampled, flat, idleKilled, progress>>

\* Progress, or a busy processor behind a flat fingerprint, resets the clock.
JudgeProgress ==
    /\ wd \in {"changed", "unchanged"}
    /\ ~OverCeiling
    /\ IF IdleTicks = 0
       THEN flat' = flat
       ELSE (wd = "changed" \/ proc = "running") /\ flat' = 0
    /\ wd' = "waiting"
    /\ UNCHANGED <<config, superVars, ctxVars, procVars, sampled, idleKilled, progress,
                   quotaExceeded>>

\* Mutation: the context is cancelled before the flag is raised.
JudgeStallCancelsFirst ==
    /\ wd = "unchanged"
    /\ ~OverCeiling
    /\ IdleTicks > 0
    /\ flat' = flat + 1
    /\ IF flat + 1 >= IdleTicks
       THEN /\ runCtx' = IF runCtx = "live" THEN "cancelled" ELSE runCtx
            /\ wd' = "flagging"
       ELSE wd' = "waiting" /\ UNCHANGED runCtx
    /\ UNCHANGED <<config, superVars, callerEnded, procVars, sampled, idleKilled, progress,
                   quotaExceeded>>

JudgeStall ==
    /\ wd = "unchanged"
    /\ ~OverCeiling
    /\ IdleTicks > 0
    /\ flat' = flat + 1
    /\ IF flat + 1 >= IdleTicks
       THEN idleKilled' = TRUE /\ wd' = "cancelling"
       ELSE wd' = "waiting" /\ UNCHANGED idleKilled
    /\ UNCHANGED <<config, superVars, ctxVars, procVars, sampled, progress, quotaExceeded>>

CancelRun ==
    /\ wd = "cancelling"
    /\ wd' = "stopped"
    /\ runCtx' = IF runCtx = "live" THEN "cancelled" ELSE runCtx
    /\ UNCHANGED <<config, superVars, callerEnded, procVars, sampled, flat, idleKilled, progress,
                   quotaExceeded>>

WatchdogStops ==
    /\ wd = "waiting"
    /\ doneClosed
    /\ wd' = "stopped"
    /\ UNCHANGED <<config, superVars, ctxVars, procVars, sampled, flat, idleKilled, progress,
                   quotaExceeded>>

----------------------------------------------------------------------------
\* The child and its descendants.

Alive == proc = "running" \/ rest

\* Output, or a write or a removal in the workspace.
Works(newSize) ==
    /\ Alive
    /\ pc # "done"
    /\ newSize \in 0..MaxSize
    /\ size' = newSize
    /\ progress' = TRUE
    /\ UNCHANGED <<config, superVars, ctxVars, proc, rest, holds, kill, exitSize, lingered,
                   dogVars,
                   quotaExceeded>>

\* os/exec calls cmd.Cancel, once, when runCtx ends before the collection.
\* hostKiller defers a kill that arrives before afterStart.
CancelCmd ==
    /\ pc \in {"join", "wait"}
    /\ runCtx # "live"
    /\ kill = "none"
    /\ kill' = IF KillTree /\ pc = "join" THEN "pending" ELSE "sent"
    /\ UNCHANGED <<config, superVars, ctxVars, proc, rest, holds, size, exitSize, lingered,
                   dogVars,
                   progress, quotaExceeded>>

Ends(how, survivors) ==
    /\ proc = "running"
    /\ proc' = how
    /\ rest' \in survivors
    /\ lingered' = rest'
    /\ holds' \in {FALSE, rest' /\ backend # "cli"}
    /\ UNCHANGED <<config, superVars, ctxVars, kill, size, exitSize, dogVars, progress,
                   quotaExceeded>>

\* Its own exit, or a signal from elsewhere.
ChildEnds == \E how \in {"exit0", "exit1", "signalled"} : Ends(how, BOOLEAN)

\* The kill: HostExec's takes the tree, the others' the child alone.
KillLands == kill = "sent" /\ Ends("killed", IF KillTree THEN {FALSE} ELSE BOOLEAN)

RestEnds ==
    /\ rest
    /\ rest' = FALSE /\ holds' = FALSE
    /\ UNCHANGED <<config, superVars, ctxVars, proc, kill, size, exitSize, lingered, dogVars,
                   progress,
                   quotaExceeded>>

\* A caller's cancel or deadline ends runCtx as well.
CallerEnds ==
    /\ ~callerEnded
    /\ pc # "done"
    /\ callerEnded' = TRUE
    /\ runCtx' = IF runCtx = "live" THEN "cancelled" ELSE runCtx
    /\ UNCHANGED <<config, superVars, procVars, dogVars, progress, quotaExceeded>>

DeadlinePasses ==
    /\ runCtx = "live"
    /\ pc # "done"
    /\ runCtx' = "deadline"
    /\ UNCHANGED <<config, superVars, callerEnded, procVars, dogVars, progress, quotaExceeded>>

----------------------------------------------------------------------------
SuperStep ==
    \/ CheckSpec \/ Admit \/ Prepare \/ Build \/ StartFails \/ StartChild \/ Join
    \/ Collect \/ WaitReturns \/ CheckGrowthCeiling \/ Classify \/ Settle

WatchdogStep ==
    Tick \/ JudgeGrowth \/ JudgeProgress \/ JudgeStall \/ CancelRun \/ WatchdogStops

Returned == pc = "done" /\ UNCHANGED vars

Next ==
    \/ SuperStep
    \/ WatchdogStep
    \/ \E newSize \in 0..MaxSize : Works(newSize)
    \/ ChildEnds
    \/ CancelCmd
    \/ KillLands
    \/ RestEnds
    \/ CallerEnds
    \/ DeadlinePasses
    \/ Returned

Spec == Init /\ [][Next]_vars

(***************************************************************************)
(* The supervisor runs, the run deadline passes, os/exec kills when the    *)
(* context ends, and what runs under bwrap dies with it (--die-with-parent *)
(* and its pid namespace).  Nothing is assumed of the child, of a          *)
(* container or of HostExec's descendants.                                 *)
(***************************************************************************)
FairSpec ==
    /\ Spec
    /\ WF_vars(SuperStep)
    /\ WF_vars(DeadlinePasses)
    /\ WF_vars(CancelCmd)
    /\ WF_vars(KillLands)
    /\ WF_vars(backend = "bwrap" /\ RestEnds)

----------------------------------------------------------------------------
\* Properties.

(***************************************************************************)
(* The outcome says what happened.  A kill of ours is reported as what it  *)
(* was for, never as the command's own exit nor as an infrastructure       *)
(* error, which needs the flags to be up before the context is cancelled;  *)
(* and a command that ends with a failure of its own keeps its exit code   *)
(* although an idle or deadline kill falls into the same instant.  (A      *)
(* clean exit does not: see Collect.)                                      *)
(***************************************************************************)
KillsAreNamed ==
    pc = "done" /\ verdict # "none" =>
        /\ proc = "killed" => outcome \in {"quota", "timeout", "cancelled"}
        /\ proc = "exit1" => outcome \in {"exit", "quota", "cancelled"}

(***************************************************************************)
(* A run whose workspace ends over the ceiling is reported as such however *)
(* the command ended, also when it grew and exited between two ticks.      *)
(***************************************************************************)
BreachReported ==
    pc = "done" /\ Watched /\ Ceiling > 0 /\ exitSize > Ceiling /\ ~lingered
        => outcome \in {"quota", "cancelled"}

(***************************************************************************)
(* On every return, the early ones included, the fresh copy is gone, a     *)
(* caller's directory is not, and a watchdog that was started has been     *)
(* told to stop or has fired.  The container of a CLI run that timed out,  *)
(* went over the ceiling or was given up does not survive the call either, *)
(* although the kill reaches only the runtime's client.                    *)
(***************************************************************************)
LeavesNothing ==
    pc = "done" =>
        /\ workspace # "copy" /\ (ownWorkspace => workspace # "removed")
        /\ wd \notin {"off", "stopped"} => doneClosed
        /\ backend = "cli" /\ outcome \in {"quota", "timeout", "cancelled"} => ~Alive

(***************************************************************************)
(* A run returns at its deadline, whatever the child and the caller do,    *)
(* also when the kill arrives between the start of the command and the     *)
(* arming of hostKiller, which os/exec never repeats; on HostExec, once    *)
(* nothing holds its output any more.                                      *)
(***************************************************************************)
RunEnds == (backend = "host" => []<>~holds) => <>(pc = "done")

(***************************************************************************)
(* "Timeout bounds the execution wall-clock time as a HARD ceiling" (the   *)
(* documentation of Spec.Timeout).                                         *)
(***************************************************************************)
HardCeiling == <>(pc = "done")
============================================================================
