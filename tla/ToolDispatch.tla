---------------------------- MODULE ToolDispatch ---------------------------
(***************************************************************************)
(* The tool phase of one turn: Runner.executeTools with authorizeCalls and *)
(* runTool (agent/dispatch.go), and the commit of the results that follows *)
(* it in Runner.run.  Calls run one at a time on the loop's goroutine or,  *)
(* with WithParallelTools, each on its own; the caller's context and the   *)
(* calls' own deadlines end while they do.                                 *)
(*                                                                         *)
(* Tools, the policy and the hooks are the host's: a tool returns or       *)
(* panics with anything, the policy allows, denies, rewrites or panics, a  *)
(* hook (or the spill sink) may panic.  A result is abstracted to what it  *)
(* reports.                                                                *)
(***************************************************************************)
EXTENDS Integers, Sequences

CONSTANT MaxCalls   \* bound: tool calls of one turn

ASSUME DispatchAssumption == MaxCalls \in Nat \ {0}

AllCalls == 1..MaxCalls

VARIABLES
    calls,        \* len(resp.ToolCalls)
    registered,   \* the calls that name a tool of the Runner
    parallel,     \* WithParallelTools
    policy,       \* a ToolPolicy is installed
    timeout,      \* WithToolTimeout is positive
    pc,           \* where the loop's goroutine stands
    next,         \* the index of its current loop
    at,           \* per call: where runTool stands
    out,          \* per call: what Tool.Run returned
    res,          \* per call: what runTool will return
    slot,         \* results[i]: what it reports, and its dispatchedArgs
    hookPanic,    \* a per-call goroutine has recovered a hook's panic
    executed,     \* how many results executeTools returned
    ended,        \* the caller's context: live, cancelled, past its deadline
    expired,      \* per call: its own deadline has passed
    log,          \* the committed results, with the event's arguments
    allowed,      \* history: the calls the policy allowed
    args,         \* history: what Tool.Run is handed
    ran           \* history: the calls whose Tool.Run began

config   == <<calls, registered, parallel, policy, timeout>>
loopVars == <<pc, next, executed, log>>
callVars == <<at, out, res, hookPanic, ran>>
authVars == <<allowed, args>>
ctxVars  == <<ended, expired>>
vars     == <<config, loopVars, callVars, slot, authVars, ctxVars>>

Empty == [what |-> "none", args |-> "model"]

\* A single call runs on the loop's goroutine in both modes.
FansOut == parallel /\ calls >= 2

Dispatch == IF FansOut THEN "fan" ELSE "loop"

Init ==
    /\ calls \in AllCalls
    /\ registered \in SUBSET (1..calls)
    /\ parallel \in BOOLEAN /\ policy \in BOOLEAN /\ timeout \in BOOLEAN
    /\ pc = IF policy THEN "authorize" ELSE Dispatch
    /\ next = 1 /\ executed = 0 /\ log = <<>>
    /\ at = [i \in AllCalls |-> "idle"]
    /\ out = [i \in AllCalls |-> "none"]
    /\ res = [i \in AllCalls |-> "none"]
    /\ slot = [i \in AllCalls |-> Empty]
    /\ hookPanic = FALSE
    /\ ended = "no"
    /\ expired = [i \in AllCalls |-> FALSE]
    /\ allowed = IF policy THEN {} ELSE registered
    /\ args = [i \in AllCalls |-> "model"]
    /\ ran = {}

----------------------------------------------------------------------------
\* authorizeCalls: every call, in order, before the first Tool.Run.

Advance ==
    IF next < calls
    THEN pc' = pc /\ next' = next + 1
    ELSE pc' = Dispatch /\ next' = 1

Denied(i) == slot[i].what \in {"denied", "notRun"}

\* A name the Runner does not have never reaches the policy.
SkipUnknown ==
    /\ pc = "authorize"
    /\ next \notin registered
    /\ Advance
    /\ UNCHANGED <<config, executed, log, callVars, slot, authVars, ctxVars>>

\* Mutation: an ended context ends the pass.
StopAuthorizing ==
    /\ pc = "authorize"
    /\ next \in registered
    /\ ended # "no"
    /\ pc' = Dispatch /\ next' = 1
    /\ UNCHANGED <<config, executed, log, callVars, slot, authVars, ctxVars>>

\* A context that has ended settles the call without the policy.
NotAuthorized ==
    /\ pc = "authorize"
    /\ next \in registered
    /\ ended # "no"
    /\ slot' = [slot EXCEPT ![next].what = "notRun"]
    /\ Advance
    /\ UNCHANGED <<config, executed, log, callVars, authVars, ctxVars>>

Deny ==
    /\ pc = "authorize"
    /\ next \in registered
    /\ ended = "no"
    /\ slot' = [slot EXCEPT ![next].what = "denied"]
    /\ Advance
    /\ UNCHANGED <<config, executed, log, callVars, authVars, ctxVars>>

\* The arguments stay, or are rewritten; a rewrite that is not JSON is not recorded.
Allow(given) ==
    /\ pc = "authorize"
    /\ next \in registered
    /\ ended = "no"
    /\ allowed' = allowed \cup {next}
    /\ args' = [args EXCEPT ![next] = given]
    /\ slot' = [slot EXCEPT ![next].args = IF given = "rewritten" THEN given ELSE "model"]
    /\ Advance
    /\ UNCHANGED <<config, executed, log, callVars, ctxVars>>

PolicyPanics ==
    /\ pc = "authorize"
    /\ next \in registered
    /\ ended = "no"
    /\ pc' = "panicked"
    /\ UNCHANGED <<config, next, executed, log, callVars, slot, authVars, ctxVars>>

----------------------------------------------------------------------------
\* One at a time.

\* The loop is over, or stops before the next call once the context has ended.
LeaveLoop ==
    /\ pc = "loop"
    /\ \/ next > calls
       \/ next <= calls /\ ~Denied(next) /\ ended # "no"
    /\ pc' = "commit"
    /\ executed' = next - 1
    /\ UNCHANGED <<config, next, log, callVars, slot, authVars, ctxVars>>

SkipDenied ==
    /\ pc = "loop"
    /\ next <= calls
    /\ Denied(next)
    /\ next' = next + 1
    /\ UNCHANGED <<config, pc, executed, log, callVars, slot, authVars, ctxVars>>

CallNext ==
    /\ pc = "loop"
    /\ next <= calls
    /\ ~Denied(next)
    /\ ended = "no"
    /\ pc' = "call"
    /\ at' = [at EXCEPT ![next] = "start"]
    /\ UNCHANGED <<config, next, executed, log, out, res, hookPanic, ran, slot, authVars,
                   ctxVars>>

\* All at once.
FanOut ==
    /\ pc = "fan"
    /\ pc' = "wait"
    /\ at' = [i \in AllCalls |->
                IF i > calls THEN "idle" ELSE IF Denied(i) THEN "done" ELSE "start"]
    /\ UNCHANGED <<config, next, executed, log, out, res, hookPanic, ran, slot, authVars,
                   ctxVars>>

AllReturned == \A i \in 1..calls : at[i] = "done"

\* wg.Wait, and the hook's panic again on the loop's goroutine.
WaitAll ==
    /\ pc = "wait"
    /\ AllReturned
    /\ pc' = IF hookPanic THEN "panicked" ELSE "commit"
    /\ executed' = IF hookPanic THEN 0 ELSE calls
    /\ UNCHANGED <<config, next, log, callVars, slot, authVars, ctxVars>>

----------------------------------------------------------------------------
\* runTool for call i.

Move(i, label) == at' = [at EXCEPT ![i] = label]

\* The result goes to the call's slot; the loop's goroutine goes on.
Settle(i, what) ==
    /\ Move(i, "done")
    /\ slot' = [slot EXCEPT ![i].what = what]
    /\ IF FansOut
       THEN UNCHANGED <<pc, next>>
       ELSE pc' = "loop" /\ next' = next + 1

\* Mutation: a goroutine that recovers a hook's panic is never done.
HookPanicsLost(i) ==
    /\ at[i] \in {"start", "health", "end"}
    /\ i \in registered
    /\ at[i] = "health" => out[i] = "health" /\ ended = "no"
    /\ Move(i, "lost")
    /\ IF FansOut
       THEN hookPanic' = TRUE /\ UNCHANGED pc
       ELSE pc' = "panicked" /\ UNCHANGED hookPanic
    /\ UNCHANGED <<config, next, executed, log, out, res, ran, slot, authVars, ctxVars>>

\* A hook's panic unwinds runTool and no result is stored.
HookPanics(i) ==
    /\ at[i] \in {"start", "health", "end"}
    /\ i \in registered
    /\ at[i] = "health" => out[i] = "health" /\ ended = "no"
    /\ Move(i, "done")
    /\ IF FansOut
       THEN hookPanic' = TRUE /\ UNCHANGED pc
       ELSE pc' = "panicked" /\ UNCHANGED hookPanic
    /\ UNCHANGED <<config, next, executed, log, out, res, ran, slot, authVars, ctxVars>>

UnknownTool(i) ==
    /\ at[i] = "start"
    /\ i \notin registered
    /\ Settle(i, "unknown")
    /\ UNCHANGED <<config, executed, log, out, res, hookPanic, ran, authVars, ctxVars>>

\* ToolStart has fired and Tool.Run begins.
RunTool(i) ==
    /\ at[i] = "start"
    /\ i \in registered
    /\ Move(i, "running")
    /\ ran' = ran \cup {i}
    /\ UNCHANGED <<config, loopVars, out, res, hookPanic, slot, authVars, ctxVars>>

\* invokeTool: blocks, an error, a ToolHealthError or a recovered panic.
ToolReturns(i, o) ==
    /\ at[i] = "running"
    /\ out' = [out EXCEPT ![i] = o]
    /\ res' = [res EXCEPT ![i] = IF o = "health" THEN "error" ELSE o]
    /\ Move(i, IF o \in {"error", "health"} THEN "failed" ELSE "end")
    /\ UNCHANGED <<config, loopVars, hookPanic, ran, slot, authVars, ctxVars>>

\* A failure of a live run with a tool deadline may be that deadline's.
CheckRun(i) ==
    /\ at[i] = "failed"
    /\ Move(i, IF timeout /\ ended = "no" THEN "deadline" ELSE "health")
    /\ UNCHANGED <<config, loopVars, out, res, hookPanic, ran, slot, authVars, ctxVars>>

\* runCtx.Err(): its own deadline, or by now the caller's.
CheckDeadline(i) ==
    /\ at[i] = "deadline"
    /\ IF expired[i] \/ ended = "deadline"
       THEN Move(i, "end") /\ res' = [res EXCEPT ![i] = "timeout"]
       ELSE Move(i, "health") /\ UNCHANGED res
    /\ UNCHANGED <<config, loopVars, out, hookPanic, ran, slot, authVars, ctxVars>>

\* fireToolHealth returns, fired or not.
FireHealth(i) ==
    /\ at[i] = "health"
    /\ Move(i, "end")
    /\ UNCHANGED <<config, loopVars, out, res, hookPanic, ran, slot, authVars, ctxVars>>

\* Mutation: the new result is stored without the arguments of the rewrite.
EndCallForgetsArgs(i) ==
    /\ at[i] = "end"
    /\ Move(i, "done")
    /\ slot' = [slot EXCEPT ![i] = [what |-> res[i], args |-> "model"]]
    /\ IF FansOut
       THEN UNCHANGED <<pc, next>>
       ELSE pc' = "loop" /\ next' = next + 1
    /\ UNCHANGED <<config, executed, log, out, res, hookPanic, ran, authVars, ctxVars>>

\* ToolEnd has fired.
EndCall(i) ==
    /\ at[i] = "end"
    /\ Settle(i, res[i])
    /\ UNCHANGED <<config, executed, log, out, res, hookPanic, ran, authVars, ctxVars>>

----------------------------------------------------------------------------
\* Runner.run: the events and the messages, in the order of the calls.
Commit ==
    /\ pc = "commit"
    /\ pc' = "committed"
    /\ log' = [i \in 1..executed |-> slot[i]]
    /\ UNCHANGED <<config, next, executed, callVars, slot, authVars, ctxVars>>

\* The caller's context ends; a call's own deadline passes.
CallerEnds(how) ==
    /\ ended = "no"
    /\ pc \notin {"committed", "panicked"}
    /\ ended' = how
    /\ UNCHANGED <<config, loopVars, callVars, slot, authVars, expired>>

DeadlinePasses(i) ==
    /\ timeout
    /\ at[i] \in {"running", "failed", "deadline"}
    /\ ended = "no"
    /\ ~expired[i]
    /\ expired' = [expired EXCEPT ![i] = TRUE]
    /\ UNCHANGED <<config, loopVars, callVars, slot, authVars, ended>>

----------------------------------------------------------------------------
LoopStep ==
    \/ SkipUnknown \/ NotAuthorized \/ Deny \/ PolicyPanics
    \/ \E given \in {"model", "rewritten", "invalid"} : Allow(given)
    \/ LeaveLoop \/ SkipDenied \/ CallNext \/ FanOut \/ WaitAll \/ Commit

\* What runTool does around Tool.Run.
CallStep(i) ==
    \/ UnknownTool(i) \/ RunTool(i) \/ HookPanics(i)
    \/ CheckRun(i) \/ CheckDeadline(i) \/ FireHealth(i) \/ EndCall(i)

Outcomes == {"ok", "error", "health", "toolPanic"}

Returned == pc \in {"committed", "panicked"} /\ UNCHANGED vars

Next ==
    \/ LoopStep
    \/ \E i \in AllCalls : CallStep(i) \/ DeadlinePasses(i)
    \/ \E i \in AllCalls, o \in Outcomes : ToolReturns(i, o)
    \/ \E how \in {"cancelled", "deadline"} : CallerEnds(how)
    \/ Returned

Spec == Init /\ [][Next]_vars

\* A tool returns once its context has ended, as Tool.Run must.
HonoursContext(i) ==
    (ended # "no" \/ expired[i]) /\ \E o \in Outcomes : ToolReturns(i, o)

(***************************************************************************)
(* The goroutines run, the policy and the hooks return, and a tool's       *)
(* deadline passes; nothing is assumed of a tool whose context is live.    *)
(***************************************************************************)
FairSpec ==
    /\ Spec
    /\ WF_vars(LoopStep)
    /\ \A i \in AllCalls :
          WF_vars(CallStep(i)) /\ WF_vars(DeadlinePasses(i)) /\ WF_vars(HonoursContext(i))

----------------------------------------------------------------------------
\* Properties.

(***************************************************************************)
(* No Tool.Run begins without the policy's word: not while a call of the   *)
(* turn is still undecided, and not for a call that a cancellation kept    *)
(* from being decided, in either mode.                                     *)
(***************************************************************************)
AuthorizedFirst == ran \subseteq allowed /\ (ran # {} => pc # "authorize")

\* What a result may report of each thing Tool.Run did.
Reports == [none |-> {"denied", "notRun", "unknown"}, ok |-> {"ok"},
            error |-> {"error", "timeout"}, health |-> {"error", "timeout"},
            toolPanic |-> {"toolPanic"}]

(***************************************************************************)
(* What was done is what is recorded: when the phase commits, every call   *)
(* whose Tool.Run began has its own outcome at its own place, with the     *)
(* arguments it was given if they can be recorded; every committed place   *)
(* is filled, and places are missing only from a cancelled run.  A hook's  *)
(* panic reaches the loop when no call is running any more, and then       *)
(* nothing of the turn is recorded.                                        *)
(***************************************************************************)
RanIsRecorded ==
    /\ pc = "committed" =>
        /\ ran \subseteq 1..Len(log)
        /\ Len(log) < calls => ended # "no"
        /\ \A i \in 1..Len(log) :
              /\ log[i].what \in Reports[out[i]]
              /\ args[i] # "invalid" /\ i \in ran => log[i].args = args[i]
    /\ pc = "panicked" => log = <<>> /\ \A i \in 1..calls : at[i] \in {"idle", "done"}

(***************************************************************************)
(* The phase ends when the tools have a deadline or the caller gives up,   *)
(* also when hooks panic in calls that others are waited for with.         *)
(***************************************************************************)
PhaseEnds == (timeout \/ ended # "no") ~> pc \in {"committed", "panicked"}
============================================================================
