------------------------------ MODULE RunLoop ------------------------------
(***************************************************************************)
(* The agent loop: Runner.Run, Runner.RunJSON and the loop body            *)
(* Runner.run they share (agent/runner.go, agent/runjson.go), for several  *)
(* runs that proceed concurrently, share one BudgetPool (agent/budget.go)  *)
(* and one Steering handle (agent/steering.go), may continue one another's *)
(* conversation and may be cancelled at any time.                          *)
(*                                                                         *)
(* One action is one stretch of a run's goroutine between two accesses to  *)
(* shared state or two calls of the model.  What the model answers, what a *)
(* completion costs, whether a compaction trigger is due and whether an    *)
(* answer parses are nondeterministic.  The turns of the handle are        *)
(* numbered in the order in which they are enqueued, so the queue is the   *)
(* set of the pending numbers; module Steering models the slice itself.    *)
(***************************************************************************)
EXTENDS History

CONSTANTS
    Steered,        \* the runs that are given the Steering handle
    JSONRuns,       \* the runs started with RunJSON; the others with Run
    MaxIterations,  \* Limits.MaxIterations; negative is unlimited
    TokenBudget,    \* Limits.TokenBudget; negative is unlimited
    PoolLimit,      \* BudgetPool.limit; 0 stands for the nil pool
    Compactor,      \* "off", "stub" (the default stubber) or "summary"
    Costs,          \* chargeable tokens of one completion or summary pass
    MaxCalls,       \* bound: tool calls of one turn
    MaxTurns,       \* bound: turns ever queued on the handle
    NoRun           \* the parent of a run that continues nothing

ASSUME RunsAssumption == Steered \subseteq Runs /\ JSONRuns \subseteq Runs /\ NoRun \notin Runs

ASSUME LimitsAssumption ==
    /\ MaxIterations \in Int /\ TokenBudget \in Int /\ PoolLimit \in Nat
    /\ Costs \subseteq Nat /\ MaxCalls \in Nat /\ MaxTurns \in Nat

ASSUME CompactorAssumption == Compactor \in {"off", "stub", "summary"}

VARIABLES
    pc,         \* where the run's goroutine stands
    stage,      \* which completeOnce it is in: main turn, finalization, repair
    half,       \* 1: the completion, 2: its max-tokens continuation
    retried,    \* completeRecovering has used its one compact-and-retry
    hist,       \* runState.messages, and Outcome.Messages once done
    parent,     \* the run whose Outcome was passed to Continue
    iters,      \* Outcome.Iterations
    usage,      \* Outcome.Usage, as chargeable tokens
    why,        \* the stop condition a finalization turn is taken for
    trunc,      \* Outcome.TruncationReason
    finalized,  \* Outcome.Finalized
    nudges,     \* runState.emptyTurnNudges
    resp,       \* what completeOnce returns
    result,     \* what the call returns to its caller
    cancelled,  \* the caller's context has ended
    turnKind,   \* the kind of every turn ever queued, by number
    queue,      \* Steering.queue
    bound,      \* Steering.bound
    spent,      \* BudgetPool.spent
    delivered,  \* history: the drains so far, each with its turns
    late,       \* history: completions of the run charged to an exhausted pool
    latePasses  \* history: summarizing passes charged to an exhausted pool

runVars   == <<pc, stage, half, retried, hist, parent, iters, usage, why, trunc,
               finalized, nudges, resp, result, cancelled>>
steerVars == <<turnKind, queue, bound, delivered>>
poolVars  == <<spent, late, latePasses>>
vars      == <<runVars, steerVars, poolVars>>

----------------------------------------------------------------------------
MaxEmptyTurnNudges == 2

LimitReasons == {"maxIterations", "tokenBudget", "budgetPool"}

\* The reasons after which no more is spent: stubbing only, and no repair.
BudgetReasons == {"tokenBudget", "budgetPool"}

TruncationReasons == LimitReasons \cup {"outputCap", "noAnswer"}

Failures == {"cancelled", "error", "refused", "panic"}

Results == Failures \cup {"none", "inUse", "answer", "incomplete", "unparseable"}

TurnKinds == {"steer", "followUp"}

(***************************************************************************)
(* The responses the loop tells apart.  A stop reason and an empty text    *)
(* matter only to a turn without tool calls.                               *)
(***************************************************************************)
Response == [calls : Nat, stop : {"end", "max", "refusal"}, text : BOOLEAN]

Responses ==
    [calls : {0}, stop : {"end", "max", "refusal"}, text : BOOLEAN]
        \cup [calls : 1..MaxCalls, stop : {"end"}, text : {TRUE}]

NoResponse == [calls |-> 0, stop |-> "end", text |-> FALSE]

Init ==
    /\ pc        = [r \in Runs |-> "idle"]
    /\ stage     = [r \in Runs |-> "main"]
    /\ half      = [r \in Runs |-> 1]
    /\ retried   = [r \in Runs |-> FALSE]
    /\ hist      = [r \in Runs |-> <<>>]
    /\ parent    = [r \in Runs |-> NoRun]
    /\ iters     = [r \in Runs |-> 0]
    /\ usage     = [r \in Runs |-> 0]
    /\ why       = [r \in Runs |-> "none"]
    /\ trunc     = [r \in Runs |-> "none"]
    /\ finalized = [r \in Runs |-> FALSE]
    /\ nudges    = [r \in Runs |-> 0]
    /\ resp      = [r \in Runs |-> NoResponse]
    /\ result    = [r \in Runs |-> "none"]
    /\ cancelled = [r \in Runs |-> FALSE]
    /\ turnKind  = <<>>
    /\ queue     = {}
    /\ bound     = FALSE
    /\ spent     = 0
    /\ delivered = <<>>
    /\ late      = [r \in Runs |-> 0]
    /\ latePasses = [r \in Runs |-> 0]

----------------------------------------------------------------------------
\* Steps shared by the actions below.

Set(f, r, v) == [f EXCEPT ![r] = v]

Goto(r, label) == pc' = Set(pc, r, label)

Push(r, m) == hist' = Set(hist, r, Append(hist[r], m))

\* Runner.run returns an error; the repair of a RunJSON has no run around it.
Fail(r, failure) ==
    /\ result' = Set(result, r, failure)
    /\ Goto(r, IF stage[r] = "repair" THEN "done" ELSE "unwind")

\* completeOnce is entered.
BeginCompletion(r, s, label) ==
    /\ stage' = Set(stage, r, s)
    /\ half' = Set(half, r, 1)
    /\ retried' = Set(retried, r, FALSE)
    /\ Goto(r, label)

Exhausted == PoolLimit > 0 /\ spent >= PoolLimit

\* Outcome.Usage is advanced and BudgetPool.Add charges the same tokens: those of
\* one completion, or of all the calls of one pass of the summarizer together.
Charge(r, kind, cost) ==
    /\ usage' = Set(usage, r, usage[r] + cost)
    /\ spent' = IF PoolLimit = 0 THEN spent ELSE spent + cost
    /\ late' = Set(late, r, IF Exhausted /\ kind = "completion" THEN late[r] + 1 ELSE late[r])
    /\ latePasses' = Set(latePasses, r,
                         IF Exhausted /\ kind = "compaction" THEN latePasses[r] + 1
                         ELSE latePasses[r])

OverBudget(r) == TokenBudget >= 0 /\ usage[r] > TokenBudget

\* Mutation: the iteration cap is one too high.
LimitReasonLate(r) ==
    IF MaxIterations >= 0 /\ iters[r] > MaxIterations THEN "maxIterations"
    ELSE IF OverBudget(r) THEN "tokenBudget"
    ELSE IF Exhausted THEN "budgetPool"
    ELSE "none"

\* Mutation: the pool is charged and never checked.
LimitReasonUnpooled(r) ==
    IF MaxIterations >= 0 /\ iters[r] >= MaxIterations THEN "maxIterations"
    ELSE IF OverBudget(r) THEN "tokenBudget"
    ELSE "none"

\* The three limit checks at the top of the loop, in their order.
LimitReason(r) ==
    IF MaxIterations >= 0 /\ iters[r] >= MaxIterations THEN "maxIterations"
    ELSE IF OverBudget(r) THEN "tokenBudget"
    ELSE IF Exhausted THEN "budgetPool"
    ELSE "none"

\* runState.stop followed by the break out of the loop.
StopLoop(r, reason) ==
    /\ trunc' = Set(trunc, r, reason)
    /\ Goto(r, "unwind")

(***************************************************************************)
(* finalizeAndTruncate, up to its compaction: a no-op for Run, one         *)
(* reserved tool-less completion for RunJSON.  h is the history so far.    *)
(***************************************************************************)
FinalizeAndTruncate(r, reason, h) ==
    IF r \notin JSONRuns \/ finalized[r]
    THEN /\ StopLoop(r, reason)
         /\ hist' = Set(hist, r, h)
         /\ UNCHANGED <<stage, half, retried, why, finalized>>
    ELSE /\ hist' = Set(hist, r, Append(h, UserTurn("finalize", r)))
         /\ finalized' = Set(finalized, r, TRUE)
         /\ why' = Set(why, r, reason)
         /\ BeginCompletion(r, "final", "compact")
         /\ UNCHANGED trunc

\* Mutation: a drain empties the queue whatever it takes.
DeliverAndClear(r, T) ==
    /\ queue' = {}
    /\ IF T = {}
       THEN UNCHANGED <<hist, delivered>>
       ELSE /\ Push(r, SteerTurns(r, T))
            /\ delivered' = Append(delivered, [run |-> r, turns |-> T])

\* One drain: the turns leave the queue and join the history.
Deliver(r, T) ==
    /\ queue' = queue \ T
    /\ IF T = {}
       THEN UNCHANGED <<hist, delivered>>
       ELSE /\ Push(r, SteerTurns(r, T))
            /\ delivered' = Append(delivered, [run |-> r, turns |-> T])

----------------------------------------------------------------------------
(***************************************************************************)
(* Run and RunJSON begin: bind the handle, seed the conversation.  A       *)
(* handle that another run holds fails the run before any work.            *)
(***************************************************************************)
Start(r, p) ==
    /\ pc[r] = "idle"
    /\ p = NoRun \/ (p \in Runs /\ pc[p] = "done" /\ result[p] # "panic")
    /\ parent' = Set(parent, r, p)
    /\ IF r \in Steered /\ bound
       THEN /\ result' = Set(result, r, "inUse")
            /\ Goto(r, "done")
            /\ UNCHANGED <<hist, bound>>
       ELSE /\ hist' = Set(hist, r,
                        Append(TrimDanglingToolTurn(IF p = NoRun THEN <<>> ELSE hist[p]),
                               UserTurn("task", r)))
            /\ bound' = (bound \/ r \in Steered)
            /\ Goto(r, "top")
            /\ UNCHANGED result
    /\ UNCHANGED <<stage, half, retried, iters, usage, why, trunc, finalized, nudges,
                   resp, cancelled, turnKind, queue, delivered, poolVars>>

\* The top of the loop: iteration cap, token budget, budget pool.
CheckLimits(r) ==
    /\ pc[r] = "top"
    /\ IF LimitReason(r) = "none"
       THEN /\ Goto(r, "boundary")
            /\ UNCHANGED <<stage, half, retried, hist, why, trunc, finalized>>
       ELSE FinalizeAndTruncate(r, LimitReason(r), hist[r])
    /\ UNCHANGED <<parent, iters, usage, nudges, resp, result, cancelled,
                   steerVars, poolVars>>

Steers == {t \in queue : turnKind[t] = "steer"}

\* Mutation: an ended context restarts the turn instead of the return.
BoundaryRetries(r) ==
    /\ pc[r] = "boundary"
    /\ IF cancelled[r]
       THEN /\ Goto(r, "top")
            /\ UNCHANGED <<stage, half, retried, hist, queue, delivered>>
       ELSE /\ Deliver(r, IF r \in Steered THEN Steers ELSE {})
            /\ BeginCompletion(r, "main", "compact")
    /\ UNCHANGED <<parent, iters, usage, why, trunc, finalized, nudges, resp, result,
                   cancelled, turnKind, bound, poolVars>>

\* The context check and the pre-completion drain, which takes steers only.
Boundary(r) ==
    /\ pc[r] = "boundary"
    /\ IF cancelled[r]
       THEN /\ Fail(r, "cancelled")
            /\ UNCHANGED <<stage, half, retried, hist, queue, delivered>>
       ELSE /\ Deliver(r, IF r \in Steered THEN Steers ELSE {})
            /\ BeginCompletion(r, "main", "compact")
            /\ UNCHANGED result
    /\ UNCHANGED <<parent, iters, usage, why, trunc, finalized, nudges, resp, cancelled,
                   turnKind, bound, poolVars>>

----------------------------------------------------------------------------
(***************************************************************************)
(* Compaction.  A stubbing pass is free and keeps the shape of the         *)
(* history; a summary pass pays for its model calls even when it errs or   *)
(* its result is discarded.  After a budget stop only the stubber runs,    *)
(* and it is also what runs when the history has no cut point.  The repair *)
(* has a history of its own with nothing to compact.                       *)
(***************************************************************************)
StubOnly(r) == stage[r] = "final" /\ why[r] \in BudgetReasons

Summarizes(r) ==
    /\ Compactor = "summary"
    /\ stage[r] # "repair"
    /\ ~StubOnly(r)
    /\ SummaryCut(hist[r]) # 0

\* No trigger is due, or a stubbing pass ran: the completion follows.
CompactFree(r) ==
    /\ pc[r] = "compact"
    /\ Goto(r, "call")
    /\ UNCHANGED <<stage, half, retried, hist, parent, iters, usage, why, trunc, finalized,
                   nudges, resp, result, cancelled, steerVars, poolVars>>

\* A trigger is due and the summarizer runs; its result is applied or discarded.
CompactSummary(r, cost) ==
    /\ pc[r] = "compact"
    /\ Summarizes(r)
    /\ hist' \in {hist, Set(hist, r, Summarized(hist[r], r))}
    /\ Charge(r, "compaction", cost)
    /\ Goto(r, "call")
    /\ UNCHANGED <<stage, half, retried, parent, iters, why, trunc, finalized, nudges,
                   resp, result, cancelled, steerVars>>

\* The summarizer fails; what it spent before is charged.
CompactFail(r, cost) ==
    /\ pc[r] = "compact"
    /\ Summarizes(r)
    /\ Charge(r, "compaction", cost)
    /\ Fail(r, "error")
    /\ UNCHANGED <<stage, half, retried, hist, parent, iters, why, trunc, finalized, nudges,
                   resp, cancelled, steerVars>>

----------------------------------------------------------------------------
\* The history a completion leaves; the repair does not touch the run's own.
AppendTurns(r, turns) ==
    hist' = IF stage[r] = "repair" THEN hist ELSE Set(hist, r, hist[r] \o turns)

(***************************************************************************)
(* A completion succeeds: complete folds and charges it, completeOnce      *)
(* appends the turn.  A first half cut off at the output cap without tool  *)
(* calls is continued once; the halves' texts are stitched together.       *)
(***************************************************************************)
CompletionReturns(r, answer, cost) ==
    /\ pc[r] = "call"
    /\ iters' = Set(iters, r, iters[r] + 1)
    /\ Charge(r, "completion", cost)
    /\ LET turn == AssistantTurn(r, iters[r] + 1, answer.calls)
           text == answer.text \/ (half[r] = 2 /\ resp[r].text)
       IN  /\ resp' = Set(resp, r, [calls |-> answer.calls, stop |-> answer.stop, text |-> text])
           /\ IF half[r] = 1 /\ answer.stop = "max" /\ answer.calls = 0
              THEN /\ AppendTurns(r, <<turn, UserTurn("continue", r)>>)
                   /\ half' = Set(half, r, 2)
                   /\ retried' = Set(retried, r, FALSE)
                   /\ UNCHANGED <<pc, trunc>>
              ELSE /\ AppendTurns(r, <<turn>>)
                   /\ UNCHANGED <<half, retried>>
                   /\ \/ /\ stage[r] = "main"
                         /\ Goto(r, IF answer.calls = 0 THEN "decide" ELSE "tools")
                         /\ UNCHANGED trunc
                      \/ /\ stage[r] = "final"
                         /\ StopLoop(r, why[r])
                      \/ /\ stage[r] = "repair"
                         /\ Goto(r, "parse")
                         /\ UNCHANGED trunc
    /\ UNCHANGED <<stage, parent, why, finalized, nudges, result, cancelled, steerVars>>

\* The request policy or the client fails, overflow without recovery included.
CompletionFails(r) ==
    /\ pc[r] = "call"
    /\ Fail(r, "error")
    /\ UNCHANGED <<stage, half, retried, hist, parent, iters, usage, why, trunc, finalized,
                   nudges, resp, cancelled, steerVars, poolVars>>

(***************************************************************************)
(* The provider refuses the request as too long: one compact-and-retry per *)
(* completion.  A compaction that changes nothing, or fails, ends the run. *)
(***************************************************************************)
Overflows(r) == pc[r] = "call" /\ Compactor # "off" /\ ~retried[r]

OverflowStub(r) ==
    /\ Overflows(r)
    /\ stage[r] # "repair"
    /\ ~Summarizes(r)
    /\ retried' = Set(retried, r, TRUE)
    /\ UNCHANGED <<pc, stage, half, hist, parent, iters, usage, why, trunc, finalized,
                   nudges, resp, result, cancelled, steerVars, poolVars>>

OverflowSummary(r, cost) ==
    /\ Overflows(r)
    /\ Summarizes(r)
    /\ Charge(r, "compaction", cost)
    /\ retried' = Set(retried, r, TRUE)
    /\ hist' = Set(hist, r, Summarized(hist[r], r))
    /\ UNCHANGED <<pc, stage, half, parent, iters, why, trunc, finalized, nudges, resp,
                   result, cancelled, steerVars>>

OverflowGivesUp(r, cost) ==
    /\ Overflows(r)
    /\ Summarizes(r)
    /\ Charge(r, "compaction", cost)
    /\ Fail(r, "error")
    /\ UNCHANGED <<stage, half, retried, hist, parent, iters, why, trunc, finalized, nudges,
                   resp, cancelled, steerVars>>

----------------------------------------------------------------------------
(***************************************************************************)
(* The tool phase.  Without cancellation every call has a result; once the *)
(* context has ended only a prefix may, and the run returns.               *)
(***************************************************************************)
ExecuteTools(r, k) ==
    /\ pc[r] = "tools"
    /\ k \in 0..resp[r].calls
    /\ k < resp[r].calls => cancelled[r]
    /\ LET h == hist[r] \o ToolResults(r, iters[r], k)
       IN  \/ /\ cancelled[r]
              /\ hist' = Set(hist, r, h)
              /\ Fail(r, "cancelled")
              /\ UNCHANGED <<stage, half, retried, why, trunc, finalized>>
           \/ /\ ~cancelled[r]
              /\ OverBudget(r)
              /\ FinalizeAndTruncate(r, "tokenBudget", h)
              /\ UNCHANGED result
           \/ /\ ~cancelled[r]
              /\ ~OverBudget(r)
              /\ hist' = Set(hist, r, h)
              /\ Goto(r, "top")
              /\ UNCHANGED <<stage, half, retried, why, trunc, finalized, result>>
    /\ UNCHANGED <<parent, iters, usage, nudges, resp, cancelled, steerVars, poolVars>>

----------------------------------------------------------------------------
\* A turn without tool calls, in the order of the code's checks.

Refused(r) ==
    /\ pc[r] = "decide"
    /\ resp[r].stop = "refusal"
    /\ Fail(r, "refused")
    /\ UNCHANGED <<stage, half, retried, hist, parent, iters, usage, why, trunc, finalized,
                   nudges, resp, cancelled, steerVars, poolVars>>

\* Mutation: the last drain's turns reach the history and the run returns.
DrainAllAndReturn(r) ==
    /\ pc[r] = "decide"
    /\ resp[r].stop # "refusal"
    /\ r \in Steered
    /\ queue # {}
    /\ Deliver(r, queue)
    /\ Goto(r, "unwind")
    /\ UNCHANGED <<stage, half, retried, parent, iters, usage, why, trunc, finalized, nudges,
                   resp, result, cancelled, turnKind, bound, poolVars>>

\* The would-be-finish drain: any queued turn continues the loop.
DrainAll(r) ==
    /\ pc[r] = "decide"
    /\ resp[r].stop # "refusal"
    /\ r \in Steered
    /\ queue # {}
    /\ Deliver(r, queue)
    /\ Goto(r, "top")
    /\ UNCHANGED <<stage, half, retried, parent, iters, usage, why, trunc, finalized, nudges,
                   resp, result, cancelled, turnKind, bound, poolVars>>

\* Nothing is queued: output cap, empty turn, or an answer.
FinishTurn(r) ==
    /\ pc[r] = "decide"
    /\ resp[r].stop # "refusal"
    /\ r \in Steered => queue = {}
    /\ \/ /\ resp[r].stop = "max"
          /\ StopLoop(r, "outputCap")
          /\ UNCHANGED <<hist, nudges>>
       \/ /\ resp[r].stop # "max" /\ ~resp[r].text /\ nudges[r] >= MaxEmptyTurnNudges
          /\ StopLoop(r, "noAnswer")
          /\ UNCHANGED <<hist, nudges>>
       \/ /\ resp[r].stop # "max" /\ ~resp[r].text /\ nudges[r] < MaxEmptyTurnNudges
          /\ nudges' = Set(nudges, r, nudges[r] + 1)
          /\ Push(r, UserTurn("nudge", r))
          /\ Goto(r, "top")
          /\ UNCHANGED trunc
       \/ /\ resp[r].stop # "max" /\ resp[r].text
          /\ Goto(r, "unwind")
          /\ UNCHANGED <<hist, nudges, trunc>>
    /\ UNCHANGED <<stage, half, retried, parent, iters, usage, why, finalized, resp, result,
                   cancelled, steerVars, poolVars>>

----------------------------------------------------------------------------
\* Mutation: the unbind is not deferred, so a panic skips it.
UnwindPanicLeaks(r) ==
    /\ pc[r] = "unwind"
    /\ bound' = (bound /\ (r \notin Steered \/ result[r] = "panic"))
    /\ IF result[r] = "none" /\ r \in JSONRuns
       THEN Goto(r, "parse") /\ UNCHANGED result
       ELSE /\ Goto(r, "done")
            /\ result' = Set(result, r,
                             IF result[r] # "none" THEN result[r]
                             ELSE IF trunc[r] = "none" THEN "answer" ELSE "incomplete")
    /\ UNCHANGED <<stage, half, retried, hist, parent, iters, usage, why, trunc, finalized,
                   nudges, resp, cancelled, turnKind, queue, delivered, poolVars>>

(***************************************************************************)
(* Runner.run returns through its deferred unbind, on every path once the  *)
(* handle is bound.  Run then maps a truncation to IncompleteError; RunJSON *)
(* goes on to parse the answer.                                            *)
(***************************************************************************)
Unwind(r) ==
    /\ pc[r] = "unwind"
    /\ bound' = (bound /\ r \notin Steered)
    /\ IF result[r] = "none" /\ r \in JSONRuns
       THEN Goto(r, "parse") /\ UNCHANGED result
       ELSE /\ Goto(r, "done")
            /\ result' = Set(result, r,
                             IF result[r] # "none" THEN result[r]
                             ELSE IF trunc[r] = "none" THEN "answer" ELSE "incomplete")
    /\ UNCHANGED <<stage, half, retried, hist, parent, iters, usage, why, trunc, finalized,
                   nudges, resp, cancelled, turnKind, queue, delivered, poolVars>>

(***************************************************************************)
(* runJSONBody after the run: an answer that parses (or is rescued) is     *)
(* returned; otherwise there is one repair, unless a budget stopped the    *)
(* run or the repair has already been made.                                *)
(***************************************************************************)
ParseAnswer(r) ==
    /\ pc[r] = "parse"
    /\ \/ /\ resp[r].text
          /\ result' = Set(result, r, "answer")
          /\ Goto(r, "done")
          /\ UNCHANGED <<stage, half, retried>>
       \/ /\ stage[r] = "repair" \/ trunc[r] \in BudgetReasons
          /\ result' = Set(result, r, "unparseable")
          /\ Goto(r, "done")
          /\ UNCHANGED <<stage, half, retried>>
       \/ /\ stage[r] # "repair" /\ trunc[r] \notin BudgetReasons
          /\ BeginCompletion(r, "repair", "call")
          /\ UNCHANGED result
    /\ UNCHANGED <<hist, parent, iters, usage, why, trunc, finalized, nudges, resp,
                   cancelled, steerVars, poolVars>>

\* A hook panics during a completion or a tool call; no result is recorded.
HookPanics(r) ==
    /\ pc[r] \in {"call", "tools"}
    /\ Fail(r, "panic")
    /\ UNCHANGED <<stage, half, retried, hist, parent, iters, usage, why, trunc, finalized,
                   nudges, resp, cancelled, steerVars, poolVars>>

----------------------------------------------------------------------------
\* The environment: the caller's context, and producers on the handle.

Cancel(r) ==
    /\ pc[r] \notin {"idle", "done"}
    /\ ~cancelled[r]
    /\ cancelled' = Set(cancelled, r, TRUE)
    /\ UNCHANGED <<pc, stage, half, retried, hist, parent, iters, usage, why, trunc,
                   finalized, nudges, resp, result, steerVars, poolVars>>

Enqueue(kind) ==
    /\ Len(turnKind) < MaxTurns
    /\ turnKind' = Append(turnKind, kind)
    /\ queue' = queue \cup {Len(turnKind) + 1}
    /\ UNCHANGED <<runVars, bound, delivered, poolVars>>

\* BudgetPool.Add called by the host for spend of its own.
AddSpend(cost) ==
    /\ PoolLimit > 0
    /\ spent < PoolLimit
    /\ spent' = spent + cost
    /\ UNCHANGED <<runVars, steerVars, late, latePasses>>

----------------------------------------------------------------------------
Complete(r) ==
    \/ \E answer \in Responses, cost \in Costs : CompletionReturns(r, answer, cost)
    \/ CompletionFails(r)
    \/ OverflowStub(r)
    \/ \E cost \in Costs : OverflowSummary(r, cost) \/ OverflowGivesUp(r, cost)

Compact(r) ==
    \/ CompactFree(r)
    \/ \E cost \in Costs : CompactSummary(r, cost) \/ CompactFail(r, cost)

RunStep(r) ==
    \/ CheckLimits(r)
    \/ Boundary(r)
    \/ Compact(r)
    \/ Complete(r)
    \/ \E k \in 0..MaxCalls : ExecuteTools(r, k)
    \/ Refused(r)
    \/ DrainAll(r)
    \/ FinishTurn(r)
    \/ Unwind(r)
    \/ ParseAnswer(r)
    \/ HookPanics(r)

\* Every run has returned: nothing is left to do but to queue more turns.
AllDone == (\A r \in Runs : pc[r] = "done") /\ UNCHANGED vars

Next ==
    \/ \E r \in Runs : RunStep(r)
    \/ \E r \in Runs, p \in Runs \cup {NoRun} : Start(r, p)
    \/ \E r \in Runs : Cancel(r)
    \/ \E kind \in TurnKinds : Enqueue(kind)
    \/ \E cost \in Costs : AddSpend(cost)
    \/ AllDone

Spec == Init /\ [][Next]_vars

(***************************************************************************)
(* A run's goroutine keeps running and the client's calls return: each has *)
(* a context and the provider stages bound every attempt.                  *)
(***************************************************************************)
FairSpec == Spec /\ \A r \in Runs : WF_vars(RunStep(r))

----------------------------------------------------------------------------
\* Properties.

Labels == {"idle", "top", "boundary", "compact", "call", "tools", "decide", "unwind",
           "parse", "done"}

(***************************************************************************)
(* Every variable of the loop, the handle and the pool keeps its type: in  *)
(* particular every history is a sequence of messages after every append,  *)
(* trim and summary, and no more than maxEmptyTurnNudges nudges are        *)
(* counted.                                                                *)
(***************************************************************************)
TypeOK ==
    /\ pc \in [Runs -> Labels]
    /\ stage \in [Runs -> {"main", "final", "repair"}]
    /\ half \in [Runs -> {1, 2}]
    /\ retried \in [Runs -> BOOLEAN]
    /\ hist \in [Runs -> Seq(Message)]
    /\ parent \in [Runs -> Runs \cup {NoRun}]
    /\ iters \in [Runs -> Nat]
    /\ usage \in [Runs -> Nat]
    /\ why \in [Runs -> LimitReasons \cup {"none"}]
    /\ trunc \in [Runs -> TruncationReasons \cup {"none"}]
    /\ finalized \in [Runs -> BOOLEAN]
    /\ nudges \in [Runs -> 0..MaxEmptyTurnNudges]
    /\ resp \in [Runs -> Response]
    /\ result \in [Runs -> Results]
    /\ cancelled \in [Runs -> BOOLEAN]
    /\ turnKind \in Seq(TurnKinds)
    /\ queue \subseteq 1..Len(turnKind)
    /\ bound \in BOOLEAN
    /\ spent \in Nat
    /\ delivered \in Seq([run : Runs, turns : SUBSET Nat])
    /\ late \in [Runs -> Nat]
    /\ latePasses \in [Runs -> Nat]

(***************************************************************************)
(* Every request that goes out is well formed: each assistant turn's calls *)
(* are answered directly behind it and no result is orphaned.  The history *)
(* may have been cut short by a cancellation in the middle of a tool phase *)
(* and then continued (trimDanglingToolTurn), or had its prefix replaced   *)
(* by a summary (summaryCut), any number of times.                         *)
(***************************************************************************)
WireWellFormed ==
    \A r \in Runs : pc[r] = "call" /\ stage[r] # "repair" => WellFormed(hist[r])

(***************************************************************************)
(* Continuing a conversation never drops a steering turn that the earlier  *)
(* run had taken off the queue: trimDanglingToolTurn only ever removes the *)
(* cancelled tool turn itself.                                             *)
(***************************************************************************)
ContinueKeepsTurns ==
    [][\A r, p \in Runs :
          pc[r] = "idle" /\ pc'[r] = "top" /\ parent'[r] = p
              => TurnsOf(hist[p]) \subseteq TurnsOf(hist'[r])]_vars

(***************************************************************************)
(* A run that returns an answer has the model's last word on everything    *)
(* delivered to it: its history ends with an assistant turn that asks for  *)
(* no tool.  Run only: a RunJSON answer may come from the repair.          *)
(***************************************************************************)
AnswerIsLastWord ==
    \A r \in Runs \ JSONRuns :
        result[r] = "answer" =>
            /\ hist[r][Len(hist[r])].kind = "assistant"
            /\ hist[r][Len(hist[r])].n = 0
            /\ WellFormed(hist[r])

\* The labels between bind and the deferred unbind of Runner.run.
InRun(r) ==
    \/ pc[r] \in {"top", "boundary", "compact", "tools", "decide", "unwind"}
    \/ pc[r] = "call" /\ stage[r] # "repair"

(***************************************************************************)
(* The handle serves one run at a time and is never leaked: it is bound    *)
(* exactly while one steered run is inside Runner.run, also when runs fail *)
(* with ErrSteeringInUse, are cancelled or panic.                          *)
(***************************************************************************)
HandleHeldByOneRun ==
    /\ bound <=> \E r \in Steered : InRun(r)
    /\ \A r, p \in Steered : InRun(r) /\ InRun(p) => r = p

\* The steered run inside Runner.run.
Holder ==
    IF \E r \in Steered : InRun(r) THEN CHOOSE r \in Steered : InRun(r) ELSE NoRun

\* The handle as its producers and its runs see it (see TurnQueue).
Handle == INSTANCE TurnQueue WITH
    Clients  <- Steered,
    NoClient <- NoRun,
    kindOf   <- turnKind,
    pending  <- queue,
    log      <- delivered,
    holder   <- Holder

(***************************************************************************)
(* The loop keeps the handle's promise: only the run that holds it takes   *)
(* turns, all the steers or all the turns at a time, and each turn once,   *)
(* whatever else stops the runs.                                           *)
(***************************************************************************)
ImplementsTurnQueue == Handle!TQSpec

(***************************************************************************)
(* The iteration cap bounds a whole call: past the cap there are at most a *)
(* continuation, a finalization turn and a repair, each of the latter with *)
(* a continuation of its own.                                              *)
(***************************************************************************)
IterationBound ==
    MaxIterations >= 0 =>
        \A r \in Runs : iters[r] <= MaxIterations + (IF r \in JSONRuns THEN 5 ELSE 1)

(***************************************************************************)
(* The pool is checked once per turn and charged afterwards, so concurrent *)
(* runs and the host's own charges overspend it.  The overrun is bounded:  *)
(* a run has at most six completions charged to a pool that is already     *)
(* exhausted, namely a turn that had passed its check, a finalization and  *)
(* a repair, each with its continuation.  A Run has at most two.  Beside   *)
(* them there are the passes of a summarizer: for a turn one before its    *)
(* completion and one in the overflow recovery of each half, and as many   *)
(* for a finalization at the iteration cap, which is checked before the    *)
(* pool and whose passes are therefore not limited to stubbing.            *)
(***************************************************************************)
PoolOverrun ==
    \A r \in Runs :
        /\ late[r] <= IF r \in JSONRuns THEN 6 ELSE 2
        /\ latePasses[r] <= IF r \in JSONRuns THEN 6 ELSE 3

(***************************************************************************)
(* Why both bounds hold.  CallsLeft counts what the current completeOnce   *)
(* may still complete, a continuation included, and LaterLeft what may     *)
(* follow without another pass of the limit checks: finalization and       *)
(* repair.  Every completion of a run is paid for out of what is left, and *)
(* only passing the limit checks refills it.                               *)
(***************************************************************************)
CallsLeft(r) ==
    IF pc[r] \in {"boundary", "compact"} THEN 2
    ELSE IF pc[r] = "call" THEN 3 - half[r]
    ELSE 0

LaterLeft(r) ==
    IF r \notin JSONRuns \/ pc[r] = "done" \/ stage[r] = "repair" THEN 0
    ELSE IF stage[r] = "final" THEN 2
    ELSE 4

Left(r) == CallsLeft(r) + LaterLeft(r)

\* The passes that the current completeOnce, and the finalization, may still pay for.
PassesLeft(r) ==
    IF stage[r] = "repair" THEN 0
    ELSE IF pc[r] \in {"boundary", "compact"} THEN 3
    ELSE IF pc[r] = "call" THEN IF retried[r] THEN 2 - half[r] ELSE 3 - half[r]
    ELSE 0

LaterPasses(r) == IF r \in JSONRuns /\ stage[r] = "main" /\ pc[r] # "done" THEN 3 ELSE 0

Passes(r) == PassesLeft(r) + LaterPasses(r)

\* Where the goroutine can stand in each stage.
StageOK(r) ==
    /\ r \notin JSONRuns => stage[r] = "main"
    /\ stage[r] = "final" => pc[r] \in {"compact", "call", "unwind", "parse", "done"}
    /\ stage[r] = "repair" => pc[r] \in {"call", "parse", "done"}
    /\ pc[r] = "compact" => half[r] = 1
    /\ pc[r] = "parse" => r \in JSONRuns

(***************************************************************************)
(* The accounts that the two bounds rest on, as one inductive invariant:   *)
(* what a run has completed, and what it has charged to an exhausted pool, *)
(* leaves room for all it may still complete, and for all the passes it    *)
(* may still pay for.                                                      *)
(***************************************************************************)
Accounts ==
    \A r \in Runs :
        /\ StageOK(r)
        /\ MaxIterations >= 0 =>
              iters[r] + Left(r) <= MaxIterations + (IF r \in JSONRuns THEN 5 ELSE 1)
        /\ late[r] + Left(r) <= IF r \in JSONRuns THEN 6 ELSE 2
        /\ latePasses[r] + Passes(r) <= IF r \in JSONRuns THEN 6 ELSE 3
        /\ late[r] > 0 \/ latePasses[r] > 0 => Exhausted

\* Under an iteration cap every call of Run and RunJSON returns.
RunsReturn == \A r \in Runs : pc[r] # "idle" ~> pc[r] = "done"
============================================================================
