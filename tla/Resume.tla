------------------------------- MODULE Resume ------------------------------
(***************************************************************************)
(* A recorded run and what comes after it: NewResume and Resume.Run        *)
(* (agent/resume.go), which serve the record and then go on live, and the  *)
(* offline ReplayClient (agent/replay.go).  The record is a prefix of the  *)
(* run's events, cut by a crash between any two of them; the sink may have *)
(* lost the event of a tool run.                                           *)
(*                                                                         *)
(* The recorded run's tool phase is one step (ToolDispatch has its steps); *)
(* in a second run the calls are authorized in order and run in any order, *)
(* as WithParallelTools lets them.  A successful completion or summarizer  *)
(* call costs one token.  A history is measured in messages, a tool result *)
(* counting twice until it is stubbed.                                     *)
(***************************************************************************)
EXTENDS Integers, Sequences, FiniteSets

CONSTANT Runners   \* the Runners and what their model and policy may do, as records:
\*  responses      the model's answers: sequences of calls [id, name, args]
\*  tools          the names the Runner registers
\*  policy         per call: the arguments a ToolPolicy may dispatch it with, or "denied"
\*  iterations     Limits.MaxIterations
\*  tokenBudget    Limits.TokenBudget
\*  historyBudget  Limits.HistoryTokenBudget; 0 is off
\*  recentResults  compactRecentToolResults
\*  answers        how a summarizer call ends, an overflow apart
\*  maxDepth       summaryMaxDepth
\*  lossy          the sink may lose a tool event

ASSUME ResumeAssumption ==
    \A r \in Runners :
        /\ {r.iterations, r.tokenBudget, r.historyBudget, r.recentResults, r.maxDepth} \subseteq Nat
        /\ r.answers \subseteq {"short", "long", "empty", "error"}
        /\ r.lossy \in BOOLEAN
        /\ \A calls \in r.responses : \A i \in DOMAIN calls : calls[i] \in DOMAIN r.policy

VARIABLES
    runner,     \* the Runner of both runs, its options and its surroundings
    mode,       \* "recording", "resuming" or "replaying"
    pc,         \* where the run's goroutine stands
    hist,       \* runState.messages
    iters,      \* Outcome.Iterations
    usage,      \* Outcome.Usage
    budget,     \* compactState.budget
    retried,    \* completeRecovering has used its retry
    events,     \* the events of the recorded run
    record,     \* what the source returns for it
    seed,       \* resumeState.seed
    idx,        \* ReplayClient.idx: the recorded completions served
    nextSum,    \* ReplayClient.nextSummary
    used,       \* the recorded calls served (replayedToolCall.used)
    settled,    \* the recorded calls and denials a policy was served
    decisions,  \* resumeState.decisions
    gi,         \* replayToolSet.gi
    live,       \* resumeState.liveActive
    diverged,   \* a divergence is recorded
    missed,     \* ReplayClient.unreproduced
    turn,       \* the calls of the current tool phase
    verdict,    \* per call: what the policy said
    given,      \* per call: the arguments to dispatch
    got,        \* per call: its result
    prompt,     \* the task and system prompt of the run
    own,        \* a replay decides by a policy of its own
    final,      \* history: the recorded run's messages when it ended
    liveRuns    \* history: the calls run live in the second run, as <<step, i>>

runVars    == <<hist, iters, usage, budget, retried>>
recordVars == <<runner, mode, events, record, prompt, own, final>>
serveVars  == <<seed, idx, nextSum, used, settled, decisions, gi, live, diverged, missed>>
phaseVars  == <<turn, verdict, given, got, liveRuns>>
vars       == <<pc, runVars, recordVars, serveVars, phaseVars>>

----------------------------------------------------------------------------
\* Messages and events.

Value(what, step, i) == [what |-> what, step |-> step, i |-> i]

Nothing == Value("", 0, 0)

Task(p) == [kind |-> "task", calls |-> <<>>, id |-> 0, val |-> Value(p, 0, 0)]

Assistant(calls) == [kind |-> "assistant", calls |-> calls, id |-> 0, val |-> Nothing]

ToolResult(id, val) == [kind |-> "result", calls |-> <<>>, id |-> id, val |-> val]

Completion(req, calls, err) ==
    [k |-> "completion", req |-> req, calls |-> calls, err |-> err]

\* A summarizer's completion, with what its text covers.
Purpose(text, err) == [k |-> "purpose", text |-> text, err |-> err]

ToolRun(step, call, given0, val) ==
    [k |-> "tool", step |-> step, call |-> call, args |-> given0, val |-> val]

Compaction == [k |-> "compaction"]

NoCall == [id |-> 0, name |-> "", args |-> ""]

----------------------------------------------------------------------------
\* What NewReplayClient and NewResume make of a record.

Where(rec, Test(_)) == SelectSeq([j \in 1..Len(rec) |-> j], LAMBDA j : Test(rec[j]))

Served(e) == e.k = "completion" /\ e.err \in {"", "overflow"}

\* rc.responses, as positions in the record; requests are compared at the same.
Steps == Where(record, Served)

StepOf(j) == Cardinality({i \in 1..Len(Steps) : Steps[i] < j})

\* The tool turn requested by the n-th response: what tools must serve, what a
\* policy must deny.  Calls to names the Runner lacked are held apart.
ToolRunsOf(n) == {j \in 1..Len(record) : record[j].k = "tool" /\ StepOf(j) = n}

CallsOf(n) == {j \in ToolRunsOf(n) : record[j].val.what = "ran"}

DenialsOf(n) == {j \in ToolRunsOf(n) : record[j].val.what = "denied"}

\* The tool ids recorded since the last completion before step n.
ExpectedIDs(n) ==
    LET runs == Where(record, LAMBDA e : e.k = "tool")
        here == SelectSeq(runs, LAMBDA j : StepOf(j) = n - 1)
    IN  [i \in 1..Len(here) |-> record[here[i]].call.id]

\* A compaction between the two completions.
CompactedBefore(n) ==
    \E j \in 1..(Steps[n] - 1) : record[j].k = "compaction" /\ StepOf(j) = n - 1

\* Mutation: every summarizer call that succeeded ends a pass.
PassEndsEveryCall ==
    SelectSeq([j \in 1..Len(record) |-> j],
        LAMBDA j : record[j].k = "purpose" /\ record[j].err = "")

\* The summaries: the last call of each run of summarizer calls, if it succeeded.
PassEnds ==
    SelectSeq([j \in 1..Len(record) |-> j],
        LAMBDA j : /\ record[j].k = "purpose"
                   /\ j = Len(record) \/ record[j + 1].k # "purpose"
                   /\ record[j].err = "")

\* Mutation: a pass costs what its last call cost.
PassStartAtEnd(j) == j

PassStart(j) ==
    CHOOSE i \in 1..j :
        /\ \A m \in i..j : record[m].k = "purpose"
        /\ i = 1 \/ record[i - 1].k # "purpose"

Spend(rec, i, j) ==
    Cardinality({m \in i..j : rec[m].k \in {"completion", "purpose"} /\ rec[m].err = ""})

\* Resume.Usage: the passes that failed are in it.
RecordedUsage == Spend(record, 1, Len(record))

First(S) == IF S = {} THEN 0 ELSE CHOOSE x \in S : \A y \in S : x <= y

Latest(S) == IF S = {} THEN 0 ELSE CHOOSE x \in S : \A y \in S : y <= x

----------------------------------------------------------------------------
Init ==
    /\ runner \in Runners
    /\ mode = "recording" /\ pc = "top"
    /\ prompt = "first" /\ own = FALSE
    /\ hist = <<Task(prompt)>>
    /\ iters = 0 /\ usage = 0 /\ budget = runner.historyBudget /\ retried = FALSE
    /\ events = <<>> /\ record = <<>> /\ final = <<>>
    /\ seed = 0 /\ idx = 0 /\ nextSum = 0 /\ used = {} /\ settled = {}
    /\ decisions = <<>> /\ gi = 1 /\ live = FALSE /\ diverged = FALSE /\ missed = FALSE
    /\ turn = <<>> /\ verdict = <<>> /\ given = <<>> /\ got = <<>>
    /\ liveRuns = {}

Emit(es) == events' = IF mode = "recording" THEN events \o es ELSE events

\* The record still answers.
InRecord == idx < Len(Steps)

----------------------------------------------------------------------------
\* The limits at the head of the loop, and the compaction trigger.

Estimate(h) == Len(h) + Cardinality({i \in 1..Len(h) : h[i].kind = "result"
                                                       /\ h[i].val.what # "stub"})

Due == budget > 0 /\ Estimate(hist) > budget

Top ==
    /\ pc = "top"
    /\ pc' = IF iters >= runner.iterations \/ usage + seed > runner.tokenBudget THEN "ended"
             ELSE IF Due THEN "compact" ELSE "complete"
    /\ UNCHANGED <<runVars, recordVars, serveVars, phaseVars>>

----------------------------------------------------------------------------
\* Compaction: the default stubber, the summarizer, or a recorded summary.

Stubbed(h) ==
    LET results == Where(h, LAMBDA m : m.kind = "result")
        old == {results[i] : i \in 1..(Len(results) - runner.recentResults)}
    IN  [i \in 1..Len(h) |-> IF i \in old THEN [h[i] EXCEPT !.val = Value("stub", 0, 0)] ELSE h[i]]

\* The latest assistant turn behind the first; every call before it is answered.
Cut(h) ==
    Latest({i \in 3..Len(h) : h[i].kind = "assistant" /\ (i = 3 => h[2].kind # "summary")})

Summarized(h, text) ==
    LET to == <<h[1], [kind |-> "summary", calls |-> <<>>, id |-> 0, val |-> text]>>
                 \o SubSeq(h, Cut(h), Len(h))
    IN  IF Estimate(to) >= Estimate(h) THEN h ELSE to

Replaced(text) == IF text.what = "long" THEN hist ELSE Summarized(hist, text)

Stub == [to |-> Stubbed(hist), cost |-> 0, calls |-> <<>>, recorded |-> FALSE, failed |-> FALSE]

\* A summarizing that ended in a call with a text; an empty one is an error.
Gives(ends) == ends[Len(ends)] \in {"short", "long"}

\* One summarizing and, when it gave a text, another.
Then(A, B) ==
    {a \in A : ~Gives(a)} \cup {a \o b : a \in {c \in A : Gives(c)}, b \in B}

(***************************************************************************)
(* summaryRun.summarize: how the calls of summarizing n entries may end,   *)
(* one after another.  A request that overflows is split into halves, and  *)
(* the two partial summaries are summarized again; the first failure ends  *)
(* the pass.                                                               *)
(***************************************************************************)
RECURSIVE Summarizings(_, _)
Summarizings(n, depth) ==
    {<<a>> : a \in runner.answers} \cup
    IF n < 2 \/ depth >= runner.maxDepth THEN {<<"overflow">>}
    ELSE LET mid == (n + 1) \div 2
             Half(k) == Summarizings(k, depth + 1)
         IN  {<<"overflow">> \o c : c \in Then(Then(Half(mid), Half(n - mid)), Half(2))}

SummaryCalls(ends) ==
    [i \in 1..Len(ends) |->
        IF ends[i] \in {"overflow", "error"} THEN Purpose(Nothing, ends[i])
        ELSE Purpose(Value(ends[i], iters, i), "")]

\* A pass is paid for whether or not it errs.
Summary(ends) ==
    LET calls == SummaryCalls(ends)
    IN  [to |-> IF Gives(ends) THEN Replaced(calls[Len(calls)].text) ELSE hist,
         cost |-> Spend(calls, 1, Len(calls)), calls |-> calls, recorded |-> FALSE,
         failed |-> ~Gives(ends)]

RecordedSummary ==
    LET at == PassEnds[nextSum + 1]
    IN  [to |-> Replaced(record[at].text), cost |-> Spend(record, PassStart(at), at),
         calls |-> <<>>, recorded |-> TRUE, failed |-> FALSE]

\* A pass belongs to the record while a completion or a summary is left in it.
RecordCompacts ==
    \/ mode = "replaying"
    \/ mode = "resuming" /\ (InRecord \/ nextSum < Len(PassEnds))

PassOutcomes ==
    IF Cut(hist) = 0 THEN {Stub}
    ELSE IF ~RecordCompacts THEN {Summary(ends) : ends \in Summarizings(Cut(hist) - 2, 0)}
    ELSE IF nextSum < Len(PassEnds) THEN {RecordedSummary} ELSE {Stub}

\* What the Runner is told a pass cost, and what the budget seed takes instead.
Charged(o) == IF mode = "resuming" /\ o.recorded THEN 0 ELSE o.cost

Pay(o) ==
    /\ usage' = usage + Charged(o)
    /\ seed' = seed + (o.cost - Charged(o))
    /\ nextSum' = nextSum + (IF o.recorded THEN 1 ELSE 0)

RefusePass ==
    /\ pc \in {"compact", "recover"}
    /\ mode = "resuming" /\ diverged
    /\ pc' = "ended"
    /\ UNCHANGED <<runVars, recordVars, serveVars, phaseVars>>

\* maybeCompact: a pass that gained, or was paid for, re-arms the trigger; one that
\* fails ends the run.
Compact ==
    /\ pc = "compact"
    /\ ~(mode = "resuming" /\ diverged)
    /\ \E o \in PassOutcomes :
          LET gained == o.to # hist /\ Estimate(o.to) < Estimate(hist) IN
          /\ hist' = IF gained THEN o.to ELSE hist
          /\ Pay(o)
          /\ Emit(o.calls \o (IF gained THEN <<Compaction>> ELSE <<>>))
          /\ budget' = IF gained \/ (Charged(o) > 0 /\ ~o.failed) THEN 2 * budget ELSE budget
          /\ pc' = IF o.failed THEN "ended" ELSE "complete"
    /\ UNCHANGED <<iters, retried, runner, mode, record, prompt, own, final, idx, used, settled,
                   decisions, gi, live, diverged, missed, phaseVars>>

\* completeRecovering: one compact-and-retry, if the request changes.
Recover ==
    /\ pc = "recover"
    /\ ~(mode = "resuming" /\ diverged)
    /\ \E o \in PassOutcomes :
          /\ Pay(o)
          /\ hist' = o.to
          /\ Emit(o.calls \o (IF o.to # hist THEN <<Compaction>> ELSE <<>>))
          /\ pc' = IF o.to # hist THEN "complete" ELSE "ended"
    /\ retried' = TRUE
    /\ UNCHANGED <<iters, budget, runner, mode, record, prompt, own, final, idx, used, settled,
                   decisions, gi, live, diverged, missed, phaseVars>>

----------------------------------------------------------------------------
\* Completions.

\* A response joins the history; its calls, if any, are next.
Accept(calls) ==
    /\ hist' = Append(hist, Assistant(calls))
    /\ iters' = iters + 1
    /\ retried' = FALSE
    /\ pc' = IF calls = <<>> THEN "ended" ELSE "tools"
    /\ turn' = calls
    /\ verdict' = [i \in 1..Len(calls) |-> "none"]
    /\ given' = [i \in 1..Len(calls) |-> calls[i].args]
    /\ got' = [i \in 1..Len(calls) |-> Nothing]
    /\ UNCHANGED <<budget, liveRuns>>

\* An overflow is compacted away once, if compaction is on.
Overflows == IF retried \/ runner.historyBudget = 0 THEN "ended" ELSE "recover"

\* The provider's answer to the recorded run, or to a resumed one gone live.
Live == mode = "recording" \/ (mode = "resuming" /\ ~diverged /\ ~InRecord)

Answer(calls) ==
    /\ pc = "complete" /\ Live
    /\ Accept(calls)
    /\ Emit(<<Completion(hist, calls, "")>>)
    /\ usage' = usage + 1
    /\ live' = (mode = "resuming")
    /\ UNCHANGED <<runner, mode, record, prompt, own, final, seed, idx, nextSum, used, settled,
                   decisions, gi, diverged, missed>>

Fails(err) ==
    /\ pc = "complete" /\ Live
    /\ Emit(<<Completion(hist, <<>>, err)>>)
    /\ live' = (mode = "resuming")
    /\ pc' = IF err = "overflow" THEN Overflows ELSE "ended"
    /\ UNCHANGED <<runVars, runner, mode, record, prompt, own, final, seed, idx, nextSum, used,
                   settled, decisions, gi, diverged, missed, phaseVars>>

\* resumeClient past a divergence; ReplayClient past a divergence or its end.
RefuseCompletion ==
    /\ pc = "complete"
    /\ mode # "recording"
    /\ diverged \/ (mode = "replaying" /\ ~InRecord)
    /\ diverged' = TRUE
    /\ pc' = "ended"
    /\ UNCHANGED <<runVars, recordVars, seed, idx, nextSum, used, settled, decisions, gi, live,
                   missed, phaseVars>>

\* The ids of the last n tool results of the request.
TrailingIDs(n) ==
    LET r == SelectSeq(hist, LAMBDA m : m.kind = "result")
        k == IF Len(r) > n THEN n ELSE Len(r)
    IN  [i \in 1..k |-> r[Len(r) - k + i].id]

Request == record[Steps[idx + 1]].req

\* A resumed request equals the recorded one; a replayed one has its tool ids.
Mismatch ==
    \/ mode = "resuming" /\ hist # Request
    \/ /\ ExpectedIDs(idx + 1) # <<>>
       /\ TrailingIDs(Len(ExpectedIDs(idx + 1))) # ExpectedIDs(idx + 1)

Diverge ==
    /\ pc = "complete" /\ mode # "recording" /\ InRecord /\ ~diverged
    /\ Mismatch
    /\ diverged' = TRUE
    /\ pc' = "ended"
    /\ UNCHANGED <<runVars, recordVars, seed, idx, nextSum, used, settled, decisions, gi, live,
                   missed, phaseVars>>

Charge(err) ==
    LET cost == IF err = "" THEN 1 ELSE 0 IN
    /\ usage' = IF mode = "resuming" THEN usage ELSE usage + cost
    /\ seed' = IF mode = "resuming" THEN seed + cost ELSE seed

\* The next recorded completion, an overflow included.
Serve ==
    /\ pc = "complete" /\ mode # "recording" /\ InRecord /\ ~diverged
    /\ ~Mismatch
    /\ idx' = idx + 1
    /\ missed' = (missed \/ (CompactedBefore(idx + 1) /\ hist # Request))
    /\ LET step == record[Steps[idx + 1]] IN
       /\ Charge(step.err)
       /\ IF step.err = ""
          THEN Accept(step.calls)
          ELSE pc' = Overflows
               /\ UNCHANGED <<hist, iters, budget, retried, turn, verdict, given, got, liveRuns>>
    /\ UNCHANGED <<recordVars, nextSum, used, settled, decisions, gi, live, diverged>>

----------------------------------------------------------------------------
\* The recorded run's tool phase, and the end of its record.

\* What a call came to: its result, and the arguments the event carries.
Outcomes(call) ==
    IF call.name \in runner.tools
    THEN {[what |-> IF d = "denied" THEN d ELSE "ran",
           args |-> IF d = "denied" THEN call.args ELSE d] : d \in runner.policy[call]}
    ELSE {[what |-> "unknown", args |-> call.args]}

RecordTools ==
    /\ mode = "recording" /\ pc = "tools"
    /\ \E o \in [1..Len(turn) -> UNION {Outcomes(turn[i]) : i \in 1..Len(turn)}] :
          /\ \A i \in 1..Len(turn) : o[i] \in Outcomes(turn[i])
          /\ hist' = hist \o [i \in 1..Len(turn) |->
                                ToolResult(turn[i].id, Value(o[i].what, iters, i))]
          /\ Emit([i \in 1..Len(turn) |->
                     ToolRun(iters, turn[i], o[i].args, Value(o[i].what, iters, i))])
    /\ pc' = "top"
    /\ UNCHANGED <<iters, usage, budget, retried, runner, mode, record, prompt, own, final,
                   serveVars, phaseVars>>

\* A second Runner takes over: what the source returns is a prefix of the events,
\* or all of them but one tool run that the sink lost.
Prefixes == {SubSeq(events, 1, n) : n \in 0..Len(events)}

Dropped ==
    {SelectSeq(events, LAMBDA e : e # events[j]) : j \in {m \in 1..Len(events) : events[m].k = "tool"}}

Sources == Prefixes \cup (IF runner.lossy THEN Dropped ELSE {})

\* NewResume and NewReplayClient refuse a record without a completion.
TakeUp(m, p, o) ==
    /\ mode = "recording" /\ pc = "ended"
    /\ o => m = "replaying" /\ p = "first"
    /\ record' \in {rec \in Sources : Where(rec, Served) # <<>>}
    /\ mode' = m /\ prompt' = p /\ own' = o /\ final' = hist
    /\ pc' = "top"
    /\ hist' = <<Task(p)>>
    /\ iters' = 0 /\ usage' = 0 /\ budget' = runner.historyBudget /\ retried' = FALSE
    /\ turn' = <<>> /\ verdict' = <<>> /\ given' = <<>> /\ got' = <<>>
    /\ UNCHANGED <<runner, events, serveVars, liveRuns>>

----------------------------------------------------------------------------
\* authorizeCalls in the second run: one call after another.

Undecided == {i \in 1..Len(turn) : verdict[i] = "none"}

Second(i) == mode # "recording" /\ pc = "tools" /\ Undecided # {} /\ i = First(Undecided)

Decide(i, what) == verdict' = [verdict EXCEPT ![i] = what]

SameCall(j, i) == record[j].call = turn[i]

Fresh(S, i) == First({j \in S \ settled : SameCall(j, i)})

\* The current group: the tool turn of the last response served.
Denial(i) == IF live THEN 0 ELSE Fresh(DenialsOf(idx), i)

\* Mutation: the record decides only while completions are left in it.
DispatchedInRecord(i) ==
    IF live \/ ~InRecord \/ Denial(i) # 0 THEN 0 ELSE Fresh(CallsOf(idx), i)

Dispatched(i) == IF live \/ Denial(i) # 0 THEN 0 ELSE Fresh(CallsOf(idx), i)

\* The names the second Runner registers: its own, or those ReplayClient.Tools
\* finds in the record.
Registered ==
    IF mode = "replaying"
    THEN {record[j].call.name : j \in UNION {CallsOf(n) \cup DenialsOf(n) : n \in 1..Len(Steps)}}
    ELSE runner.tools

Unknown(i) ==
    /\ Second(i)
    /\ turn[i].name \notin Registered
    /\ Decide(i, "unknown")
    /\ got' = [got EXCEPT ![i] = Value("unknown", iters, i)]
    /\ UNCHANGED <<pc, runVars, recordVars, serveVars, turn, given, liveRuns>>

\* resumePolicy: a recorded denial or dispatch, and no other way while the record
\* still answers.
ServeDecision(i) ==
    /\ Second(i) /\ mode = "resuming" /\ ~diverged
    /\ turn[i].name \in Registered
    /\ Denial(i) # 0 \/ Dispatched(i) # 0
    /\ settled' = settled \cup {Denial(i), Dispatched(i)}
    /\ IF Denial(i) # 0
       THEN /\ Decide(i, "denied")
            /\ got' = [got EXCEPT ![i] = record[Denial(i)].val]
            /\ UNCHANGED <<given, decisions>>
       ELSE /\ Decide(i, "allowed")
            /\ given' = [given EXCEPT ![i] = record[Dispatched(i)].args]
            /\ decisions' = Append(decisions, [g |-> idx, call |-> turn[i], rec |-> Dispatched(i),
                                               args |-> record[Dispatched(i)].args])
            /\ UNCHANGED got
    /\ UNCHANGED <<pc, runVars, recordVars, seed, idx, nextSum, used, gi, live, diverged, missed,
                   turn, liveRuns>>

\* Past a divergence every call is denied, and a call without a recorded
\* decision is a divergence while completions are left.
RefuseCall(i) ==
    /\ Second(i) /\ mode = "resuming"
    /\ turn[i].name \in Registered
    /\ diverged \/ (Denial(i) = 0 /\ Dispatched(i) = 0 /\ InRecord /\ ~live)
    /\ diverged' = TRUE
    /\ Decide(i, "denied")
    /\ got' = [got EXCEPT ![i] = Value("refused", iters, i)]
    /\ UNCHANGED <<pc, runVars, recordVars, seed, idx, nextSum, used, settled, decisions, gi, live,
                   missed, turn, given, liveRuns>>

\* The caller's policy: for a live call, or in a replay with a policy of its own.
CallersTurn(i) ==
    /\ Second(i)
    /\ turn[i].name \in Registered
    /\ \/ mode = "replaying" /\ own
       \/ /\ mode = "resuming" /\ ~diverged /\ (live \/ ~InRecord)
          /\ Denial(i) = 0 /\ Dispatched(i) = 0

Deny(i) ==
    /\ CallersTurn(i)
    /\ "denied" \in runner.policy[turn[i]]
    /\ Decide(i, "denied")
    /\ got' = [got EXCEPT ![i] = Value("denied", iters, i)]
    /\ UNCHANGED <<pc, runVars, recordVars, serveVars, turn, given, liveRuns>>

Allow(i, args) ==
    /\ CallersTurn(i)
    /\ Decide(i, "allowed")
    /\ given' = [given EXCEPT ![i] = args]
    /\ decisions' = IF mode = "resuming" /\ ~live /\ CallsOf(idx) \cup DenialsOf(idx) # {}
                    THEN Append(decisions, [g |-> idx, call |-> turn[i], rec |-> 0, args |-> args])
                    ELSE decisions
    /\ UNCHANGED <<pc, runVars, recordVars, seed, idx, nextSum, used, settled, gi, live, diverged,
                   missed, turn, got, liveRuns>>

\* ReplayClient.ToolPolicy: the recorded denials of the turn, by id.
ReplayPolicy(i) ==
    /\ Second(i) /\ mode = "replaying" /\ ~own
    /\ turn[i].name \in Registered
    /\ LET denied == \E j \in DenialsOf(idx) : record[j].call.id = turn[i].id IN
       /\ Decide(i, IF denied THEN "denied" ELSE "allowed")
       /\ got' = [got EXCEPT ![i] = IF denied THEN Value("denied", iters, i) ELSE Nothing]
    /\ UNCHANGED <<pc, runVars, recordVars, serveVars, turn, given, liveRuns>>

----------------------------------------------------------------------------
\* runTool in the second run: in any order once all are decided.

Ready(i) ==
    /\ mode # "recording" /\ pc = "tools" /\ Undecided = {}
    /\ verdict[i] = "allowed" /\ got[i] = Nothing

Fits(j, i) == record[j].call.name = turn[i].name /\ record[j].args = given[i]

\* Mutation: the recorded calls of a turn are served in the order of the record.
NextOfTurn(i) == First(CallsOf(idx) \ used)

\* callByID: the first unused call with the id that fits, else the first.
ByID(i) ==
    LET same == {j \in CallsOf(idx) \ used : record[j].call.id = turn[i].id}
        fit  == {j \in same : Fits(j, i)}
    IN  IF fit # {} THEN First(fit) ELSE First(same)

\* takeDecision: the first pending one with the call's id, name and arguments.
Decision(i) ==
    First({d \in 1..Len(decisions) :
              /\ decisions[d].g = idx
              /\ decisions[d].call.id = turn[i].id /\ decisions[d].call.name = turn[i].name
              /\ decisions[d].args = given[i]})

Yields(i, val) == got' = [got EXCEPT ![i] = val]

RunLive(i) ==
    /\ liveRuns' = liveRuns \cup {<<iters, i>>}
    /\ Yields(i, Value("live", iters, i))

\* resumeState.lookupCall and the tool behind it.
ResumeCall(i) ==
    /\ Ready(i) /\ mode = "resuming"
    /\ IF diverged
       THEN Yields(i, Value("refused", iters, i)) /\ UNCHANGED <<used, decisions, liveRuns, diverged>>
       ELSE IF ~live /\ Decision(i) # 0
       THEN LET d == Decision(i) IN
            /\ decisions' = SubSeq(decisions, 1, d - 1) \o SubSeq(decisions, d + 1, Len(decisions))
            /\ IF decisions[d].rec = 0
               THEN RunLive(i) /\ UNCHANGED used
               ELSE /\ used' = used \cup {decisions[d].rec}
                    /\ Yields(i, record[decisions[d].rec].val)
                    /\ UNCHANGED liveRuns
            /\ UNCHANGED diverged
       ELSE IF ~live /\ ByID(i) # 0
       THEN /\ IF Fits(ByID(i), i)
               THEN used' = used \cup {ByID(i)} /\ Yields(i, record[ByID(i)].val) /\ UNCHANGED diverged
               ELSE diverged' = TRUE /\ Yields(i, Value("refused", iters, i)) /\ UNCHANGED used
            /\ UNCHANGED <<decisions, liveRuns>>
       ELSE /\ IF InRecord
               THEN diverged' = TRUE /\ Yields(i, Value("refused", iters, i)) /\ UNCHANGED liveRuns
               ELSE RunLive(i) /\ UNCHANGED diverged
            /\ UNCHANGED <<used, decisions>>
    /\ UNCHANGED <<pc, runVars, recordVars, seed, idx, nextSum, settled, gi, live, missed, turn,
                   verdict, given>>

\* serveCall: the first tool turn at or behind gi with a match or a call left.
ReplayCall(i) ==
    /\ Ready(i) /\ mode = "replaying"
    /\ LET stop  == First({g \in gi..Len(Steps) :
                             (g = idx /\ ByID(i) # 0) \/ CallsOf(g) \ used # {}})
           match == IF stop = idx THEN ByID(i) ELSE 0
       IN  /\ gi' = IF stop = 0 THEN Len(Steps) + 1 ELSE stop
           /\ IF match # 0 /\ Fits(match, i)
              THEN used' = used \cup {match} /\ Yields(i, record[match].val) /\ UNCHANGED diverged
              ELSE diverged' = TRUE /\ Yields(i, Value("refused", iters, i)) /\ UNCHANGED used
    /\ UNCHANGED <<pc, runVars, recordVars, seed, idx, nextSum, settled, decisions, live, missed,
                   turn, verdict, given, liveRuns>>

\* The results, in the order of the calls.
Commit ==
    /\ mode # "recording" /\ pc = "tools"
    /\ \A i \in 1..Len(turn) : got[i] # Nothing
    /\ hist' = hist \o [i \in 1..Len(turn) |-> ToolResult(turn[i].id, got[i])]
    /\ pc' = "top"
    /\ UNCHANGED <<iters, usage, budget, retried, recordVars, serveVars, phaseVars>>

----------------------------------------------------------------------------
Done == pc = "ended" /\ UNCHANGED vars

Next ==
    \/ Top \/ RefusePass \/ Compact \/ Recover
    \/ \E r \in runner.responses : Answer(r)
    \/ \E err \in {"overflow", "other"} : Fails(err)
    \/ RefuseCompletion \/ Diverge \/ Serve \/ RecordTools \/ Commit
    \/ \E m \in {"resuming", "replaying"}, p \in {"first", "other"}, o \in BOOLEAN : TakeUp(m, p, o)
    \/ \E i \in 1..Len(turn) :
          \/ Unknown(i) \/ ServeDecision(i) \/ RefuseCall(i) \/ Deny(i) \/ ReplayPolicy(i)
          \/ \E args \in runner.policy[turn[i]] \ {"denied"} : Allow(i, args)
          \/ ResumeCall(i) \/ ReplayCall(i)
    \/ Done

Spec == Init /\ [][Next]_vars

----------------------------------------------------------------------------
\* ReplayClient.Err, for a caller that took the tools.
Err ==
    \/ diverged \/ missed
    \/ /\ idx > 0
       /\ InRecord \/ \E n \in 1..Len(Steps) : CallsOf(n) \ used # {}

----------------------------------------------------------------------------
\* Properties.

\* A call of the n-th recorded answer, and its event in the record.
Answered == SelectSeq(Steps, LAMBDA j : record[j].err = "")

Asked(p) == record[Answered[p[1]]].calls[p[2]]

Recorded(p) ==
    /\ p[1] <= Len(Answered)
    /\ \E j \in 1..Len(record) : /\ record[j].k = "tool"
                                 /\ record[j].val.step = p[1] /\ record[j].val.i = p[2]

Alike(p, q) == Asked(p).id = Asked(q).id /\ Asked(p).name = Asked(q).name

\* Calls of one turn with one id and name, which a parallel phase may swap.
Twins ==
    \E j \in 1..Len(record) : /\ record[j].k = "completion"
                              /\ LET calls == record[j].calls IN
                                 \E a, b \in 1..Len(calls) :
                                    a # b /\ calls[a].id = calls[b].id /\ calls[a].name = calls[b].name

\* A tool call whose result is in the record never runs again in the resumed run,
\* wherever the record was cut (resumeState.recordedDecision and lookupCall): a
\* call that runs live is one the record has no result for, or stands in for such
\* a call of its turn with the same id and name.
NothingRunTwice ==
    \A p \in liveRuns : Recorded(p) =>
        \E q \in {p[1]} \X (1..Len(record[Answered[p[1]]].calls)) :
            Alike(p, q) /\ ~Recorded(q) /\ q \notin liveRuns

\* What passes cost whose last recorded call failed: flush keeps nothing of them.
DroppedSpend ==
    Cardinality({m \in 1..Len(record) :
        /\ record[m].k = "purpose" /\ record[m].err = ""
        /\ \E e \in m..Len(record) :
              /\ \A i \in m..e : record[i].k = "purpose"
              /\ e = Len(record) \/ record[e + 1].k # "purpose"
              /\ record[e].err # ""})

\* By the first live completion the budget check has counted what the record says
\* was spent, the halves of a split summary included, wherever the crash fell in
\* the pass: the seed that resumeClient.Complete and resumeCompactor.Compact build
\* is Resume.Usage, short of exactly the passes that failed or were cut behind a
\* refused half (summaryGroup.flush).
BudgetCarried == live => seed = RecordedUsage - DroppedSpend

\* The documented form: by the record's end the check has counted Resume.Usage.
RecordedSpendCounted == live => seed = RecordedUsage

\* A resume under the Runner that made the record, with the original task, never
\* meets a mismatch, wherever the record was cut (requestMatches, lookupCall,
\* recordedDecision).
SameRunnerResumes ==
    mode = "resuming" /\ prompt = "first" /\ record \in Prefixes /\ ~Twins => ~diverged

\* A replay of a whole record whose ReplayClient.Err is nil rebuilt the recorded
\* conversation behind the task, whatever order its tools ran in and whatever
\* policy decided their calls (a denial's wording apart).
CleanReplay ==
    mode = "replaying" /\ pc = "ended" /\ record = events /\ ~Err /\ ~Twins
        => Tail(hist) = Tail(final)

=============================================================================
