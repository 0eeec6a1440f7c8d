------------------------------ MODULE History ------------------------------
(***************************************************************************)
(* The conversation history of one agent run (agent/runner.go,             *)
(* agent/summarize.go), and the two operations that cut it: the trim of a  *)
(* continued seed and the prefix a summarizing compaction replaces.        *)
(*                                                                         *)
(* Texts are abstracted away.  A message is a record of one shape:         *)
(*   kind  what the message is; every kind but "assistant" and "result" is *)
(*         a user turn                                                     *)
(*   run, step   the run and the completion step that produced it          *)
(*   n     an assistant turn's number of tool calls, or the index of the   *)
(*         call a result answers                                           *)
(*   turns the steering turns of one drain, numbered in enqueue order: a   *)
(*         drain appends its turns back to back, so they are one entry     *)
(*                                                                         *)
(* The i-th call of an assistant turn has the id <<run, step, i>>.  That   *)
(* is the id fillEmptyCallIDs mints for a provider that sends none, and    *)
(* stands for the unique ids of the providers that do.                     *)
(***************************************************************************)
EXTENDS Integers, Sequences, FiniteSets

CONSTANT Runs       \* identifiers of the runs (RunID)

\* User turns that the Runner itself injects.
HarnessKinds == {"nudge", "continue", "finalize"}

UserKinds == HarnessKinds \cup {"task", "steer", "summary"}

Message == [kind  : UserKinds \cup {"assistant", "result"},
            run   : Runs,
            step  : Nat,
            n     : Nat,
            turns : SUBSET Nat]

UserTurn(kind, r) == [kind |-> kind, run |-> r, step |-> 0, n |-> 0, turns |-> {}]

SteerTurns(r, T) == [kind |-> "steer", run |-> r, step |-> 0, n |-> 0, turns |-> T]

AssistantTurn(r, step, n) ==
    [kind |-> "assistant", run |-> r, step |-> step, n |-> n, turns |-> {}]

ToolResult(r, step, i) ==
    [kind |-> "result", run |-> r, step |-> step, n |-> i, turns |-> {}]

\* The first k results of the turn at step, in the model's call order.
ToolResults(r, step, k) == [i \in 1..k |-> ToolResult(r, step, i)]

----------------------------------------------------------------------------
\* The ids of the calls a message makes, and the id of the call it answers.
CallIDs(m) ==
    IF m.kind = "assistant" THEN {<<m.run, m.step, i>> : i \in 1..m.n} ELSE {}

AnswerID(m) == <<m.run, m.step, m.n>>

CallsIn(h, i, j) == UNION {CallIDs(h[k]) : k \in i..j}

AnswersIn(h, i, j) == {AnswerID(h[k]) : k \in {x \in i..j : h[x].kind = "result"}}

----------------------------------------------------------------------------
\* The greatest element of a finite set of naturals, 0 for none.
Latest(S) == IF S = {} THEN 0 ELSE CHOOSE x \in S : \A y \in S : y <= x

LastAssistant(h) == Latest({i \in 1..Len(h) : h[i].kind = "assistant"})

\* Mutation: a continued seed is sent as it is.
KeepDanglingToolTurn(seed) == seed

\* Mutation: a last assistant turn without calls counts as unanswered.
TrimTurnWithoutCalls(seed) ==
    LET last == LastAssistant(seed)
    IN  IF last = 0 \/ (seed[last].n > 0 /\ CallIDs(seed[last]) \subseteq AnswersIn(seed, last + 1, Len(seed)))
        THEN seed
        ELSE SubSeq(seed, 1, last - 1)

(***************************************************************************)
(* Only the seed's last assistant turn is checked.  When one of its calls  *)
(* has no result after it, the turn and everything behind it is dropped.   *)
(***************************************************************************)
TrimDanglingToolTurn(seed) ==
    LET last == LastAssistant(seed)
    IN  IF last = 0 \/ CallIDs(seed[last]) \subseteq AnswersIn(seed, last + 1, Len(seed))
        THEN seed
        ELSE SubSeq(seed, 1, last - 1)

(***************************************************************************)
(* summaryCut: the summary replaces h[from .. at-1]; from is just past the *)
(* task, at the latest assistant turn that follows no harness prompt and   *)
(* leaves no call before it unanswered.  at = 0 means there is no cut.     *)
(***************************************************************************)
SummaryFrom == 2

HasTask(h) == Len(h) > 0 /\ h[1].kind \in UserKinds \ {"summary"}

CutPoints(h) ==
    {i \in (SummaryFrom + 1)..Len(h) :
        /\ h[i].kind = "assistant"
        /\ CallsIn(h, SummaryFrom, i - 1) \subseteq AnswersIn(h, SummaryFrom, i - 1)
        /\ h[i - 1].kind \notin HarnessKinds
        /\ i = SummaryFrom + 1 => h[SummaryFrom].kind # "summary"}

SummaryCut(h) == IF HasTask(h) THEN Latest(CutPoints(h)) ELSE 0

\* The history with h[from .. at-1] replaced by one summary turn.
Summarized(h, r) ==
    SubSeq(h, 1, SummaryFrom - 1)
        \o <<UserTurn("summary", r)>>
        \o SubSeq(h, SummaryCut(h), Len(h))

----------------------------------------------------------------------------
(***************************************************************************)
(* What a provider requires of a request: the results of an assistant      *)
(* turn's calls follow it directly, all of them and in order, and no       *)
(* result stands anywhere else.                                            *)
(***************************************************************************)
AnsweredAt(h, i) ==
    /\ i + h[i].n <= Len(h)
    /\ \A j \in 1..h[i].n : h[i + j] = ToolResult(h[i].run, h[i].step, j)

NoOrphanAt(h, i) ==
    /\ h[i].n \in 1..(i - 1)
    /\ h[i - h[i].n].kind = "assistant"
    /\ AnswerID(h[i]) \in CallIDs(h[i - h[i].n])

WellFormed(h) ==
    \A i \in 1..Len(h) :
        /\ h[i].kind = "assistant" => AnsweredAt(h, i)
        /\ h[i].kind = "result" => NoOrphanAt(h, i)

\* Every steering turn that h carries.
TurnsOf(h) == UNION {h[i].turns : i \in 1..Len(h)}
============================================================================
