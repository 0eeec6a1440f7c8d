# llmkit in TLA+

This directory is a verification project for llmkit, a Go toolkit for
applications of large language models. It models the parts of the toolkit that
make decisions over time (loops, queues, budgets, locks, timers) as TLA+
modules, checks them on small instances with TLC and proves the properties that
matter most for every instance with TLAPS. The reference is the source; every
definition that models code is listed with its lines in `PROJECT.json` ("map").

## 1. Inventory

| Part | State it keeps | Operations | What makes it correct |
|---|---|---|---|
| Agent loop, `agent/runner.go`, `runjson.go` | per run: history, iteration count, usage, nudges, truncation reason, finalized flag | `Run`, `RunJSON`, `Continue`, the turn loop, overflow recovery, max-tokens continuation, finalization, repair | every request pairs tool calls with results; limits bound the call; it returns; it answers what it was told |
| Steering handle, `agent/steering.go` | queue of turns, bound flag, under one mutex | `Steer`, `FollowUp` from any goroutine; `bind`, `drainSteers`, `drainAll`, `unbind` by the run | each turn is delivered once, in order within its kind, to one run at a time |
| Budget pool, `agent/budget.go` | atomic spend | `Check`, `Add` by concurrent runs and the host | overspend is bounded although check and charge are separate |
| Compaction, `agent/compact*.go`, `summarize.go` | none between passes | stub, summarize | a pass never separates a call from its result and its calls are charged |
| Tool dispatch, `agent/dispatch.go`, `toolpolicy.go` | per phase: verdicts, results | authorize, run (also in parallel), commit | one result per executed call, in call order; cancellation leaves a prefix |
| Event sinks, `agent/transcript.go` | table of runs, each with a file and a lock | Start, append, Finalize, Events | a file holds one run's events, Start first, Finalize last |
| Resume and replay, `agent/resume.go`, `replay.go` | cursors in a recorded run, budget seed, decisions, divergence | serve recorded completions, tool results, verdicts and summaries; compare requests; go live; `Err` | nothing recorded is repeated, the budget counts on, the Runner that wrote a record can resume it, a replay without error is the recorded conversation |
| Retry and stages, `retry/`, `provider/stage_*.go`, `fallback.go` | attempt counter, idle timer, delivered flag | attempts, backoff, stream idle watch, fallback | the caller sees the deltas of one attempt only; a cancelled call is not retried |
| Embeddings, `embed/` | LRU map and list under a mutex, the learned dimension | `Embed`, `EmbedBatch`, `Clear`; chunks, retries, decoding | every vector is its own text's and nobody else's to write; map and list agree within the bound |
| Decisions, `decide/` | the replayer's remaining records | ask, normalize, replay | each record is replayed once |
| Sandbox supervision, `sandbox/run.go`, `watchdog.go` | kill flags, contexts, process | start, wait, tick, classify, reap | one precedence among simultaneous ends; no process outlives its run |
| Workspace cache and output, `sandbox/workspace.go`, `output.go` | master copies, capped buffers | prepare, purge, capture | a copy is complete; a buffer keeps its cap |
| Event store, `store/sqlite/` | one database file, a mutex per store | open, migrate, observe, read, close | migrations run once, also with several openers and crashes; an event is stored whole or reported; a read is whole |
| Adapters, `provider/internal/`, `internal/adapter/` | per call: stream accumulators, requests sent, context | prepare and gate, translate, send, accumulate, classify | a success is a whole answer and its deltas rebuild it; an error is retried exactly if that may help; nothing asked for is lost silently; the next turn is accepted by any vendor |

The parts interact by calls: a run calls the client, which is a stack of stages
around an adapter; it drains the handle that other goroutines fill; it checks
and charges the pool that other runs share; it reports each step to the
observers, among them the sinks and the store, from which a later process
resumes or replays it.

What is hard here: the turns that producers queue race the moment a run
decides to stop; a cancellation can fall between two tool results; the pool is
checked at one time and charged at another; timers race the events they wait
for; a kill races a genuine exit; locks are dropped between a lookup and the
write it was for; a process dies between two events of a turn; a stream ends
cleanly in the middle of an answer; a conversation moves from one vendor to
another. `PROJECT.json` lists each of these at its line ("hazards").

## 2. Modules and how they correspond to the code

| Module | Models | Kind |
|---|---|---|
| `History` | messages; `trimDanglingToolTurn`, `summaryCut`, `summarized` | operators |
| `RunLoop` | `Run`, `RunJSON`, `Runner.run` with pool and handle | state machine |
| `TurnQueue` | what the handle promises | abstract specification |
| `Steering` | the handle's slice and flag | state machine, implements `TurnQueue` |
| `ToolDispatch` | `executeTools`, `authorizeCalls`, `runTool`, the commit of the results | state machine |
| `StreamRetry` | `Fallback`, the retry stage, `retry.Do`, the idle watch | state machine |
| `Backoff` | `backoffDelay` in integers of bounded width | algorithm and reference |
| `JSONLSink` | the JSONL sink's admission and its two locks | state machine |
| `Resume` | a recorded run, `NewResume` and the resumed run, `ReplayClient` | state machine |
| `AdapterRules` | `internal/adapter`: preparation, gates, errors, usage | operators |
| `Anthropic`, `OpenAI`, `Gemini` | one adapter each: request, answer, stream accumulator, errors | operators |
| `AdapterCall` | one call through an adapter and the next turn's request | state machine over the four above |
| `EmbedCache` | `CachedEmbedder` over `backendEmbedder` | state machine |
| `EventStore` | the SQLite store of several processes | state machine |
| `SupervisedRun` | `runSupervised`, `classifyRun`, `watchIdle`, hooks of the backends | state machine |
| `*Proofs` | the component named before it: `RunLoop` (with `History`), `TurnQueue`, `ToolDispatch`, `StreamRetry`, `SupervisedRun`, `AdapterCall` | theorems |
| `RecordProofs` | `JSONLSink` and `EventStore`, where a run's events are kept | theorems |
| `InductionProofs` | `Backoff`, `Steering` and `EmbedCache`, whose loops are recursive functions | theorems |
| `MC*` | | instances for TLC; `MCServices` composes the five services around a run |

`RunLoop` uses `History` for the conversation and instantiates `TurnQueue`
with a refinement mapping; so does `Steering`. The loop is thereby checked
against the same abstract handle that the slice implements, instead of against
the slice itself. Definitions whose comment begins with "Mutation" are the
seeded errors of `PROJECT.json` ("mutants"); no specification uses them.

### RunLoop and History

One action is one stretch of a run's goroutine between two accesses to state
that others share, or between two calls of the model. `pc` is the place in the
code: `top` (the limit checks), `boundary` (context check and first drain),
`compact`, `call`, `tools`, `decide` (what follows a turn without tool calls),
`unwind` (the deferred unbind), `parse` (the rest of `runJSONBody`). `stage` and
`half` say which `completeOnce` is running and whether it is in its max-tokens
continuation. `Start` is the bind and the seeding of the history, also from
another run's outcome (`Continue`). `Cancel`, `Enqueue` and `AddSpend` are the
environment: the caller's context, producers on the handle, the host's own spend.
What the model answers, what it costs, whether compaction is due and whether an
answer parses are chosen freely. A summarizing pass is one step with one charge
here (`Resume` has its calls); what charges an exhausted pool is counted apart for
completions (`late`) and passes (`latePasses`).

A message is its kind, its number of calls and the run and turns it belongs to.
Texts are abstracted to whether they are empty. Call ids are assumed unique in a
conversation, as the providers make them; the hazard list names the line where a
provider that reused them would matter. The budget seed of a resumed run is in
`Resume`.

### Steering and TurnQueue

Every method of `agent.Steering` holds its mutex for the whole body, so each is
one action on the slice. `TurnQueue` forgets the slice: pending turns are a set
of numbers, a drain takes either all the steers or everything, only the holder
drains, and the log records what each drain took. The loop of `drainSteers` is the
recursive function `Parted`.

### ToolDispatch

The tool phase of one turn. `pc` is the loop's goroutine: `authorize` (the
policy's pass over all calls), `loop` and `call` (one at a time), `fan` and `wait`
(a goroutine per call), `commit`. `at[i]` is where `runTool` stands for call `i`:
`start` (lookup and ToolStart), `running` (inside `Tool.Run`), `failed`, `deadline`
and `health` (the reads of the two contexts after an error, which are separate
steps because a context may end between them), `end` (ToolEnd). The options, the
number of calls and the calls whose name is known are chosen in `Init`. A result
is abstracted to what it reports (output, error, timeout, panic, denied, not run,
unknown) and to which arguments the event records; media blocks, the output limit
and the rendering are data. `RunLoop!ExecuteTools` uses what this module
establishes: a prefix of the calls is answered, all of them unless the context
has ended.

### StreamRetry and Backoff

The actors are the goroutine of the call, the goroutines spawned by the idle
timer, the attempt's deadline and the caller. `idleWatch` is modelled at the
grain of its mutex: a timer that expires spawns a goroutine that takes the lock
later (`TimerExpires`, `Fire`), after any number of deltas. Time is reduced to
`due`, the answer to the question `fire` asks under the lock. The select in
`sleepBeforeRetry` may take either ready case. Waiting times are `Backoff`'s
subject: `backoffDelay` is evaluated in two's-complement integers of `Width` bits
with the code's overflow tests, and compared with the exact value.

### JSONLSink

`Start` is one step because `admit` holds the sink lock throughout. An event is
two: the lookup under the sink lock and the write under the entry's, and so is
`Finalize`. All the runs of an instance share one RunID, which is the case the
sink defends itself against; different ids touch different entries and files. A
write that fails is a missing line and a report; a torn line is not modelled. A
run that was refused before the file's creator came is allowed to add lines
(`before`): the sink cannot tell its events from the creator's.

### Resume

One module holds the three lives of a run. In mode `recording` a loop of
completions, compactions and tool phases emits its events in the code's order, under the
options of a `runner` chosen in `Init`;
`TakeUp` cuts the record after any event (and may drop a tool's event when
the runner is `lossy`, which a failed sink write does) and starts a resume or a replay with the
original task or another. From then on the same loop runs over the serving
wrappers: `Serve`, `Mismatch` and `Diverge` are `resumeClient.Complete`;
`ServeDecision`, `RefuseCall`, `Allow` and `Deny` the policy wrapper; `ResumeCall`
the tool set with `lookupCall`; `Compact` the compactor that takes recorded
summaries until both cursors are at their end (`PassOutcomes`); `ReplayPolicy` and `ReplayCall` the
offline client. The tool phase of a second run authorizes in order and runs in
any order. A live pass is every sequence of
summarizer calls that `summaryRun.summarize` can make (`Summarizings`): a request that
overflows is split into halves, up to `maxDepth` times, the first failure or empty
answer ends the pass and the run, and what was paid until then is charged. What a
replay serves of a pass, and what it counts, is `summaryGroup.flush` (`PassEnds`,
`PassStart`). A request is the history and the prompt it carries, a history's size
is counted in messages, and a token is one successful call. Tool results carry
the step and position they were made at, so that a result served to the wrong
call is visible.

Not in it: steer events (`NewResume` refuses such a record), streamed delivery of
served answers, finalization and repair, and a resume of a resume.

### The adapters

`AdapterRules` is `internal/adapter`: `Prepare` with its gates, the classification
of statuses, vendor types and transport failures, and usage. The three vendor
modules translate a prepared request into a wire request (or a refusal), a wire
message into a response, and the events of a stream into an accumulator and
deltas. They are pure; `AdapterCall` is the machine around them: `BuildRequest`,
`Send`, then either a whole body (`Answered`, `BodyCut`, `ErrorBody`, `Rejected`,
`TransportFails`, `SDKRefuses`) or events one by one (`Take`, `Violated`,
`InBandError`, `Reset`, `EndOfStream`, `CallbackFails`), with the context ending at
any moment; then `Replay`: the loop's surrogate ids, the tool results, and the next
request to any of the four endpoints. `told` keeps what an error of
the endpoint said, for `FailureNamed` to judge the name by. Texts, and the names of
called functions, are sequences of tokens, so that a
missing, repeated or reordered fragment shows. What a vendor may send, and in
which order, is external: Anthropic sends block after block, an OpenAI-style
endpoint interleaves the fragments of several calls and sends a call's id with the
first of them and its name in pieces, Gemini sends parts. The accumulator of `OpenAI`
is two things, as in the code: the SDK's completion and `toolCallTracker`, which keeps
per wire index the id and the name as far as they have arrived. JSON is
abstracted to valid or cut; media to kind, source and type.

### EmbedCache and EventStore

The cache is modelled at the grain of its mutex: a batch looks everything up under
the lock, embeds the misses without it, chunk by chunk with retries, and inserts
under it again. A vector is the text it embeds, its length and the memory cell it
lives in; `Scribble` is a holder writing into its cell, which is how copying
matters. The two loops under the lock, over the texts and over the misses, are
recursive functions (`LookUpAll`, `StoreAll`) whose turns are `LookUpText` and `Store`;
`Insert` evicts once where the code has a loop, because the bound held before
(`CacheSound`). The store is modelled at the grain of SQLite's write lock and the store's
own mutex: each statement of a transaction is a step, a process may die at any of
them, and `Events` reads rows and bodies in two queries. SQLite is external: one
write transaction at a time, invisible until its commit, gone with its process.
Two builds with different latest migrations open the same file.

### SupervisedRun

`pc` follows `runSupervised` from the checks to the report; the watchdog, the
command with its descendants, os/exec's call of `cmd.Cancel`, the deadline and
the caller are separate actors. The variable `backend` selects the hooks; every
instance starts with any of them. `Collect` returns what `os/exec`'s `Wait`
returns: the context's error when the context killed a command that then ended
with status zero. `docker rm -f` is assumed to succeed and HostExec's tree kill to
reach all descendants; the walk of the process tree is not modelled.

## 3. What is checked

| Run | Instance | Shows |
|---|---|---|
| `steering` | two runs with one handle, two turns, cap 1, two calls per turn, summarizing compactor | `HandleHeldByOneRun`, `AnswerIsLastWord`, `WireWellFormed`, `ContinueKeepsTurns`, `ImplementsTurnQueue` |
| `limits` | one steered `RunJSON`, cap 2, token budget 2, a pool of 3 that the host charges too, overflow recovery with a summarizing compactor | `IterationBound`, `PoolOverrun`, `RunsReturn` |
| `tool_dispatch` | one or two calls, both modes, with and without policy and tool deadline | `AuthorizedFirst`, `RanIsRecorded`, `PhaseEnds` |
| `stream_retry` | two members, three attempts, two deltas each | `OneVoice`, `TripsOnSilence`, `GivesUpInTime`, `CallReturns` |
| `sandbox` | each backend, window of two ticks, ceiling 1 and growth to 2 | `KillsAreNamed`, `BreachReported`, `LeavesNothing`, `RunEnds` |
| `resume` | `Crowded` and `Paired`: three iterations, turns of two calls under one id, of two distinct calls and of an unknown tool, a rewriting and denying policy, a lossy sink; `Compacted`: four iterations, two distinct calls of which one is denied, two passes that fail or are split once; `Split`: four iterations, summaries split up to depth three whose calls overflow, fail or answer with nothing | `NothingRunTwice`, `CleanReplay`, `SameRunnerResumes`, `BudgetCarried` |
| `adapters` | every profile of the three tables with every combination of the fields an adapter treats together and every kind of block; every kind of answer, whole and streamed; every status, error type and error code | `StreamIsComplete`, `DeltasRebuild`, `FailureNamed`, `WireHonest`, `ReplayAccepted`, `EchoedUnchanged` |
| `services`, sink | two runs of one RunID, two events per goroutine, with or without an old file | `OneRunPerFile`, `FileShape`, `NoSilentLoss`, `RecordsSurvive` |
| `services`, store | two builds, three goroutines, three events, one crash; a new, an older and a foreign file | `SchemaSound`, `StoredOrReported`, `ReadsWhole` |
| `services`, embed | two callers, two texts, a cache of one entry, chunks of one and of all, both codecs | `AlignedVectors`, `CacheSound` |
| `services`, steering | two clients, four turns | `ImplementsTurnQueue` with the order within a kind |
| `services`, backoff | every base and cap of five bits, six attempts, jitter in quarters | `ExactOrHuge` |
| `sandbox_ceiling`, `resume_failed_pass`, `resume_discarded`, `adapters_signature` | see section 5 | disagreements |

The five services share no state and do not call one another, so `MCServices` lets
one of them run in each behaviour; their interleavings would show nothing more.

### Bounds and why they are enough

* Runs: two suffice for the races on the handle and for a run and its
  continuation; `TurnQueueProofs` and `RunLoopProofs` remove the bound where it
  matters. Symmetry is used in `steering`, the two runs having the same options
  and only safety being checked. A run of one iteration and its continuation give a
  history of two tool turns, each complete or cut short, with a pass before either
  request; `RequestsWellFormed` is for any number.
* `MaxCalls = 2` gives a tool phase a middle, so that cancellation can leave a
  proper prefix of the results. In `ToolDispatch` the calls of a turn only meet
  through the loop's goroutine and the caller's context, so two of them show every
  way one can be ahead of, behind or waiting for another.
* The pool in `limits` is charged by the run and by the host at any moment, which
  is all a run sees of other runs; `PoolOverrunBounded` is for any number. The run
  reaches all six completions on an exhausted pool, and four passes. `PoolOverrun`
  allows six: it counts the places where a pass can be made (the head of a turn and
  the overflow of each completion but a repair's), not whether the history still has
  anything to cut there.
* `MaxTurns`: two turns in the loop (one of each kind, both orders), four on the
  slice, enough for a steer between two follow-ups.
* `MaxIterations` 1 or 2: the loop closes once, and the five completions that may
  follow a cap all occur.
* `Width = 5`: every overflow of `backoffDelay` happens within six doublings. The
  jitter is none or full, a header negative, one or the largest duration;
  `WaitsExactOrHuge` is for any width, attempts, jitters and headers.
* Sink: a creator and a duplicate of one RunID with two events each, so that an
  event can be between its lookup and its write while another is written. The
  theorems of section 4 are for any number of both. Symmetry over the runs and
  over the cache's callers is sound: they are interchangeable, and the properties
  checked are invariants, an action property and a safety refinement none of which
  names one of them.
* Store: two builds with one migration between them, two goroutines of one
  process (its mutex) and one of another (SQLite's lock), and one death at any
  statement. Three events are enough for one to be half written while another is
  stored and a third is reported.
* Cache of one entry: every insertion of another text evicts; batches of two texts
  hold duplicates, a hit beside a miss, and two chunks.
* Resume: the Runner is chosen in `Init` among those of `MCRunners`, each for a question of
  its own. Three iterations and a history budget of five make one turn of tools,
  a compaction, and a turn behind it; the policy rewrites, runs or denies; two
  calls with one id and one unknown tool (`Crowded`) are the cases in which matching by id or
  by name alone goes wrong, and two distinct calls of one turn (`Paired`, `Compacted`) those in
  which the order of a parallel phase does. `Compacted` has a fourth iteration, so that
  a second pass summarizes the first one's summary. `Split` has the depth of the
  code, three; its passes cut up to three entries, so that a half, and the two partial summaries,
  are split again. `resume_discarded` uses four iterations and a summary too long to be kept.
* Adapters: an answer has up to four items of up to two fragments, which gives
  every event a predecessor and a successor; wire indices have a gap, and a name
  comes whole or in two pieces. `MaxInt32` is 100, and output limits, seeds and budgets
  lie at it, one inside and one beyond. Limits and seeds are combined with every
  thinking config, and those with every tool choice, tool list and schema, since no adapter looks at
  a limit together with a choice; a finish reason goes with every item list, and each
  usage convention with one of them. An error body has each of the types `vendorKind` tells
  apart, or none, under each class of status, below 400 included; so has an error inside a
  stream, and Gemini's has a code instead, or none.
* Growth 0..2 around a ceiling of 1, and a window of two ticks, make under, at
  and over the limit distinct.

### Fairness

* `RunLoop!FairSpec`: weak fairness of each run's steps. The goroutine runs and
  the client's calls return: each has a context and the stages bound every
  attempt. Producers and the caller are not assumed to do anything.
* `ToolDispatch!FairSpec`: the loop's goroutine and each call's run, the policy and
  the hooks return, a tool's deadline passes, and `Tool.Run` returns once its
  context has ended, as its contract demands. Nothing is assumed of a tool whose
  context is live, so `PhaseEnds` has the hypothesis that there is a tool deadline
  or that the caller has given up.
* `StreamRetry!FairSpec`: weak fairness of the call's goroutine, which includes
  the wire returning: every attempt has a deadline that the adapters honour, and
  the callback is the caller's to return from. Timers and contexts get none.
* `SupervisedRun!FairSpec`: the supervisor, the deadline's timer, os/exec's call
  of `cmd.Cancel` and the delivery of a kill; under bwrap also the end of what
  remains, because of `--die-with-parent` and the pid namespace. Nothing is
  assumed of the command, of a container, or of HostExec's descendants, so
  `RunEnds` has the hypothesis that a HostExec descendant releases the output.

`Resume`, `AdapterCall` and the services are checked for safety only. Deadlock is
checked wherever the system has something to wait for. `MCServices` and
`AdapterCall` are finite histories of bounded calls that simply end.

## 4. What is proved

TLAPS checks these theorems for every value of the constants. The assumptions
are the named `ASSUME`s of the component modules: the limits are integers, the
costs are natural numbers, steered and JSON runs are runs, "nobody" and the
earlier process are none of the processes or runs, every build has a first
migration, an event's messages are a sequence, an integer has at least three bits,
jitters and headers are what `Do` and a duration allow, an absent value is none of the
values it is the absence of (`NothingAssumption`), a call's message consists of
items of the kinds its vendor has (`ScenarioAssumption`), and an embedder's limits are
natural numbers. Nothing is assumed of the number of runs, turns, clients, calls, members,
attempts, deltas, processes, goroutines, events, items, callers, texts or iterations.

| Theorem | Says |
|---|---|
| `TypeCorrect` | the loop keeps its types; every append, trim and summary leaves a sequence of messages |
| `AccountsHold`, `IterationsBounded`, `PoolOverrunBounded` | `Accounts`, `IterationBound`, `PoolOverrun` |
| `HandleExclusive` | `HandleHeldByOneRun` |
| `RunLoopRefinesTurnQueue` | the loop implements `TurnQueue` |
| `HistoriesKeepShape`, `RequestsWellFormed`, `AnswersAreLastWords` | `ShapeInv`, `WireWellFormed`, `AnswerIsLastWord` |
| `ContinueLosesNoTurn` | the action property `ContinueKeepsTurns` |
| `SteeringRefinesTurnQueue` | the slice and the bound flag implement `TurnQueue`, and drains keep the enqueue order |
| `TQTypeCorrect`, `TurnsDeliveredOnce`, `TurnsInOrder` | what `TurnQueue` promises follows from its steps |
| `DispatchInvariant`, `PolicyComesFirst`, `WhatRanIsRecorded` | `DispatchInv`, `AuthorizedFirst`, `RanIsRecorded` |
| `RetryInvariant`, `VoicesNeverMixed`, `RetriesStopInTime` | `RetryInv`, `OneVoice`, `GivesUpInTime` |
| `WatchTripsOnSilence` | the action property `TripsOnSilence` |
| `WaitsExactOrHuge` | `ExactOrHuge` |
| `FailuresNamed`, `CutStreamsNeverSucceed` | `FailureNamed`, `CutStreamsFail`, of all three adapters |
| `EmbedInvariant`, `VectorsAligned`, `CacheStaysSound` | `EmbedInv`, `AlignedVectors`, `CacheSound` |
| `SupervisorInvariant`, `KillsNamed`, `BreachIsReported`, `NothingLeft` | `SupervisorInv`, `KillsAreNamed`, `BreachReported`, `LeavesNothing` |
| `SinkInvariant`, `FileOfOneRun`, `FileInShape` | `SinkInv`, `OneRunPerFile`, `FileShape` |
| `RecordsKept`, `FinalizeNotDisturbed` | the action properties `RecordsSurvive`, `FinalizeUndisturbed` |
| `NothingLostSilently` | `NoSilentLoss` |
| `StoreInvariant`, `SchemaIsSound`, `EventsStoredOrReported`, `ReadersSeeWholeEvents` | `StoreInv`, `SchemaSound`, `StoredOrReported`, `ReadsWhole` |

Along which arguments:

* **Accounts.** Neither bound is inductive, because a run at its cap may have
  completions still to come that no limit check precedes. `CallsLeft` counts what
  the current `completeOnce` may still complete and `LaterLeft` what may follow
  it (finalization and repair, two completions each). The invariant says that
  what was completed plus what is left stays within the bound; every completion
  pays out of what is left and only passing the limit checks refills it. For the
  pool the same sum is kept over the completions charged after exhaustion; it
  needs that spend never decreases, so that a run passing the check has none.
  Summarizing passes have a sum of their own (`Passes`: `PassesLeft` of the current
  `completeOnce`, `LaterPasses` of the finalization), since an overflow recovery pays for a
  pass where no completion succeeds.
* **Histories.** `WireWellFormed` speaks of the moment of a request, but a
  cancelled tool phase leaves a history that is not well formed and that a later
  run continues. `ShapeInv` says where which is the case: at every label from which
  a request can follow the history is well formed; a finished run's is `Continuable`,
  which is well formed or `CutShort`, its last assistant turn being followed by a
  proper prefix of its results and nothing else. Well-formedness is decided message
  by message in terms of what precedes (`PrefixDecides`), so an append
  needs one new message checked; `TrimMends` and `SummaryMends` say that the two operators
  that shorten a history lead from continuable to well formed. A trim removes
  a turn's calls and results only, and those carry no steering turn (`Plain`), which is
  `ContinueKeepsTurns`.
* **The handle.** `bound` is true exactly while one steered run is between its
  bind and its deferred unbind. Every step of a run but `Start` and `Unwind`
  keeps the run where it is with respect to the handle (`RunStepKeepsHold`); a
  refused run never enters, so it does not release.
* **Refinement.** Under the mapping that sends the holder to the steered run
  inside `Runner.run`, `Start` is a claim or a stutter, `Boundary` and `DrainAll`
  hand over the steers and everything, `Unwind` releases, and all other steps
  stutter. With the theorems about `TurnQueue` the loop loses and repeats no turn.
* **The queue.** `Ledger` is `DeliveredOnce` with `KindsInOrder`, which are inductive
  only together and with the types: the
  hand-overs and the pending set partition the numbers issued, and of one kind
  everything handed over precedes everything pending.
* **The tool phase.** `DispatchInv` gives each call a shape at each label of
  `runTool` (`Shape`: what its slot, its arguments and its outcome can be there), says
  which calls the policy has settled (`AuthInv`), which calls can be inside
  `runTool` in which mode (`ModeInv`: in the sequential mode only the call at the
  loop's index), and what `executeTools` returned (`ResultInv`). A step of one call
  changes that call's shape only.
* **The streamed call.** Everything shown is of the current member and attempt,
  and once something is, both delivered flags are up and the call never stands before
  another attempt (`VoiceInv`); it stays so because a failure behind a delta is
  judged retryable only if the caller is gone, and then nothing is repeated
  (`VerdictInv`). An attempt that began after the context ended is the last: its
  goroutine finds the context ended wherever it could wait or change the member
  (`LateInv`). The watch is paused during the callback and stopped outside an attempt
  (`WatchInv`).
* **The supervisor.** `CauseInv` is the heart: whenever the run's context was cancelled,
  the caller ended or one of the two kill flags is up, which holds because the flags
  go up before the cancellation; `ErrorInv` and `VerdictInv` carry it through `Wait` and the
  classification. `GrowthInv` says that the growth judged is the one the child left.
* **The sink.** At most one entry is live, and then the file exists and is that
  entry's; whoever holds or can look up a live entry is a writer of the file; a
  pending Finalize has an entry that is neither in the table nor another's; a file
  with a Finalize has no live entry. `O_EXCL` gives the first, the removal under
  the sink lock the third, the retirement in the writing step the fourth. For
  `NoSilentLoss`, `LossInv` adds that a creator of whom nothing was reported is alone
  until it closes, so its entry stays live and in the table, and that the lines of
  its events and the event on its way make up what it emitted.
* **The store.** `HolderInv` ties the places of openers and emitters to the write
  lock and the store's mutex; `SchemaInv` says that what a migration has applied so
  far extends what is committed, and that what an opener read without the lock is
  a lower bound; `ContentInv` that a transaction's rows and bodies are the committed ones
  and the written part of one event; `IdInv` that an event under way is in no row and in
  neither history set; `ReadInv` that the bodies of the rows a reader has loaded are committed, and
  stay so because no step removes one.

* **Induction over data.** The library's induction theorems take a predicate, which the
  provers cannot instantiate. `Inductive` states induction about a set of numbers and is
  proved from the least element of its complement. With it a recursive function is
  shown to satisfy its equation (`PowersExist`, `TurnsExist` and `PartingsExist` build the
  function turn by turn), and what a loop computes follows.
* **The waits.** `LoopComputes`: before the doubling loop is left its delay is the exact
  power; it is left with `MaxDelay`, which the exact value has reached too, or with a
  quarter of the range, and then the exact value is beyond it. A doubled duration
  that does not fit wraps to a negative one (`DoublingWraps`), never to a small
  positive one, which is why one sign test is enough.
* **The slice.** `PartedSound`: after n turns of `drainSteers` the slices `out` and `kept`
  hold the steers and the follow-ups among the first n, in order (`Picked`). The
  invariant says that the slice is numbered in ascending order with the kinds that
  were queued (`Genuine`), and that `bound` is true exactly while one client is
  inside; then each drain hands over the pending steers or everything, or returns
  nothing and stutters.
* **The embedding cache.** `InsertKeeps`: an insertion keeps `Kept`, that the map and the
  recency list hold the same keys, each once and within the bound, each entry embedding
  its key; `LookedOn`: a turn of the lookup moves keys and records a hit or a miss
  (`Looked`). `EmbedTurnsExist` carries both through any number of turns. `CallSound` says
  of a call, whatever happens to the map while it is unlocked, that each of its texts
  has a vector of its own or is missing, and that the j-th computed vector is of
  the j-th missing text; `DecodedInPlace` gives the last: n entries with n different
  indices below n are a permutation, so every slot has its entry. Cells carry who made
  them, and no one but their holder reaches one (`Written`). The length is recorded at
  most once, so what had it keeps it (`EmbedsLater`).
* **A call through an adapter.** `WireSeen` says at each place what the wire has seen: a
  request only after the send, a status only after the headers, no report of the endpoint
  before the end. Each way to fail then
  leads to a name that `NamedFor` allows, adapter by adapter only where they differ:
  `NoResponseNamed` without a report of the endpoint, `ReportNamed` with one, for every status
  or code, every type and any context.
  `CutStreamsFail` needs to know what an accumulator cannot have seen: `StreamInOrder` says that
  as long as no closing event has arrived it is `Unfinished` in the vendor's own
  sense (`sawStop`, no finish reason, neither finish nor block), because no fragment
  of any item, a piece of a call's name included, sets these (`FragmentUnfinished`), and that closing events arrive behind every
  fragment; `UnfinishedFails` says that no adapter makes a response of such an accumulator.

The first part of `RunLoopProofs` holds the lemmas on the history's operators: a trim
leaves a prefix, a cut lies inside the history and at a boundary between turns, a
summary is a summary followed by the rest, and what each does to well-formedness.

Only model-checked:

* the liveness properties `RunsReturn`, `PhaseEnds`, `CallReturns` and `RunEnds`, which
  are out of this prover's reach;
* the properties of `Resume`, which compare two runs of a loop over a whole record, from
  which the served answers are selected, and whose passes are a recursive operator;
* of `AdapterCall`, what a response and a request are made of (`StreamIsComplete`,
  `DeltasRebuild`, `WireHonest`, `ReplayAccepted`, `EchoedUnchanged`): they are stated with
  folds and selections over sequences, of which no fact is available to the provers.
  Of `StreamIsComplete` the part that `CutStreamsFail` states is proved.

The type invariants of `RunLoop` and `JSONLSink` and the action property
`FinalizeUndisturbed` are proved and therefore no longer in a run; `CutStreamsFail` is in none
because the run checks the whole of `StreamIsComplete`.

## 5. Where code and documentation disagree

* `sandbox_ceiling`: `sandbox.go:151` calls `Spec.Timeout` a hard ceiling. A
  HostExec command that exits and leaves a background child on its output keeps
  `Wait`, and so `Exec`, waiting for that child (`run.go:301`).
* `resume_failed_pass`: `docs/agent-loop.md:458` says that by the record's end the check has
  counted every successful completion, compaction calls included. A pass whose last call
  failed, or that a crash cut behind a refused half, is dropped from what a resume serves
  (`replay.go:350`), and so is what its calls had cost, which the recorded run was charged
  (`compactor.go:104`) and `Resume.Usage` counts (`resume.go:67`). `BudgetCarried` says that
  the seed is short of exactly these.
* `resume_discarded`: `runner.go:715` re-arms the compaction trigger after a paid
  pass "even when discarded", and `docs/agent-loop.md:455` says that a resume of a
  run's own record follows the uninterrupted run. A served pass has its usage set
  to zero (`resume.go:468`), so a recorded pass that was paid for and thrown away
  re-arms nothing when it is served, the next turn compacts once more, and the
  request is refused with `ErrResumeMismatch`.
* `adapters_signature`: `docs/providers.md:84` says that Gemini's signatures are
  sent back unchanged. They are looked up by call id and name (`google.go:541`);
  a call that Gemini sent without an id has a surrogate by then
  (`runner.go:1030`), and its signature is dropped.

Also seen while modelling, without a run of its own:

* `budget.go:24` and `docs/agent-loop.md:265` name three kinds of completion that
  charge the pool without a fresh check. The summarizer of the overflow recovery of a
  continuation, or of a finalization, is a fourth (`compactor.go:109`). `PoolOverrun` bounds
  these passes beside the completions.
* `stream.go:42` says that a call's id and name are set on its first fragment. The OpenAI
  tracker joins the pieces of a name and gives each delta what has arrived so far
  (`openai/stream.go:165`), as its own test expects; a consumer has the name only with the
  last piece. `DeltasRebuild` says what does hold: a prefix, and in the end the whole.
* `google.go:229` converts a thinking budget to 32 bits without the check that the
  output limit and the seed have. A larger budget wraps, and a negative or another
  number is sent, where `docs/capabilities.md:123` says that the caller's value is.
  `WireHonest` says so of such a budget (`Wrapped`), and that every other is kept.
* `stream.go:52` says that an error of the callback is returned. The idle watch
  starts again behind a failing callback, and when the wire takes longer than the
  idle timeout to return, the idle error replaces the callback's
  (`stage_retry.go:133`).
* A command that exits with status zero after its context ended is reported by
  os/exec's `Wait` as the context's error, and `classifyRun` calls it a timeout,
  although the comment at `run.go:49` lets a clean exit win. `KillsAreNamed` is
  therefore stated for failures only.
* `dispatch.go:204` reads the caller's context and then the call's: a caller's
  deadline that passes between the two is recorded as a timeout of the tool, in a
  run that is over anyway.
* A crash between the halves of a split summary leaves a record whose last partial
  summary is served as the whole one (`replay.go:322`). A pass that failed because the
  summarizer answered with nothing is recorded as a success and served as an empty summary
  (`replay.go:344`), where the recorded run ended with an error.
* The OpenAI tracker numbers calls as they first appear and the accumulator orders
  them by wire index; the two agree as long as an endpoint introduces its calls in
  the order of their indices, which is how the model's endpoint sends them.
* The comment at `openai/stream.go:81` says that `Complete` would fail without a
  finish reason; `Complete` accepts an empty one. A usage without a total never
  folds reasoning in. A signature on a Gemini text part is not kept. A Gemini body
  below 400 without a completion is a server error whatever it says, since genai drops
  what it says (`checkCompletion`).
* Arguments that are no valid JSON are sent back to an OpenAI endpoint as they
  came and are refused by the other two adapters; `ReplayAccepted` excludes them.
* An older build that has a store open goes on writing after a newer build has
  migrated the file; only opening checks the version.

## 6. Not modelled

Of resume: steering, streamed delivery, finalization and repair, chains of resumes.
Of the adapters: redaction, schema coercion, URLs, the model tables beyond the
profiles they produce, parallel calls of Anthropic's synthetic tool. Of embeddings:
configuration and the observing decorator. HostExec's walk of the process tree and
the workspace cache are host operations whose races are with the kernel. The
repeat and request policies, the decision replayer, the capped buffers, the
in-memory transcript and the observers are sequential or hold one mutex around one
step. Schema reflection, typed tools, token estimation, prompt texts, command
lines and probing are data or I/O. `PROJECT.json` ("components") gives the reason
for each part.

## 7. Plan

In this order, the behaviour that matters most first; done so far are 1 to 13.

1. `RunLoop` with `History`: the loop, its limits, the pool and the handle.
2. `TurnQueue` and `Steering`: the abstract handle and its implementation.
3. `StreamRetry` and `Backoff`: one streamed call through the stages.
4. `SupervisedRun`: one sandbox run of each backend.
5. `JSONLSink`: the sink's admission.
6. Theorems about 1, 2 and 5.
7. `ToolDispatch` (`dispatch.go`, `toolpolicy.go`): authorization, parallel
   execution with panics and cancellation, commit in call order. Left to add: the
   abstract specification it shares with `RunLoop!ExecuteTools`.
8. `Resume` (`resume.go`, `replay.go`): a record cut at any event, resumed or
   replayed.
9. `AdapterRules`, `Anthropic`, `OpenAI`, `Gemini`, `AdapterCall`: one call, and the
   turn after it.
10. `EmbedCache` (`embed/`): concurrent misses, eviction, `Clear`, chunks, codecs.
11. `EventStore` (`store/sqlite`): several openers, migration, writes, reads, crash.
12. Theorems about `ToolDispatch`, `StreamRetry`, `SupervisedRun` and `EventStore`,
    about the histories of 1 and the losses of 5, and, by induction, about the waits of
    3 and the refinement of 2.
13. Theorems about `EmbedCache`, by induction, and about the failures and the cut streams
    of `AdapterCall`.
14. `KillTree` (`hostexec_kill_linux.go`): freezing and killing a process tree that
    forks meanwhile; discharges the assumption of `SupervisedRun`.
15. Theorems about `Resume`: `BudgetCarried` and `NothingRunTwice`, whose state is a cursor
    in a fixed record. The outcomes of a pass (`Summarizings`) would become a constant set. What it selects from the record (`SelectSeq`) would become
    recursive functions, as the loop of `drainSteers` did.
