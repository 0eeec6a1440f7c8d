----------------------------- MODULE JSONLSink -----------------------------
(***************************************************************************)
(* The durable event sink (agent/transcript.go): one JSONL file per RunID, *)
(* written by concurrent goroutines.  Two locks: the sink's guards the     *)
(* table and is held over a whole Start admission, an entry's guards its   *)
(* file; an event looks its entry up under the first and writes under the  *)
(* second, and anything may happen in between.                             *)
(*                                                                         *)
(* All the runs here share one RunID, the case the sink defends against;   *)
(* other ids touch other entries and other files.  Every run has a main    *)
(* goroutine, which emits its Start first and its Finalize last, and a     *)
(* helper that emits other events while the run is open and may be late.   *)
(***************************************************************************)
EXTENDS Integers, Sequences, FiniteSets

CONSTANTS
    Runs,       \* runs that claim the RunID, in this process
    Earlier,    \* the run of an earlier process that may have left a file
    MaxEvents   \* bound: events of one goroutine besides Start and Finalize

ASSUME SinkAssumption == IsFiniteSet(Runs) /\ Earlier \notin Runs /\ MaxEvents \in Nat

Roles == {"main", "helper"}

VARIABLES
    table,     \* s.runs: the entry of the RunID, 0 without one
    entries,   \* the entries ever made: TRUE while live
    file,      \* the file's lines, <<run, goroutine, kind>> each
    exists,    \* the file exists
    phase,     \* where each run stands: "new", "open", "closed"
    at,        \* per goroutine: the entry it has looked up, and for what
    emitted,   \* per goroutine: events so far
    reports,   \* what onErr was told: <<run, "duplicate">> or <<run, "lost">>
    owner,     \* history: the run that created the file
    before     \* history: the runs that had started when it was created

fileVars == <<file, exists, owner, before>>
vars == <<table, entries, fileVars, phase, at, emitted, reports>>

Idle == [entry |-> 0, kind |-> "none"]

Init ==
    /\ table = 0
    /\ entries = <<>>
    /\ exists \in BOOLEAN
    /\ file = IF exists THEN <<<<Earlier, "main", "start">>>> ELSE <<>>
    /\ owner = Earlier
    /\ before = {}
    /\ phase = [r \in Runs |-> "new"]
    /\ at = [r \in Runs |-> [role \in Roles |-> Idle]]
    /\ emitted = [r \in Runs |-> [role \in Roles |-> 0]]
    /\ reports = {}

----------------------------------------------------------------------------
Report(r, reason) == reports' = reports \cup {<<r, reason>>}

\* A new entry, live or retired, becomes the RunID's.
Install(live) ==
    /\ entries' = Append(entries, live)
    /\ table' = Len(entries) + 1

\* Mutation: the duplicate takes the entry over.
PoisonTakesOver(r) ==
    /\ table # 0
    /\ file' = Append(file, <<r, "main", "start">>)
    /\ UNCHANGED <<table, entries, exists, owner, before, reports>>

\* Mutation: the duplicate is refused without a word.
PoisonSilently(r) ==
    /\ table # 0
    /\ entries' = [entries EXCEPT ![table] = FALSE]
    /\ UNCHANGED <<table, fileVars, reports>>

\* admit, when the RunID has an entry: nothing of either run is written again.
Poison(r) ==
    /\ table # 0
    /\ entries' = [entries EXCEPT ![table] = FALSE]
    /\ Report(r, "duplicate")
    /\ UNCHANGED <<table, fileVars>>

\* admit, when no reader would accept the Start: no entry and no file.
RefuseStart(r) ==
    /\ table = 0
    /\ Report(r, "lost")
    /\ UNCHANGED <<table, entries, fileVars>>

\* The directory or the file cannot be made: a retired entry.
FailCreate(r) ==
    /\ table = 0
    /\ Install(FALSE)
    /\ Report(r, "lost")
    /\ UNCHANGED fileVars

Creates(r) ==
    /\ exists' = TRUE
    /\ owner' = r
    /\ before' = {q \in Runs : phase[q] # "new"}

\* Mutation: the file is opened without O_EXCL, and truncated.
CreateTruncates(r) ==
    /\ table = 0
    /\ Install(TRUE)
    /\ Creates(r)
    /\ file' = <<<<r, "main", "start">>>>
    /\ UNCHANGED reports

\* O_EXCL: a file that is there is never opened.  The Start line may fail.
Create(r) ==
    /\ table = 0
    /\ ~exists
    /\ Install(TRUE)
    /\ Creates(r)
    /\ \/ file' = Append(file, <<r, "main", "start">>) /\ UNCHANGED reports
       \/ Report(r, "lost") /\ UNCHANGED file

\* startRun: the whole admission under the sink lock.
Start(r) ==
    /\ phase[r] = "new"
    /\ phase' = [phase EXCEPT ![r] = "open"]
    /\ Poison(r) \/ RefuseStart(r) \/ FailCreate(r) \/ Create(r)
    /\ UNCHANGED <<at, emitted>>

(***************************************************************************)
(* appendRun.  The helper's last event may be emitted when its run is      *)
(* already closing.                                                        *)
(***************************************************************************)
LookUp(r, role) ==
    /\ phase[r] = "open" \/ (role = "helper" /\ phase[r] = "closed")
    /\ at[r][role] = Idle
    /\ emitted[r][role] < MaxEvents
    /\ emitted' = [emitted EXCEPT ![r][role] = @ + 1]
    /\ IF table = 0
       THEN Report(r, "lost") /\ UNCHANGED at
       ELSE /\ at' = [at EXCEPT ![r][role] = [entry |-> table, kind |-> "event"]]
            /\ UNCHANGED reports
    /\ UNCHANGED <<table, entries, fileVars, phase>>

\* jsonlRun.write: a retired entry drops the event, a line may fail.
Write(r, role) ==
    /\ at[r][role].kind = "event"
    /\ at' = [at EXCEPT ![r][role] = Idle]
    /\ IF entries[at[r][role].entry]
       THEN \/ file' = Append(file, <<r, role, "event">>) /\ UNCHANGED reports
            \/ Report(r, "lost") /\ UNCHANGED file
       ELSE UNCHANGED <<file, reports>>
    /\ UNCHANGED <<table, entries, exists, owner, before, phase, emitted>>

\* finalizeRun: the lookup and the removal are one step.
Finalize(r) ==
    /\ phase[r] = "open"
    /\ at[r]["main"] = Idle
    /\ phase' = [phase EXCEPT ![r] = "closed"]
    /\ table' = 0
    /\ IF table = 0
       THEN Report(r, "lost") /\ UNCHANGED at
       ELSE /\ at' = [at EXCEPT ![r]["main"] = [entry |-> table, kind |-> "finalize"]]
            /\ UNCHANGED reports
    /\ UNCHANGED <<entries, fileVars, emitted>>

\* Mutation: the last line is written and the entry is left live.
WriteWithoutRetiring(r) ==
    /\ at[r]["main"].kind = "finalize"
    /\ at' = [at EXCEPT ![r]["main"] = Idle]
    /\ file' = IF entries[at[r]["main"].entry] THEN Append(file, <<r, "main", "finalize">>) ELSE file
    /\ UNCHANGED <<table, entries, exists, owner, before, phase, emitted, reports>>

\* jsonlRun.writeAndRetire: the last line and the end in one step.
WriteAndRetire(r) ==
    /\ at[r]["main"].kind = "finalize"
    /\ at' = [at EXCEPT ![r]["main"] = Idle]
    /\ entries' = [entries EXCEPT ![at[r]["main"].entry] = FALSE]
    /\ IF entries[at[r]["main"].entry]
       THEN \/ file' = Append(file, <<r, "main", "finalize">>) /\ UNCHANGED reports
            \/ Report(r, "lost") /\ UNCHANGED file
       ELSE UNCHANGED <<file, reports>>
    /\ UNCHANGED <<table, exists, owner, before, phase, emitted>>

Next ==
    \E r \in Runs :
        \/ Start(r)
        \/ \E role \in Roles : LookUp(r, role) \/ Write(r, role)
        \/ Finalize(r)
        \/ WriteAndRetire(r)

Spec == Init /\ [][Next]_vars

----------------------------------------------------------------------------
\* Properties.

(***************************************************************************)
(* "No second run can write into it": whoever starts after a file has been *)
(* created, with the same RunID, never adds a line to it, whatever the     *)
(* creator, its late helper and its Finalize are doing; nor does any run   *)
(* of this process to the file of an earlier one.                          *)
(***************************************************************************)
OneRunPerFile == \A i \in 1..Len(file) : file[i][1] = owner \/ file[i][1] \in before

(***************************************************************************)
(* A file is a record a reader accepts (Events): at most one Start, and    *)
(* that first, and nothing behind a Finalize, although events that found   *)
(* their entry before the Finalize may be written after it.                *)
(***************************************************************************)
FileShape ==
    \A i \in 1..Len(file) :
        /\ file[i][3] = "start" => i = 1
        /\ file[i][3] = "finalize" => i = Len(file)

(***************************************************************************)
(* What is on disk stays there: a RunID that comes back, in this process   *)
(* or after a crash, never overwrites the record it meets.                 *)
(***************************************************************************)
RecordsSurvive == [][Len(file) <= Len(file') /\ SubSeq(file', 1, Len(file)) = file]_vars

(***************************************************************************)
(* A Finalize that has found its entry is out of reach: neither a          *)
(* duplicate Start nor another Finalize retires the entry before the last  *)
(* line is written.                                                        *)
(***************************************************************************)
FinalizeUndisturbed ==
    [][\A r \in Runs :
        LET last == at[r]["main"]
        IN  last.kind = "finalize" /\ entries[last.entry] /\ at'[r]["main"] = last
                => entries'[last.entry]]_vars

(***************************************************************************)
(* Nothing is lost silently: when a run created the file first of all, and *)
(* onErr was never told of it or of a duplicate, everything its loop       *)
(* emitted is in the file, the Finalize included.                          *)
(***************************************************************************)
NoSilentLoss ==
    \A r \in Runs :
        /\ phase[r] = "closed" /\ at[r]["main"] = Idle
        /\ owner = r /\ before = {}
        /\ \A report \in reports : report[1] # r /\ report[2] # "duplicate"
        => /\ Cardinality({i \in 1..Len(file) : file[i] = <<r, "main", "event">>})
                  = emitted[r]["main"]
           /\ file[Len(file)] = <<r, "main", "finalize">>
----------------------------------------------------------------------------
(***************************************************************************)
(* Why a file is one run's record.  Only the entry that created the file   *)
(* can be live, so a line is written only by a goroutine that found that   *)
(* entry; a run that starts later meets it in the table and retires it, or *)
(* meets the file and gets none.                                           *)
(***************************************************************************)
Kinds == {"start", "event", "finalize"}

Line == (Runs \cup {Earlier}) \X Roles \X Kinds

SinkTypeOK ==
    /\ entries \in Seq(BOOLEAN) /\ table \in 0..Len(entries)
    /\ file \in Seq(Line) /\ exists \in BOOLEAN
    /\ owner \in Runs \cup {Earlier} /\ before \subseteq Runs
    /\ phase \in [Runs -> {"new", "open", "closed"}]
    /\ at \in [Runs -> [Roles -> [entry : 0..Len(entries),
                                  kind : {"none", "event", "finalize"}]]]

Live(i) == i # 0 /\ entries[i]

Writers == before \cup {owner}

\* At most one entry is live, and then the file is its own.
OneLiveEntry ==
    /\ \A i \in 1..Len(entries) : entries[i] => exists
    /\ \A i, j \in 1..Len(entries) : entries[i] /\ entries[j] => i = j
    /\ ~exists => file = <<>>

\* Whoever can reach a live entry may write.
ReachedByWriters ==
    /\ \A r \in Runs : phase[r] # "new" /\ Live(table) => r \in Writers
    /\ \A r \in Runs, role \in Roles : Live(at[r][role].entry) => r \in Writers
    /\ \A r \in Runs, role \in Roles : at[r][role].kind # "none" => at[r][role].entry # 0

\* A pending Finalize has its entry to itself.
FinalizeAlone ==
    /\ \A r \in Runs : at[r]["main"].kind = "finalize" => at[r]["main"].entry # table
    /\ \A r, q \in Runs :
          /\ at[r]["main"].kind = "finalize" /\ at[q]["main"].kind = "finalize"
          /\ at[r]["main"].entry = at[q]["main"].entry
          => r = q

\* Nothing can be written behind a Finalize any more.
EndIsFinal ==
    (\E i \in 1..Len(file) : file[i][3] = "finalize")
        => \A i \in 1..Len(entries) : ~entries[i]

SinkInv ==
    /\ SinkTypeOK /\ OneLiveEntry /\ ReachedByWriters /\ FinalizeAlone /\ EndIsFinal
    /\ OneRunPerFile /\ FileShape
============================================================================
