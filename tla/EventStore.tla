----------------------------- MODULE EventStore -----------------------------
(***************************************************************************)
(* The SQLite event store (store/sqlite): several processes open one file, *)
(* migrate it, and write and read the events of a run.                     *)
(*                                                                         *)
(* The database is SQLite's, as the store uses it: one write transaction   *)
(* at a time, taken with BEGIN IMMEDIATE, invisible until COMMIT, and gone *)
(* when its process dies.  A message is stored under its hash, so here a   *)
(* message is its hash.  All events belong to one run.                     *)
(***************************************************************************)
EXTENDS Integers, Sequences, FiniteSets, SequencesExt, FiniteSetsExt

CONSTANTS
    Processes,    \* processes that open the file
    Latest,       \* the last migration each process's build knows
    Emitters,     \* goroutines that observe or read, each with its process
    Nobody,       \* no process, no goroutine
    Versions,     \* the versions of the file they may find
    Payloads,     \* what an event may hold: [kind, messages]
    MaxEmits,     \* bound: events emitted in all
    MaxCrashes    \* bound: processes that die

\* The messages that events may name.
Messages == UNION {ToSet(payload.messages) : payload \in Payloads}

ASSUME StoreAssumption ==
    /\ Latest \in [Processes -> Nat \ {0}]
    /\ Emitters \subseteq Processes \X STRING
    /\ Nobody \notin Processes /\ Nobody \notin Emitters
    /\ Versions \subseteq Int
    /\ \A payload \in Payloads : payload.messages \in Seq(Messages)
    /\ MaxEmits \in Nat /\ MaxCrashes \in Nat

ProcessOf(e) == e[1]

VARIABLES
    db,        \* what is committed: the version, the migrations, WAL mode, the rows
    txn,       \* the same in the open write transaction, Nobody's otherwise
    writer,    \* the process whose connection holds the write lock
    proc,      \* per process: where its store stands, and the version it read
    mutex,     \* per process: the emitter that holds Store.mu
    emit,      \* per emitter: the event it is observing, and where it stands
    told,      \* history: the events reported to onErr
    kept,      \* history: the events whose Observe returned without a report
    read,      \* a reader: what it loaded, and what it returned
    crashes

dbVars == <<db, txn, writer>>
histVars == <<told, kept, read, crashes>>
storeVars == <<dbVars, proc, mutex, emit, histVars>>

NoEvent == [n |-> 0, pc |-> "idle", event |-> Nobody, left |-> <<>>]
NoRead == [pc |-> "idle", rows |-> <<>>, due |-> {}, result |-> <<>>]

StoreInit ==
    /\ \E v \in Versions :
        db = [version |-> v, applied |-> [i \in 1..v |-> i], wal |-> FALSE,
              bodies |-> {}, rows |-> <<>>]
    /\ txn = Nobody /\ writer = Nobody
    /\ proc = [p \in Processes |-> [pc |-> "new", seen |-> 0]]
    /\ mutex = [p \in Processes |-> Nobody]
    /\ emit = [e \in Emitters |-> NoEvent]
    /\ told = {} /\ kept = {} /\ read = NoRead /\ crashes = 0

----------------------------------------------------------------------------
\* The database.

\* BEGIN IMMEDIATE: granted when nobody writes; else it waits.
BeginWrite(p) == writer = Nobody /\ writer' = p /\ txn' = db

CommitWrite == db' = txn /\ writer' = Nobody /\ txn' = Nobody

Rollback == writer' = Nobody /\ txn' = Nobody /\ UNCHANGED db

----------------------------------------------------------------------------
\* Open.

Goto(p, pc) == proc' = [proc EXCEPT ![p].pc = pc]

\* tooNew and negativeVersion.
RefusedVersion(p, version) == version > Latest[p] \/ version < 0

\* init: the version is read, and refused, before anything is written.
ReadVersion(p) ==
    /\ proc[p].pc = "new"
    /\ proc' = [proc EXCEPT ![p] = [pc |-> IF RefusedVersion(p, db.version) THEN "failed" ELSE "wal",
                                    seen |-> db.version]]
    /\ UNCHANGED <<dbVars, mutex, emit, histVars>>

(***************************************************************************)
(* enterWAL: the mode another opener set is taken; the switch needs the    *)
(* file alone, and while another opener switches it is tried again until   *)
(* the deadline.                                                           *)
(***************************************************************************)
EnterWAL(p) ==
    /\ proc[p].pc = "wal"
    /\ \/ /\ db' = [db EXCEPT !.wal = TRUE]
          /\ Goto(p, IF proc[p].seen < Latest[p] THEN "migrate" ELSE "open")
       \/ /\ ~db.wal /\ \E q \in Processes \ {p} : proc[q].pc = "wal"
          /\ Goto(p, "failed") /\ UNCHANGED db
    /\ UNCHANGED <<txn, writer, mutex, emit, histVars>>

\* migrate: BEGIN IMMEDIATE, or busy_timeout runs out.
BeginMigration(p) ==
    /\ proc[p].pc = "migrate"
    /\ \/ BeginWrite(p) /\ Goto(p, "reread") /\ UNCHANGED db
       \/ writer # Nobody /\ Goto(p, "failed") /\ UNCHANGED dbVars
    /\ UNCHANGED <<mutex, emit, histVars>>

\* Mutation: the version read before the lock is used.
RereadSkipped(p) ==
    /\ proc[p].pc = "reread"
    /\ Goto(p, "applying") /\ UNCHANGED dbVars
    /\ UNCHANGED <<mutex, emit, histVars>>

\* The version again, now that nobody else can change it.
Reread(p) ==
    /\ proc[p].pc = "reread"
    /\ \/ RefusedVersion(p, txn.version) /\ Rollback /\ Goto(p, "failed")
       \/ txn.version = Latest[p] /\ CommitWrite /\ Goto(p, "open")
       \/ /\ txn.version \in 0..(Latest[p] - 1)
          /\ proc' = [proc EXCEPT ![p] = [pc |-> "applying", seen |-> txn.version]]
          /\ UNCHANGED dbVars
    /\ UNCHANGED <<mutex, emit, histVars>>

\* One migration; a statement may fail, and everything is rolled back.
ApplyMigration(p) ==
    /\ proc[p].pc = "applying" /\ proc[p].seen < Latest[p]
    /\ \/ /\ txn' = [txn EXCEPT !.applied = Append(@, proc[p].seen + 1)]
          /\ proc' = [proc EXCEPT ![p].seen = @ + 1]
          /\ UNCHANGED <<db, writer>>
       \/ Rollback /\ Goto(p, "failed")
    /\ UNCHANGED <<mutex, emit, histVars>>

\* PRAGMA user_version and COMMIT.
CommitMigration(p) ==
    /\ proc[p].pc = "applying" /\ proc[p].seen = Latest[p]
    /\ \/ /\ db' = [txn EXCEPT !.version = Latest[p]] /\ writer' = Nobody /\ txn' = Nobody
          /\ Goto(p, "open")
       \/ Rollback /\ Goto(p, "failed")
    /\ UNCHANGED <<mutex, emit, histVars>>

CloseStore(p) ==
    /\ proc[p].pc = "open" /\ mutex[p] = Nobody
    /\ Goto(p, "closed")
    /\ UNCHANGED <<dbVars, mutex, emit, histVars>>

----------------------------------------------------------------------------
\* Observe.

Move(e, pc) == emit' = [emit EXCEPT ![e].pc = pc]

ReportLost(e) == told' = told \cup {emit[e].event.id}

\* The messages a payload names.
Hashes(event) == ToSet(event.messages)

\* How many events were emitted in all.
Emitted == MapThenSumSet(LAMBDA e : emit[e].n, Emitters)

(***************************************************************************)
(* encode: an event that nests too deep, or that Events could not read     *)
(* back, is refused; the store is not touched.                             *)
(***************************************************************************)
Observe(e, payload) ==
    LET event == [id |-> <<e, emit[e].n + 1>>, kind |-> payload.kind, messages |-> payload.messages]
    IN  /\ proc[ProcessOf(e)].pc \in {"open", "closed"}
        /\ emit[e].pc = "idle"
        /\ Emitted < MaxEmits
        /\ \/ /\ emit' = [emit EXCEPT ![e] = [n |-> @.n + 1, pc |-> "lock", event |-> event,
                                              left |-> payload.messages]]
              /\ UNCHANGED told
           \/ /\ emit' = [emit EXCEPT ![e].n = @ + 1]
              /\ told' = told \cup {event.id}
        /\ UNCHANGED <<dbVars, proc, mutex, kept, read, crashes>>

\* Store.mu, and the closed flag under it.
LockStore(e) ==
    /\ emit[e].pc = "lock" /\ mutex[ProcessOf(e)] = Nobody
    /\ IF proc[ProcessOf(e)].pc = "closed"
       THEN Move(e, "idle") /\ ReportLost(e) /\ UNCHANGED mutex
       ELSE Move(e, "begin") /\ mutex' = [mutex EXCEPT ![ProcessOf(e)] = e] /\ UNCHANGED told
    /\ UNCHANGED <<dbVars, proc, kept, read, crashes>>

UnlockStore(e) == mutex' = [mutex EXCEPT ![ProcessOf(e)] = Nobody]

\* BEGIN IMMEDIATE, or busy_timeout runs out behind another process.
Begin(e) ==
    /\ emit[e].pc = "begin"
    /\ \/ BeginWrite(ProcessOf(e)) /\ Move(e, "write") /\ UNCHANGED <<db, mutex, told>>
       \/ /\ writer # Nobody
          /\ Move(e, "idle") /\ ReportLost(e) /\ UnlockStore(e) /\ UNCHANGED dbVars
    /\ UNCHANGED <<proc, kept, read, crashes>>

\* Mutation: outside a transaction a row is committed at once.
InsertMessageAtOnce(e) ==
    /\ emit[e].pc = "write" /\ emit[e].left # <<>>
    /\ txn' = [txn EXCEPT !.bodies = @ \cup {Head(emit[e].left)}]
    /\ db' = [db EXCEPT !.bodies = @ \cup {Head(emit[e].left)}]
    /\ emit' = [emit EXCEPT ![e].left = Tail(@)]
    /\ UNCHANGED <<writer, proc, mutex, histVars>>

\* INSERT OR IGNORE of one message.
InsertMessage(e) ==
    /\ emit[e].pc = "write" /\ emit[e].left # <<>>
    /\ txn' = [txn EXCEPT !.bodies = @ \cup {Head(emit[e].left)}]
    /\ emit' = [emit EXCEPT ![e].left = Tail(@)]
    /\ UNCHANGED <<db, writer, proc, mutex, histVars>>

InsertEvent(e) ==
    /\ emit[e].pc = "write" /\ emit[e].left = <<>>
    /\ txn' = [txn EXCEPT !.rows = Append(@, emit[e].event)]
    /\ Move(e, "commit")
    /\ UNCHANGED <<db, writer, proc, mutex, histVars>>

\* The commit, and Observe returns.
CommitEvent(e) ==
    /\ emit[e].pc = "commit"
    /\ CommitWrite /\ Move(e, "idle") /\ UnlockStore(e)
    /\ kept' = kept \cup {emit[e].event.id}
    /\ UNCHANGED <<proc, told, read, crashes>>

\* A statement of the transaction fails, the COMMIT included.
WriteFails(e) ==
    /\ emit[e].pc \in {"write", "commit"}
    /\ Rollback /\ Move(e, "idle") /\ UnlockStore(e) /\ ReportLost(e)
    /\ UNCHANGED <<proc, kept, read, crashes>>

----------------------------------------------------------------------------
\* Events: two queries, and whatever is committed in between.

Starts(rows) == Cardinality({i \in DOMAIN rows : rows[i].kind = "start"})

\* Mutation: only the messages of the completions are fetched.
NamedByCompletions(rows) ==
    UNION {Hashes(rows[i]) : i \in {j \in DOMAIN rows : rows[j].kind = "completion"}}

\* hashes, over all the rows of the run.
Named(rows) == UNION {Hashes(rows[i]) : i \in DOMAIN rows}

\* load: ErrUnknownRun for no row, and for a second Start.
LoadRows(p) ==
    /\ proc[p].pc = "open" /\ read.pc = "idle"
    /\ read' = [pc |-> IF db.rows = <<>> \/ Starts(db.rows) > 1 THEN "unknown" ELSE "loaded",
                rows |-> db.rows, due |-> kept, result |-> <<>>]
    /\ UNCHANGED <<dbVars, proc, mutex, emit, told, kept, crashes>>

\* assemble: a message that is not there is an error.
Assembles(row, bodies) == Hashes(row) \subseteq bodies

\* bodies, and the events put together again.
FetchBodies ==
    /\ read.pc = "loaded"
    /\ LET bodies == db.bodies \cap Named(read.rows)
       IN  read' = IF \E i \in DOMAIN read.rows : ~Assembles(read.rows[i], bodies)
                   THEN [read EXCEPT !.pc = "missing"]
                   ELSE [read EXCEPT !.pc = "done", !.result = read.rows]
    /\ UNCHANGED <<dbVars, proc, mutex, emit, told, kept, crashes>>

----------------------------------------------------------------------------
\* A process dies: its transaction is rolled back by the next one to look.
Crash(p) ==
    /\ proc[p].pc \notin {"new", "failed"} /\ crashes < MaxCrashes
    /\ crashes' = crashes + 1
    /\ IF writer = p THEN Rollback ELSE UNCHANGED dbVars
    /\ proc' = [proc EXCEPT ![p] = [pc |-> "new", seen |-> 0]]
    /\ mutex' = [mutex EXCEPT ![p] = Nobody]
    /\ emit' = [e \in Emitters |->
                    IF ProcessOf(e) = p THEN [NoEvent EXCEPT !.n = emit[e].n] ELSE emit[e]]
    /\ UNCHANGED <<told, kept, read>>

StoreNext ==
    \/ \E p \in Processes :
        \/ ReadVersion(p) \/ EnterWAL(p) \/ BeginMigration(p) \/ Reread(p)
        \/ ApplyMigration(p) \/ CommitMigration(p) \/ CloseStore(p)
        \/ LoadRows(p) \/ Crash(p)
    \/ \E e \in Emitters :
        \/ \E payload \in Payloads : Observe(e, payload)
        \/ LockStore(e) \/ Begin(e) \/ InsertMessage(e) \/ InsertEvent(e)
        \/ CommitEvent(e) \/ WriteFails(e)
    \/ FetchBodies

StoreSpec == StoreInit /\ [][StoreNext]_storeVars

----------------------------------------------------------------------------
\* Properties.

(***************************************************************************)
(* Every migration is applied exactly once and in order, and the schema is *)
(* the one the version names, whoever else opens the file at the same time *)
(* and wherever a process dies; an open store never meets an older schema  *)
(* than it was built for.                                                  *)
(***************************************************************************)
SchemaSound ==
    /\ db.applied = [i \in 1..db.version |-> i]
    /\ \A p \in Processes : proc[p].pc = "open" => db.version >= Latest[p]

(***************************************************************************)
(* An event is stored whole or not at all: only messages of stored events  *)
(* are in the file; an event whose Observe returned is stored once, one    *)
(* that was reported is not stored.                                        *)
(***************************************************************************)
StoredOrReported ==
    LET ids == [i \in DOMAIN db.rows |-> db.rows[i].id]
    IN  /\ db.bodies = Named(db.rows)
        /\ IsInjective(ids)
        /\ kept \subseteq ToSet(ids) /\ ToSet(ids) \cap told = {}

(***************************************************************************)
(* Events returns everything that had been stored when it was called, in   *)
(* the order in which each goroutine emitted it, and never stumbles over a *)
(* message that is not there, although it reads rows and messages apart.   *)
(***************************************************************************)
ReadsWhole ==
    /\ read.pc # "missing"
    /\ read.pc = "done" =>
        /\ read.due \subseteq {read.result[i].id : i \in DOMAIN read.result}
        /\ \A i, j \in DOMAIN read.result :
            /\ i < j /\ read.result[i].id[1] = read.result[j].id[1]
            => read.result[i].id[2] < read.result[j].id[2]
============================================================================
