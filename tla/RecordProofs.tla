---------------------------- MODULE RecordProofs ---------------------------
(***************************************************************************)
(* Theorems about the two records of a run.  The JSONL sink, for any       *)
(* number of runs that share a RunID and any number of events; the SQLite  *)
(* event store, for any number of processes and goroutines, any builds and *)
(* any payloads, wherever processes die.                                   *)
(***************************************************************************)
EXTENDS JSONLSink, EventStore, SequenceTheorems, FiniteSetTheorems, TLAPS

\* An entry of the table is retired.
LEMMA RetiredEntry ==
    ASSUME NEW s \in Seq(BOOLEAN), NEW k \in 1..Len(s)
    PROVE  /\ [s EXCEPT ![k] = FALSE] \in Seq(BOOLEAN)
           /\ Len([s EXCEPT ![k] = FALSE]) = Len(s)
           /\ ~[s EXCEPT ![k] = FALSE][k]
           /\ \A i \in 1..Len(s) : i # k => [s EXCEPT ![k] = FALSE][i] = s[i]
  <1>1. FALSE \in BOOLEAN
    OBVIOUS
  <1>2. [s EXCEPT ![k] = FALSE] \in Seq(BOOLEAN)
    BY <1>1, ExceptSeq, Zenon
  <1>3. Len([s EXCEPT ![k] = FALSE]) = Len(s)
    <2>1. /\ Len([s EXCEPT ![k] = FALSE]) \in Nat
          /\ DOMAIN [s EXCEPT ![k] = FALSE] = 1..Len([s EXCEPT ![k] = FALSE])
      BY <1>2, LenProperties, Zenon
    <2>2. Len(s) \in Nat /\ DOMAIN s = 1..Len(s)
      BY LenProperties, Zenon
    <2>3. 1..Len([s EXCEPT ![k] = FALSE]) = 1..Len(s)
      BY <2>1, <2>2, Zenon
    <2>4. \A m, n \in Nat : 1..m = 1..n => m = n
      BY SMT
    <2> QED BY <2>1, <2>2, <2>3, <2>4, Zenon
  <1>4. \A j \in 1..Len(s) : [s EXCEPT ![k] = FALSE][j] = IF j = k THEN FALSE ELSE s[j]
    <2>1. DOMAIN s = 1..Len(s)
      BY LenProperties, Zenon
    <2> QED BY <2>1, Zenon
  <1>5. [s EXCEPT ![k] = FALSE][k] = FALSE
    BY <1>4, Zenon
  <1>6. \A i \in 1..Len(s) : i # k => [s EXCEPT ![k] = FALSE][i] = s[i]
    BY <1>4, Zenon
  <1> QED BY <1>2, <1>3, <1>5, <1>6, Zenon

\* A file of one line.
LEMMA OneLine ==
    ASSUME NEW line \in Line
    PROVE  Append(<<>>, line) \in Seq(Line)
  <1>1. <<>> \in Seq(Line)
    BY EmptySeq
  <1> QED BY <1>1, AppendProperties, Zenon

\* Every line of this process is written by an append.
LEMMA LinesOnlyAppended ==
    ASSUME SinkTypeOK, [Next]_vars
    PROVE  file' = file \/ \E line \in Line : file' = Append(file, line)
  <1>1. CASE UNCHANGED vars
    BY <1>1 DEF vars, fileVars
  <1>2. ASSUME NEW r \in Runs, Start(r)
        PROVE  file' = file \/ \E line \in Line : file' = Append(file, line)
    <2>1. <<r, "main", "start">> \in Line
      BY DEF Line, Roles, Kinds
    <2> QED BY <1>2, <2>1 DEF Start, Poison, RefuseStart, FailCreate, Create, fileVars
  <1>3. ASSUME NEW r \in Runs, NEW role \in Roles, LookUp(r, role) \/ Write(r, role)
        PROVE  file' = file \/ \E line \in Line : file' = Append(file, line)
    <2>1. <<r, role, "event">> \in Line
      BY DEF Line, Kinds
    <2> QED BY <1>3, <2>1 DEF LookUp, Write, fileVars
  <1>4. ASSUME NEW r \in Runs, Finalize(r) \/ WriteAndRetire(r)
        PROVE  file' = file \/ \E line \in Line : file' = Append(file, line)
    <2>1. <<r, "main", "finalize">> \in Line
      BY DEF Line, Roles, Kinds
    <2> QED BY <1>4, <2>1 DEF Finalize, WriteAndRetire, fileVars
  <1> QED BY <1>1, <1>2, <1>3, <1>4 DEF Next

\* The lookup and the file are untouched by a refused, duplicate or failed Start.
LEMMA StartRetires ==
    ASSUME SinkInv, NEW r \in Runs, phase[r] = "new",
           phase' = [phase EXCEPT ![r] = "open"], UNCHANGED <<at, emitted>>,
           Poison(r) \/ RefuseStart(r) \/ FailCreate(r)
    PROVE  SinkInv'
  <1>1. CASE Poison(r)
    <2>1. /\ entries' \in Seq(BOOLEAN) /\ Len(entries') = Len(entries)
          /\ ~entries'[table]
          /\ \A i \in 1..Len(entries) : i # table => entries'[i] = entries[i]
      <3>1. entries \in Seq(BOOLEAN) /\ table \in 1..Len(entries)
        BY <1>1 DEF Poison, SinkInv, SinkTypeOK
      <3>2. entries' = [entries EXCEPT ![table] = FALSE]
        BY <1>1 DEF Poison
      <3> QED BY <3>1, <3>2, RetiredEntry, Zenon
    <2>2. UNCHANGED <<table, file, exists, owner, before>>
      BY <1>1 DEF Poison, fileVars
    <2>3. SinkTypeOK'
      BY <2>1, <2>2 DEF SinkInv, SinkTypeOK
    <2>4. OneLiveEntry'
      BY <2>1, <2>2 DEF SinkInv, OneLiveEntry
    <2>5. ReachedByWriters'
      <3>1. table \in 0..Len(entries) /\ Len(entries) \in Nat
        BY DEF SinkInv, SinkTypeOK
      <3>2. \A q \in Runs, role \in Roles : at[q][role].entry \in 0..Len(entries)
        BY DEF SinkInv, SinkTypeOK
      <3>3. ~Live(table)'
        BY <2>1, <2>2, Zenon DEF Live
      <3>4. \A q \in Runs, role \in Roles :
               Live(at[q][role].entry)' => Live(at[q][role].entry)
        <4> SUFFICES ASSUME NEW q \in Runs, NEW role \in Roles, Live(at[q][role].entry)'
                     PROVE  Live(at[q][role].entry)
          OBVIOUS
        <4>1. at[q][role].entry # 0 /\ entries'[at[q][role].entry]
          BY DEF Live
        <4>2. at[q][role].entry # table
          BY <2>1, <4>1
        <4>3. at[q][role].entry \in 1..Len(entries)
          BY <3>1, <3>2, <4>1
        <4> QED BY <2>1, <4>1, <4>2, <4>3 DEF Live
      <3> QED BY <2>2, <3>3, <3>4 DEF SinkInv, ReachedByWriters, Writers
    <2>6. FinalizeAlone'
      BY <2>2 DEF SinkInv, FinalizeAlone
    <2>7. EndIsFinal' /\ OneRunPerFile' /\ FileShape'
      BY <2>1, <2>2 DEF SinkInv, EndIsFinal, OneRunPerFile, FileShape
    <2> QED BY <2>3, <2>4, <2>5, <2>6, <2>7 DEF SinkInv
  <1>2. CASE RefuseStart(r)
    <2>1. UNCHANGED <<table, entries, file, exists, owner, before>> /\ table = 0
      BY <1>2 DEF RefuseStart, fileVars
    <2>2. SinkTypeOK'
      BY <2>1 DEF SinkInv, SinkTypeOK
    <2>3. ReachedByWriters'
      BY <2>1 DEF SinkInv, ReachedByWriters, Live, Writers
    <2>4. OneLiveEntry' /\ FinalizeAlone' /\ EndIsFinal' /\ OneRunPerFile' /\ FileShape'
      BY <2>1 DEF SinkInv, OneLiveEntry, FinalizeAlone, EndIsFinal, OneRunPerFile, FileShape
    <2> QED BY <2>2, <2>3, <2>4 DEF SinkInv
  <1>3. CASE FailCreate(r)
    <2>1. UNCHANGED <<file, exists, owner, before>> /\ table = 0
      BY <1>3 DEF FailCreate, fileVars
    <2>2. /\ entries' \in Seq(BOOLEAN) /\ Len(entries') = Len(entries) + 1
          /\ table' = Len(entries) + 1 /\ Len(entries) \in Nat
          /\ \A i \in 1..Len(entries) : entries'[i] = entries[i]
          /\ entries'[table'] = FALSE
      BY <1>3 DEF FailCreate, Install, SinkInv, SinkTypeOK
    <2>3. \A q \in Runs, role \in Roles : at[q][role].entry \in 0..Len(entries)
      BY DEF SinkInv, SinkTypeOK
    <2>4. SinkTypeOK'
      BY <2>1, <2>2 DEF SinkInv, SinkTypeOK
    <2>5. OneLiveEntry'
      BY <2>1, <2>2 DEF SinkInv, OneLiveEntry
    <2>6. ReachedByWriters'
      BY <2>1, <2>2, <2>3 DEF SinkInv, ReachedByWriters, Live, Writers
    <2>7. FinalizeAlone'
      BY <2>2, <2>3 DEF SinkInv, FinalizeAlone, Roles
    <2>8. EndIsFinal' /\ OneRunPerFile' /\ FileShape'
      BY <2>1, <2>2 DEF SinkInv, EndIsFinal, OneRunPerFile, FileShape
    <2> QED BY <2>4, <2>5, <2>6, <2>7, <2>8 DEF SinkInv
  <1> QED BY <1>1, <1>2, <1>3

\* A created file is empty but for its Start, and its entry is the only live one.
LEMMA CreateKeeps ==
    ASSUME SinkInv, NEW r \in Runs, phase[r] = "new",
           phase' = [phase EXCEPT ![r] = "open"], UNCHANGED <<at, emitted>>, Create(r)
    PROVE  SinkInv'
  <1>1. table = 0 /\ exists = FALSE /\ exists' = TRUE /\ file = <<>>
    BY DEF Create, Creates, SinkInv, SinkTypeOK, OneLiveEntry
  <1>2. owner' = r /\ before' = {q \in Runs : phase[q] # "new"}
    BY DEF Create, Creates
  <1>3. /\ entries' \in Seq(BOOLEAN) /\ Len(entries') = Len(entries) + 1
        /\ table' = Len(entries) + 1 /\ Len(entries) \in Nat
        /\ \A i \in 1..Len(entries) : entries'[i] = entries[i]
    BY DEF Create, Install, SinkInv, SinkTypeOK
  <1>4. \A i \in 1..Len(entries) : ~entries'[i]
    BY <1>1, <1>3 DEF SinkInv, OneLiveEntry
  <1>5. file' = Append(<<>>, <<r, "main", "start">>) \/ file' = <<>>
    BY <1>1 DEF Create
  <1>6. \A q \in Runs, role \in Roles : at[q][role].entry \in 0..Len(entries)
    BY DEF SinkInv, SinkTypeOK
  <1>7. SinkTypeOK'
    <2>1. file' \in Seq(Line)
      <3>1. <<r, "main", "start">> \in Line
        BY DEF Line, Roles, Kinds
      <3> QED BY <1>5, <3>1, OneLine, EmptySeq, Zenon
    <2> QED BY <1>1, <1>2, <1>3, <2>1 DEF SinkInv, SinkTypeOK
  <1>8. OneLiveEntry'
    BY <1>1, <1>3, <1>4 DEF OneLiveEntry
  <1>9. ReachedByWriters'
    <2>1. \A q \in Runs : phase'[q] # "new" => q \in Writers'
      BY <1>2 DEF Writers, SinkInv, SinkTypeOK
    <2>2. \A q \in Runs, role \in Roles : ~Live(at[q][role].entry)'
      BY <1>4, <1>6 DEF Live
    <2> QED BY <2>1, <2>2 DEF ReachedByWriters, SinkInv
  <1>10. FinalizeAlone'
    BY <1>3, <1>6 DEF SinkInv, FinalizeAlone, Roles
  <1>11. EndIsFinal' /\ OneRunPerFile' /\ FileShape'
    <2>1. \/ Len(file') = 0
          \/ Len(file') = 1 /\ file'[1] = <<r, "main", "start">>
      BY <1>5
    <2> QED BY <1>2, <2>1 DEF EndIsFinal, OneRunPerFile, FileShape
  <1> QED BY <1>7, <1>8, <1>9, <1>10, <1>11 DEF SinkInv

\* An event finds the RunID's entry, or is reported.
LEMMA LookUpKeeps ==
    ASSUME SinkInv, NEW r \in Runs, NEW role \in Roles, LookUp(r, role)
    PROVE  SinkInv'
  <1>1. UNCHANGED <<table, entries, file, exists, owner, before, phase>>
    BY DEF LookUp, fileVars
  <1>2. CASE table = 0
    <2>1. UNCHANGED at
      BY <1>2 DEF LookUp
    <2> QED BY <1>1, <2>1 DEF SinkInv, SinkTypeOK, OneLiveEntry, ReachedByWriters, Live, Writers,
                             FinalizeAlone, EndIsFinal, OneRunPerFile, FileShape
  <1>3. CASE table # 0
    <2>1. at' = [at EXCEPT ![r][role] = [entry |-> table, kind |-> "event"]]
      BY <1>3 DEF LookUp
    <2>2. /\ at'[r][role] = [entry |-> table, kind |-> "event"]
          /\ \A q \in Runs, other \in Roles :
                q # r \/ other # role => at'[q][other] = at[q][other]
      BY <2>1 DEF SinkInv, SinkTypeOK
    <2>3. SinkTypeOK'
      BY <1>1, <2>1 DEF SinkInv, SinkTypeOK
    <2>4. ReachedByWriters'
      <3>1. phase[r] # "new"
        BY DEF LookUp
      <3> QED BY <1>1, <1>3, <2>2, <3>1 DEF SinkInv, ReachedByWriters, Live, Writers
    <2>5. FinalizeAlone'
      <3>1. \A q \in Runs : at'[q]["main"].kind = "finalize" => at'[q]["main"] = at[q]["main"]
        BY <2>2 DEF Roles
      <3> QED BY <1>1, <3>1 DEF SinkInv, FinalizeAlone
    <2>6. OneLiveEntry' /\ EndIsFinal' /\ OneRunPerFile' /\ FileShape'
      BY <1>1 DEF SinkInv, OneLiveEntry, EndIsFinal, OneRunPerFile, FileShape
    <2> QED BY <2>3, <2>4, <2>5, <2>6 DEF SinkInv
  <1> QED BY <1>2, <1>3

\* A goroutine that lets go of its entry, which stays as it is or is retired.
LEMMA LettingGo ==
    ASSUME SinkInv, NEW r \in Runs, NEW role \in Roles,
           at' = [at EXCEPT ![r][role] = Idle],
           entries' \in Seq(BOOLEAN), Len(entries') = Len(entries),
           \A i \in 1..Len(entries) : entries'[i] => entries[i],
           UNCHANGED <<table, exists, owner, before, phase>>
    PROVE  /\ ReachedByWriters' /\ FinalizeAlone'
           /\ at' \in [Runs -> [Roles -> [entry : 0..Len(entries),
                                          kind : {"none", "event", "finalize"}]]]
  <1>1. /\ at'[r][role] = Idle
        /\ \A q \in Runs, other \in Roles :
              q # r \/ other # role => at'[q][other] = at[q][other]
    BY DEF SinkInv, SinkTypeOK
  <1>2. \A q \in Runs, other \in Roles : at[q][other].entry \in 0..Len(entries)
    BY DEF SinkInv, SinkTypeOK
  <1>3. table \in 0..Len(entries) /\ Len(entries) \in Nat
    BY DEF SinkInv, SinkTypeOK
  <1>4. ReachedByWriters'
    <2>1. \A q \in Runs : phase'[q] # "new" /\ Live(table)' => q \in Writers'
      BY <1>3 DEF SinkInv, ReachedByWriters, Live, Writers
    <2>2. \A q \in Runs, other \in Roles : Live(at[q][other].entry)' => q \in Writers'
      BY <1>1, <1>2, <1>3 DEF SinkInv, ReachedByWriters, Live, Writers, Idle
    <2>3. \A q \in Runs, other \in Roles : at'[q][other].kind # "none" => at'[q][other].entry # 0
      BY <1>1 DEF SinkInv, ReachedByWriters, Idle
    <2> QED BY <2>1, <2>2, <2>3 DEF ReachedByWriters
  <1>5. FinalizeAlone'
    <2>1. \A q \in Runs : at'[q]["main"].kind = "finalize" => at'[q]["main"] = at[q]["main"]
      BY <1>1 DEF Roles, Idle
    <2> QED BY <2>1 DEF SinkInv, FinalizeAlone
  <1>6. at' \in [Runs -> [Roles -> [entry : 0..Len(entries),
                                    kind : {"none", "event", "finalize"}]]]
    BY <1>3 DEF SinkInv, SinkTypeOK, Idle
  <1> QED BY <1>4, <1>5, <1>6

\* What a goroutine with a live entry appends: by a writer, and behind no Finalize.
LEMMA AppendKeeps ==
    ASSUME SinkInv, NEW r \in Runs, NEW role \in Roles, NEW kind \in {"event", "finalize"},
           Live(at[r][role].entry), file' = Append(file, <<r, role, kind>>),
           UNCHANGED <<exists, owner, before>>
    PROVE  /\ exists
           /\ file' \in Seq(Line) /\ Len(file') = Len(file) + 1 /\ Len(file) \in Nat
           /\ \A i \in 1..Len(file) : file'[i] = file[i] /\ file[i][3] # "finalize"
           /\ file'[Len(file) + 1] = <<r, role, kind>>
           /\ OneRunPerFile' /\ FileShape'
  <1>1. at[r][role].entry \in 1..Len(entries) /\ entries[at[r][role].entry]
    BY DEF Live, SinkInv, SinkTypeOK
  <1>2. exists
    BY <1>1 DEF SinkInv, OneLiveEntry
  <1>3. <<r, role, kind>> \in Line
    BY DEF Line, Kinds
  <1>4. /\ file' \in Seq(Line) /\ Len(file') = Len(file) + 1 /\ Len(file) \in Nat
        /\ \A i \in 1..Len(file) : file'[i] = file[i]
        /\ file'[Len(file) + 1] = <<r, role, kind>>
    BY <1>3 DEF SinkInv, SinkTypeOK
  <1>5. \A i \in 1..Len(file) : file[i][3] # "finalize"
    BY <1>1 DEF SinkInv, EndIsFinal
  <1>6. r \in Writers
    BY DEF SinkInv, ReachedByWriters
  <1>7. OneRunPerFile'
    BY <1>4, <1>6 DEF SinkInv, OneRunPerFile, Writers
  <1>8. FileShape'
    BY <1>4, <1>5 DEF SinkInv, FileShape
  <1> QED BY <1>2, <1>4, <1>5, <1>7, <1>8

\* An event is written under a live entry and dropped under a retired one.
LEMMA WriteKeeps ==
    ASSUME SinkInv, NEW r \in Runs, NEW role \in Roles, Write(r, role)
    PROVE  SinkInv'
  <1>1. /\ UNCHANGED <<table, entries, exists, owner, before, phase>>
        /\ at' = [at EXCEPT ![r][role] = Idle]
        /\ at[r][role].kind = "event"
    BY DEF Write
  <1>2. /\ ReachedByWriters' /\ FinalizeAlone'
        /\ at' \in [Runs -> [Roles -> [entry : 0..Len(entries),
                                       kind : {"none", "event", "finalize"}]]]
    <2>1. entries' \in Seq(BOOLEAN)
      BY <1>1 DEF SinkInv, SinkTypeOK
    <2> QED BY <1>1, <2>1, LettingGo
  <1>3. CASE file' = file
    BY <1>1, <1>2, <1>3 DEF SinkInv, SinkTypeOK, OneLiveEntry, EndIsFinal, OneRunPerFile, FileShape
  <1>4. CASE entries[at[r][role].entry] /\ file' = Append(file, <<r, role, "event">>)
    <2>1. Live(at[r][role].entry)
      BY <1>1, <1>4 DEF Live, SinkInv, ReachedByWriters
    <2>2. /\ exists
          /\ file' \in Seq(Line) /\ Len(file') = Len(file) + 1 /\ Len(file) \in Nat
          /\ \A i \in 1..Len(file) : file'[i] = file[i] /\ file[i][3] # "finalize"
          /\ file'[Len(file) + 1] = <<r, role, "event">>
          /\ OneRunPerFile' /\ FileShape'
      BY <1>1, <1>4, <2>1, AppendKeeps
    <2>3. SinkTypeOK'
      BY <1>1, <1>2, <2>2 DEF SinkInv, SinkTypeOK
    <2>4. OneLiveEntry'
      BY <1>1, <2>2 DEF SinkInv, OneLiveEntry
    <2>5. EndIsFinal'
      BY <2>2 DEF EndIsFinal
    <2> QED BY <1>2, <2>2, <2>3, <2>4, <2>5 DEF SinkInv
  <1> QED BY <1>3, <1>4 DEF Write

\* A Finalize takes the entry out of the table and keeps it for itself.
LEMMA FinalizeKeeps ==
    ASSUME SinkInv, NEW r \in Runs, Finalize(r)
    PROVE  SinkInv'
  <1>1. /\ UNCHANGED <<entries, file, exists, owner, before>> /\ table' = 0
        /\ phase[r] = "open" /\ phase' = [phase EXCEPT ![r] = "closed"]
    BY DEF Finalize, fileVars
  <1>2. OneLiveEntry' /\ EndIsFinal' /\ OneRunPerFile' /\ FileShape'
    BY <1>1 DEF SinkInv, OneLiveEntry, EndIsFinal, OneRunPerFile, FileShape
  <1>3. CASE table = 0
    <2>1. UNCHANGED at
      BY <1>3 DEF Finalize
    <2>2. SinkTypeOK'
      BY <1>1, <2>1 DEF SinkInv, SinkTypeOK
    <2>3. ReachedByWriters' /\ FinalizeAlone'
      BY <1>1, <1>3, <2>1 DEF SinkInv, ReachedByWriters, FinalizeAlone, Live, Writers
    <2> QED BY <1>2, <2>2, <2>3 DEF SinkInv
  <1>4. CASE table # 0
    <2>1. at' = [at EXCEPT ![r]["main"] = [entry |-> table, kind |-> "finalize"]]
      BY <1>4 DEF Finalize
    <2>2. /\ at'[r]["main"] = [entry |-> table, kind |-> "finalize"]
          /\ \A q \in Runs, other \in Roles :
                q # r \/ other # "main" => at'[q][other] = at[q][other]
      BY <2>1 DEF SinkInv, SinkTypeOK, Roles
    <2>3. SinkTypeOK'
      <3>1. [entry |-> table, kind |-> "finalize"]
                \in [entry : 0..Len(entries), kind : {"none", "event", "finalize"}]
        BY DEF SinkInv, SinkTypeOK
      <3>2. at' \in [Runs -> [Roles -> [entry : 0..Len(entries),
                                       kind : {"none", "event", "finalize"}]]]
        BY <2>1, <3>1 DEF SinkInv, SinkTypeOK, Roles
      <3>3. 0 \in 0..Len(entries)
        BY DEF SinkInv, SinkTypeOK
      <3>4. phase' \in [Runs -> {"new", "open", "closed"}]
        BY <1>1 DEF SinkInv, SinkTypeOK
      <3> QED BY <1>1, <3>2, <3>3, <3>4 DEF SinkInv, SinkTypeOK
    <2>4. ReachedByWriters'
      <3>1. \A q \in Runs, other \in Roles : Live(at[q][other].entry)' => q \in Writers'
        BY <1>1, <1>4, <2>2 DEF SinkInv, ReachedByWriters, Live, Writers, Roles
      <3>2. \A q \in Runs, other \in Roles :
               at'[q][other].kind # "none" => at'[q][other].entry # 0
        BY <1>4, <2>2 DEF SinkInv, ReachedByWriters, Roles
      <3> QED BY <1>1, <3>1, <3>2 DEF ReachedByWriters, Live
    <2>5. FinalizeAlone'
      <3>1. \A q \in Runs \ {r} : at'[q]["main"] = at[q]["main"]
        BY <2>2 DEF Roles
      <3>2. \A q \in Runs :
               at'[q]["main"].kind = "finalize" => at'[q]["main"].entry # 0
        BY <1>4, <2>2, <3>1 DEF SinkInv, ReachedByWriters, Roles
      <3> QED BY <1>1, <2>2, <3>1, <3>2 DEF SinkInv, FinalizeAlone
    <2> QED BY <1>2, <2>3, <2>4, <2>5 DEF SinkInv
  <1> QED BY <1>3, <1>4

\* The last line is written in the step that retires the entry.
LEMMA WriteAndRetireKeeps ==
    ASSUME SinkInv, NEW r \in Runs, WriteAndRetire(r)
    PROVE  SinkInv'
  <1>1. /\ UNCHANGED <<table, exists, owner, before, phase>>
        /\ at' = [at EXCEPT ![r]["main"] = Idle]
        /\ at[r]["main"].kind = "finalize"
        /\ "main" \in Roles
    BY DEF WriteAndRetire, Roles
  <1> DEFINE e == at[r]["main"].entry
  <1>2. e \in 1..Len(entries)
    BY <1>1 DEF SinkInv, SinkTypeOK, ReachedByWriters
  <1>3. /\ entries' \in Seq(BOOLEAN) /\ Len(entries') = Len(entries)
        /\ ~entries'[e]
        /\ \A i \in 1..Len(entries) : i # e => entries'[i] = entries[i]
    <2>1. entries \in Seq(BOOLEAN) /\ entries' = [entries EXCEPT ![e] = FALSE]
      BY DEF WriteAndRetire, SinkInv, SinkTypeOK
    <2> QED BY <1>2, <2>1, RetiredEntry, Zenon
  <1>4. /\ ReachedByWriters' /\ FinalizeAlone'
        /\ at' \in [Runs -> [Roles -> [entry : 0..Len(entries),
                                       kind : {"none", "event", "finalize"}]]]
    <2>1. \A i \in 1..Len(entries) : entries'[i] => entries[i]
      BY <1>3
    <2> QED BY <1>1, <1>3, <2>1, LettingGo
  <1>5. CASE file' = file
    <2>1. SinkTypeOK'
      BY <1>1, <1>3, <1>4, <1>5 DEF SinkInv, SinkTypeOK
    <2>2. OneLiveEntry'
      BY <1>1, <1>3, <1>5 DEF SinkInv, OneLiveEntry
    <2>3. EndIsFinal' /\ OneRunPerFile' /\ FileShape'
      BY <1>1, <1>3, <1>5 DEF SinkInv, EndIsFinal, OneRunPerFile, FileShape
    <2> QED BY <1>4, <2>1, <2>2, <2>3 DEF SinkInv
  <1>6. CASE entries[e] /\ file' = Append(file, <<r, "main", "finalize">>)
    <2>1. Live(e)
      BY <1>2, <1>6 DEF Live
    <2>2. /\ exists
          /\ file' \in Seq(Line) /\ Len(file') = Len(file) + 1 /\ Len(file) \in Nat
          /\ OneRunPerFile' /\ FileShape'
      BY <1>1, <1>6, <2>1, AppendKeeps
    <2>3. SinkTypeOK'
      BY <1>1, <1>3, <1>4, <2>2 DEF SinkInv, SinkTypeOK
    <2>4. OneLiveEntry'
      BY <1>1, <1>3, <2>2 DEF SinkInv, OneLiveEntry
    <2>5. \A i \in 1..Len(entries) : ~entries'[i]
      BY <1>2, <1>3, <1>6 DEF SinkInv, OneLiveEntry
    <2>6. EndIsFinal'
      BY <1>3, <2>5 DEF EndIsFinal
    <2> QED BY <1>4, <2>2, <2>3, <2>4, <2>6 DEF SinkInv
  <1> QED BY <1>5, <1>6 DEF WriteAndRetire

(***************************************************************************)
(* The invariant behind the properties of the file: one live entry, which  *)
(* the file belongs to, within reach of its writers only (admit, appendRun *)
(* and finalizeRun together).                                              *)
(***************************************************************************)
THEOREM SinkInvariant == Spec => []SinkInv
  <1>1. Init => SinkInv
    <2> SUFFICES ASSUME Init PROVE SinkInv
      OBVIOUS
    <2>1. entries = <<>> /\ table = 0 /\ Len(entries) = 0 /\ exists \in BOOLEAN
      BY DEF Init
    <2>2. \A r \in Runs, role \in Roles : at[r][role] = Idle
      BY DEF Init
    <2>3. file = <<>> \/ (exists /\ file = Append(<<>>, <<Earlier, "main", "start">>))
      BY DEF Init
    <2>4. SinkTypeOK
      <3>1. file \in Seq(Line)
        <4>1. <<Earlier, "main", "start">> \in Line
          BY DEF Line, Roles, Kinds
        <4> QED BY <2>3, <4>1, OneLine, EmptySeq, Zenon
      <3>2. at \in [Runs -> [Roles -> [entry : 0..Len(entries),
                                       kind : {"none", "event", "finalize"}]]]
        BY <2>1 DEF Init, Idle
      <3> QED BY <2>1, <3>1, <3>2 DEF Init, SinkTypeOK
    <2>5. OneLiveEntry /\ EndIsFinal /\ OneRunPerFile /\ FileShape
      <3>1. \/ Len(file) = 0 /\ file = <<>>
            \/ exists /\ Len(file) = 1 /\ file[1] = <<Earlier, "main", "start">>
        BY <2>3
      <3>2. owner = Earlier
        BY DEF Init
      <3> QED BY <2>1, <3>1, <3>2 DEF OneLiveEntry, EndIsFinal, OneRunPerFile, FileShape
    <2>6. ReachedByWriters /\ FinalizeAlone
      BY <2>1, <2>2 DEF ReachedByWriters, FinalizeAlone, Live, Idle, Roles
    <2> QED BY <2>4, <2>5, <2>6 DEF SinkInv
  <1>2. SinkInv /\ [Next]_vars => SinkInv'
    <2> SUFFICES ASSUME SinkInv, [Next]_vars PROVE SinkInv'
      OBVIOUS
    <2>1. CASE UNCHANGED vars
      BY <2>1 DEF vars, fileVars, SinkInv, SinkTypeOK, OneLiveEntry, ReachedByWriters, Live,
                  Writers, FinalizeAlone, EndIsFinal, OneRunPerFile, FileShape
    <2>2. ASSUME NEW r \in Runs, Start(r) PROVE SinkInv'
      BY <2>2, StartRetires, CreateKeeps DEF Start
    <2>3. ASSUME NEW r \in Runs, NEW role \in Roles, LookUp(r, role) \/ Write(r, role)
          PROVE  SinkInv'
      BY <2>3, LookUpKeeps, WriteKeeps
    <2>4. ASSUME NEW r \in Runs, Finalize(r) \/ WriteAndRetire(r) PROVE SinkInv'
      BY <2>4, FinalizeKeeps, WriteAndRetireKeeps
    <2> QED BY <2>1, <2>2, <2>3, <2>4 DEF Next
  <1> QED BY <1>1, <1>2, PTL DEF Spec

(***************************************************************************)
(* No run that starts with the RunID of an existing file ever writes into  *)
(* it, for any number of runs (JSONLSink.admit and jsonlRun.write).        *)
(***************************************************************************)
THEOREM FileOfOneRun == Spec => []OneRunPerFile
  <1>1. SinkInv => OneRunPerFile
    BY DEF SinkInv
  <1> QED BY <1>1, SinkInvariant, PTL

(***************************************************************************)
(* A file begins with its only Start and ends with its Finalize, although  *)
(* lookups and writes hold different locks (jsonlRun.writeAndRetire).      *)
(***************************************************************************)
THEOREM FileInShape == Spec => []FileShape
  <1>1. SinkInv => FileShape
    BY DEF SinkInv
  <1> QED BY <1>1, SinkInvariant, PTL

(***************************************************************************)
(* What is on disk stays: no admission truncates and no write overwrites   *)
(* (O_EXCL and O_APPEND in JSONLSink.admit).                               *)
(***************************************************************************)
THEOREM RecordsKept == Spec => RecordsSurvive
  <1>1. SinkInv /\ [Next]_vars
            => [Len(file) <= Len(file') /\ SubSeq(file', 1, Len(file)) = file]_vars
    <2> SUFFICES ASSUME SinkInv, [Next]_vars
                 PROVE  Len(file) <= Len(file') /\ SubSeq(file', 1, Len(file)) = file
      OBVIOUS
    <2>1. file \in Seq(Line) /\ SinkTypeOK
      BY DEF SinkInv, SinkTypeOK
    <2>2. CASE file' = file
      BY <2>1, <2>2
    <2>3. CASE \E line \in Line : file' = Append(file, line)
      <3> PICK line \in Line : file' = Append(file, line)
        BY <2>3
      <3> QED BY <2>1
    <2> QED BY <2>1, <2>2, <2>3, LinesOnlyAppended
  <1> QED BY <1>1, SinkInvariant, PTL DEF Spec, RecordsSurvive

(***************************************************************************)
(* A Finalize that has found its entry writes its last line if the entry   *)
(* was live: neither a duplicate Start nor another Finalize comes between  *)
(* (the delete under the sink lock in finalizeRun).                        *)
(***************************************************************************)
THEOREM FinalizeNotDisturbed == Spec => FinalizeUndisturbed
  <1> DEFINE Step == \A r \in Runs :
                LET last == at[r]["main"]
                IN  last.kind = "finalize" /\ entries[last.entry] /\ at'[r]["main"] = last
                        => entries'[last.entry]
  <1>1. SinkInv /\ [Next]_vars => Step
    <2> SUFFICES ASSUME SinkInv, [Next]_vars, NEW r \in Runs,
                        at[r]["main"].kind = "finalize", entries[at[r]["main"].entry],
                        at'[r]["main"] = at[r]["main"]
                 PROVE  entries'[at[r]["main"].entry]
      OBVIOUS
    <2> DEFINE e == at[r]["main"].entry
    <2>1. e \in 1..Len(entries) /\ e # table /\ "main" \in Roles
      BY DEF SinkInv, SinkTypeOK, ReachedByWriters, FinalizeAlone, Roles
    <2>2. entries \in Seq(BOOLEAN) /\ table \in 0..Len(entries) /\ Len(entries) \in Nat
      BY DEF SinkInv, SinkTypeOK
    <2>3. CASE UNCHANGED vars
      BY <2>3 DEF vars
    <2>4. ASSUME NEW q \in Runs, Start(q) PROVE entries'[e]
      <3>1. CASE entries' = [entries EXCEPT ![table] = FALSE]
        BY <2>1, <2>2, <3>1
      <3>2. CASE \E live \in BOOLEAN : entries' = Append(entries, live)
        BY <2>1, <2>2, <3>2
      <3>3. CASE entries' = entries
        BY <3>3
      <3> QED BY <2>4, <3>1, <3>2, <3>3
              DEF Start, Poison, RefuseStart, FailCreate, Create, Install
    <2>5. ASSUME NEW q \in Runs, NEW role \in Roles, LookUp(q, role) \/ Write(q, role)
          PROVE  entries'[e]
      BY <2>5 DEF LookUp, Write
    <2>6. ASSUME NEW q \in Runs, Finalize(q) PROVE entries'[e]
      BY <2>6 DEF Finalize
    <2>7. ASSUME NEW q \in Runs, WriteAndRetire(q) PROVE entries'[e]
      <3>1. q # r
        <4>1. at'[q]["main"].kind = "none" /\ at[q]["main"].kind = "finalize"
          BY <2>1, <2>7 DEF WriteAndRetire, Idle, SinkInv, SinkTypeOK
        <4> QED BY <4>1
      <3>2. at[q]["main"].entry # e
        BY <2>7, <3>1 DEF WriteAndRetire, SinkInv, FinalizeAlone
      <3>3. at[q]["main"].entry \in 0..Len(entries)
        BY <2>1 DEF SinkInv, SinkTypeOK
      <3>4. entries' = [entries EXCEPT ![at[q]["main"].entry] = FALSE]
        BY <2>7 DEF WriteAndRetire
      <3> QED BY <2>1, <2>2, <3>2, <3>3, <3>4
    <2> QED BY <2>3, <2>4, <2>5, <2>6, <2>7 DEF Next
  <1> QED BY <1>1, SinkInvariant, PTL DEF Spec, FinalizeUndisturbed

----------------------------------------------------------------------------
(***************************************************************************)
(* Nothing is lost in silence.  A run that created the file first of all,  *)
(* with no word to onErr of it or of a duplicate, is alone until it closes *)
(* (a Start meanwhile would be a duplicate), so its entry stays live and   *)
(* in the table; when it closes, the pending Finalize takes the live entry *)
(* with it.  Up to then each event of its loop is a line or on its way.    *)
(***************************************************************************)

\* The runs that NoSilentLoss speaks of.
Unreported(r) ==
    /\ owner = r /\ before = {}
    /\ \A report \in reports : report[1] # r /\ report[2] # "duplicate"

EventLines(f, r) == {i \in 1..Len(f) : f[i] = <<r, "main", "event">>}

OnItsWay(r) == IF at[r]["main"].kind = "event" THEN 1 ELSE 0

KeptSoFar(r) ==
    /\ phase[r] = "open" =>
        /\ \A q \in Runs \ {r} : phase[q] = "new"
        /\ table # 0 /\ entries[table]
        /\ at[r]["main"].kind \in {"none", "event"}
        /\ at[r]["main"].kind = "event" => at[r]["main"].entry = table
    /\ phase[r] = "closed" /\ at[r]["main"] # Idle =>
        at[r]["main"].kind = "finalize" /\ entries[at[r]["main"].entry]
    /\ phase[r] = "closed" /\ at[r]["main"] = Idle =>
        Len(file) > 0 /\ file[Len(file)] = <<r, "main", "finalize">>
    /\ Cardinality(EventLines(file, r)) + OnItsWay(r) = emitted[r]["main"]

LossInv ==
    /\ emitted \in [Runs -> [Roles -> Nat]]
    /\ owner \in Runs => exists /\ phase[owner] # "new"
    /\ \A r \in Runs : phase[r] = "new" => at[r]["main"] = Idle /\ emitted[r]["main"] = 0
    /\ \A r \in Runs : Unreported(r) => KeptSoFar(r)

\* The events of a run in a file are counted line by line.
LEMMA LineCounted ==
    ASSUME NEW f \in Seq(Line), NEW line \in Line, NEW r
    PROVE  /\ Cardinality(EventLines(f, r)) \in Nat
           /\ Cardinality(EventLines(Append(f, line), r)) =
                 Cardinality(EventLines(f, r))
                     + (IF line = <<r, "main", "event">> THEN 1 ELSE 0)
  <1> DEFINE g == Append(f, line)
             E == EventLines(f, r)
  <1>1. /\ Len(f) \in Nat /\ Len(g) = Len(f) + 1 /\ g[Len(f) + 1] = line
        /\ \A i \in 1..Len(f) : g[i] = f[i]
    BY AppendProperties, LenProperties
  <1>2. IsFiniteSet(E) /\ Cardinality(E) \in Nat /\ Len(f) + 1 \notin E
    <2>1. IsFiniteSet(1..Len(f)) /\ E \subseteq 1..Len(f)
      BY <1>1, FS_Interval DEF EventLines
    <2>2. IsFiniteSet(E)
      BY <2>1, FS_Subset
    <2>3. Len(f) + 1 \notin 1..Len(f)
      BY <1>1
    <2> QED BY <2>1, <2>2, <2>3, FS_CardinalityType
  <1> HIDE DEF g
  <1>3. EventLines(g, r) = IF line = <<r, "main", "event">> THEN E \cup {Len(f) + 1} ELSE E
    <2>1. \A i : i \in 1..Len(g) <=> i \in 1..Len(f) \/ i = Len(f) + 1
      BY <1>1
    <2>2. \A i \in 1..Len(f) : g[i] = <<r, "main", "event">> <=> f[i] = <<r, "main", "event">>
      BY <1>1
    <2>3. g[Len(f) + 1] = line
      BY <1>1
    <2> QED BY <2>1, <2>2, <2>3, Zenon DEF EventLines
  <1>4. Cardinality(E \cup {Len(f) + 1}) = Cardinality(E) + 1
    <2> HIDE DEF E
    <2> QED BY <1>2, FS_AddElement
  <1> QED BY <1>2, <1>3, <1>4 DEF g

\* A file without lines, or with its Start only, has no events.
LEMMA NoEventsYet ==
    ASSUME NEW r, NEW q \in Runs
    PROVE  /\ Cardinality(EventLines(<<>>, r)) = 0
           /\ Cardinality(EventLines(Append(<<>>, <<q, "main", "start">>), r)) = 0
  <1>1. Cardinality(EventLines(<<>>, r)) = 0
    <2>1. EventLines(<<>>, r) = {}
      BY DEF EventLines
    <2> QED BY <2>1, FS_EmptySet
  <1>2. <<q, "main", "start">> \in Line /\ <<>> \in Seq(Line)
    BY DEF Line, Roles, Kinds
  <1>3. <<q, "main", "start">> # <<r, "main", "event">>
    OBVIOUS
  <1>4. Cardinality(EventLines(Append(<<>>, <<q, "main", "start">>), r)) =
            Cardinality(EventLines(<<>>, r))
                + (IF <<q, "main", "start">> = <<r, "main", "event">> THEN 1 ELSE 0)
    BY <1>2, LineCounted, Zenon
  <1>5. (IF <<q, "main", "start">> = <<r, "main", "event">> THEN 1 ELSE 0) = 0
    BY <1>3, Zenon
  <1>6. Cardinality(EventLines(Append(<<>>, <<q, "main", "start">>), r)) = 0 + 0
    BY <1>1, <1>4, <1>5, Zenon
  <1>7. 0 + 0 = 0
    OBVIOUS
  <1> QED BY <1>1, <1>6, <1>7, Zenon

\* Reports are only added, so what is unreported was so before.
LEMMA UnreportedBefore ==
    ASSUME NEW r \in Runs, Unreported(r)', UNCHANGED <<owner, before>>, reports \subseteq reports'
    PROVE  Unreported(r)
  BY DEF Unreported

\* A Start beside the run: a duplicate is reported, and nothing else touches the run.
LEMMA StartLosesNothing ==
    ASSUME SinkInv, LossInv, NEW q \in Runs, Start(q)
    PROVE  LossInv'
  <1>1. /\ phase[q] = "new" /\ phase' = [phase EXCEPT ![q] = "open"] /\ UNCHANGED <<at, emitted>>
        /\ phase \in [Runs -> {"new", "open", "closed"}]
    BY DEF Start, SinkInv, SinkTypeOK
  <1>2. phase'[q] = "open" /\ \A r \in Runs \ {q} : phase'[r] = phase[r]
    BY <1>1
  <1>3. \A r \in Runs : phase'[r] = "new" => at'[r]["main"] = Idle /\ emitted'[r]["main"] = 0
    BY <1>1, <1>2 DEF LossInv
  <1>4. emitted' \in [Runs -> [Roles -> Nat]]
    BY <1>1 DEF LossInv
  <1>5. CASE Create(q)
    <2>1. /\ exists' /\ owner' = q /\ before' = {x \in Runs : phase[x] # "new"}
          /\ ~exists /\ table' = Len(entries) + 1 /\ entries' = Append(entries, TRUE)
      BY <1>5 DEF Create, Creates, Install
    <2>2. file = <<>>
      BY <2>1 DEF SinkInv, OneLiveEntry
    <2>3. \/ file' = Append(<<>>, <<q, "main", "start">>)
          \/ <<q, "lost">> \in reports'
      BY <1>5, <2>2 DEF Create, Report
    <2>4. ASSUME NEW r \in Runs, Unreported(r)' PROVE KeptSoFar(r)'
      <3>1. r = q /\ \A x \in Runs : phase[x] = "new"
        BY <2>1, <2>4 DEF Unreported
      <3>2. file' = Append(<<>>, <<q, "main", "start">>)
        BY <2>3, <2>4, <3>1 DEF Unreported
      <3>3. Cardinality(EventLines(file', r)) = 0
        BY <3>2, NoEventsYet
      <3>4. at'[r]["main"] = Idle /\ emitted'[r]["main"] = 0
        BY <1>1, <3>1 DEF LossInv
      <3>5. table' # 0 /\ entries'[table']
        <4>1. entries \in Seq(BOOLEAN) /\ Len(entries) \in Nat
          BY DEF SinkInv, SinkTypeOK
        <4> QED BY <2>1, <4>1
      <3>6. at'[r]["main"].kind = "none" /\ OnItsWay(r)' = 0
        BY <3>4 DEF Idle, OnItsWay
      <3>7. phase'[r] = "open" /\ \A x \in Runs \ {r} : phase'[x] = "new"
        BY <1>2, <3>1
      <3> QED BY <3>3, <3>4, <3>5, <3>6, <3>7 DEF KeptSoFar
    <2> QED BY <1>2, <1>3, <1>4, <2>1, <2>4 DEF LossInv
  <1>6. CASE Poison(q) \/ RefuseStart(q) \/ FailCreate(q)
    <2>1. UNCHANGED <<file, exists, owner, before>> /\ reports \subseteq reports'
      BY <1>6 DEF Poison, RefuseStart, FailCreate, Report, fileVars
    <2>2. ASSUME NEW r \in Runs, Unreported(r)' PROVE KeptSoFar(r)'
      <3>1. Unreported(r) /\ KeptSoFar(r) /\ r # q /\ phase'[r] = phase[r] /\ owner = r
        <4>1. Unreported(r)
          BY <2>1, <2>2, UnreportedBefore
        <4>2. KeptSoFar(r) /\ owner = r /\ phase[r] # "new"
          BY <4>1 DEF LossInv, Unreported
        <4> QED BY <1>1, <1>2, <4>1, <4>2
      <3>2. ~Poison(q)
        <4>1. Poison(q) => <<q, "duplicate">> \in reports'
          BY DEF Poison, Report
        <4>2. \A report \in reports' : report[2] # "duplicate"
          BY <2>2 DEF Unreported
        <4>3. <<q, "duplicate">>[2] = "duplicate"
          OBVIOUS
        <4> QED BY <4>1, <4>2, <4>3, Zenon
      <3>3. table = 0
        BY <1>6, <3>2 DEF RefuseStart, FailCreate
      <3>4. phase[r] # "open"
        BY <3>1, <3>3 DEF KeptSoFar
      <3>5. \A i \in 1..Len(entries) : entries'[i] = entries[i]
        <4>1. entries \in Seq(BOOLEAN)
          BY DEF SinkInv, SinkTypeOK
        <4>2. CASE RefuseStart(q)
          BY <4>2 DEF RefuseStart
        <4>3. CASE FailCreate(q)
          <5>1. entries' = Append(entries, FALSE) /\ FALSE \in BOOLEAN
            BY <4>3 DEF FailCreate, Install
          <5> QED BY <4>1, <5>1, AppendProperties
        <4> QED BY <1>6, <3>2, <4>2, <4>3
      <3>6. at[r]["main"].kind = "finalize" => at[r]["main"].entry \in 1..Len(entries)
        BY DEF SinkInv, SinkTypeOK, ReachedByWriters, Roles
      <3>7. OnItsWay(r)' = OnItsWay(r) /\ file' = file
        BY <1>1, <2>1 DEF OnItsWay
      <3> QED BY <1>1, <3>1, <3>4, <3>5, <3>6, <3>7 DEF KeptSoFar
    <2>3. owner' \in Runs => exists' /\ phase'[owner'] # "new"
      BY <1>2, <2>1 DEF LossInv
    <2> QED BY <1>3, <1>4, <2>2, <2>3 DEF LossInv
  <1> QED BY <1>5, <1>6 DEF Start

\* An event is counted when it is emitted and is on its way with the live entry.
LEMMA LookUpLosesNothing ==
    ASSUME SinkInv, LossInv, NEW q \in Runs, NEW role \in Roles, LookUp(q, role)
    PROVE  LossInv'
  <1>1. /\ UNCHANGED <<table, entries, file, exists, owner, before, phase>>
        /\ reports \subseteq reports' /\ phase[q] # "new" /\ at[q][role] = Idle
        /\ role = "main" => phase[q] = "open"
    BY DEF LookUp, Report, fileVars
  <1>2. /\ emitted' = [emitted EXCEPT ![q][role] = emitted[q][role] + 1]
        /\ emitted \in [Runs -> [Roles -> Nat]]
    BY DEF LookUp, LossInv
  <1>3. /\ emitted' \in [Runs -> [Roles -> Nat]] /\ emitted'[q][role] = emitted[q][role] + 1
        /\ \A r \in Runs, other \in Roles :
              r # q \/ other # role => emitted'[r][other] = emitted[r][other]
    BY <1>2
  <1>4. /\ table = 0 => at' = at /\ <<q, "lost">> \in reports'
        /\ table # 0 => at'[q][role] = [entry |-> table, kind |-> "event"]
        /\ \A r \in Runs, other \in Roles : r # q \/ other # role => at'[r][other] = at[r][other]
    BY DEF LookUp, Report, SinkInv, SinkTypeOK
  <1>5. "main" \in Roles
    BY DEF Roles
  <1>6. \A r \in Runs : phase'[r] = "new" => at'[r]["main"] = Idle /\ emitted'[r]["main"] = 0
    BY <1>1, <1>3, <1>4, <1>5 DEF LossInv
  <1>7. ASSUME NEW r \in Runs, Unreported(r)' PROVE KeptSoFar(r)'
    <2>1. Unreported(r) /\ KeptSoFar(r)
      BY <1>1, <1>7, UnreportedBefore DEF LossInv
    <2>2. CASE r # q \/ role # "main"
      <3>1. at'[r]["main"] = at[r]["main"] /\ emitted'[r]["main"] = emitted[r]["main"]
        BY <1>3, <1>4, <1>5, <2>2
      <3>2. OnItsWay(r)' = OnItsWay(r)
        BY <3>1 DEF OnItsWay
      <3> QED BY <1>1, <2>1, <3>1, <3>2 DEF KeptSoFar
    <2>3. CASE r = q /\ role = "main"
      <3>1. phase[r] = "open" /\ table # 0 /\ at[r]["main"] = Idle
        BY <1>1, <2>1, <2>3 DEF KeptSoFar
      <3>2. /\ at'[r]["main"].kind = "event" /\ at'[r]["main"].entry = table
            /\ emitted'[r]["main"] = emitted[r]["main"] + 1
        BY <1>3, <1>4, <2>3, <3>1
      <3>3. OnItsWay(r) = 0 /\ OnItsWay(r)' = 1
        BY <3>1, <3>2 DEF OnItsWay, Idle
      <3>4. Cardinality(EventLines(file, r)) + 0 = emitted[r]["main"] /\ emitted[r]["main"] \in Nat
        BY <1>2, <1>5, <2>1, <3>3 DEF KeptSoFar
      <3>5. Cardinality(EventLines(file, r)) \in Nat
        <4>1. file \in Seq(Line) /\ <<r, "main", "event">> \in Line
          BY DEF SinkInv, SinkTypeOK, Line, Roles, Kinds
        <4> QED BY <4>1, LineCounted
      <3>6. Cardinality(EventLines(file', r)) + OnItsWay(r)' = emitted'[r]["main"]
        BY <1>1, <3>2, <3>3, <3>4, <3>5
      <3> QED BY <1>1, <2>1, <3>1, <3>2, <3>6 DEF KeptSoFar
    <2> QED BY <2>2, <2>3
  <1> QED BY <1>1, <1>3, <1>6, <1>7 DEF LossInv

\* Only the run itself has a live entry to write under; its event becomes a line.
LEMMA WriteLosesNothing ==
    ASSUME SinkInv, LossInv, NEW q \in Runs, NEW role \in Roles, Write(q, role)
    PROVE  LossInv'
  <1>1. /\ UNCHANGED <<table, entries, exists, owner, before, phase, emitted>>
        /\ reports \subseteq reports' /\ at[q][role].kind = "event"
    BY DEF Write, Report
  <1>2. /\ at'[q][role] = Idle /\ "main" \in Roles
        /\ \A r \in Runs, other \in Roles : r # q \/ other # role => at'[r][other] = at[r][other]
    BY DEF Write, SinkInv, SinkTypeOK, Roles
  <1>3. \A r \in Runs : phase'[r] = "new" => at'[r]["main"] = Idle /\ emitted'[r]["main"] = 0
    BY <1>1, <1>2 DEF LossInv
  <1>4. \/ entries[at[q][role].entry] /\ file' = Append(file, <<q, role, "event">>)
        \/ entries[at[q][role].entry] /\ file' = file /\ <<q, "lost">> \in reports'
        \/ ~entries[at[q][role].entry] /\ file' = file
    BY DEF Write, Report
  <1>5. /\ at[q][role].entry # 0 /\ at[q][role].entry \in 1..Len(entries)
        /\ file \in Seq(Line) /\ <<q, role, "event">> \in Line
    BY <1>1 DEF SinkInv, SinkTypeOK, ReachedByWriters, Line, Kinds
  <1>6. ASSUME NEW r \in Runs, Unreported(r)' PROVE KeptSoFar(r)'
    <2>1. Unreported(r) /\ KeptSoFar(r) /\ Writers = {r}
      BY <1>1, <1>6, UnreportedBefore DEF LossInv, Unreported, Writers
    <2>2. entries[at[q][role].entry] => q = r
      BY <1>5, <2>1 DEF SinkInv, ReachedByWriters, Live
    <2>3. /\ Cardinality(EventLines(file, r)) \in Nat
          /\ Cardinality(EventLines(Append(file, <<q, role, "event">>), r)) =
                Cardinality(EventLines(file, r)) + (IF <<q, role, "event">> = <<r, "main", "event">>
                                                    THEN 1 ELSE 0)
      BY <1>5, LineCounted
    <2>4. CASE r = q /\ role = "main"
      <3>1. phase[r] = "open" /\ at[r]["main"].entry = table /\ entries[table] /\ OnItsWay(r) = 1
        <4>1. at[r]["main"].kind = "event" /\ at[r]["main"] # Idle
          BY <1>1, <2>4 DEF Idle
        <4>2. phase[r] \in {"new", "open", "closed"}
          BY DEF SinkInv, SinkTypeOK
        <4>3. phase[r] # "new"
          BY <2>1 DEF LossInv, Unreported
        <4> QED BY <2>1, <4>1, <4>2, <4>3 DEF KeptSoFar, OnItsWay
      <3>2. file' = Append(file, <<r, "main", "event">>)
        BY <1>4, <1>6, <2>4, <3>1 DEF Unreported
      <3>3. at'[r]["main"] = Idle /\ at'[r]["main"].kind = "none" /\ OnItsWay(r)' = 0
        BY <1>2, <2>4 DEF Idle, OnItsWay
      <3>4. Cardinality(EventLines(file', r)) + OnItsWay(r)' = emitted'[r]["main"]
        BY <1>1, <2>1, <2>3, <2>4, <3>1, <3>2, <3>3 DEF KeptSoFar
      <3> QED BY <1>1, <2>1, <3>1, <3>3, <3>4 DEF KeptSoFar
    <2>5. CASE ~(r = q /\ role = "main")
      <3>1. at'[r]["main"] = at[r]["main"] /\ OnItsWay(r)' = OnItsWay(r)
        BY <1>2, <2>5 DEF OnItsWay
      <3>2. Cardinality(EventLines(file', r)) = Cardinality(EventLines(file, r))
        <4>1. <<q, role, "event">> # <<r, "main", "event">>
          BY <2>5
        <4>2. (IF <<q, role, "event">> = <<r, "main", "event">> THEN 1 ELSE 0) = 0
          BY <4>1, Zenon
        <4>3. Cardinality(EventLines(Append(file, <<q, role, "event">>), r)) =
                  Cardinality(EventLines(file, r)) + 0
          BY <2>3, <4>2, Zenon
        <4>4. Cardinality(EventLines(file, r)) + 0 = Cardinality(EventLines(file, r))
          <5> DEFINE n == Cardinality(EventLines(file, r))
          <5>1. n \in Nat
            BY <2>3
          <5> HIDE DEF n
          <5>2. n + 0 = n
            BY <5>1
          <5> QED BY <5>2 DEF n
        <4>5. file' = file \/ file' = Append(file, <<q, role, "event">>)
          BY <1>4
        <4> QED BY <4>3, <4>4, <4>5, Zenon
      <3>3. ASSUME phase[r] = "closed", at[r]["main"] = Idle PROVE file' = file
        <4>1. Len(file) > 0 /\ file[Len(file)] = <<r, "main", "finalize">> /\ Len(file) \in Nat
          BY <1>5, <2>1, <3>3, LenProperties DEF KeptSoFar
        <4>2. Len(file) \in 1..Len(file) /\ file[Len(file)][3] = "finalize"
          BY <4>1
        <4>3. ~entries[at[q][role].entry]
          BY <1>5, <4>2 DEF SinkInv, EndIsFinal
        <4> QED BY <1>4, <4>3
      <3> QED BY <1>1, <2>1, <3>1, <3>2, <3>3 DEF KeptSoFar
    <2> QED BY <2>4, <2>5
  <1> QED BY <1>1, <1>3, <1>6 DEF LossInv

\* The run's own Finalize takes the live entry out of the table.
LEMMA FinalizeLosesNothing ==
    ASSUME SinkInv, LossInv, NEW q \in Runs, Finalize(q)
    PROVE  LossInv'
  <1>1. /\ UNCHANGED <<entries, file, exists, owner, before, emitted>> /\ table' = 0
        /\ phase[q] = "open" /\ at[q]["main"] = Idle /\ reports \subseteq reports'
    BY DEF Finalize, Report, fileVars
  <1>2. /\ phase'[q] = "closed" /\ \A r \in Runs \ {q} : phase'[r] = phase[r]
        /\ table # 0 => at'[q]["main"] = [entry |-> table, kind |-> "finalize"]
        /\ \A r \in Runs \ {q} : at'[r]["main"] = at[r]["main"]
    BY DEF Finalize, SinkInv, SinkTypeOK, Roles
  <1>3. \A r \in Runs : phase'[r] = "new" => at'[r]["main"] = Idle /\ emitted'[r]["main"] = 0
    BY <1>1, <1>2 DEF LossInv
  <1>4. ASSUME NEW r \in Runs, Unreported(r)' PROVE KeptSoFar(r)'
    <2>1. Unreported(r) /\ KeptSoFar(r)
      BY <1>1, <1>4, UnreportedBefore DEF LossInv
    <2>2. CASE r = q
      <3>1. table # 0 /\ entries[table] /\ OnItsWay(r) = 0
        BY <1>1, <2>1, <2>2 DEF KeptSoFar, OnItsWay, Idle
      <3>2. at'[r]["main"].kind = "finalize" /\ at'[r]["main"].entry = table /\ OnItsWay(r)' = 0
        BY <1>2, <2>2, <3>1 DEF OnItsWay
      <3>3. at'[r]["main"] # Idle
        BY <3>2 DEF Idle
      <3> QED BY <1>1, <1>2, <2>1, <2>2, <3>1, <3>2, <3>3 DEF KeptSoFar
    <2>3. CASE r # q
      <3>1. phase[r] # "open" /\ phase'[r] = phase[r] /\ at'[r]["main"] = at[r]["main"]
        BY <1>1, <1>2, <2>1, <2>3 DEF KeptSoFar
      <3>2. OnItsWay(r)' = OnItsWay(r)
        BY <3>1 DEF OnItsWay
      <3> QED BY <1>1, <2>1, <3>1, <3>2 DEF KeptSoFar
    <2> QED BY <2>2, <2>3
  <1>5. owner' \in Runs => exists' /\ phase'[owner'] # "new"
    BY <1>1, <1>2 DEF LossInv
  <1> QED BY <1>1, <1>3, <1>4, <1>5 DEF LossInv

\* The run's last line is written; nobody else's last line can be.
LEMMA RetireLosesNothing ==
    ASSUME SinkInv, LossInv, NEW q \in Runs, WriteAndRetire(q)
    PROVE  LossInv'
  <1> DEFINE e == at[q]["main"].entry
  <1>1. /\ UNCHANGED <<table, exists, owner, before, phase, emitted>>
        /\ reports \subseteq reports' /\ at[q]["main"].kind = "finalize"
        /\ entries' = [entries EXCEPT ![e] = FALSE]
    BY DEF WriteAndRetire, Report
  <1>2. /\ at'[q]["main"] = Idle
        /\ \A r \in Runs \ {q} : at'[r]["main"] = at[r]["main"]
    BY DEF WriteAndRetire, SinkInv, SinkTypeOK, Roles
  <1>3. \A r \in Runs : phase'[r] = "new" => at'[r]["main"] = Idle /\ emitted'[r]["main"] = 0
    BY <1>1, <1>2 DEF LossInv
  <1>4. \/ entries[e] /\ file' = Append(file, <<q, "main", "finalize">>)
        \/ entries[e] /\ file' = file /\ <<q, "lost">> \in reports'
        \/ ~entries[e] /\ file' = file
    BY DEF WriteAndRetire, Report
  <1>5. /\ e \in 1..Len(entries) /\ e # 0 /\ e # table /\ entries \in Seq(BOOLEAN)
        /\ file \in Seq(Line) /\ <<q, "main", "finalize">> \in Line
        /\ Len(entries) \in Nat /\ Len(file) \in Nat
    BY <1>1 DEF SinkInv, SinkTypeOK, ReachedByWriters, FinalizeAlone, Line, Roles, Kinds
  <1>6. \A i \in 1..Len(entries) : i # e => entries'[i] = entries[i]
    BY <1>1, <1>5, RetiredEntry, Zenon
  <1> HIDE DEF e
  <1>7. ASSUME NEW r \in Runs, Unreported(r)' PROVE KeptSoFar(r)'
    <2>1. Unreported(r) /\ KeptSoFar(r) /\ Writers = {r}
      BY <1>1, <1>7, UnreportedBefore DEF LossInv, Unreported, Writers
    <2>2. entries[e] => q = r
      BY <1>5, <2>1 DEF SinkInv, ReachedByWriters, Live, Roles, e
    <2>3. /\ Cardinality(EventLines(file, r)) \in Nat
          /\ Cardinality(EventLines(Append(file, <<q, "main", "finalize">>), r)) =
                Cardinality(EventLines(file, r))
      <3>1. <<q, "main", "finalize">> # <<r, "main", "event">>
        OBVIOUS
      <3> QED BY <1>5, <3>1, LineCounted
    <2>4. CASE r = q
      <3>1. phase[r] = "closed" /\ entries[e] /\ OnItsWay(r) = 0
        <4>1. at[r]["main"].kind = "finalize" /\ at[r]["main"] # Idle
          BY <1>1, <2>4 DEF Idle
        <4>2. phase[r] \in {"new", "open", "closed"}
          BY DEF SinkInv, SinkTypeOK
        <4>3. phase[r] # "new"
          BY <2>1 DEF LossInv, Unreported
        <4> QED BY <2>1, <2>4, <4>1, <4>2, <4>3 DEF KeptSoFar, OnItsWay, e
      <3>2. file' = Append(file, <<r, "main", "finalize">>)
        BY <1>4, <1>7, <2>4, <3>1 DEF Unreported
      <3>3. Len(file') > 0 /\ file'[Len(file')] = <<r, "main", "finalize">>
        BY <1>5, <2>4, <3>2
      <3>4. at'[r]["main"] = Idle /\ OnItsWay(r)' = 0
        BY <1>2, <2>4 DEF Idle, OnItsWay
      <3>5. Cardinality(EventLines(file', r)) + OnItsWay(r)' = emitted'[r]["main"]
        BY <1>1, <2>1, <2>3, <2>4, <3>1, <3>2, <3>4 DEF KeptSoFar
      <3> QED BY <1>1, <3>1, <3>3, <3>4, <3>5 DEF KeptSoFar
    <2>5. CASE r # q
      <3>1. at'[r]["main"] = at[r]["main"] /\ OnItsWay(r)' = OnItsWay(r) /\ file' = file
        BY <1>2, <1>4, <2>2, <2>5 DEF OnItsWay
      <3>2. phase[r] = "open" => entries'[table]
        <4>1. ASSUME phase[r] = "open" PROVE table \in 1..Len(entries) /\ entries[table]
          BY <2>1, <4>1 DEF KeptSoFar, SinkInv, SinkTypeOK
        <4> QED BY <1>5, <1>6, <4>1
      <3>3. at[r]["main"].kind = "finalize" /\ entries[at[r]["main"].entry] =>
                entries'[at[r]["main"].entry]
        <4>1. at[r]["main"].kind = "finalize" => at[r]["main"].entry # e
          BY <1>1, <2>5 DEF SinkInv, FinalizeAlone, e
        <4>2. at[r]["main"].kind = "finalize" => at[r]["main"].entry \in 1..Len(entries)
          BY DEF SinkInv, SinkTypeOK, ReachedByWriters, Roles
        <4> QED BY <1>6, <4>1, <4>2
      <3> QED BY <1>1, <2>1, <3>1, <3>2, <3>3 DEF KeptSoFar
    <2> QED BY <2>4, <2>5
  <1> QED BY <1>1, <1>3, <1>7 DEF LossInv

(***************************************************************************)
(* Nothing is lost in silence (JSONLSink.admit, appendRun, finalizeRun and *)
(* onErr): when the creator of a file and no duplicate of it was reported, *)
(* the file has all the events of its loop and ends with its Finalize.     *)
(***************************************************************************)
THEOREM NothingLostSilently == Spec => []NoSilentLoss
  <1>1. Init => LossInv
    <2> SUFFICES ASSUME Init PROVE LossInv
      OBVIOUS
    <2>1. owner \notin Runs
      BY SinkAssumption DEF Init
    <2>2. \A r \in Runs : at[r]["main"] = Idle /\ emitted[r]["main"] = 0
      BY DEF Init, Roles
    <2>3. emitted \in [Runs -> [Roles -> Nat]]
      BY DEF Init
    <2> QED BY <2>1, <2>2, <2>3 DEF LossInv, Unreported
  <1>2. SinkInv /\ LossInv /\ [Next]_vars => LossInv'
    <2> SUFFICES ASSUME SinkInv, LossInv, [Next]_vars PROVE LossInv'
      OBVIOUS
    <2>1. CASE UNCHANGED vars
      BY <2>1 DEF vars, fileVars, LossInv, Unreported, KeptSoFar, OnItsWay
    <2>2. ASSUME NEW r \in Runs, Start(r) PROVE LossInv'
      BY <2>2, StartLosesNothing
    <2>3. ASSUME NEW r \in Runs, NEW role \in Roles, LookUp(r, role) \/ Write(r, role)
          PROVE  LossInv'
      BY <2>3, LookUpLosesNothing, WriteLosesNothing
    <2>4. ASSUME NEW r \in Runs, Finalize(r) \/ WriteAndRetire(r) PROVE LossInv'
      BY <2>4, FinalizeLosesNothing, RetireLosesNothing
    <2> QED BY <2>1, <2>2, <2>3, <2>4 DEF Next
  <1>3. SinkInv /\ LossInv => NoSilentLoss
    <2> SUFFICES ASSUME SinkInv, LossInv, NEW r \in Runs, phase[r] = "closed",
                        at[r]["main"] = Idle, Unreported(r)
                 PROVE  /\ Cardinality({i \in 1..Len(file) : file[i] = <<r, "main", "event">>})
                              = emitted[r]["main"]
                        /\ file[Len(file)] = <<r, "main", "finalize">>
      BY DEF NoSilentLoss, Unreported
    <2>1. KeptSoFar(r) /\ OnItsWay(r) = 0
      BY DEF LossInv, OnItsWay, Idle
    <2>2. Cardinality(EventLines(file, r)) \in Nat
      <3>1. file \in Seq(Line) /\ <<r, "main", "event">> \in Line
        BY DEF SinkInv, SinkTypeOK, Line, Roles, Kinds
      <3> QED BY <3>1, LineCounted
    <2>3. Cardinality(EventLines(file, r)) = emitted[r]["main"]
      BY <2>1, <2>2 DEF KeptSoFar
    <2> QED BY <2>1, <2>3 DEF KeptSoFar, EventLines
  <1> QED BY <1>1, <1>2, <1>3, SinkInvariant, PTL DEF Spec

----------------------------------------------------------------------------
\* The event store.

EventKinds == {payload.kind : payload \in Payloads}
EventId == Emitters \X Nat
Event == [id : EventId, kind : EventKinds, messages : Seq(Messages)]
Database == [version : Int, applied : Seq(Nat), wal : BOOLEAN, bodies : SUBSET Messages,
             rows : Seq(Event)]
Emission == [n : Nat, pc : {"idle", "lock", "begin", "write", "commit"},
             event : Event \cup {Nobody}, left : Seq(Messages)]
Opening == [pc : {"new", "failed", "wal", "migrate", "reread", "applying", "open", "closed"},
            seen : Int]
Reading == [pc : {"idle", "unknown", "loaded", "missing", "done"}, rows : Seq(Event),
            due : SUBSET EventId, result : Seq(Event)]

StoreTypeOK ==
    /\ db \in Database
    /\ writer \in Processes \cup {Nobody}
    /\ writer # Nobody => txn \in Database
    /\ proc \in [Processes -> Opening]
    /\ mutex \in [Processes -> Emitters \cup {Nobody}]
    /\ emit \in [Emitters -> Emission]
    /\ \A e \in Emitters : emit[e].pc # "idle" => emit[e].event \in Event
    /\ told \subseteq EventId /\ kept \subseteq EventId
    /\ read \in Reading

\* Who holds the write lock and who holds Store.mu.
HolderInv ==
    /\ \A p \in Processes : proc[p].pc \in {"reread", "applying"} => writer = p
    /\ \A e \in Emitters :
        /\ emit[e].pc # "idle" => proc[ProcessOf(e)].pc \in {"open", "closed"}
        /\ emit[e].pc \in {"begin", "write", "commit"} =>
            mutex[ProcessOf(e)] = e /\ proc[ProcessOf(e)].pc = "open"
        /\ emit[e].pc \in {"write", "commit"} => writer = ProcessOf(e)

UpTo(n) == [i \in 1..n |-> i]

\* The schema that is committed, and the one a transaction is making.
SchemaInv ==
    /\ db.applied = UpTo(db.version)
    /\ writer # Nobody => txn.version = db.version
    /\ \A p \in Processes :
        /\ proc[p].pc = "open" => Latest[p] <= db.version
        /\ proc[p].pc = "wal" => proc[p].seen <= db.version
        /\ proc[p].pc = "reread" => txn.applied = db.applied
        /\ proc[p].pc = "applying" =>
            /\ proc[p].seen \in 0..Latest[p] /\ db.version <= proc[p].seen
            /\ txn.applied = UpTo(proc[p].seen)
    /\ \A e \in Emitters : emit[e].pc \in {"write", "commit"} => txn.applied = db.applied

\* What an emitter's transaction has added to what is committed.
Added(e) ==
    /\ emit[e].pc \in {"lock", "begin"} => emit[e].left = emit[e].event.messages
    /\ emit[e].pc = "write" =>
        /\ txn.rows = db.rows
        /\ txn.bodies \cup ToSet(emit[e].left) = db.bodies \cup Hashes(emit[e].event)
    /\ emit[e].pc = "commit" =>
        /\ txn.rows = Append(db.rows, emit[e].event)
        /\ txn.bodies = db.bodies \cup Hashes(emit[e].event)

ContentInv ==
    /\ db.bodies = Named(db.rows)
    /\ \A p \in Processes : proc[p].pc \in {"reread", "applying"} =>
        txn.rows = db.rows /\ txn.bodies = db.bodies
    /\ \A e \in Emitters : Added(e)

\* An id that was used up: its event is not under way any more.
Past(id) ==
    /\ id[2] <= emit[id[1]].n
    /\ emit[id[1]].pc # "idle" => id[2] # emit[id[1]].n

Ids(rows) == {rows[i].id : i \in DOMAIN rows}

Ordered(rows) ==
    \A i, j \in DOMAIN rows :
        i < j /\ rows[i].id[1] = rows[j].id[1] => rows[i].id[2] < rows[j].id[2]

IdInv ==
    /\ \A e \in Emitters : emit[e].pc # "idle" => emit[e].event.id = <<e, emit[e].n>>
    /\ \A id \in Ids(db.rows) \cup told : Past(id)
    /\ Ordered(db.rows)
    /\ kept \subseteq Ids(db.rows)
    /\ Ids(db.rows) \cap told = {}

ReadInv ==
    /\ read.pc # "missing"
    /\ read.pc \in {"loaded", "done"} =>
        /\ read.due \subseteq Ids(read.rows)
        /\ Ordered(read.rows)
        /\ Named(read.rows) \subseteq db.bodies
    /\ read.pc = "done" => read.result = read.rows

StoreInv == StoreTypeOK /\ HolderInv /\ SchemaInv /\ ContentInv /\ IdInv /\ ReadInv

----------------------------------------------------------------------------
\* Sequences and their elements.

\* The statements yet to run, split into the next message and the rest (insertBodies).
LEMMA HeadAndTail ==
    ASSUME NEW S, NEW s \in Seq(S), s # <<>>
    PROVE  /\ Head(s) \in S /\ Tail(s) \in Seq(S)
           /\ ToSet(s) = {Head(s)} \cup ToSet(Tail(s))
  <1>1. /\ Head(s) \in S /\ Tail(s) \in Seq(S) /\ Head(s) = s[1]
        /\ Len(s) \in Nat \ {0} /\ DOMAIN s = 1..Len(s)
        /\ Len(Tail(s)) = Len(s) - 1 /\ DOMAIN Tail(s) = 1..Len(Tail(s))
        /\ \A i \in 1..Len(Tail(s)) : Tail(s)[i] = s[i + 1]
    BY HeadTailProperties, LenProperties, EmptySeq
  <1>2. \A i \in DOMAIN s : s[i] = Head(s) \/ \E j \in DOMAIN Tail(s) : s[i] = Tail(s)[j]
    <2> SUFFICES ASSUME NEW i \in DOMAIN s, i # 1
                 PROVE  \E j \in DOMAIN Tail(s) : s[i] = Tail(s)[j]
      BY <1>1
    <2>1. i - 1 \in DOMAIN Tail(s) /\ Tail(s)[i - 1] = s[i]
      BY <1>1
    <2> QED BY <2>1
  <1>3. \A j \in DOMAIN Tail(s) : \E i \in DOMAIN s : s[i] = Tail(s)[j]
    BY <1>1
  <1>4. 1 \in DOMAIN s
    BY <1>1
  <1>5. \A x : x \in ToSet(s) <=> x = Head(s) \/ x \in ToSet(Tail(s))
    <2> SUFFICES ASSUME NEW x PROVE x \in ToSet(s) <=> x = Head(s) \/ x \in ToSet(Tail(s))
      OBVIOUS
    <2>1. ASSUME x \in ToSet(s) PROVE x = Head(s) \/ x \in ToSet(Tail(s))
      BY <1>2, <2>1, Zenon DEF ToSet
    <2>2. ASSUME x = Head(s) PROVE x \in ToSet(s)
      BY <1>1, <1>4, <2>2, Zenon DEF ToSet
    <2>3. ASSUME x \in ToSet(Tail(s)) PROVE x \in ToSet(s)
      BY <1>3, <2>3, Zenon DEF ToSet
    <2> QED BY <2>1, <2>2, <2>3
  <1> QED BY <1>1, <1>5, Zenon

\* One row more.
LEMMA RowAppended ==
    ASSUME NEW rows \in Seq(Event), NEW ev \in Event
    PROVE  /\ Append(rows, ev) \in Seq(Event)
           /\ Named(Append(rows, ev)) = Named(rows) \cup Hashes(ev)
           /\ Ids(Append(rows, ev)) = Ids(rows) \cup {ev.id}
           /\ DOMAIN rows = 1..Len(rows) /\ Len(rows) \in Nat
           /\ DOMAIN Append(rows, ev) = 1..(Len(rows) + 1)
           /\ Append(rows, ev)[Len(rows) + 1] = ev
           /\ \A i \in 1..Len(rows) : Append(rows, ev)[i] = rows[i]
  <1>1. /\ Append(rows, ev) \in Seq(Event)
        /\ DOMAIN rows = 1..Len(rows) /\ Len(rows) \in Nat
        /\ DOMAIN Append(rows, ev) = 1..(Len(rows) + 1)
        /\ Append(rows, ev)[Len(rows) + 1] = ev
        /\ \A i \in 1..Len(rows) : Append(rows, ev)[i] = rows[i]
    BY AppendProperties, LenProperties
  <1>2. DOMAIN Append(rows, ev) = DOMAIN rows \cup {Len(rows) + 1}
    BY <1>1
  <1>3. Named(Append(rows, ev)) = Named(rows) \cup Hashes(ev)
    BY <1>1, <1>2 DEF Named
  <1>4. Ids(Append(rows, ev)) = Ids(rows) \cup {ev.id}
    BY <1>1, <1>2 DEF Ids
  <1> QED BY <1>1, <1>3, <1>4

\* One migration more.
LEMMA MigrationAppended ==
    ASSUME NEW n \in Nat
    PROVE  /\ UpTo(n) \in Seq(Nat)
           /\ Append(UpTo(n), n + 1) = UpTo(n + 1)
  <1>1. UpTo(n) \in Seq(Nat) /\ Len(UpTo(n)) = n
    BY DEF UpTo
  <1>2. Append(UpTo(n), n + 1) = [i \in 1..(n + 1) |-> IF i = n + 1 THEN n + 1 ELSE UpTo(n)[i]]
    BY <1>1
  <1> QED BY <1>1, <1>2 DEF UpTo

----------------------------------------------------------------------------
\* A store's position moves; the version it read stays.
LEMMA GotoEffect ==
    ASSUME StoreTypeOK, NEW p \in Processes, NEW to, Goto(p, to),
           to \in {"new", "failed", "wal", "migrate", "reread", "applying", "open", "closed"}
    PROVE  /\ proc' \in [Processes -> Opening]
           /\ proc'[p].pc = to /\ proc'[p].seen = proc[p].seen
           /\ \A q \in Processes : q # p => proc'[q] = proc[q]
  BY DEF StoreTypeOK, Opening, Goto

\* An emitter's position moves; its event stays.
LEMMA MoveEffect ==
    ASSUME StoreTypeOK, NEW e \in Emitters, NEW to, Move(e, to),
           to \in {"idle", "lock", "begin", "write", "commit"}
    PROVE  /\ emit' \in [Emitters -> Emission]
           /\ emit'[e].pc = to /\ emit'[e].n = emit[e].n
           /\ emit'[e].event = emit[e].event /\ emit'[e].left = emit[e].left
           /\ \A f \in Emitters : f # e => emit'[f] = emit[f]
  BY DEF StoreTypeOK, Emission, Move

\* Every emitting goroutine belongs to one of the processes and is not the absent holder.
LEMMA ProcessOfEmitter ==
    ASSUME NEW e \in Emitters
    PROVE  ProcessOf(e) \in Processes /\ e # Nobody
  BY StoreAssumption DEF ProcessOf

\* An emitter inside a transaction is the only writer there is.
LEMMA SoleWriter ==
    ASSUME StoreTypeOK, HolderInv, NEW e \in Emitters, emit[e].pc \in {"write", "commit"}
    PROVE  /\ writer = ProcessOf(e) /\ writer # Nobody /\ txn \in Database
           /\ \A p \in Processes : proc[p].pc \notin {"reread", "applying"}
           /\ \A f \in Emitters : f # e => emit[f].pc \notin {"write", "commit"}
  BY ProcessOfEmitter, StoreAssumption DEF StoreTypeOK, HolderInv

\* A process inside its migration likewise.
LEMMA SoleMigrator ==
    ASSUME StoreTypeOK, HolderInv, NEW p \in Processes, proc[p].pc \in {"reread", "applying"}
    PROVE  /\ writer = p /\ writer # Nobody /\ txn \in Database
           /\ \A q \in Processes : q # p => proc[q].pc \notin {"reread", "applying"}
           /\ \A f \in Emitters : emit[f].pc \notin {"write", "commit"}
  BY ProcessOfEmitter, StoreAssumption DEF StoreTypeOK, HolderInv

\* Nobody writes: no transaction is open.
LEMMA NoWriter ==
    ASSUME StoreTypeOK, HolderInv, writer = Nobody
    PROVE  /\ \A p \in Processes : proc[p].pc \notin {"reread", "applying"}
           /\ \A f \in Emitters : emit[f].pc \notin {"write", "commit"}
  BY ProcessOfEmitter, StoreAssumption DEF StoreTypeOK, HolderInv

\* The ids of rows name emitters.
LEMMA IdsTyped ==
    ASSUME StoreTypeOK
    PROVE  Ids(db.rows) \subseteq EventId
  <1>1. db.rows \in Seq(Event)
    BY DEF StoreTypeOK, Database
  <1>2. \A i \in DOMAIN db.rows : db.rows[i] \in Event
    BY <1>1, ElementOfSeq, LenProperties
  <1>3. \A ev \in Event : ev.id \in EventId
    BY DEF Event
  <1> QED BY <1>2, <1>3, Zenon DEF Ids

\* PRAGMA user_version writes the version and nothing else.
LEMMA VersionSet ==
    ASSUME NEW d \in Database, NEW v \in Int
    PROVE  /\ [d EXCEPT !.version = v] \in Database
           /\ [d EXCEPT !.version = v].version = v
           /\ [d EXCEPT !.version = v].applied = d.applied
           /\ [d EXCEPT !.version = v].rows = d.rows
           /\ [d EXCEPT !.version = v].bodies = d.bodies
  BY DEF Database

\* What a step leaves alone keeps the ids and the reader as they are.
LEMMA RowsFrame ==
    ASSUME IdInv, ReadInv, db'.rows = db.rows, db'.bodies = db.bodies,
           UNCHANGED <<emit, told, kept, read>>
    PROVE  IdInv' /\ ReadInv'
  BY DEF IdInv, ReadInv, Past

----------------------------------------------------------------------------
\* Open: the steps of one process.

\* Open's first read of user_version, outside any transaction, disturbs nothing.
LEMMA ReadVersionKeeps ==
    ASSUME StoreInv, NEW p \in Processes, ReadVersion(p)
    PROVE  StoreInv'
  <1> USE StoreAssumption
  <1>1. /\ proc' \in [Processes -> Opening]
        /\ proc[p].pc = "new"
        /\ proc'[p].pc \in {"failed", "wal"} /\ proc'[p].seen = db.version
        /\ \A q \in Processes : q # p => proc'[q] = proc[q]
    BY DEF StoreInv, StoreTypeOK, Opening, Database, ReadVersion
  <1>2. UNCHANGED <<db, txn, writer, mutex, emit, told, kept, read>>
    BY DEF ReadVersion, dbVars, histVars
  <1>3. db.version \in Int /\ \A e \in Emitters : ProcessOf(e) \in Processes
    BY ProcessOfEmitter DEF StoreInv, StoreTypeOK, Database
  <1>11. StoreTypeOK'
    BY <1>1, <1>2, <1>3 DEF StoreInv, StoreTypeOK
  <1>12. HolderInv'
    BY <1>1, <1>2, <1>3 DEF StoreInv, HolderInv
  <1>13. SchemaInv'
    BY <1>1, <1>2, <1>3 DEF StoreInv, SchemaInv
  <1>14. ContentInv'
    BY <1>1, <1>2, <1>3 DEF StoreInv, ContentInv, Added
  <1>15. IdInv' /\ ReadInv'
    BY <1>1, <1>2, <1>3, RowsFrame DEF StoreInv
  <1> QED BY <1>11, <1>12, <1>13, <1>14, <1>15 DEF StoreInv

\* Switching the journal to WAL changes neither rows, bodies nor the version.
LEMMA EnterWALKeeps ==
    ASSUME StoreInv, NEW p \in Processes, EnterWAL(p)
    PROVE  StoreInv'
  <1> USE StoreAssumption
  <1>1. /\ db' \in Database /\ db'.version = db.version /\ db'.applied = db.applied
        /\ db'.bodies = db.bodies /\ db'.rows = db.rows
    BY DEF StoreInv, StoreTypeOK, Database, EnterWAL
  <1>2. /\ proc[p].pc = "wal"
        /\ \/ Goto(p, "failed") \/ Goto(p, "migrate")
           \/ proc[p].seen >= Latest[p] /\ Goto(p, "open")
    BY DEF StoreInv, StoreTypeOK, Opening, EnterWAL
  <1>3. /\ proc' \in [Processes -> Opening]
        /\ \/ proc'[p].pc \in {"failed", "migrate"}
           \/ proc[p].seen >= Latest[p] /\ proc'[p].pc = "open"
        /\ \A q \in Processes : q # p => proc'[q] = proc[q]
    BY <1>2, GotoEffect DEF StoreInv
  <1>4. UNCHANGED <<txn, writer, mutex, emit, told, kept, read>>
    BY DEF EnterWAL, histVars
  <1>5. /\ db.version \in Int /\ Latest[p] \in Int /\ proc[p].seen \in Int
        /\ \A e \in Emitters : ProcessOf(e) \in Processes
    BY ProcessOfEmitter DEF StoreInv, StoreTypeOK, Database, Opening
  <1>11. StoreTypeOK'
    BY <1>1, <1>2, <1>3, <1>4, <1>5 DEF StoreInv, StoreTypeOK
  <1>12. HolderInv'
    BY <1>1, <1>2, <1>3, <1>4, <1>5 DEF StoreInv, HolderInv
  <1>13. SchemaInv'
    BY <1>1, <1>2, <1>3, <1>4, <1>5 DEF StoreInv, SchemaInv
  <1>14. ContentInv'
    BY <1>1, <1>2, <1>3, <1>4, <1>5 DEF StoreInv, ContentInv, Added
  <1>15. IdInv' /\ ReadInv'
    BY <1>1, <1>2, <1>3, <1>4, <1>5, RowsFrame DEF StoreInv
  <1> QED BY <1>11, <1>12, <1>13, <1>14, <1>15 DEF StoreInv

\* BEGIN IMMEDIATE of migrate: the process becomes the only writer, on a copy of what is
\* committed.
LEMMA BeginMigrationKeeps ==
    ASSUME StoreInv, NEW p \in Processes, BeginMigration(p)
    PROVE  StoreInv'
  <1> USE StoreAssumption
  <1>1. /\ proc[p].pc = "migrate" /\ UNCHANGED <<db, mutex, emit, told, kept, read>>
        /\ \A e \in Emitters : ProcessOf(e) \in Processes
    BY ProcessOfEmitter DEF BeginMigration, dbVars, histVars
  <1>2. CASE writer = Nobody /\ writer' = p /\ txn' = db /\ Goto(p, "reread")
    <2>1. /\ proc' \in [Processes -> Opening] /\ proc'[p].pc = "reread"
          /\ \A q \in Processes : q # p => proc'[q] = proc[q]
      BY <1>2, GotoEffect DEF StoreInv
    <2>2. /\ \A q \in Processes : proc[q].pc \notin {"reread", "applying"}
          /\ \A f \in Emitters : emit[f].pc \notin {"write", "commit"}
      BY <1>2, NoWriter DEF StoreInv
    <2>11. StoreTypeOK'
      BY <1>1, <1>2, <2>1, <2>2 DEF StoreInv, StoreTypeOK
    <2>12. HolderInv'
      BY <1>1, <1>2, <2>1, <2>2 DEF StoreInv, HolderInv
    <2>13. SchemaInv'
      BY <1>1, <1>2, <2>1, <2>2 DEF StoreInv, SchemaInv
    <2>14. ContentInv'
      BY <1>1, <1>2, <2>1, <2>2 DEF StoreInv, ContentInv, Added
    <2>15. IdInv' /\ ReadInv'
      BY <1>1, <1>2, <2>1, <2>2, RowsFrame DEF StoreInv
    <2> QED BY <2>11, <2>12, <2>13, <2>14, <2>15 DEF StoreInv
  <1>3. CASE Goto(p, "failed") /\ UNCHANGED <<txn, writer>>
    <2>1. /\ proc' \in [Processes -> Opening] /\ proc'[p].pc = "failed"
          /\ \A q \in Processes : q # p => proc'[q] = proc[q]
      BY <1>3, GotoEffect DEF StoreInv
    <2>11. StoreTypeOK'
      BY <1>1, <1>3, <2>1 DEF StoreInv, StoreTypeOK
    <2>12. HolderInv'
      BY <1>1, <1>3, <2>1 DEF StoreInv, HolderInv
    <2>13. SchemaInv'
      BY <1>1, <1>3, <2>1 DEF StoreInv, SchemaInv
    <2>14. ContentInv'
      BY <1>1, <1>3, <2>1 DEF StoreInv, ContentInv, Added
    <2>15. IdInv' /\ ReadInv'
      BY <1>1, <1>3, <2>1, RowsFrame DEF StoreInv
    <2> QED BY <2>11, <2>12, <2>13, <2>14, <2>15 DEF StoreInv
  <1> QED BY <1>2, <1>3 DEF BeginMigration, BeginWrite, dbVars

(***************************************************************************)
(* A migration ends, by COMMIT or by ROLLBACK: the schema is not older     *)
(* than before, the rows are the same, and the store opens only on a       *)
(* schema it knows.                                                        *)
(***************************************************************************)
LEMMA MigrationEnds ==
    ASSUME StoreInv, NEW p \in Processes, proc[p].pc \in {"reread", "applying"},
           writer' = Nobody, UNCHANGED <<mutex, emit, told, kept, read>>,
           db' \in Database, db'.rows = db.rows, db'.bodies = db.bodies,
           db.version <= db'.version, db'.applied = UpTo(db'.version),
           Goto(p, "failed") \/ (Goto(p, "open") /\ Latest[p] <= db'.version)
    PROVE  StoreInv'
  <1> USE StoreAssumption
  <1>1. /\ proc' \in [Processes -> Opening]
        /\ proc'[p].pc = "failed" \/ (proc'[p].pc = "open" /\ Latest[p] <= db'.version)
        /\ \A q \in Processes : q # p => proc'[q] = proc[q]
    BY GotoEffect DEF StoreInv
  <1>2. /\ \A q \in Processes : q # p => proc[q].pc \notin {"reread", "applying"}
        /\ \A f \in Emitters : emit[f].pc \notin {"write", "commit"}
    BY SoleMigrator DEF StoreInv
  <1>3. /\ db.version \in Int /\ db'.version \in Int
        /\ \A q \in Processes : Latest[q] \in Int /\ proc[q].seen \in Int
        /\ \A e \in Emitters : ProcessOf(e) \in Processes
    BY ProcessOfEmitter DEF StoreInv, StoreTypeOK, Database, Opening
  <1>11. StoreTypeOK'
    BY <1>1, <1>2, <1>3 DEF StoreInv, StoreTypeOK
  <1>12. HolderInv'
    BY <1>1, <1>2, <1>3 DEF StoreInv, HolderInv
  <1>13. SchemaInv'
    BY <1>1, <1>2, <1>3 DEF StoreInv, SchemaInv
  <1>14. ContentInv'
    BY <1>1, <1>2, <1>3 DEF StoreInv, ContentInv, Added
  <1>15. IdInv' /\ ReadInv'
    BY <1>1, <1>2, <1>3, RowsFrame DEF StoreInv
  <1> QED BY <1>11, <1>12, <1>13, <1>14, <1>15 DEF StoreInv

\* The second read of user_version, under the write lock: a version that meanwhile reached
\* the latest one ends the migration without a change.
LEMMA RereadKeeps ==
    ASSUME StoreInv, NEW p \in Processes, Reread(p)
    PROVE  StoreInv'
  <1> USE StoreAssumption
  <1>1. /\ proc[p].pc = "reread" /\ UNCHANGED <<mutex, emit, told, kept, read>>
        /\ \A e \in Emitters : ProcessOf(e) \in Processes
    BY ProcessOfEmitter DEF Reread, histVars
  <1>2. /\ writer = p /\ writer # Nobody /\ txn \in Database
        /\ \A q \in Processes : q # p => proc[q].pc \notin {"reread", "applying"}
        /\ \A f \in Emitters : emit[f].pc \notin {"write", "commit"}
    BY <1>1, SoleMigrator DEF StoreInv
  <1>3. /\ db \in Database /\ db.version \in Int /\ txn.version = db.version
        /\ txn.applied = db.applied /\ db.applied = UpTo(db.version)
        /\ txn.rows = db.rows /\ txn.bodies = db.bodies
        /\ Latest[p] \in Nat
    BY <1>1, <1>2 DEF StoreInv, StoreTypeOK, SchemaInv, ContentInv, Database
  <1>4. CASE Rollback /\ Goto(p, "failed")
    BY <1>1, <1>3, <1>4, MigrationEnds DEF Rollback
  <1>5. CASE txn.version = Latest[p] /\ CommitWrite /\ Goto(p, "open")
    <2>1. db' = txn /\ writer' = Nobody
      BY <1>5 DEF CommitWrite
    <2> QED BY <1>1, <1>2, <1>3, <1>5, <2>1, MigrationEnds
  <1>6. CASE /\ txn.version \in 0..(Latest[p] - 1)
             /\ proc' = [proc EXCEPT ![p] = [pc |-> "applying", seen |-> txn.version]]
             /\ UNCHANGED dbVars
    <2>1. /\ proc' \in [Processes -> Opening]
          /\ proc'[p].pc = "applying" /\ proc'[p].seen = db.version
          /\ \A q \in Processes : q # p => proc'[q] = proc[q]
      BY <1>3, <1>6 DEF StoreInv, StoreTypeOK, Opening
    <2>2. UNCHANGED <<db, txn, writer>> /\ db.version \in 0..Latest[p]
      BY <1>3, <1>6 DEF dbVars
    <2>11. StoreTypeOK'
      BY <1>1, <1>2, <1>3, <2>1, <2>2 DEF StoreInv, StoreTypeOK
    <2>12. HolderInv'
      BY <1>1, <1>2, <1>3, <2>1, <2>2 DEF StoreInv, HolderInv
    <2>13. SchemaInv'
      BY <1>1, <1>2, <1>3, <2>1, <2>2 DEF StoreInv, SchemaInv
    <2>14. ContentInv'
      BY <1>1, <1>2, <1>3, <2>1, <2>2 DEF StoreInv, ContentInv, Added
    <2>15. IdInv' /\ ReadInv'
      BY <1>1, <1>2, <1>3, <2>1, <2>2, RowsFrame DEF StoreInv
    <2> QED BY <2>11, <2>12, <2>13, <2>14, <2>15 DEF StoreInv
  <1> QED BY <1>4, <1>5, <1>6 DEF Reread

\* One migration with its version is applied to the transaction and committed together.
LEMMA ApplyMigrationKeeps ==
    ASSUME StoreInv, NEW p \in Processes, ApplyMigration(p) \/ CommitMigration(p)
    PROVE  StoreInv'
  <1> USE StoreAssumption
  <1>1. /\ proc[p].pc = "applying" /\ UNCHANGED <<mutex, emit, told, kept, read>>
        /\ \A e \in Emitters : ProcessOf(e) \in Processes
    BY ProcessOfEmitter DEF ApplyMigration, CommitMigration, histVars
  <1>2. /\ writer = p /\ writer # Nobody /\ txn \in Database
        /\ \A q \in Processes : q # p => proc[q].pc \notin {"reread", "applying"}
        /\ \A f \in Emitters : emit[f].pc \notin {"write", "commit"}
    BY <1>1, SoleMigrator DEF StoreInv
  <1>3. /\ db \in Database /\ db.version \in Int /\ txn.version = db.version
        /\ db.applied = UpTo(db.version)
        /\ txn.rows = db.rows /\ txn.bodies = db.bodies
        /\ proc[p].seen \in 0..Latest[p] /\ db.version <= proc[p].seen
        /\ txn.applied = UpTo(proc[p].seen) /\ Latest[p] \in Nat
    BY <1>1, <1>2 DEF StoreInv, StoreTypeOK, SchemaInv, ContentInv, Database
  <1>4. CASE Rollback /\ Goto(p, "failed")
    BY <1>1, <1>3, <1>4, MigrationEnds DEF Rollback
  <1>5. CASE /\ proc[p].seen < Latest[p]
             /\ txn' = [txn EXCEPT !.applied = Append(@, proc[p].seen + 1)]
             /\ proc' = [proc EXCEPT ![p].seen = @ + 1]
             /\ UNCHANGED <<db, writer>>
    <2>1. /\ proc' \in [Processes -> Opening]
          /\ proc'[p].pc = "applying" /\ proc'[p].seen = proc[p].seen + 1
          /\ \A q \in Processes : q # p => proc'[q] = proc[q]
      BY <1>1, <1>3, <1>5 DEF StoreInv, StoreTypeOK, Opening
    <2>0. proc[p].seen \in Nat /\ proc[p].seen + 1 \in Nat
      BY <1>3
    <2>2. Append(UpTo(proc[p].seen), proc[p].seen + 1) = UpTo(proc[p].seen + 1)
      BY <2>0, MigrationAppended, Zenon
    <2>3. UpTo(proc[p].seen + 1) \in Seq(Nat)
      BY <2>0, MigrationAppended, Zenon
    <2>4. /\ txn' \in Database /\ txn'.version = txn.version
          /\ txn'.applied = UpTo(proc[p].seen + 1)
          /\ txn'.rows = txn.rows /\ txn'.bodies = txn.bodies
      BY <1>2, <1>3, <1>5, <2>2, <2>3 DEF Database
    <2>5. proc[p].seen + 1 \in 0..Latest[p] /\ db.version <= proc[p].seen + 1
      BY <1>3, <1>5
    <2>11. StoreTypeOK'
      BY <1>1, <1>2, <1>3, <1>5, <2>1, <2>4, <2>5 DEF StoreInv, StoreTypeOK
    <2>12. HolderInv'
      BY <1>1, <1>2, <1>3, <1>5, <2>1, <2>4, <2>5 DEF StoreInv, HolderInv
    <2>13. SchemaInv'
      BY <1>1, <1>2, <1>3, <1>5, <2>1, <2>4, <2>5 DEF StoreInv, SchemaInv
    <2>14. ContentInv'
      BY <1>1, <1>2, <1>3, <1>5, <2>1, <2>4, <2>5 DEF StoreInv, ContentInv, Added
    <2>15. IdInv' /\ ReadInv'
      BY <1>1, <1>2, <1>3, <1>5, <2>1, <2>4, <2>5, RowsFrame DEF StoreInv
    <2> QED BY <2>11, <2>12, <2>13, <2>14, <2>15 DEF StoreInv
  <1>6. CASE /\ proc[p].seen = Latest[p]
             /\ db' = [txn EXCEPT !.version = Latest[p]] /\ writer' = Nobody
             /\ Goto(p, "open")
    <2>1. /\ db' \in Database /\ db'.version = Latest[p] /\ db'.applied = txn.applied
          /\ db'.rows = txn.rows /\ db'.bodies = txn.bodies
      <3>1. Latest[p] \in Int
        BY <1>3
      <3> QED BY <1>2, <1>6, <3>1, VersionSet, Zenon
    <2> QED BY <1>1, <1>3, <1>6, <2>1, MigrationEnds
  <1> QED BY <1>4, <1>5, <1>6 DEF ApplyMigration, CommitMigration

\* Close leaves the file and the other processes alone.
LEMMA CloseStoreKeeps ==
    ASSUME StoreInv, NEW p \in Processes, CloseStore(p)
    PROVE  StoreInv'
  <1>1. /\ proc' \in [Processes -> Opening]
        /\ proc'[p].pc = "closed" /\ proc[p].pc = "open" /\ mutex[p] = Nobody
        /\ \A q \in Processes : q # p => proc'[q] = proc[q]
    BY GotoEffect DEF StoreInv, CloseStore
  <1>2. UNCHANGED <<db, txn, writer, mutex, emit, told, kept, read>>
    BY DEF CloseStore, dbVars, histVars
  <1>3. \A e \in Emitters : ProcessOf(e) \in Processes /\ e # Nobody
    BY ProcessOfEmitter
  <1>11. StoreTypeOK'
    BY <1>1, <1>2, <1>3 DEF StoreInv, StoreTypeOK
  <1>12. HolderInv'
    BY <1>1, <1>2, <1>3 DEF StoreInv, HolderInv
  <1>13. SchemaInv'
    BY <1>1, <1>2, <1>3 DEF StoreInv, SchemaInv
  <1>14. ContentInv'
    BY <1>1, <1>2, <1>3 DEF StoreInv, ContentInv, Added
  <1>15. IdInv' /\ ReadInv'
    BY <1>1, <1>2, <1>3, RowsFrame DEF StoreInv
  <1> QED BY <1>11, <1>12, <1>13, <1>14, <1>15 DEF StoreInv

----------------------------------------------------------------------------
\* Events: the reader's two queries.

\* The query for the rows of a run: the events due are exactly the ones committed by then.
LEMMA LoadRowsKeeps ==
    ASSUME StoreInv, NEW p \in Processes, LoadRows(p)
    PROVE  StoreInv'
  <1>1. UNCHANGED <<db, txn, writer, proc, mutex, emit, told, kept>>
    BY DEF LoadRows, dbVars
  <1>2. /\ read' \in Reading /\ read'.pc \in {"unknown", "loaded"}
        /\ read'.rows = db.rows /\ read'.due = kept
    <2>1. <<>> \in Seq(Event)
      BY EmptySeq
    <2> QED BY <2>1 DEF LoadRows, StoreInv, StoreTypeOK, Database, Reading
  <1>3. StoreTypeOK'
    BY <1>1, <1>2 DEF StoreInv, StoreTypeOK
  <1>4. HolderInv' /\ SchemaInv' /\ ContentInv'
    BY <1>1 DEF StoreInv, HolderInv, SchemaInv, ContentInv, Added
  <1>5. IdInv'
    BY <1>1 DEF StoreInv, IdInv, Past
  <1>6. ReadInv'
    BY <1>1, <1>2 DEF StoreInv, IdInv, ContentInv, ReadInv
  <1> QED BY <1>3, <1>4, <1>5, <1>6 DEF StoreInv

\* The query for the bodies, after the rows were read: rows committed earlier still have
\* theirs, because bodies only grow.
LEMMA FetchBodiesKeeps ==
    ASSUME StoreInv, FetchBodies
    PROVE  StoreInv'
  <1>1. /\ UNCHANGED <<db, txn, writer, proc, mutex, emit, told, kept>>
        /\ read.pc = "loaded"
    BY DEF FetchBodies, dbVars
  <1>2. \A i \in DOMAIN read.rows : Assembles(read.rows[i], db.bodies \cap Named(read.rows))
    <2>1. Named(read.rows) \subseteq db.bodies
      BY <1>1 DEF StoreInv, ReadInv
    <2>2. \A i \in DOMAIN read.rows : Hashes(read.rows[i]) \subseteq Named(read.rows)
      BY DEF Named
    <2> QED BY <2>1, <2>2 DEF Assembles
  <1>3. read' = [read EXCEPT !.pc = "done", !.result = read.rows]
    BY <1>2 DEF FetchBodies
  <1>4. /\ read' \in Reading /\ read'.pc = "done" /\ read'.rows = read.rows
        /\ read'.due = read.due /\ read'.result = read.rows
    BY <1>3 DEF StoreInv, StoreTypeOK, Reading
  <1>5. StoreTypeOK'
    BY <1>1, <1>4 DEF StoreInv, StoreTypeOK
  <1>6. HolderInv' /\ SchemaInv' /\ ContentInv'
    BY <1>1 DEF StoreInv, HolderInv, SchemaInv, ContentInv, Added
  <1>7. IdInv'
    BY <1>1 DEF StoreInv, IdInv, Past
  <1>8. ReadInv'
    BY <1>1, <1>4 DEF StoreInv, ReadInv
  <1> QED BY <1>5, <1>6, <1>7, <1>8 DEF StoreInv

(***************************************************************************)
(* A process dies.  Its transaction is gone with what it had written, its  *)
(* emitters' numbers are used up, and nobody else's transaction is         *)
(* touched.                                                                *)
(***************************************************************************)
LEMMA CrashKeeps ==
    ASSUME StoreInv, NEW p \in Processes, Crash(p)
    PROVE  StoreInv'
  <1> USE StoreAssumption
  <1>1. /\ proc' \in [Processes -> Opening] /\ proc'[p].pc = "new"
        /\ \A q \in Processes : q # p => proc'[q] = proc[q]
    BY DEF StoreInv, StoreTypeOK, Opening, Crash
  <1>2. /\ mutex' \in [Processes -> Emitters \cup {Nobody}]
        /\ \A q \in Processes : q # p => mutex'[q] = mutex[q]
    BY DEF StoreInv, StoreTypeOK, Crash
  <1>3. /\ emit' \in [Emitters -> Emission]
        /\ \A e \in Emitters : IF ProcessOf(e) = p
                               THEN emit'[e].pc = "idle" /\ emit'[e].n = emit[e].n
                               ELSE emit'[e] = emit[e]
    <2>1. <<>> \in Seq(Messages)
      BY EmptySeq
    <2>2. \A e \in Emitters :
            /\ [NoEvent EXCEPT !.n = emit[e].n] \in Emission
            /\ [NoEvent EXCEPT !.n = emit[e].n].pc = "idle"
            /\ [NoEvent EXCEPT !.n = emit[e].n].n = emit[e].n
      BY <2>1 DEF StoreInv, StoreTypeOK, Emission, NoEvent
    <2> QED BY <2>2 DEF StoreInv, StoreTypeOK, Crash
  <1>4. /\ UNCHANGED <<db, told, kept, read>>
        /\ IF writer = p THEN writer' = Nobody ELSE UNCHANGED <<txn, writer>>
    BY DEF Crash, Rollback, dbVars
  <1>5. \A e \in Emitters : ProcessOf(e) \in Processes /\ e # Nobody
    BY ProcessOfEmitter
  <1>6. \A q \in Processes : q # p /\ proc[q].pc \in {"reread", "applying"} =>
            writer # p /\ UNCHANGED <<txn, writer>>
    BY <1>4 DEF StoreInv, HolderInv
  <1>7. \A e \in Emitters : ProcessOf(e) # p /\ emit[e].pc \in {"write", "commit"} =>
            writer # p /\ UNCHANGED <<txn, writer>>
    BY <1>4 DEF StoreInv, HolderInv
  <1>8. StoreTypeOK'
    BY <1>1, <1>2, <1>3, <1>4, <1>5 DEF StoreInv, StoreTypeOK
  <1>9. HolderInv'
    BY <1>1, <1>2, <1>3, <1>5, <1>6, <1>7 DEF StoreInv, HolderInv
  <1>10. SchemaInv'
    BY <1>1, <1>3, <1>4, <1>5, <1>6, <1>7 DEF StoreInv, SchemaInv
  <1>11. ContentInv'
    BY <1>1, <1>3, <1>4, <1>5, <1>6, <1>7 DEF StoreInv, ContentInv, Added
  <1>12. IdInv'
    <2>1. ASSUME NEW id \in Ids(db.rows) \cup told PROVE Past(id)'
      <3>1. id \in EventId /\ Past(id)
        BY IdsTyped DEF StoreInv, StoreTypeOK, IdInv
      <3>2. id[1] \in Emitters
        BY <3>1 DEF EventId
      <3> QED BY <1>3, <3>1, <3>2 DEF Past
    <2> QED BY <1>3, <1>4, <2>1 DEF StoreInv, IdInv
  <1>13. ReadInv'
    BY <1>4 DEF StoreInv, ReadInv
  <1> QED BY <1>8, <1>9, <1>10, <1>11, <1>12, <1>13 DEF StoreInv

----------------------------------------------------------------------------
\* Observe: the steps of one emitter.

\* The committed rows grow or stay, and the reader finds what it found.
LEMMA ReaderFrame ==
    ASSUME ReadInv, db.bodies \subseteq db'.bodies, UNCHANGED read
    PROVE  ReadInv'
  BY DEF ReadInv

\* A step that moves no number and ends no event keeps the ids.
LEMMA IdFrame ==
    ASSUME StoreInv, db'.rows = db.rows, UNCHANGED <<told, kept>>,
           \A f \in Emitters : /\ emit'[f].n = emit[f].n /\ emit'[f].event = emit[f].event
                               /\ emit'[f].pc = "idle" <=> emit[f].pc = "idle"
    PROVE  IdInv'
  <1>1. Ids(db.rows) \cup told \subseteq EventId
    BY IdsTyped DEF StoreInv, StoreTypeOK
  <1>2. ASSUME NEW id \in Ids(db.rows) \cup told PROVE Past(id)'
    <2>1. id[1] \in Emitters /\ Past(id)
      BY <1>1 DEF EventId, StoreInv, IdInv
    <2> QED BY <2>1 DEF Past
  <1> QED BY <1>2 DEF StoreInv, IdInv

\* An event that is reported to onErr was not stored and will not be.
LEMMA ReportFrame ==
    ASSUME StoreInv, NEW e \in Emitters, emit[e].pc # "idle", Move(e, "idle"), ReportLost(e),
           db'.rows = db.rows, UNCHANGED kept
    PROVE  IdInv' /\ told' \subseteq EventId
  <1>1. /\ emit'[e].pc = "idle" /\ emit'[e].n = emit[e].n
        /\ \A f \in Emitters : f # e => emit'[f] = emit[f]
    BY MoveEffect DEF StoreInv
  <1>2. Ids(db.rows) \subseteq EventId /\ told \subseteq EventId
    BY IdsTyped DEF StoreInv, StoreTypeOK
  <1>3. /\ emit[e].event.id = <<e, emit[e].n>> /\ emit[e].n \in Nat
        /\ told' = told \cup {<<e, emit[e].n>>}
    BY DEF StoreInv, StoreTypeOK, Emission, IdInv, ReportLost
  <1>4. \A id \in Ids(db.rows) \cup told : Past(id)' /\ id # <<e, emit[e].n>>
    <2> SUFFICES ASSUME NEW id \in Ids(db.rows) \cup told
                 PROVE  Past(id)' /\ id # <<e, emit[e].n>>
      OBVIOUS
    <2>1. id \in EventId /\ id[1] \in Emitters /\ Past(id)
      BY <1>2 DEF EventId, StoreInv, IdInv
    <2> QED BY <1>1, <2>1 DEF Past
  <1>5. ASSUME NEW id, id = <<e, emit[e].n>> PROVE Past(id)'
    BY <1>1, <1>3, <1>5 DEF Past
  <1>6. \A f \in Emitters : emit'[f].pc # "idle" => emit'[f].event.id = <<f, emit'[f].n>>
    BY <1>1 DEF StoreInv, IdInv
  <1>7. <<e, emit[e].n>> \in EventId
    BY <1>3 DEF EventId
  <1>8. \A id \in Ids(db'.rows) \cup told' : Past(id)'
    BY <1>3, <1>4, <1>5
  <1>9. Ids(db'.rows) \cap told' = {}
    BY <1>3, <1>4 DEF StoreInv, IdInv
  <1> QED BY <1>2, <1>3, <1>6, <1>7, <1>8, <1>9 DEF StoreInv, IdInv

\* Observe takes a new number; an event that cannot be encoded is reported.
LEMMA ObserveKeeps ==
    ASSUME StoreInv, NEW e \in Emitters, NEW payload \in Payloads, Observe(e, payload)
    PROVE  StoreInv'
  <1> USE StoreAssumption
  <1> DEFINE n == emit[e].n + 1
             event == [id |-> <<e, n>>, kind |-> payload.kind, messages |-> payload.messages]
             new == [n |-> n, pc |-> "lock", event |-> event, left |-> payload.messages]
  <1>1. /\ UNCHANGED <<db, txn, writer, proc, mutex, kept, read>>
        /\ proc[ProcessOf(e)].pc \in {"open", "closed"} /\ emit[e].pc = "idle"
    BY DEF Observe, dbVars
  <1>2. emit[e].n \in Nat /\ n \in Nat /\ emit[e] \in Emission
    BY DEF StoreInv, StoreTypeOK, Emission
  <1>3. /\ event \in Event /\ event.id = <<e, n>> /\ event.messages = payload.messages
        /\ <<e, n>> \in EventId
    BY <1>2 DEF Event, EventId, EventKinds
  <1>4. /\ new \in Emission /\ new.n = n /\ new.pc = "lock" /\ new.event = event
        /\ new.left = event.messages
    BY <1>2, <1>3 DEF Emission
  <1>5. Ids(db.rows) \subseteq EventId /\ told \subseteq EventId
    BY IdsTyped DEF StoreInv, StoreTypeOK
  <1>6. ASSUME NEW id \in Ids(db.rows) \cup told
        PROVE  /\ id # <<e, n>> /\ id \in EventId /\ id[1] \in Emitters /\ Past(id)
               /\ id[1] = e => id[2] <= emit[e].n /\ id[2] \in Nat
    <2>1. id \in EventId /\ id[1] \in Emitters /\ id[2] \in Nat /\ Past(id)
      BY <1>5 DEF EventId, StoreInv, IdInv
    <2>2. id[1] = e => id[2] <= emit[e].n
      BY <2>1 DEF Past
    <2>3. id # <<e, n>>
      BY <1>2, <2>1, <2>2
    <2> QED BY <2>1, <2>2, <2>3
  <1>7. \A f \in Emitters : ProcessOf(f) \in Processes
    BY ProcessOfEmitter
  <1>8. CASE emit' = [emit EXCEPT ![e] = new] /\ UNCHANGED told
    <2>1. /\ emit' \in [Emitters -> Emission] /\ emit'[e] = new
          /\ \A f \in Emitters : f # e => emit'[f] = emit[f]
      BY <1>4, <1>8 DEF StoreInv, StoreTypeOK
    <2> HIDE DEF new, event, n
    <2>2. StoreTypeOK'
      BY <1>1, <1>3, <1>4, <1>8, <2>1 DEF StoreInv, StoreTypeOK
    <2>3. HolderInv' /\ SchemaInv'
      BY <1>1, <1>4, <1>7, <2>1 DEF StoreInv, HolderInv, SchemaInv
    <2>4. ContentInv'
      BY <1>1, <1>4, <2>1 DEF StoreInv, ContentInv, Added
    <2>5. ASSUME NEW id \in Ids(db.rows) \cup told PROVE Past(id)'
      <3>1. CASE id[1] = e
        <4>1. id[2] <= emit[e].n /\ id[2] \in Nat
          BY <1>6, <3>1
        <4>2. emit'[id[1]].n = emit[e].n + 1
          BY <1>4, <2>1, <3>1 DEF n
        <4> QED BY <1>2, <4>1, <4>2 DEF Past
      <3>2. CASE id[1] # e
        BY <1>6, <2>1, <3>2 DEF Past
      <3> QED BY <3>1, <3>2
    <2>6. IdInv'
      BY <1>1, <1>3, <1>4, <1>8, <2>1, <2>5 DEF StoreInv, IdInv
    <2>7. ReadInv'
      BY <1>1, ReaderFrame DEF StoreInv
    <2> QED BY <2>2, <2>3, <2>4, <2>6, <2>7 DEF StoreInv
  <1>9. CASE emit' = [emit EXCEPT ![e].n = @ + 1] /\ told' = told \cup {<<e, n>>}
    <2>1. /\ emit' \in [Emitters -> Emission] /\ emit'[e].pc = "idle" /\ emit'[e].n = n
          /\ \A f \in Emitters : f # e => emit'[f] = emit[f]
      BY <1>1, <1>2, <1>9 DEF StoreInv, StoreTypeOK, Emission
    <2> HIDE DEF new, event, n
    <2>2. StoreTypeOK'
      BY <1>1, <1>3, <1>9, <2>1 DEF StoreInv, StoreTypeOK
    <2>3. HolderInv' /\ SchemaInv'
      BY <1>1, <1>7, <2>1 DEF StoreInv, HolderInv, SchemaInv
    <2>4. ContentInv'
      BY <1>1, <2>1 DEF StoreInv, ContentInv, Added
    <2>5. ASSUME NEW id \in Ids(db.rows) \cup told PROVE Past(id)'
      <3>1. CASE id[1] = e
        <4>1. id[2] <= emit[e].n /\ id[2] \in Nat
          BY <1>6, <3>1
        <4>2. emit'[id[1]].n = emit[e].n + 1
          BY <2>1, <3>1 DEF n
        <4> QED BY <1>2, <4>1, <4>2 DEF Past
      <3>2. CASE id[1] # e
        BY <1>6, <2>1, <3>2 DEF Past
      <3> QED BY <3>1, <3>2
    <2>6. ASSUME NEW id, id = <<e, n>> PROVE Past(id)'
      BY <1>2, <2>1, <2>6 DEF Past
    <2>7. IdInv'
      <3>1. Ids(db'.rows) \cap told' = {}
        BY <1>1, <1>6, <1>9 DEF StoreInv, IdInv
      <3>2. \A id \in Ids(db'.rows) \cup told' : Past(id)'
        BY <1>1, <1>9, <2>5, <2>6
      <3> QED BY <1>1, <2>1, <3>1, <3>2 DEF StoreInv, IdInv
    <2>8. ReadInv'
      BY <1>1, ReaderFrame DEF StoreInv
    <2> QED BY <2>2, <2>3, <2>4, <2>7, <2>8 DEF StoreInv
  <1> QED BY <1>8, <1>9 DEF Observe

\* Observe takes Store.mu: the holder of a process's mutex is the one past the lock.
LEMMA LockStoreKeeps ==
    ASSUME StoreInv, NEW e \in Emitters, LockStore(e)
    PROVE  StoreInv'
  <1> USE StoreAssumption
  <1>1. /\ emit[e].pc = "lock" /\ mutex[ProcessOf(e)] = Nobody
        /\ UNCHANGED <<db, txn, writer, proc, kept, read>>
    BY DEF LockStore, dbVars
  <1>2. \A f \in Emitters : ProcessOf(f) \in Processes /\ f # Nobody
    BY ProcessOfEmitter
  <1>3. CASE Move(e, "idle") /\ ReportLost(e) /\ UNCHANGED mutex
    <2>1. /\ emit' \in [Emitters -> Emission] /\ emit'[e].pc = "idle"
          /\ \A f \in Emitters : f # e => emit'[f] = emit[f]
      BY <1>3, MoveEffect DEF StoreInv
    <2>2. IdInv' /\ told' \subseteq EventId
      BY <1>1, <1>3, ReportFrame
    <2>11. StoreTypeOK'
      BY <1>1, <1>2, <1>3, <2>1, <2>2 DEF StoreInv, StoreTypeOK
    <2>12. HolderInv'
      BY <1>1, <1>2, <1>3, <2>1, <2>2 DEF StoreInv, HolderInv
    <2>13. SchemaInv'
      BY <1>1, <1>2, <1>3, <2>1, <2>2 DEF StoreInv, SchemaInv
    <2>14. ContentInv'
      BY <1>1, <1>2, <1>3, <2>1, <2>2 DEF StoreInv, ContentInv, Added
    <2>15. IdInv'
      BY <1>1, <1>2, <1>3, <2>1, <2>2, Zenon
    <2>16. ReadInv'
      BY <1>1, <1>2, <1>3, <2>1, <2>2, ReaderFrame DEF StoreInv
    <2> QED BY <2>11, <2>12, <2>13, <2>14, <2>15, <2>16 DEF StoreInv
  <1>4. CASE /\ proc[ProcessOf(e)].pc # "closed" /\ Move(e, "begin") /\ UNCHANGED told
             /\ mutex' = [mutex EXCEPT ![ProcessOf(e)] = e]
    <2>1. /\ emit' \in [Emitters -> Emission] /\ emit'[e].pc = "begin"
          /\ emit'[e].n = emit[e].n /\ emit'[e].event = emit[e].event
          /\ emit'[e].left = emit[e].left
          /\ \A f \in Emitters : f # e => emit'[f] = emit[f]
      BY <1>4, MoveEffect DEF StoreInv
    <2>2. /\ mutex' \in [Processes -> Emitters \cup {Nobody}] /\ mutex'[ProcessOf(e)] = e
          /\ \A q \in Processes : q # ProcessOf(e) => mutex'[q] = mutex[q]
      BY <1>2, <1>4 DEF StoreInv, StoreTypeOK
    <2>3. /\ proc[ProcessOf(e)].pc = "open"
          /\ \A f \in Emitters : emit[f].pc \in {"begin", "write", "commit"} =>
                ProcessOf(f) # ProcessOf(e)
      BY <1>1, <1>2, <1>4 DEF StoreInv, HolderInv
    <2>11. StoreTypeOK'
      BY <1>1, <1>2, <1>4, <2>1, <2>2 DEF StoreInv, StoreTypeOK
    <2>12. HolderInv'
      BY <1>1, <1>2, <1>4, <2>1, <2>2, <2>3 DEF StoreInv, HolderInv
    <2>13. SchemaInv'
      BY <1>1, <1>2, <1>4, <2>1, <2>2 DEF StoreInv, SchemaInv
    <2>14. ContentInv'
      <3>1. Added(e)'
        BY <1>1, <2>1 DEF StoreInv, ContentInv, Added
      <3>2. \A f \in Emitters : f # e => Added(f)'
        BY <1>1, <2>1 DEF StoreInv, ContentInv, Added
      <3> QED BY <1>1, <3>1, <3>2 DEF StoreInv, ContentInv, Added
    <2>15. IdInv'
      BY <1>1, <1>2, <1>4, <2>1, <2>2, IdFrame
    <2>16. ReadInv'
      BY <1>1, <1>2, <1>4, <2>1, <2>2, ReaderFrame DEF StoreInv
    <2> QED BY <2>11, <2>12, <2>13, <2>14, <2>15, <2>16 DEF StoreInv
  <1> QED BY <1>3, <1>4 DEF LockStore

(***************************************************************************)
(* An Observe gives up: the transaction, if it had one, is rolled back,    *)
(* Store.mu is released and the loss reported.                             *)
(***************************************************************************)
LEMMA GiveUpKeeps ==
    ASSUME StoreInv, NEW e \in Emitters, emit[e].pc \in {"begin", "write", "commit"},
           Move(e, "idle"), ReportLost(e), UnlockStore(e), UNCHANGED <<db, proc, kept, read>>,
           \/ UNCHANGED <<txn, writer>>
           \/ emit[e].pc # "begin" /\ writer' = Nobody
    PROVE  StoreInv'
  <1> USE StoreAssumption
  <1>1. /\ emit' \in [Emitters -> Emission] /\ emit'[e].pc = "idle"
        /\ \A f \in Emitters : f # e => emit'[f] = emit[f]
    BY MoveEffect DEF StoreInv
  <1>2. \A f \in Emitters : ProcessOf(f) \in Processes /\ f # Nobody
    BY ProcessOfEmitter
  <1>3. /\ mutex' \in [Processes -> Emitters \cup {Nobody}]
        /\ \A q \in Processes : q # ProcessOf(e) => mutex'[q] = mutex[q]
    BY <1>2 DEF StoreInv, StoreTypeOK, UnlockStore
  <1>4. IdInv' /\ told' \subseteq EventId
    BY ReportFrame
  <1>5. \A f \in Emitters : f # e /\ emit[f].pc \in {"begin", "write", "commit"} =>
            ProcessOf(f) # ProcessOf(e)
    BY DEF StoreInv, HolderInv
  <1>6. \/ UNCHANGED <<txn, writer>>
        \/ /\ writer' = Nobody
           /\ \A q \in Processes : proc[q].pc \notin {"reread", "applying"}
           /\ \A f \in Emitters : f # e => emit[f].pc \notin {"write", "commit"}
    BY SoleWriter DEF StoreInv
  <1>11. StoreTypeOK'
    BY <1>1, <1>2, <1>3, <1>4, <1>5, <1>6 DEF StoreInv, StoreTypeOK
  <1>12. HolderInv'
    BY <1>1, <1>2, <1>3, <1>4, <1>5, <1>6 DEF StoreInv, HolderInv
  <1>13. SchemaInv'
    BY <1>1, <1>2, <1>3, <1>4, <1>5, <1>6 DEF StoreInv, SchemaInv
  <1>14. ContentInv'
    <2>1. Added(e)'
      BY <1>1 DEF Added
    <2>2. \A f \in Emitters : f # e => Added(f)'
      BY <1>1, <1>6 DEF StoreInv, ContentInv, Added
    <2> QED BY <1>6, <2>1, <2>2 DEF StoreInv, ContentInv, Added
  <1>15. IdInv'
    BY <1>1, <1>2, <1>3, <1>4, <1>5, <1>6, Zenon
  <1>16. ReadInv'
    BY <1>1, <1>2, <1>3, <1>4, <1>5, <1>6, ReaderFrame DEF StoreInv
  <1> QED BY <1>11, <1>12, <1>13, <1>14, <1>15, <1>16 DEF StoreInv

\* BEGIN of Observe: the transaction starts as a copy of what is committed.
LEMMA BeginKeeps ==
    ASSUME StoreInv, NEW e \in Emitters, Begin(e)
    PROVE  StoreInv'
  <1> USE StoreAssumption
  <1>1. emit[e].pc = "begin" /\ UNCHANGED <<db, proc, kept, read>>
    BY DEF Begin, dbVars
  <1>2. CASE Move(e, "idle") /\ ReportLost(e) /\ UnlockStore(e) /\ UNCHANGED dbVars
    BY <1>1, <1>2, GiveUpKeeps DEF dbVars
  <1>3. CASE BeginWrite(ProcessOf(e)) /\ Move(e, "write") /\ UNCHANGED <<mutex, told>>
    <2>1. /\ emit' \in [Emitters -> Emission] /\ emit'[e].pc = "write"
          /\ emit'[e].n = emit[e].n /\ emit'[e].event = emit[e].event
          /\ emit'[e].left = emit[e].left
          /\ \A f \in Emitters : f # e => emit'[f] = emit[f]
      BY <1>3, MoveEffect DEF StoreInv
    <2>2. /\ writer = Nobody /\ writer' = ProcessOf(e) /\ txn' = db
          /\ UNCHANGED <<mutex, told>>
      BY <1>3 DEF BeginWrite
    <2>3. /\ \A q \in Processes : proc[q].pc \notin {"reread", "applying"}
          /\ \A f \in Emitters : emit[f].pc \notin {"write", "commit"}
      BY <2>2, NoWriter DEF StoreInv
    <2>4. \A f \in Emitters : ProcessOf(f) \in Processes /\ f # Nobody
      BY ProcessOfEmitter
    <2>5. StoreTypeOK'
      BY <1>1, <2>1, <2>2, <2>4 DEF StoreInv, StoreTypeOK
    <2>6. HolderInv'
      BY <1>1, <2>1, <2>2, <2>3, <2>4 DEF StoreInv, HolderInv
    <2>7. SchemaInv'
      BY <1>1, <2>1, <2>2, <2>3 DEF StoreInv, SchemaInv
    <2>8. ContentInv'
      <3>1. Added(e)'
        BY <1>1, <2>1, <2>2 DEF StoreInv, ContentInv, Added, Hashes
      <3>2. \A f \in Emitters : f # e => Added(f)'
        BY <1>1, <2>1, <2>3 DEF StoreInv, ContentInv, Added
      <3> QED BY <1>1, <2>3, <3>1, <3>2 DEF StoreInv, ContentInv
    <2>9. IdInv'
      BY <1>1, <2>1, <2>2, IdFrame
    <2>10. ReadInv'
      BY <1>1, ReaderFrame DEF StoreInv
    <2> QED BY <2>5, <2>6, <2>7, <2>8, <2>9, <2>10 DEF StoreInv
  <1> QED BY <1>2, <1>3 DEF Begin

\* INSERT OR IGNORE: the message is in the transaction's file and not in db.
LEMMA InsertMessageKeeps ==
    ASSUME StoreInv, NEW e \in Emitters, InsertMessage(e)
    PROVE  StoreInv'
  <1>1. /\ emit[e].pc = "write" /\ emit[e].left # <<>>
        /\ txn' = [txn EXCEPT !.bodies = @ \cup {Head(emit[e].left)}]
        /\ emit' = [emit EXCEPT ![e].left = Tail(@)]
        /\ UNCHANGED <<db, writer, proc, mutex, told, kept, read>>
    BY DEF InsertMessage, histVars
  <1>2. emit[e].left \in Seq(Messages) /\ emit[e] \in Emission
    BY DEF StoreInv, StoreTypeOK, Emission
  <1>3. /\ Head(emit[e].left) \in Messages /\ Tail(emit[e].left) \in Seq(Messages)
        /\ ToSet(emit[e].left) = {Head(emit[e].left)} \cup ToSet(Tail(emit[e].left))
    BY <1>1, <1>2, HeadAndTail
  <1>4. /\ writer = ProcessOf(e) /\ writer # Nobody /\ txn \in Database
        /\ \A p \in Processes : proc[p].pc \notin {"reread", "applying"}
        /\ \A f \in Emitters : f # e => emit[f].pc \notin {"write", "commit"}
    BY <1>1, SoleWriter DEF StoreInv
  <1>5. /\ txn' \in Database /\ txn'.version = txn.version /\ txn'.applied = txn.applied
        /\ txn'.rows = txn.rows /\ txn'.bodies = txn.bodies \cup {Head(emit[e].left)}
    BY <1>1, <1>3, <1>4 DEF Database
  <1>6. /\ emit' \in [Emitters -> Emission] /\ emit'[e].pc = "write"
        /\ emit'[e].n = emit[e].n /\ emit'[e].event = emit[e].event
        /\ emit'[e].left = Tail(emit[e].left)
        /\ \A f \in Emitters : f # e => emit'[f] = emit[f]
    BY <1>1, <1>3 DEF StoreInv, StoreTypeOK, Emission
  <1>7. StoreTypeOK'
    BY <1>1, <1>5, <1>6 DEF StoreInv, StoreTypeOK
  <1>8. HolderInv'
    BY <1>1, <1>6 DEF StoreInv, HolderInv
  <1>9. SchemaInv'
    BY <1>1, <1>4, <1>5, <1>6 DEF StoreInv, SchemaInv
  <1>10. ContentInv'
    <2>1. Added(e)'
      <3>1. /\ txn.rows = db.rows
            /\ txn.bodies \cup ToSet(emit[e].left) = db.bodies \cup Hashes(emit[e].event)
        BY <1>1 DEF StoreInv, ContentInv, Added
      <3>2. txn'.bodies \cup ToSet(emit'[e].left) = db'.bodies \cup Hashes(emit'[e].event)
        BY <1>1, <1>3, <1>5, <1>6, <3>1
      <3> QED BY <1>1, <1>5, <1>6, <3>1, <3>2 DEF Added
    <2>2. \A f \in Emitters : f # e => Added(f)'
      BY <1>1, <1>4, <1>6 DEF StoreInv, ContentInv, Added
    <2> QED BY <1>1, <1>4, <2>1, <2>2 DEF StoreInv, ContentInv
  <1>11. IdInv'
    BY <1>1, <1>6, IdFrame
  <1>12. ReadInv'
    BY <1>1, ReaderFrame DEF StoreInv
  <1> QED BY <1>7, <1>8, <1>9, <1>10, <1>11, <1>12 DEF StoreInv

\* The row is inserted last, when every body it names is in the transaction.
LEMMA InsertEventKeeps ==
    ASSUME StoreInv, NEW e \in Emitters, InsertEvent(e)
    PROVE  StoreInv'
  <1>1. /\ emit[e].pc = "write" /\ emit[e].left = <<>>
        /\ txn' = [txn EXCEPT !.rows = Append(@, emit[e].event)]
        /\ Move(e, "commit")
        /\ UNCHANGED <<db, writer, proc, mutex, told, kept, read>>
    BY DEF InsertEvent, histVars
  <1>2. emit[e].event \in Event
    BY <1>1 DEF StoreInv, StoreTypeOK
  <1>3. /\ writer = ProcessOf(e) /\ writer # Nobody /\ txn \in Database
        /\ \A p \in Processes : proc[p].pc \notin {"reread", "applying"}
        /\ \A f \in Emitters : f # e => emit[f].pc \notin {"write", "commit"}
    BY <1>1, SoleWriter DEF StoreInv
  <1>4. Append(txn.rows, emit[e].event) \in Seq(Event)
    <2>1. txn.rows \in Seq(Event)
      BY <1>3 DEF Database
    <2> QED BY <1>2, <2>1, RowAppended
  <1>5. /\ txn' \in Database /\ txn'.version = txn.version /\ txn'.applied = txn.applied
        /\ txn'.bodies = txn.bodies /\ txn'.rows = Append(txn.rows, emit[e].event)
    BY <1>1, <1>3, <1>4 DEF Database
  <1>6. /\ emit' \in [Emitters -> Emission] /\ emit'[e].pc = "commit"
        /\ emit'[e].n = emit[e].n /\ emit'[e].event = emit[e].event
        /\ \A f \in Emitters : f # e => emit'[f] = emit[f]
    BY <1>1, MoveEffect DEF StoreInv
  <1>7. StoreTypeOK'
    BY <1>1, <1>2, <1>5, <1>6 DEF StoreInv, StoreTypeOK
  <1>8. HolderInv'
    BY <1>1, <1>6 DEF StoreInv, HolderInv
  <1>9. SchemaInv'
    BY <1>1, <1>3, <1>5, <1>6 DEF StoreInv, SchemaInv
  <1>10. ContentInv'
    <2>1. Added(e)'
      <3>1. /\ txn.rows = db.rows
            /\ txn.bodies \cup ToSet(<<>>) = db.bodies \cup Hashes(emit[e].event)
        BY <1>1 DEF StoreInv, ContentInv, Added
      <3>2. ToSet(<<>>) = {}
        BY DEF ToSet
      <3> QED BY <1>1, <1>5, <1>6, <3>1, <3>2 DEF Added
    <2>2. \A f \in Emitters : f # e => Added(f)'
      BY <1>1, <1>3, <1>6 DEF StoreInv, ContentInv, Added
    <2> QED BY <1>1, <1>3, <2>1, <2>2 DEF StoreInv, ContentInv
  <1>11. IdInv'
    BY <1>1, <1>6, IdFrame
  <1>12. ReadInv'
    BY <1>1, ReaderFrame DEF StoreInv
  <1> QED BY <1>7, <1>8, <1>9, <1>10, <1>11, <1>12 DEF StoreInv

(***************************************************************************)
(* COMMIT: the event and its messages become visible in one step, behind   *)
(* every earlier event of the same goroutine.                              *)
(***************************************************************************)
LEMMA CommitEventKeeps ==
    ASSUME StoreInv, NEW e \in Emitters, CommitEvent(e)
    PROVE  StoreInv'
  <1> USE StoreAssumption
  <1> DEFINE ev == emit[e].event
  <1>1. /\ emit[e].pc = "commit" /\ db' = txn /\ writer' = Nobody
        /\ Move(e, "idle") /\ UnlockStore(e) /\ kept' = kept \cup {ev.id}
        /\ UNCHANGED <<proc, told, read>>
    BY DEF CommitEvent, CommitWrite
  <1>2. /\ ev \in Event /\ ev.id = <<e, emit[e].n>> /\ emit[e].n \in Nat /\ ev.id \in EventId
    <2>1. emit[e] \in Emission
      BY DEF StoreInv, StoreTypeOK
    <2>2. ev.id = <<e, emit[e].n>>
      BY <1>1 DEF StoreInv, IdInv
    <2>3. ev \in Event
      BY <1>1, <2>1 DEF StoreInv, StoreTypeOK, Emission
    <2>4. emit[e].n \in Nat
      BY <2>1 DEF Emission
    <2> HIDE DEF ev
    <2>5. ev.id \in EventId
      BY <2>3 DEF Event
    <2> QED BY <2>2, <2>3, <2>4, <2>5
  <1>3. /\ txn \in Database
        /\ \A p \in Processes : proc[p].pc \notin {"reread", "applying"}
        /\ \A f \in Emitters : f # e => emit[f].pc \notin {"write", "commit"}
    BY <1>1, SoleWriter DEF StoreInv
  <1>4. /\ txn.rows = Append(db.rows, ev) /\ txn.bodies = db.bodies \cup Hashes(ev)
        /\ txn.version = db.version /\ txn.applied = db.applied
    BY <1>1, SoleWriter DEF StoreInv, ContentInv, Added, SchemaInv
  <1>5. /\ emit' \in [Emitters -> Emission] /\ emit'[e].pc = "idle" /\ emit'[e].n = emit[e].n
        /\ \A f \in Emitters : f # e => emit'[f] = emit[f]
    BY <1>1, MoveEffect DEF StoreInv
  <1>6. \A f \in Emitters : ProcessOf(f) \in Processes /\ f # Nobody
    BY ProcessOfEmitter
  <1>7. /\ mutex' \in [Processes -> Emitters \cup {Nobody}]
        /\ \A q \in Processes : q # ProcessOf(e) => mutex'[q] = mutex[q]
    BY <1>1, <1>6 DEF StoreInv, StoreTypeOK, UnlockStore
  <1>8. \A f \in Emitters : f # e /\ emit[f].pc \in {"begin", "write", "commit"} =>
            ProcessOf(f) # ProcessOf(e)
    BY <1>1 DEF StoreInv, HolderInv
  <1>9. db.rows \in Seq(Event)
    BY DEF StoreInv, StoreTypeOK, Database
  <1>10. /\ Named(db'.rows) = Named(db.rows) \cup Hashes(ev)
         /\ Ids(db'.rows) = Ids(db.rows) \cup {ev.id}
    <2> HIDE DEF ev
    <2>1. /\ Named(Append(db.rows, ev)) = Named(db.rows) \cup Hashes(ev)
          /\ Ids(Append(db.rows, ev)) = Ids(db.rows) \cup {ev.id}
      BY <1>2, <1>9, RowAppended, Zenon
    <2> QED BY <1>1, <1>4, <2>1
  <1> HIDE DEF ev
  <1>11. StoreTypeOK'
    BY <1>1, <1>2, <1>3, <1>5, <1>7 DEF StoreInv, StoreTypeOK
  <1>12. HolderInv'
    BY <1>1, <1>3, <1>5, <1>6, <1>7, <1>8 DEF StoreInv, HolderInv
  <1>13. SchemaInv'
    BY <1>1, <1>3, <1>4, <1>5 DEF StoreInv, SchemaInv
  <1>14. ContentInv'
    <2>1. Added(e)'
      BY <1>5 DEF Added
    <2>2. \A f \in Emitters : f # e => Added(f)'
      BY <1>3, <1>5 DEF StoreInv, ContentInv, Added
    <2> QED BY <1>1, <1>3, <1>4, <1>10, <2>1, <2>2 DEF StoreInv, ContentInv
  <1>15. IdInv'
    <2>1. ASSUME NEW id \in Ids(db.rows) \cup told
          PROVE  /\ Past(id)' /\ id # ev.id
                 /\ id[1] = e => id[2] < emit[e].n
      <3>1. id \in EventId /\ id[1] \in Emitters /\ id[2] \in Nat /\ Past(id)
        BY IdsTyped DEF StoreInv, StoreTypeOK, EventId, IdInv
      <3>2. id[1] = e => id[2] < emit[e].n
        BY <1>1, <1>2, <3>1 DEF Past
      <3>3. Past(id)'
        BY <1>5, <3>1 DEF Past
      <3> QED BY <1>2, <3>2, <3>3
    <2>2. ASSUME NEW id, id = ev.id PROVE Past(id)'
      BY <1>2, <1>5, <2>2 DEF Past
    <2>3. Ordered(db'.rows)
      <3>1. /\ DOMAIN db.rows = 1..Len(db.rows) /\ Len(db.rows) \in Nat
            /\ DOMAIN db'.rows = 1..(Len(db.rows) + 1)
            /\ db'.rows[Len(db.rows) + 1] = ev
            /\ \A i \in 1..Len(db.rows) : db'.rows[i] = db.rows[i]
        BY <1>1, <1>2, <1>4, <1>9, RowAppended
      <3> SUFFICES ASSUME NEW i \in DOMAIN db'.rows, NEW j \in DOMAIN db'.rows, i < j,
                          db'.rows[i].id[1] = db'.rows[j].id[1]
                   PROVE  db'.rows[i].id[2] < db'.rows[j].id[2]
        BY DEF Ordered
      <3>2. i \in DOMAIN db.rows /\ db'.rows[i] = db.rows[i] /\ db.rows[i].id \in Ids(db.rows)
        BY <3>1 DEF Ids
      <3>3. CASE j = Len(db.rows) + 1
        BY <1>2, <2>1, <3>1, <3>2, <3>3
      <3>4. CASE j \in DOMAIN db.rows
        BY <3>1, <3>2, <3>4 DEF StoreInv, IdInv, Ordered
      <3> QED BY <3>1, <3>3, <3>4
    <2>4. \A f \in Emitters : emit'[f].pc # "idle" => emit'[f].event.id = <<f, emit'[f].n>>
      BY <1>5 DEF StoreInv, IdInv
    <2>5. \A id \in Ids(db'.rows) \cup told' : Past(id)'
      BY <1>1, <1>10, <2>1, <2>2
    <2>6. kept' \subseteq Ids(db'.rows) /\ Ids(db'.rows) \cap told' = {}
      BY <1>1, <1>10, <2>1 DEF StoreInv, IdInv
    <2> QED BY <2>3, <2>4, <2>5, <2>6 DEF IdInv
  <1>16. ReadInv'
    BY <1>1, <1>4, ReaderFrame DEF StoreInv
  <1> QED BY <1>11, <1>12, <1>13, <1>14, <1>15, <1>16 DEF StoreInv

----------------------------------------------------------------------------
\* The inductive invariant of the store.
THEOREM StoreInvariant == StoreSpec => []StoreInv
  <1>1. StoreInit => StoreInv
    <2> SUFFICES ASSUME StoreInit PROVE StoreInv
      OBVIOUS
    <2> USE StoreAssumption DEF StoreInit
    <2>1. /\ <<>> \in Seq(Event) /\ <<>> \in Seq(Messages)
          /\ DOMAIN <<>> = {} /\ Named(<<>>) = {} /\ Ids(<<>>) = {}
      BY EmptySeq DEF Named, Ids
    <2>2. \A v \in Int : UpTo(v) \in Seq(Nat)
      <3> SUFFICES ASSUME NEW v \in Int PROVE UpTo(v) \in Seq(Nat)
        OBVIOUS
      <3>1. CASE v \in Nat
        BY <3>1, MigrationAppended
      <3>2. CASE v \notin Nat
        <4>1. UpTo(v) = UpTo(0)
          BY <3>2 DEF UpTo
        <4> QED BY <4>1, MigrationAppended
      <3> QED BY <3>1, <3>2
    <2>3. /\ db \in Database /\ db.applied = UpTo(db.version) /\ db.rows = <<>>
          /\ db.bodies = {}
      BY <2>1, <2>2 DEF Database, UpTo
    <2>4. NoEvent \in Emission /\ NoEvent.pc = "idle"
      BY <2>1 DEF NoEvent, Emission
    <2>5. NoRead \in Reading /\ NoRead.pc = "idle"
      BY <2>1 DEF NoRead, Reading
    <2>6. proc \in [Processes -> Opening] /\ \A p \in Processes : proc[p].pc = "new"
      BY DEF Opening
    <2>7. emit \in [Emitters -> Emission] /\ \A e \in Emitters : emit[e].pc = "idle"
      BY <2>4
    <2>8. StoreTypeOK
      BY <2>3, <2>5, <2>6, <2>7 DEF StoreTypeOK
    <2>9. HolderInv /\ SchemaInv
      BY <2>3, <2>6, <2>7 DEF HolderInv, SchemaInv
    <2>10. ContentInv
      BY <2>1, <2>3, <2>6, <2>7 DEF ContentInv, Added
    <2>11. IdInv
      BY <2>1, <2>3, <2>7 DEF IdInv, Ordered
    <2>12. ReadInv
      BY <2>5 DEF ReadInv
    <2> QED BY <2>8, <2>9, <2>10, <2>11, <2>12 DEF StoreInv
  <1>2. StoreInv /\ [StoreNext]_storeVars => StoreInv'
    <2> SUFFICES ASSUME StoreInv, [StoreNext]_storeVars PROVE StoreInv'
      OBVIOUS
    <2>1. ASSUME NEW p \in Processes,
                 \/ ReadVersion(p) \/ EnterWAL(p) \/ BeginMigration(p) \/ Reread(p)
                 \/ ApplyMigration(p) \/ CommitMigration(p) \/ CloseStore(p)
                 \/ LoadRows(p) \/ Crash(p)
          PROVE  StoreInv'
      BY <2>1, ReadVersionKeeps, EnterWALKeeps, BeginMigrationKeeps, RereadKeeps,
         ApplyMigrationKeeps, CloseStoreKeeps, LoadRowsKeeps, CrashKeeps
    <2>2. ASSUME NEW e \in Emitters, WriteFails(e) PROVE StoreInv'
      BY <2>2, GiveUpKeeps DEF WriteFails, Rollback
    <2>3. ASSUME NEW e \in Emitters,
                 \/ \E payload \in Payloads : Observe(e, payload)
                 \/ LockStore(e) \/ Begin(e) \/ InsertMessage(e) \/ InsertEvent(e)
                 \/ CommitEvent(e)
          PROVE  StoreInv'
      BY <2>3, ObserveKeeps, LockStoreKeeps, BeginKeeps, InsertMessageKeeps,
         InsertEventKeeps, CommitEventKeeps
    <2>4. CASE UNCHANGED storeVars
      <3>1. UNCHANGED <<db, txn, writer, proc, mutex, emit, told, kept, read>>
        BY <2>4 DEF storeVars, dbVars, histVars
      <3>2. StoreTypeOK'
        BY <3>1 DEF StoreInv, StoreTypeOK
      <3>3. HolderInv' /\ SchemaInv' /\ ContentInv'
        BY <3>1 DEF StoreInv, HolderInv, SchemaInv, ContentInv, Added
      <3>4. IdInv' /\ ReadInv'
        BY <3>1, RowsFrame DEF StoreInv
      <3> QED BY <3>2, <3>3, <3>4 DEF StoreInv
    <2> QED BY <2>1, <2>2, <2>3, <2>4, FetchBodiesKeeps DEF StoreNext
  <1> QED BY <1>1, <1>2, PTL DEF StoreSpec

(***************************************************************************)
(* Store.migrate applies every migration once and in order, however many   *)
(* processes of different builds open the file and wherever one dies: the  *)
(* version is read again under BEGIN IMMEDIATE and written in the same     *)
(* transaction.                                                            *)
(***************************************************************************)
THEOREM SchemaIsSound == StoreSpec => []SchemaSound
  <1>1. StoreInv => SchemaSound
    <2> SUFFICES ASSUME StoreInv PROVE SchemaSound
      OBVIOUS
    <2>1. db.version \in Int /\ \A p \in Processes : Latest[p] \in Int
      BY StoreAssumption DEF StoreInv, StoreTypeOK, Database
    <2> QED BY <2>1 DEF StoreInv, SchemaInv, SchemaSound, UpTo
  <1> QED BY <1>1, StoreInvariant, PTL

(***************************************************************************)
(* Store.Observe stores an event with all its messages or leaves nothing   *)
(* of it; what it did not report is in the file once, and what it reported *)
(* to onErr is not.                                                        *)
(***************************************************************************)
THEOREM EventsStoredOrReported == StoreSpec => []StoredOrReported
  <1>1. StoreInv => StoredOrReported
    <2> SUFFICES ASSUME StoreInv PROVE StoredOrReported
      OBVIOUS
    <2> DEFINE ids == [i \in DOMAIN db.rows |-> db.rows[i].id]
    <2>1. db.bodies = Named(db.rows)
      BY DEF StoreInv, ContentInv
    <2>2. ToSet(ids) = Ids(db.rows)
      BY DEF ToSet, Ids
    <2>3. IsInjective(ids)
      <3> SUFFICES ASSUME NEW i \in DOMAIN db.rows, NEW j \in DOMAIN db.rows, i < j
                   PROVE  db.rows[i].id # db.rows[j].id
        <4>1. DOMAIN db.rows = 1..Len(db.rows) /\ Len(db.rows) \in Nat
          BY LenProperties DEF StoreInv, StoreTypeOK, Database
        <4> QED BY <4>1 DEF IsInjective
      <3>1. /\ db.rows[i].id \in Ids(db.rows) /\ db.rows[j].id \in Ids(db.rows)
            /\ Ids(db.rows) \subseteq EventId
        BY IdsTyped DEF Ids, StoreInv
      <3>2. db.rows[i].id[2] \in Nat /\ db.rows[j].id[2] \in Nat
        BY <3>1 DEF EventId
      <3> QED BY <3>2 DEF StoreInv, IdInv, Ordered
    <2> HIDE DEF ids
    <2>4. kept \subseteq ToSet(ids) /\ ToSet(ids) \cap told = {}
      BY <2>2 DEF StoreInv, IdInv
    <2> QED BY <2>1, <2>3, <2>4 DEF StoredOrReported, ids
  <1> QED BY <1>1, StoreInvariant, PTL

(***************************************************************************)
(* Store.Events returns every event stored when it was called, in each     *)
(* goroutine's order, and never misses a message although rows and         *)
(* messages are two queries: messages are committed with their event and   *)
(* never removed.                                                          *)
(***************************************************************************)
THEOREM ReadersSeeWholeEvents == StoreSpec => []ReadsWhole
  <1>1. StoreInv => ReadsWhole
    BY DEF StoreInv, ReadInv, Ordered, Ids, ReadsWhole
  <1> QED BY <1>1, StoreInvariant, PTL
=============================================================================
