-------------------------- MODULE TurnQueueProofs --------------------------
(***************************************************************************)
(* Every turn queued on a Steering handle is delivered at most once, never *)
(* lost, and in order within its kind, for any number of runs and turns.   *)
(***************************************************************************)
EXTENDS TurnQueue, SequenceTheorems, TLAPS

\* A hand-over takes turns that are pending, all of its kind if any.
LEMMA HandOverTakes ==
    ASSUME TQTypeOK, NEW c \in Clients,
           HandOver(c, PendingSteers) \/ HandOver(c, pending)
    PROVE  \E T \in SUBSET pending :
              /\ HandOver(c, T)
              /\ \A s \in T, t \in pending \ T : kindOf[s] # kindOf[t]
  <1>1. CASE HandOver(c, PendingSteers)
    <2>1. PendingSteers \in SUBSET pending
      BY DEF PendingSteers
    <2>2. \A s \in PendingSteers, t \in pending \ PendingSteers : kindOf[s] # kindOf[t]
      BY DEF PendingSteers
    <2> QED BY <1>1, <2>1, <2>2
  <1>2. CASE HandOver(c, pending)
    BY <1>2
  <1> QED BY <1>1, <1>2

\* Only queued turns are pending or handed over, for any runs and turns.
THEOREM TQTypeCorrect == TQSpec => []TQTypeOK
  <1>1. TQInit => TQTypeOK
    BY DEF TQInit, TQTypeOK, Kinds
  <1>2. TQTypeOK /\ [TQNext]_turnVars => TQTypeOK'
    <2> SUFFICES ASSUME TQTypeOK, [TQNext]_turnVars PROVE TQTypeOK'
      OBVIOUS
    <2> USE DEF TQTypeOK
    <2>a. Len(kindOf) \in Nat /\ Len(log) \in Nat
      BY LenProperties
    <2>1. ASSUME NEW k \in Kinds, QueueTurn(k) PROVE TQTypeOK'
      <3>1. kindOf' \in Seq(Kinds) /\ Len(kindOf') = Len(kindOf) + 1
        BY <2>1, AppendProperties DEF QueueTurn
      <3>2. 1..Len(kindOf) \subseteq 1..Len(kindOf') /\ Len(kindOf') \in 1..Len(kindOf')
        BY <2>a, <3>1
      <3>3. pending' \subseteq 1..Len(kindOf')
        BY <2>1, <3>1, <3>2 DEF QueueTurn
      <3>4. \A i \in 1..Len(log) : log[i].turns \subseteq 1..Len(kindOf')
        BY <3>2
      <3> QED BY <2>1, <3>1, <3>3, <3>4 DEF QueueTurn
    <2>2. ASSUME NEW c \in Clients, Claim(c) \/ Release(c) PROVE TQTypeOK'
      BY <2>2 DEF Claim, Release
    <2>3. ASSUME NEW c \in Clients, HandOver(c, PendingSteers) \/ HandOver(c, pending)
          PROVE TQTypeOK'
      <3>1. PICK T \in SUBSET pending : HandOver(c, T)
        BY <2>3, HandOverTakes
      <3> DEFINE entry == [run |-> c, turns |-> T]
      <3>b. 1..Len(kindOf) \subseteq Nat
        BY <2>a
      <3>c. T \subseteq 1..Len(kindOf)
        BY Zenon
      <3>a. T \in SUBSET Nat /\ T \subseteq 1..Len(kindOf)
        BY <3>b, <3>c, Zenon
      <3>2. entry \in HandOvers /\ entry.turns \subseteq 1..Len(kindOf)
        BY <3>a DEF HandOvers
      <3>3. log' = Append(log, entry) /\ kindOf' = kindOf /\ holder' = holder
            /\ pending' \subseteq pending
        BY <3>1 DEF HandOver
      <3> HIDE DEF entry
      <3>4. /\ log' \in Seq(HandOvers) /\ Len(log') = Len(log) + 1
            /\ log'[Len(log) + 1] = entry
            /\ \A i \in 1..Len(log) : log'[i] = log[i]
        BY <3>2, <3>3, AppendProperties
      <3>5. \A i \in 1..Len(log') : log'[i].turns \subseteq 1..Len(kindOf)
        BY <2>a, <3>2, <3>4
      <3> QED BY <3>3, <3>4, <3>5
    <2>4. CASE UNCHANGED turnVars
      BY <2>4 DEF turnVars
    <2> QED BY <2>1, <2>2, <2>3, <2>4 DEF TQNext
  <1> QED BY <1>1, <1>2, PTL DEF TQSpec

\* The promise of the handle as one inductive invariant.
Ledger == DeliveredOnce /\ KindsInOrder

\* Steer and FollowUp add the newest turn, which comes after all others.
LEMMA QueueTurnKeepsLedger ==
    ASSUME TQTypeOK, Ledger, NEW k \in Kinds, QueueTurn(k)
    PROVE  Ledger'
  <1> USE DEF TQTypeOK, Ledger
  <1>1. /\ log' = log /\ Len(kindOf') = Len(kindOf) + 1
        /\ pending' = pending \cup {Len(kindOf) + 1}
        /\ \A t \in 1..Len(kindOf) : kindOf'[t] = kindOf[t]
    BY AppendProperties DEF QueueTurn
  <1>2. /\ Len(kindOf) \in Nat /\ Len(log) \in Nat
        /\ \A i \in 1..Len(log) : log[i].turns \subseteq 1..Len(kindOf)
    BY LenProperties
  <1>3. DeliveredOnce'
    BY <1>1, <1>2 DEF DeliveredOnce
  <1>4. KindsInOrder'
    <2>1. \A i, j \in 1..Len(log) : i < j =>
             \A s \in log[i].turns, t \in log[j].turns : kindOf'[s] = kindOf'[t] => s < t
      BY <1>1, <1>2 DEF KindsInOrder
    <2>2. ASSUME NEW i \in 1..Len(log), NEW s \in log[i].turns, NEW t \in pending',
                 kindOf'[s] = kindOf'[t]
          PROVE  s < t
      <3>1. s \in 1..Len(kindOf)
        BY <1>2
      <3>2. CASE t \in pending
        BY <1>1, <2>2, <3>1, <3>2 DEF KindsInOrder
      <3>3. CASE t = Len(kindOf) + 1
        BY <3>1, <3>3
      <3> QED BY <1>1, <3>2, <3>3
    <2> QED BY <1>1, <2>1, <2>2 DEF KindsInOrder
  <1> QED BY <1>3, <1>4

\* A drain that takes all pending turns of a kind, or none, keeps the ledger.
LEMMA HandOverKeepsLedger ==
    ASSUME TQTypeOK, Ledger, NEW c \in Clients, NEW T \in SUBSET pending,
           HandOver(c, T),
           \A s \in T, t \in pending \ T : kindOf[s] # kindOf[t]
    PROVE  Ledger'
  <1> USE DEF TQTypeOK, Ledger
  <1> DEFINE entry == [run |-> c, turns |-> T]
  <1>1. /\ kindOf' = kindOf
        /\ pending' = pending \ T
        /\ log' = Append(log, entry)
    BY DEF HandOver
  <1>a. Len(log) \in Nat /\ Len(kindOf) \in Nat
    BY LenProperties
  <1>b. T \in SUBSET Nat
    BY <1>a
  <1>2. entry \in HandOvers /\ Len(log) \in Nat /\ Len(kindOf) \in Nat
    BY <1>a, <1>b DEF HandOvers
  <1>4. entry.turns = T /\ T \subseteq pending
    OBVIOUS
  <1> HIDE DEF entry
  <1>3. /\ Len(log') = Len(log) + 1
        /\ log'[Len(log) + 1] = entry
        /\ \A i \in 1..Len(log) : log'[i] = log[i]
    BY <1>1, <1>2, AppendProperties
  <1>5. DeliveredOnce'
    <2>1. \A t \in 1..Len(kindOf') :
             t \in pending' \/ \E i \in 1..Len(log') : t \in log'[i].turns
      <3> SUFFICES ASSUME NEW t \in 1..Len(kindOf), t \notin pending'
                   PROVE  \E i \in 1..Len(log') : t \in log'[i].turns
        BY <1>1
      <3>1. CASE t \in T
        <4>1. Len(log) + 1 \in 1..Len(log')
          BY <1>2, <1>3
        <4> QED BY <1>3, <1>4, <3>1, <4>1
      <3>2. CASE t \notin T
        <4>1. PICK i \in 1..Len(log) : t \in log[i].turns
          BY <1>1, <3>2 DEF DeliveredOnce
        <4> QED BY <1>2, <1>3, <4>1
      <3> QED BY <3>1, <3>2
    <2>2. \A i \in 1..Len(log') : log'[i].turns \cap pending' = {}
      BY <1>1, <1>2, <1>3, <1>4 DEF DeliveredOnce
    <2>3. \A i, j \in 1..Len(log') : i # j => log'[i].turns \cap log'[j].turns = {}
      BY <1>2, <1>3, <1>4 DEF DeliveredOnce
    <2> QED BY <2>1, <2>2, <2>3 DEF DeliveredOnce
  <1>6. KindsInOrder'
    <2>1. ASSUME NEW i \in 1..Len(log'), NEW j \in 1..Len(log'), i < j,
                 NEW s \in log'[i].turns, NEW t \in log'[j].turns, kindOf'[s] = kindOf'[t]
          PROVE  s < t
      <3>1. i \in 1..Len(log) /\ log'[i] = log[i]
        BY <1>2, <1>3, <2>1
      <3>2. CASE j \in 1..Len(log)
        BY <1>1, <1>3, <2>1, <3>1, <3>2 DEF KindsInOrder
      <3>3. CASE j = Len(log) + 1
        BY <1>1, <1>3, <1>4, <2>1, <3>1, <3>3 DEF KindsInOrder
      <3> QED BY <1>2, <1>3, <3>2, <3>3
    <2>2. ASSUME NEW i \in 1..Len(log'), NEW s \in log'[i].turns, NEW t \in pending',
                 kindOf'[s] = kindOf'[t]
          PROVE  s < t
      <3>1. CASE i \in 1..Len(log)
        BY <1>1, <1>3, <2>2, <3>1 DEF KindsInOrder
      <3>2. CASE i = Len(log) + 1
        BY <1>1, <1>3, <1>4, <2>2, <3>2
      <3> QED BY <1>2, <1>3, <3>1, <3>2
    <2> QED BY <2>1, <2>2 DEF KindsInOrder
  <1> QED BY <1>5, <1>6

\* Both promises together are inductive: each drain moves turns from pending to
\* the log, and takes every earlier turn of the kinds it takes.
THEOREM LedgerInvariant == TQSpec => []Ledger
  <1>1. TQInit => Ledger
    BY DEF TQInit, Ledger, DeliveredOnce, KindsInOrder
  <1>2. TQTypeOK /\ Ledger /\ [TQNext]_turnVars => Ledger'
    <2> SUFFICES ASSUME TQTypeOK, Ledger, [TQNext]_turnVars PROVE Ledger'
      OBVIOUS
    <2>1. ASSUME NEW k \in Kinds, QueueTurn(k) PROVE Ledger'
      BY <2>1, QueueTurnKeepsLedger
    <2>2. ASSUME NEW c \in Clients, Claim(c) \/ Release(c) PROVE Ledger'
      BY <2>2 DEF Claim, Release, Ledger, DeliveredOnce, KindsInOrder
    <2>3. ASSUME NEW c \in Clients, HandOver(c, PendingSteers) \/ HandOver(c, pending)
          PROVE  Ledger'
      BY <2>3, HandOverTakes, HandOverKeepsLedger
    <2>4. CASE UNCHANGED turnVars
      BY <2>4 DEF turnVars, Ledger, DeliveredOnce, KindsInOrder
    <2> QED BY <2>1, <2>2, <2>3, <2>4 DEF TQNext
  <1> QED BY <1>1, <1>2, TQTypeCorrect, PTL DEF TQSpec

(***************************************************************************)
(* No turn queued on the handle is ever lost or handed over twice.         *)
(***************************************************************************)
THEOREM TurnsDeliveredOnce == TQSpec => []DeliveredOnce
  <1>1. Ledger => DeliveredOnce
    BY DEF Ledger
  <1> QED BY <1>1, LedgerInvariant, PTL

(***************************************************************************)
(* Steers arrive in the order of the Steer calls and follow-ups in the     *)
(* order of the FollowUp calls, across all runs of the handle.             *)
(***************************************************************************)
THEOREM TurnsInOrder == TQSpec => []KindsInOrder
  <1>1. Ledger => KindsInOrder
    BY DEF Ledger
  <1> QED BY <1>1, LedgerInvariant, PTL
============================================================================
