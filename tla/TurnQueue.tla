----------------------------- MODULE TurnQueue -----------------------------
(***************************************************************************)
(* What a Steering handle promises (the documentation of agent.Steering):  *)
(* user turns are queued at any time and by anyone, and one run at a time  *)
(* takes them off the queue.  A run either takes every pending steer, or   *)
(* everything that is pending; each turn is handed over once.              *)
(*                                                                         *)
(* Turns are numbered in the order in which they are queued.  Modules      *)
(* Steering (the handle itself) and RunLoop (the runs that use it)         *)
(* implement this specification.                                           *)
(***************************************************************************)
EXTENDS Integers, Sequences

CONSTANTS Clients,      \* the runs that share the handle
          NoClient      \* nobody holds the handle

VARIABLES
    kindOf,     \* the kind of every turn ever queued, by number
    pending,    \* the numbers of the turns not yet handed over
    log,        \* the hand-overs so far: who took which turns
    holder      \* the run that holds the handle

turnVars == <<kindOf, pending, log, holder>>

Kinds == {"steer", "followUp"}

TQInit ==
    /\ kindOf = <<>>
    /\ pending = {}
    /\ log = <<>>
    /\ holder = NoClient

\* Steer and FollowUp: any producer, at any time.
QueueTurn(k) ==
    /\ kindOf' = Append(kindOf, k)
    /\ pending' = pending \cup {Len(kindOf) + 1}
    /\ UNCHANGED <<log, holder>>

\* bind: the handle serves one run at a time.
Claim(c) ==
    /\ holder = NoClient
    /\ holder' = c
    /\ UNCHANGED <<kindOf, pending, log>>

\* unbind.
Release(c) ==
    /\ holder = c
    /\ holder' = NoClient
    /\ UNCHANGED <<kindOf, pending, log>>

\* drainSteers and drainAll: the holder takes turns off the queue.
HandOver(c, T) ==
    /\ holder = c
    /\ T # {}
    /\ pending' = pending \ T
    /\ log' = Append(log, [run |-> c, turns |-> T])
    /\ UNCHANGED <<kindOf, holder>>

PendingSteers == {t \in pending : kindOf[t] = "steer"}

TQNext ==
    \/ \E k \in Kinds : QueueTurn(k)
    \/ \E c \in Clients :
          Claim(c) \/ Release(c) \/ HandOver(c, PendingSteers) \/ HandOver(c, pending)

TQSpec == TQInit /\ [][TQNext]_turnVars

----------------------------------------------------------------------------
HandOvers == [run : Clients, turns : SUBSET Nat]

(***************************************************************************)
(* Only turns that were queued are pending or handed over, and only a run  *)
(* of the handle holds it.                                                 *)
(***************************************************************************)
TQTypeOK ==
    /\ kindOf \in Seq(Kinds)
    /\ pending \subseteq 1..Len(kindOf)
    /\ log \in Seq(HandOvers)
    /\ \A i \in 1..Len(log) : log[i].turns \subseteq 1..Len(kindOf)
    /\ holder \in Clients \cup {NoClient}

(***************************************************************************)
(* No turn is lost and none is delivered twice: every turn ever queued is  *)
(* either still pending or in exactly one hand-over.                       *)
(***************************************************************************)
DeliveredOnce ==
    /\ \A t \in 1..Len(kindOf) : t \in pending \/ \E i \in 1..Len(log) : t \in log[i].turns
    /\ \A i \in 1..Len(log) : log[i].turns \cap pending = {}
    /\ \A i, j \in 1..Len(log) : i # j => log[i].turns \cap log[j].turns = {}

(***************************************************************************)
(* Turns of one kind are delivered in the order in which they were queued, *)
(* over all the runs that the handle serves; what is pending comes after.  *)
(***************************************************************************)
KindsInOrder ==
    /\ \A i, j \in 1..Len(log) : i < j =>
          \A s \in log[i].turns, t \in log[j].turns : kindOf[s] = kindOf[t] => s < t
    /\ \A i \in 1..Len(log) :
          \A s \in log[i].turns, t \in pending : kindOf[s] = kindOf[t] => s < t
============================================================================
