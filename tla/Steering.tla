----------------------------- MODULE Steering ------------------------------
(***************************************************************************)
(* agent.Steering (agent/steering.go): the mutex-guarded slice of queued   *)
(* turns and the bound flag, used concurrently by producers (Steer,        *)
(* FollowUp) and by the runs that try to bind it.  Every method holds the  *)
(* mutex for its whole body, so each is one action.                        *)
(*                                                                         *)
(* A queued turn is its kind and its message; the message is abstracted to *)
(* its number in enqueue order.                                            *)
(***************************************************************************)
EXTENDS Integers, Sequences, FiniteSets, SequencesExt

CONSTANTS Clients,      \* the runs that share the handle
          NoClient,     \* nobody
          MaxTurns      \* bound: turns ever queued

ASSUME HandleAssumption == NoClient \notin Clients /\ MaxTurns \in Nat

VARIABLES
    slice,      \* Steering.queue
    isBound,    \* Steering.bound
    client,     \* per run: "out", "refused" (ErrSteeringInUse), "in"
    queued,     \* history: the kind of every turn ever queued, by number
    received    \* history: what each drain returned, in order

steeringVars == <<slice, isBound, client, queued, received>>

SInit ==
    /\ slice = <<>>
    /\ isBound = FALSE
    /\ client = [c \in Clients |-> "out"]
    /\ queued = <<>>
    /\ received = <<>>

\* Steer and FollowUp.
EnqueueTurn(k) ==
    /\ Len(queued) < MaxTurns
    /\ queued' = Append(queued, k)
    /\ slice' = Append(slice, [kind |-> k, turn |-> Len(queued) + 1])
    /\ UNCHANGED <<isBound, client, received>>

\* bind at the entry of Runner.run: a claimed handle refuses the run.
Bind(c) ==
    /\ client[c] = "out"
    /\ client' = [client EXCEPT ![c] = IF isBound THEN "refused" ELSE "in"]
    /\ isBound' = TRUE
    /\ UNCHANGED <<slice, queued, received>>

\* Mutation: a refused run unbinds on its way out.
LeaveRefusedUnbinds(c) ==
    /\ client[c] = "refused"
    /\ client' = [client EXCEPT ![c] = "out"]
    /\ isBound' = FALSE
    /\ UNCHANGED <<slice, queued, received>>

\* A refused run returns without the deferred unbind.
LeaveRefused(c) ==
    /\ client[c] = "refused"
    /\ client' = [client EXCEPT ![c] = "out"]
    /\ UNCHANGED <<slice, isBound, queued, received>>

Unbind(c) ==
    /\ client[c] = "in"
    /\ client' = [client EXCEPT ![c] = "out"]
    /\ isBound' = FALSE
    /\ UNCHANGED <<slice, queued, received>>

Receive(c, turns) ==
    received' = IF turns = <<>> THEN received
                ELSE Append(received, [run |-> c, turns |-> turns])

\* drainSteers' loop over the first n turns: what it takes out, what it keeps.
Parted[n \in 0..Len(slice)] ==
    IF n = 0 THEN [out |-> <<>>, kept |-> <<>>]
    ELSE IF slice[n].kind = "steer"
    THEN [out |-> Append(Parted[n - 1].out, slice[n]), kept |-> Parted[n - 1].kept]
    ELSE [out |-> Parted[n - 1].out, kept |-> Append(Parted[n - 1].kept, slice[n])]

\* The pre-completion drain: steers leave in queue order, follow-ups stay.
DrainSteers(c) ==
    /\ client[c] = "in"
    /\ Receive(c, Parted[Len(slice)].out)
    /\ slice' = Parted[Len(slice)].kept
    /\ UNCHANGED <<isBound, client, queued>>

\* The would-be-finish drain: everything leaves, in enqueue order.
DrainEverything(c) ==
    /\ client[c] = "in"
    /\ Receive(c, slice)
    /\ slice' = <<>>
    /\ UNCHANGED <<isBound, client, queued>>

SNext ==
    \/ \E k \in {"steer", "followUp"} : EnqueueTurn(k)
    \/ \E c \in Clients :
          Bind(c) \/ LeaveRefused(c) \/ Unbind(c) \/ DrainSteers(c) \/ DrainEverything(c)

SSpec == SInit /\ [][SNext]_steeringVars

----------------------------------------------------------------------------
\* The slice, and what a drain returns, in the order of Steer and FollowUp.
Ascending(turns) == \A i, j \in DOMAIN turns : i < j => turns[i].turn < turns[j].turn

\* The handle as its callers see it (see TurnQueue).
Numbers(turns) == {t.turn : t \in ToSet(turns)}

HandOvers(r) ==
    [i \in 1..Len(r) |-> [run |-> r[i].run, turns |-> Numbers(r[i].turns)]]

InCharge ==
    IF \E c \in Clients : client[c] = "in"
    THEN CHOOSE c \in Clients : client[c] = "in"
    ELSE NoClient

Abstract == INSTANCE TurnQueue WITH
    kindOf  <- queued,
    pending <- Numbers(slice),
    log     <- HandOvers(received),
    holder  <- InCharge

(***************************************************************************)
(* The slice and the bound flag implement the promise: exclusive binding   *)
(* under racing binds, and every turn handed over once.  The abstract log  *)
(* holds sets of turns; what a drain returns is in enqueue order too,      *)
(* although drainSteers rebuilds the slice around the turns it takes out.  *)
(***************************************************************************)
ImplementsTurnQueue ==
    /\ Abstract!TQSpec
    /\ [](Ascending(slice) /\ \A i \in DOMAIN received : Ascending(received[i].turns))
============================================================================
