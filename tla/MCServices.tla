---------------------------- MODULE MCServices ----------------------------
(***************************************************************************)
(* The services around the loop, each on a small instance: the JSONL sink, *)
(* the event store, the embedding cache, the steering handle and the       *)
(* backoff of a retry.  They share no state and call one another nowhere,  *)
(* so their steps commute; one of them runs in a behavior, and the others  *)
(* stand still in one state of their own.                                  *)
(***************************************************************************)
EXTENDS JSONLSink, EventStore, EmbedCache, Steering, Backoff, TLC

CONSTANTS old, new, m1, m2   \* two builds of the store, two messages

VARIABLE part   \* the service of this behavior

Services == {"sink", "store", "embed", "steering", "backoff"}

sinkVars == vars
allVars == <<part, sinkVars, storeVars, embedVars, steeringVars, backoffVars>>

MCRetryAfters == {-1, 1, MaxInt}
MCLatest == (old :> 1) @@ (new :> 2)

MCEmitters == {<<old, "a">>, <<old, "b">>, <<new, "a">>}

MCPayloads == {[kind |-> "start", messages |-> <<>>], [kind |-> "attempt", messages |-> <<m1, m2>>]}

\* A file that is no store's, a new one, and one of the older build.
MCVersions == {-1, 0, 1}

\* Chunks of one text; all in one request; and a configured length.
MCConfigs ==
    {[backend |-> "ollama", maxBatch |-> 1, dimensions |-> 0],
     [backend |-> "openai", maxBatch |-> 0, dimensions |-> 0],
     [backend |-> "openai", maxBatch |-> 0, dimensions |-> 1]}

MCInit ==
    /\ part \in Services
    /\ Init /\ StoreInit /\ EmbedInit /\ SInit /\ BackoffInit
    /\ part # "sink" => ~exists
    /\ part # "store" => db.version = 0
    /\ part # "embed" => config.dimensions = 1
    /\ part # "backoff" => baseDelay = 0 /\ maxDelay = 0 /\ jitter = 0

MCNext ==
    /\ \/ part = "sink" /\ Next /\ UNCHANGED <<storeVars, embedVars, steeringVars, backoffVars>>
       \/ part = "store" /\ StoreNext /\ UNCHANGED <<sinkVars, embedVars, steeringVars, backoffVars>>
       \/ part = "embed" /\ EmbedNext /\ UNCHANGED <<sinkVars, storeVars, steeringVars, backoffVars>>
       \/ part = "steering" /\ SNext /\ UNCHANGED <<sinkVars, storeVars, embedVars, backoffVars>>
       \/ part = "backoff" /\ BackoffNext /\ UNCHANGED <<sinkVars, storeVars, embedVars, steeringVars>>
    /\ UNCHANGED part

MCSpec == MCInit /\ [][MCNext]_allVars

MCSymmetry == Permutations(Runs) \cup Permutations(Callers)
============================================================================
