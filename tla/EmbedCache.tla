----------------------------- MODULE EmbedCache -----------------------------
(***************************************************************************)
(* CachedEmbedder (embed/cache.go) over the HTTP embedder it wraps         *)
(* (embed/backend.go): an LRU cache whose mutex is released while the      *)
(* missing texts are embedded, and the chunked, retried requests that      *)
(* embed them, whose answers a codec must put back in order.               *)
(*                                                                         *)
(* A vector is the text it embeds, its length, and the memory cell its     *)
(* numbers are in: a slice is shared or copied, and whoever holds one may  *)
(* write to it.  spoiled are the cells written to, and by whom.            *)
(* Embed is EmbedBatch of one text, in the cache as in the embedder.       *)
(***************************************************************************)
EXTENDS Integers, Sequences, FiniteSets, SequencesExt, TLC

CONSTANTS
    Callers,        \* goroutines that share the cache
    Texts,          \* what they embed; a key is one model's text
    MaxSize,        \* the cache's bound, 0: none
    Configs,        \* the embedders' [backend, maxBatch, dimensions]; maxBatch 0: no chunks
    EmbedAttempts,  \* Config.Retry.MaxAttempts
    MaxAsked,       \* bound: texts requested in all
    MaxSpoils       \* bound: writes into a vector somebody holds

ASSUME EmbedAssumption ==
    /\ Configs \subseteq [backend : {"ollama", "openai"}, maxBatch : Nat, dimensions : Nat]
    /\ MaxSize \in Nat /\ EmbedAttempts \in Nat \ {0} /\ MaxAsked \in Nat /\ MaxSpoils \in Nat

VARIABLES
    config,    \* the wrapped embedder's Config
    cache,     \* the vector of every key in the cache
    lru,       \* the keys, the most recently used first
    counts,    \* the counters: hits and misses
    dims,      \* backendEmbedder.dims, 0 until it is known
    call,      \* per caller: its call
    asked,     \* history: texts requested so far
    spoiled    \* history: <<cell, who>> of every write into a vector

cacheVars == <<cache, lru, counts, asked>>
embedVars == <<config, cacheVars, dims, call, spoiled>>

NoCall == [n |-> 0, pc |-> "idle", texts |-> <<>>, results |-> <<>>, missing |-> <<>>,
           computed |-> <<>>, attempt |-> 1]

EmbedInit ==
    /\ config \in Configs
    /\ dims = config.dimensions
    /\ cache = <<>> /\ lru = <<>> /\ counts = [hits |-> 0, misses |-> 0]
    /\ call = [c \in Callers |-> NoCall]
    /\ asked = 0 /\ spoiled = {}

----------------------------------------------------------------------------
\* copyVector: the numbers in a cell of their own.
CopyVector(v, cell) == [v EXCEPT !.cell = cell]

\* container/list: an element leaves its place and comes first.
MoveToFront(keys, key) ==
    LET place == CHOOSE i \in DOMAIN keys : keys[i] = key
    IN  [i \in DOMAIN keys |->
            IF i = 1 THEN key ELSE IF i <= place THEN keys[i - 1] ELSE keys[i]]

Cell(c, stage, i) == <<c, call[c].n, stage, i>>

\* No partial results.
FailCall(c) == call' = [call EXCEPT ![c] = [NoCall EXCEPT !.n = call[c].n]]

----------------------------------------------------------------------------
\* The cache.

\* One turn of the lookup loop: a hit comes first, a miss leaves its index.
LookUpText(found, texts, i) ==
    IF texts[i] \in DOMAIN cache
    THEN [found EXCEPT !.lru = MoveToFront(@, texts[i]), !.hits = @ + 1]
    ELSE [found EXCEPT !.missing = Append(@, i)]

\* The lookups of one critical section.
LookUpAll(texts) ==
    LET found[i \in 0..Len(texts)] ==
            IF i = 0 THEN [lru |-> lru, missing |-> <<>>, hits |-> 0]
            ELSE LookUpText(found[i - 1], texts, i)
    IN  found[Len(texts)]

\* Embed and EmbedBatch up to the unlock; a hit is given as a copy.
Request(c, texts) ==
    /\ call[c].pc \in {"idle", "done"} /\ asked + Len(texts) <= MaxAsked
    /\ LET found == LookUpAll(texts)
           n == call[c].n + 1
       IN  /\ call' = [call EXCEPT ![c] =
                [n |-> n, pc |-> IF found.missing = <<>> THEN "done" ELSE "asking", texts |-> texts,
                 results |-> [i \in DOMAIN texts |->
                    IF texts[i] \in DOMAIN cache
                    THEN <<CopyVector(cache[texts[i]], <<c, n, "hit", i>>)>> ELSE <<>>],
                 missing |-> found.missing, computed |-> <<>>, attempt |-> 1]]
           /\ lru' = found.lru
           /\ counts' = [hits |-> counts.hits + found.hits,
                         misses |-> counts.misses + Len(found.missing)]
    /\ asked' = asked + Len(texts)
    /\ UNCHANGED <<config, cache, dims, spoiled>>

\* Mutation: an entry that came in meanwhile is not looked for.
InsertAgain(state, key, v) ==
    LET grown == [cache |-> [k \in DOMAIN state.cache \cup {key} |->
                                IF k = key THEN v ELSE state.cache[k]],
                  lru |-> <<key>> \o state.lru]
    IN  IF MaxSize > 0 /\ Cardinality(DOMAIN grown.cache) > MaxSize
        THEN [cache |-> [k \in DOMAIN grown.cache \ {Last(grown.lru)} |-> grown.cache[k]],
              lru |-> Front(grown.lru)]
        ELSE grown

\* insert: an entry is replaced, or added and the oldest one dropped.
Insert(state, key, v) ==
    LET known == key \in DOMAIN state.cache
        grown == [cache |-> [k \in DOMAIN state.cache \cup {key} |->
                                IF k = key THEN v ELSE state.cache[k]],
                  lru |-> IF known THEN MoveToFront(state.lru, key) ELSE <<key>> \o state.lru]
        oldest == Last(grown.lru)
    IN  IF ~known /\ MaxSize > 0 /\ Cardinality(DOMAIN grown.cache) > MaxSize
        THEN [cache |-> [k \in DOMAIN grown.cache \ {oldest} |-> grown.cache[k]],
              lru |-> Front(grown.lru)]
        ELSE grown

\* One turn of the insert loop: a copy of a computed vector is kept.
Store(c, state, j) ==
    Insert(state, call[c].texts[call[c].missing[j]], CopyVector(call[c].computed[j], Cell(c, "kept", j)))

StoreAll(c) ==
    LET after[j \in 0..Len(call[c].missing)] ==
            IF j = 0 THEN [cache |-> cache, lru |-> lru] ELSE Store(c, after[j - 1], j)
    IN  after[Len(call[c].missing)]

\* What the caller gets for its i-th text: a copy of the computed vector, or the hit.
Given(c, i) ==
    LET place == CHOOSE j \in DOMAIN call[c].missing : call[c].missing[j] = i
    IN  IF \E j \in DOMAIN call[c].missing : call[c].missing[j] = i
        THEN <<CopyVector(call[c].computed[place], Cell(c, "given", i))>>
        ELSE call[c].results[i]

\* The second critical section: every computed vector is returned and kept.
Settle(c) ==
    /\ call[c].pc = "computed"
    /\ IF Len(call[c].computed) # Len(call[c].missing)
       THEN FailCall(c) /\ UNCHANGED <<cache, lru>>
       ELSE /\ cache' = StoreAll(c).cache /\ lru' = StoreAll(c).lru
            /\ call' = [call EXCEPT ![c].pc = "done",
                            ![c].results = [i \in DOMAIN call[c].texts |-> Given(c, i)]]
    /\ UNCHANGED <<config, counts, asked, dims, spoiled>>

\* Clear keeps the counters.
Clear ==
    /\ cache # <<>>
    /\ cache' = <<>> /\ lru' = <<>>
    /\ UNCHANGED <<config, counts, asked, dims, call, spoiled>>

----------------------------------------------------------------------------
\* The embedder: the missing texts in chunks, each retried on its own.

Remaining(c) ==
    LET me == call[c]
    IN  [j \in 1..(Len(me.missing) - Len(me.computed)) |->
            me.texts[me.missing[Len(me.computed) + j]]]

\* batchChunkSize.
BatchChunkSize(remaining) ==
    IF config.maxBatch = 0 \/ remaining < config.maxBatch THEN remaining ELSE config.maxBatch

Chunk(c) == SubSeq(Remaining(c), 1, BatchChunkSize(Len(Remaining(c))))

(***************************************************************************)
(* What a 200 body may hold for a chunk: entries of some length, each for  *)
(* the text at an index from 0, one of which no text has.  Ollama's carry  *)
(* no index and stand for the texts in order.                              *)
(***************************************************************************)
Lengths == 0..2

Entry(chunk) ==
    {[index |-> k, of |-> IF k < Len(chunk) THEN chunk[k + 1] ELSE "none", len |-> l] :
        k \in 0..Len(chunk), l \in Lengths}

Bodies(chunk) ==
    {data \in UNION {[1..n -> Entry(chunk)] : n \in (Len(chunk) - 1)..Len(chunk)} :
        config.backend = "ollama" => \A i \in DOMAIN data : data[i].index = i - 1}

\* Mutation: the entries are taken in the order in which they arrive.
DecodeInOrder(data, want) ==
    IF Len(data) # want \/ (\E i \in DOMAIN data : data[i].index >= want)
    THEN <<>>
    ELSE data

\* decodeResponse: every slot exactly once, or nothing.
Decode(data, want) ==
    IF \/ Len(data) # want
       \/ \E i \in DOMAIN data : data[i].index >= want
       \/ \E i, j \in DOMAIN data : i # j /\ data[i].index = data[j].index
    THEN <<>>
    ELSE [k \in 1..want |-> CHOOSE e \in ToSet(data) : e.index = k - 1]

\* The length every vector must have: the first vector's, if none is known.
Expected(vectors) == IF dims = 0 THEN vectors[1].len ELSE dims

\* checkDimensions; what is recorded stays, even when a later vector fails.
Agree(vectors) ==
    Expected(vectors) > 0 /\ \A i \in DOMAIN vectors : vectors[i].len = Expected(vectors)

\* doEmbed succeeds for a chunk; the next one follows, or the cache goes on.
Embedded(c, data) ==
    LET chunk == Chunk(c)
        vectors == Decode(data, Len(chunk))
        done == Len(call[c].computed)
        made == [k \in DOMAIN vectors |->
                    [of |-> vectors[k].of, len |-> vectors[k].len, cell |-> Cell(c, "inner", done + k)]]
    IN  /\ call[c].pc = "asking"
        /\ vectors # <<>> /\ Agree(vectors) /\ dims' = Expected(vectors)
        /\ call' = [call EXCEPT ![c].computed = @ \o made, ![c].attempt = 1,
                        ![c].pc = IF Len(chunk) = Len(Remaining(c)) THEN "computed" ELSE "asking"]
        /\ UNCHANGED <<config, cacheVars, spoiled>>

\* The body cannot be decoded, or a vector has another length: not retried.
Unusable(c, data) ==
    LET vectors == Decode(data, Len(Chunk(c)))
    IN  /\ call[c].pc = "asking"
        /\ \/ vectors = <<>> /\ UNCHANGED dims
           \/ vectors # <<>> /\ ~Agree(vectors) /\ dims' = Expected(vectors)
        /\ FailCall(c)
        /\ UNCHANGED <<config, cacheVars, spoiled>>

\* A failed request: a retryable one is repeated while attempts are left.
Refused(c, retryable) ==
    /\ call[c].pc = "asking"
    /\ IF retryable /\ call[c].attempt < EmbedAttempts
       THEN call' = [call EXCEPT ![c].attempt = @ + 1]
       ELSE FailCall(c)
    /\ UNCHANGED <<config, cacheVars, dims, spoiled>>

----------------------------------------------------------------------------
\* Who holds a vector writes into it.
Scribble(v, who) ==
    /\ Cardinality(spoiled) < MaxSpoils
    /\ spoiled' = spoiled \cup {<<v.cell, who>>}
    /\ UNCHANGED <<config, cacheVars, dims, call>>

EmbedNext ==
    \/ \E c \in Callers :
        \/ \E texts \in {<<t>> : t \in Texts} \cup {<<t, u>> : t, u \in Texts} : Request(c, texts)
        \/ \E data \in Bodies(Chunk(c)) : Embedded(c, data) \/ Unusable(c, data)
        \/ \E retryable \in BOOLEAN : Refused(c, retryable)
        \/ Settle(c)
        \/ /\ call[c].pc = "done"
           /\ \E i \in DOMAIN call[c].results : Scribble(call[c].results[i][1], c)
        \/ /\ call[c].pc = "done"   \* an embedder that reuses its buffers
           /\ \E i \in DOMAIN call[c].computed : Scribble(call[c].computed[i], "embedder")
    \/ Clear

EmbedSpec == EmbedInit /\ [][EmbedNext]_embedVars

----------------------------------------------------------------------------
\* Properties.

(***************************************************************************)
(* The i-th vector of a call embeds the i-th text, in the one length the   *)
(* embedder works with, and nobody else has written to it: whatever the    *)
(* order of the server's entries, whichever texts were hits, and whoever   *)
(* cleared, evicted or replaced entries while the cache was unlocked.      *)
(***************************************************************************)
AlignedVectors ==
    \A c \in Callers : call[c].pc = "done" =>
        \A i \in DOMAIN call[c].texts :
            LET v == call[c].results[i][1]
            IN  /\ v.of = call[c].texts[i]
                /\ v.len = dims
                /\ \A s \in spoiled : s[1] = v.cell => s[2] = c

(***************************************************************************)
(* The map and the recency list hold the same keys, each once, and no more *)
(* than the bound; what is kept embeds its key and is nobody's to write    *)
(* to; and every requested text was counted as one hit or one miss.        *)
(***************************************************************************)
CacheSound ==
    /\ ToSet(lru) = DOMAIN cache /\ Len(lru) = Cardinality(DOMAIN cache)
    /\ MaxSize > 0 => Len(lru) <= MaxSize
    /\ \A key \in DOMAIN cache :
          cache[key].of = key /\ \A s \in spoiled : s[1] # cache[key].cell
    /\ counts.hits + counts.misses = asked
============================================================================
