------------------------------ MODULE Embedder ------------------------------
(***************************************************************************)
(* soc_agent/clustering/embedder.py: EmbedderClient.embed_texts() with its *)
(* on-disk cache, run by several processes (overlapping or one after the   *)
(* other) that share the cache directory and the inference service; a      *)
(* client may also have no cache, or have closed it.                       *)
(*                                                                         *)
(* A vector is a record: the text it embeds and the checkpoint that        *)
(* computed it.  Each cache access, each HTTP attempt and the loss of a    *)
(* process are separate steps: the cache is a database on disk, reached    *)
(* without a lock around embed_texts().                                    *)
(***************************************************************************)
EXTENDS Naturals, Sequences, FiniteSets

CONSTANTS Runs,         \* the invocations of embed_texts()
          Inputs,       \* the lists of log descriptions they may embed
          Dim,          \* the dimension of the vectors of each checkpoint,
                        \*   in the order in which the service loads them
          BatchSize,    \* EmbedderClient(batch_size=...)
          MaxRetries,   \* EmbedderClient(max_retries=...)
          TooLong       \* texts that EmbeddingsRequest rejects (> 2048 chars)

Texts == UNION {{inp[i] : i \in DOMAIN inp} : inp \in Inputs}

ASSUME InputsAssumption == Inputs \subseteq (Seq(Texts) \ {<<>>})
ASSUME DimAssumption == Dim \in Seq(Nat) /\ Dim # <<>>
ASSUME BatchAssumption == BatchSize \in Nat \ {0}
ASSUME RetriesAssumption == MaxRetries \in Nat \ {0}

VARIABLES cache,       \* disk: the vector stored under each text's key
          checkpoint,  \* the checkpoint the service serves now
          hasCache,    \* whether each run's client has a cache
          pc,          \* where each run is
          input,       \* its texts
          vectors,     \* vectors[i]: the vector of input[i], or NoVector
          missing,     \* uncached_idx
          next,        \* index the current loop has reached
          fresh,       \* the vectors received so far, parallel to missing
          attempt,     \* tenacity attempt of the current batch
          stats,       \* CacheStats: hits and misses
          posts,       \* history: HTTP requests sent
          warm         \* history: texts cached when the run started

vars == <<cache, checkpoint, hasCache, pc, input, vectors, missing, next, fresh, attempt,
          stats, posts, warm>>

NoVector == [text |-> "none", model |-> 0]

Vector(t) == [text |-> t, model |-> checkpoint]

TextsOf(r) == {input[r][i] : i \in DOMAIN input[r]}

Cached == {t \in Texts : cache[t] # NoVector}

Live == {"idle", "lookup", "post", "store"}

Init ==
    /\ cache = [t \in Texts |-> NoVector]
    /\ checkpoint = 1
    /\ hasCache \in [Runs -> BOOLEAN]
    /\ pc = [r \in Runs |-> "idle"]
    /\ input \in [Runs -> Inputs]
    /\ vectors = [r \in Runs |-> [i \in DOMAIN input[r] |-> NoVector]]
    /\ missing = [r \in Runs |-> <<>>]
    /\ next = [r \in Runs |-> 1]
    /\ fresh = [r \in Runs |-> <<>>]
    /\ attempt = [r \in Runs |-> 1]
    /\ stats = [r \in Runs |-> [hits |-> 0, misses |-> 0]]
    /\ posts = [r \in Runs |-> 0]
    /\ warm = [r \in Runs |-> {}]

Start(r) ==
    /\ pc[r] = "idle"
    /\ pc' = [pc EXCEPT ![r] = "lookup"]
    /\ warm' = [warm EXCEPT ![r] = IF hasCache[r] THEN Cached ELSE {}]
    /\ UNCHANGED <<cache, checkpoint, hasCache, input, vectors, missing, next, fresh, attempt, stats, posts>>

(* Mutant of Lookup: a cached vector is computed again.                    *)
LookupNeverHits(r) ==
    LET i == next[r]
    IN  /\ pc[r] = "lookup"
        /\ hasCache[r]
        /\ i <= Len(input[r])
        /\ next' = [next EXCEPT ![r] = i + 1]
        /\ missing' = [missing EXCEPT ![r] = Append(@, i)]
        /\ stats' = [stats EXCEPT ![r].misses = @ + 1]
        /\ UNCHANGED <<cache, checkpoint, hasCache, pc, input, vectors, fresh, attempt, posts, warm>>

(* One turn of the lookup loop.  The key is a hash of the text alone: the  *)
(* checkpoint that computed the vector plays no part in a hit.             *)
Lookup(r) ==
    LET i == next[r]
        hit == cache[input[r][i]]
    IN  /\ pc[r] = "lookup"
        /\ hasCache[r]
        /\ i <= Len(input[r])
        /\ next' = [next EXCEPT ![r] = i + 1]
        /\ IF hit # NoVector
           THEN /\ vectors' = [vectors EXCEPT ![r][i] = hit]
                /\ stats' = [stats EXCEPT ![r].hits = @ + 1]
                /\ UNCHANGED missing
           ELSE /\ missing' = [missing EXCEPT ![r] = Append(@, i)]
                /\ stats' = [stats EXCEPT ![r].misses = @ + 1]
                /\ UNCHANGED vectors
        /\ UNCHANGED <<cache, checkpoint, hasCache, pc, input, fresh, attempt, posts, warm>>

(* Without a cache every text is a miss.                                   *)
SkipLookup(r) ==
    /\ pc[r] = "lookup"
    /\ ~hasCache[r]
    /\ pc' = [pc EXCEPT ![r] = "post"]
    /\ missing' = [missing EXCEPT ![r] = [i \in DOMAIN input[r] |-> i]]
    /\ stats' = [stats EXCEPT ![r].misses = @ + Len(input[r])]
    /\ UNCHANGED <<cache, checkpoint, hasCache, input, vectors, next, fresh, attempt, posts, warm>>

Width(vector) == IF vector = NoVector THEN 0 ELSE Dim[vector.model]

(* np.asarray(): rows of different lengths raise.                          *)
Assembled(r) ==
    IF \A i, k \in DOMAIN input[r] : Width(vectors[r][i]) = Width(vectors[r][k])
    THEN "done" ELSE "ragged"

LookedUp(r) ==
    /\ pc[r] = "lookup"
    /\ next[r] > Len(input[r])
    /\ pc' = [pc EXCEPT ![r] = IF missing[r] = <<>> THEN Assembled(r) ELSE "post"]
    /\ next' = [next EXCEPT ![r] = 1]
    /\ UNCHANGED <<cache, checkpoint, hasCache, input, vectors, missing, fresh, attempt, stats,
                   posts, warm>>

(* The batch of _embed_uncached() that starts where fresh ends.            *)
LesserOf(a, b) == IF a < b THEN a ELSE b

Batch(r) ==
    LET from == Len(fresh[r])
        to   == LesserOf(from + BatchSize, Len(missing[r]))
    IN  [k \in 1..(to - from) |-> input[r][missing[r][from + k]]]

Posting(r) == pc[r] = "post" /\ Len(fresh[r]) < Len(missing[r])

ValidRequest(texts) == \A k \in DOMAIN texts : texts[k] \notin TooLong

Sent(r) == posts' = [posts EXCEPT ![r] = @ + 1]

Fails(r) ==
    /\ pc' = [pc EXCEPT ![r] = "failed"]
    /\ UNCHANGED <<cache, checkpoint, hasCache, input, vectors, missing, next, fresh, attempt, stats, warm>>

(* EmbeddingsRequest() raises before anything is sent.                     *)
RequestInvalid(r) ==
    /\ Posting(r)
    /\ ~ValidRequest(Batch(r))
    /\ Fails(r)
    /\ UNCHANGED posts

(* 200 with one vector per text, computed by the checkpoint of the moment. *)
BatchOk(r) ==
    /\ Posting(r)
    /\ ValidRequest(Batch(r))
    /\ Sent(r)
    /\ fresh' = [fresh EXCEPT ![r] = @ \o [k \in DOMAIN Batch(r) |-> Vector(Batch(r)[k])]]
    /\ attempt' = [attempt EXCEPT ![r] = 1]
    /\ UNCHANGED <<cache, checkpoint, hasCache, pc, input, vectors, missing, next, stats, warm>>

(* Mutants of BatchRetried: attempts are not limited; the count of them    *)
(* starts over after the last, for ever (and not to count the requests of  *)
(* that, too, keeps it finite); all batches of the run are sent again.     *)
BatchRetriedUnlimited(r) ==
    /\ Posting(r)
    /\ ValidRequest(Batch(r))
    /\ Sent(r)
    /\ attempt' = [attempt EXCEPT ![r] = @ + 1]
    /\ UNCHANGED <<cache, checkpoint, hasCache, pc, input, vectors, missing, next, fresh, stats, warm>>

BatchRetriedForEver(r) ==
    /\ Posting(r)
    /\ ValidRequest(Batch(r))
    /\ attempt' = [attempt EXCEPT ![r] = IF @ = MaxRetries THEN 1 ELSE @ + 1]
    /\ UNCHANGED <<cache, checkpoint, hasCache, pc, input, vectors, missing, next, fresh, stats,
                   posts, warm>>

BatchRetriedFromStart(r) ==
    /\ Posting(r)
    /\ ValidRequest(Batch(r))
    /\ attempt[r] < MaxRetries
    /\ Sent(r)
    /\ attempt' = [attempt EXCEPT ![r] = @ + 1]
    /\ fresh' = [fresh EXCEPT ![r] = <<>>]
    /\ UNCHANGED <<cache, checkpoint, hasCache, pc, input, vectors, missing, next, stats, warm>>

(* A timeout, a refused or broken connection, or a 5xx, with attempts left.*)
BatchRetried(r) ==
    /\ Posting(r)
    /\ ValidRequest(Batch(r))
    /\ attempt[r] < MaxRetries
    /\ Sent(r)
    /\ attempt' = [attempt EXCEPT ![r] = @ + 1]
    /\ UNCHANGED <<cache, checkpoint, hasCache, pc, input, vectors, missing, next, fresh, stats, warm>>

(* A 4xx, an unlisted exception or a wrong number of vectors at any time,  *)
(* or a transient error on the last attempt.                               *)
BatchFailed(r) ==
    /\ Posting(r)
    /\ ValidRequest(Batch(r))
    /\ Sent(r)
    /\ Fails(r)

AllReceived(r) ==
    /\ pc[r] = "post"
    /\ Len(fresh[r]) = Len(missing[r])
    /\ pc' = [pc EXCEPT ![r] = "store"]
    /\ UNCHANGED <<cache, checkpoint, hasCache, input, vectors, missing, next, fresh, attempt,
                   stats, posts, warm>>

(* cache.set(), if the client has a cache.                                 *)
Keep(r, t, vector) ==
    IF hasCache[r] THEN cache' = [cache EXCEPT ![t] = vector] ELSE UNCHANGED cache

(* Mutants of Store: the vector goes to the wrong slot; it is stored under *)
(* the wrong text.                                                         *)
StoreAtCounter(r) ==
    LET k == next[r]
        i == missing[r][k]
    IN  /\ pc[r] = "store"
        /\ k <= Len(missing[r])
        /\ vectors' = [vectors EXCEPT ![r][k] = fresh[r][k]]
        /\ Keep(r, input[r][i], fresh[r][k])
        /\ next' = [next EXCEPT ![r] = k + 1]
        /\ UNCHANGED <<checkpoint, hasCache, pc, input, missing, fresh, attempt, stats, posts, warm>>

StoreMiskeyed(r) ==
    LET k == next[r]
        i == missing[r][k]
    IN  /\ pc[r] = "store"
        /\ k <= Len(missing[r])
        /\ vectors' = [vectors EXCEPT ![r][i] = fresh[r][k]]
        /\ Keep(r, input[r][k], fresh[r][k])
        /\ next' = [next EXCEPT ![r] = k + 1]
        /\ UNCHANGED <<checkpoint, hasCache, pc, input, missing, fresh, attempt, stats, posts, warm>>

(* One turn of the zip(uncached_idx, fresh) loop: slot, then cache.set().  *)
Store(r) ==
    LET k == next[r]
        i == missing[r][k]
    IN  /\ pc[r] = "store"
        /\ k <= Len(missing[r])
        /\ vectors' = [vectors EXCEPT ![r][i] = fresh[r][k]]
        /\ Keep(r, input[r][i], fresh[r][k])
        /\ next' = [next EXCEPT ![r] = k + 1]
        /\ UNCHANGED <<checkpoint, hasCache, pc, input, missing, fresh, attempt, stats, posts, warm>>

Stored(r) ==
    /\ pc[r] = "store"
    /\ next[r] > Len(missing[r])
    /\ pc' = [pc EXCEPT ![r] = Assembled(r)]
    /\ UNCHANGED <<cache, checkpoint, hasCache, input, vectors, missing, next, fresh, attempt,
                   stats, posts, warm>>

(* The process is killed, or an access to the database on disk raises;     *)
(* what the run stored stays.                                              *)
Crash(r) ==
    /\ pc[r] \in Live \ {"idle"}
    /\ pc' = [pc EXCEPT ![r] = "crashed"]
    /\ UNCHANGED <<cache, checkpoint, hasCache, input, vectors, missing, next, fresh, attempt,
                   stats, posts, warm>>

(* The service restarts with another SECBERT_MODEL_PATH.                   *)
Redeploy ==
    /\ checkpoint < Len(Dim)
    /\ checkpoint' = checkpoint + 1
    /\ UNCHANGED <<cache, hasCache, pc, input, vectors, missing, next, fresh, attempt, stats, posts, warm>>

Over ==
    /\ \A r \in Runs : pc[r] \notin Live
    /\ UNCHANGED vars

RunStep(r) ==
    \/ Lookup(r) \/ SkipLookup(r) \/ LookedUp(r)
    \/ RequestInvalid(r) \/ BatchOk(r) \/ BatchRetried(r) \/ BatchFailed(r)
    \/ AllReceived(r) \/ Store(r) \/ Stored(r)

Next ==
    \/ \E r \in Runs : Start(r) \/ RunStep(r) \/ Crash(r)
    \/ Redeploy
    \/ Over

(* Every HTTP attempt ends within the client's timeout.                    *)
Fairness == \A r \in Runs : WF_vars(RunStep(r))

Spec == Init /\ [][Next]_vars /\ Fairness
-----------------------------------------------------------------------------
Vectors == [text : Texts, model : DOMAIN Dim] \cup {NoVector}

TypeOK ==
    /\ cache \in [Texts -> Vectors]
    /\ checkpoint \in DOMAIN Dim
    /\ pc \in [Runs -> Live \cup {"done", "ragged", "failed", "crashed"}]
    /\ hasCache \in [Runs -> BOOLEAN]
    /\ input \in [Runs -> Inputs]
    /\ vectors \in [Runs -> Seq(Vectors)]
    /\ missing \in [Runs -> Seq(Nat)]
    /\ fresh \in [Runs -> Seq(Vectors)]
    /\ stats \in [Runs -> [hits : Nat, misses : Nat]]
    /\ \A r \in Runs :
         Len(vectors[r]) = Len(input[r]) /\ missing[r] \in Seq(DOMAIN input[r])
    /\ next \in [Runs -> Nat \ {0}]
    /\ attempt \in [Runs -> 1..MaxRetries]
    /\ posts \in [Runs -> Nat]
    /\ warm \in [Runs -> SUBSET Texts]

(* However hits and misses alternate and whoever else writes the cache, a  *)
(* run ends with a vector of that very text at each position; and as long  *)
(* as the service keeps its checkpoint, they make a matrix.                *)
ResultAligned ==
    \A r \in Runs :
        /\ pc[r] \in {"done", "ragged"} =>
              \A i \in DOMAIN input[r] : vectors[r][i].text = input[r][i]
        /\ pc[r] = "ragged" => checkpoint > 1

(* A key never maps to the vector of another text, also while a run that   *)
(* will fail or be killed is half way through storing.                     *)
CacheCoherent == \A t \in Cached : cache[t].text = t

(* Work that a completed or killed run managed to store is not paid for    *)
(* again as long as diskcache has not culled it (below its size limit): a  *)
(* run whose texts were all cached when it started sends nothing.          *)
NoRecompute == \A r \in Runs : pc[r] # "idle" /\ TextsOf(r) \subseteq warm[r] => posts[r] = 0

(* Retries are per batch: a run sends at most max_retries requests for     *)
(* each batch of its misses.                                               *)
Batches(n) == (n + BatchSize - 1) \div BatchSize

RequestBudget ==
    \A r \in Runs : posts[r] <= MaxRetries * Batches(stats[r].misses)

(* A started run ends, with or without a cache and however often it has to *)
(* retry: it returns its vectors, or raises.                               *)
RunEnds == \A r \in Runs : pc[r] = "lookup" ~> pc[r] \notin Live

(* What DEPLOYMENT.md says of the hit rate: a changed checkpoint turns     *)
(* lookups into misses, so a hit is always a vector of the checkpoint that *)
(* is being served.                                                        *)
CheckpointChangeMisses ==
    [][\A r \in Runs : stats'[r].hits > stats[r].hits =>
          vectors'[r][next[r]].model = checkpoint]_vars
=============================================================================
