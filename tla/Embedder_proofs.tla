--------------------------- MODULE Embedder_proofs ---------------------------
(***************************************************************************)
(* Proofs about Embedder for any number of runs, texts and checkpoints and *)
(* any batch size: type correctness, coherence of the cache, alignment of  *)
(* the results, no repeated computation and the budget of requests.        *)
(***************************************************************************)
EXTENDS Embedder, SequenceTheorems, TLAPS

-----------------------------------------------------------------------------
(* The data of a run.                                                      *)

(* The texts of a run are a non-empty list.                                *)
LEMMA InputLemma ==
    ASSUME input \in [Runs -> Inputs], NEW r \in Runs
    PROVE  /\ input[r] \in Seq(Texts) /\ Len(input[r]) \in Nat \ {0}
           /\ DOMAIN input[r] = 1..Len(input[r])
           /\ \A i \in DOMAIN input[r] : input[r][i] \in Texts
<1>1. input[r] \in Seq(Texts) /\ input[r] # <<>>
  BY InputsAssumption
<1>2. Len(input[r]) \in Nat /\ DOMAIN input[r] = 1..Len(input[r]) /\ Len(input[r]) # 0
  BY <1>1
<1> QED
  BY <1>1, <1>2

(* A vector of the service is not NoVector.                                *)
LEMMA VectorLemma ==
    ASSUME checkpoint \in DOMAIN Dim, NEW t \in Texts
    PROVE  /\ Vector(t) \in Vectors /\ Vector(t) # NoVector
           /\ Vector(t).text = t /\ Vector(t).model = checkpoint
<1>1. checkpoint \in Nat /\ checkpoint # 0
  BY DimAssumption
<1> QED
  BY <1>1 DEF Vector, Vectors, NoVector

(* The batch of a run that is posting: the next texts that are missing.    *)
LEMMA BatchLemma ==
    ASSUME TypeOK, NEW r \in Runs, Posting(r)
    PROVE  LET from == Len(fresh[r])
               size == LesserOf(from + BatchSize, Len(missing[r])) - from
           IN  /\ from \in Nat /\ size \in 1..BatchSize
               /\ from + size <= Len(missing[r])
               /\ Batch(r) = [k \in 1..size |-> input[r][missing[r][from + k]]]
               /\ Batch(r) \in Seq(Texts) /\ Len(Batch(r)) = size
<1> DEFINE from == Len(fresh[r])
           size == LesserOf(from + BatchSize, Len(missing[r])) - from
<1>1. /\ from \in Nat /\ Len(missing[r]) \in Nat /\ from < Len(missing[r])
      /\ missing[r] \in Seq(DOMAIN input[r])
  BY DEF TypeOK, Posting
<1>2. size \in 1..BatchSize /\ from + size <= Len(missing[r])
  BY <1>1, BatchAssumption DEF LesserOf
<1>3. Batch(r) = [k \in 1..size |-> input[r][missing[r][from + k]]]
  BY DEF Batch
<1> HIDE DEF size
<1>4. \A k \in 1..size : input[r][missing[r][from + k]] \in Texts
  <2> TAKE k \in 1..size
  <2>1. from + k \in 1..Len(missing[r])
    BY <1>1, <1>2, BatchAssumption
  <2>2. missing[r][from + k] \in DOMAIN input[r]
    BY <1>1, <2>1, ElementOfSeq
  <2> QED
    BY <2>2, InputLemma DEF TypeOK
<1>5. size \in Nat
  BY <1>2, BatchAssumption
<1>6. Batch(r) \in Seq(Texts) /\ Len(Batch(r)) = size
  BY <1>3, <1>4, <1>5
<1> QED
  BY <1>1, <1>2, <1>3, <1>6 DEF size

(* The requests that n misses need, at one attempt each.                   *)
LEMMA BatchesType ==
    ASSUME NEW n \in Nat
    PROVE  Batches(n) \in Nat /\ MaxRetries * Batches(n) \in Nat
<1>1. Batches(n) \in Nat
  BY BatchAssumption DEF Batches
<1> QED
  BY <1>1, RetriesAssumption

(* More misses never need fewer of them.                                   *)
LEMMA BatchesMonotone ==
    ASSUME NEW m \in Nat, NEW n \in Nat, m <= n
    PROVE  Batches(m) <= Batches(n) /\ MaxRetries * Batches(m) <= MaxRetries * Batches(n)
<1>1. Batches(m) \in Nat /\ Batches(n) \in Nat
  BY BatchesType
<1>2. Batches(m) <= Batches(n)
  BY BatchAssumption DEF Batches
<1> QED
  BY <1>1, <1>2, RetriesAssumption

(* A batch that follows full batches is one more, and is the last or full. *)
LEMMA BatchesNext ==
    ASSUME NEW n \in Nat, NEW m \in Nat, n < m, n % BatchSize = 0
    PROVE  LET to == LesserOf(n + BatchSize, m)
           IN  Batches(to) = Batches(n) + 1 /\ (to = m \/ to % BatchSize = 0)
<1> DEFINE to == LesserOf(n + BatchSize, m)
           q == n \div BatchSize
<1>1. q \in Nat /\ n = BatchSize * q
  BY BatchAssumption
<1> HIDE DEF q
<1>2. Batches(n) = q
  BY <1>1, BatchAssumption DEF Batches
<1>3. to \in Nat /\ n < to /\ to <= n + BatchSize
  BY BatchAssumption DEF LesserOf
<1>4. Batches(to) = q + 1
  <2>1. /\ BatchSize * (q + 1) <= to + BatchSize - 1
        /\ to + BatchSize - 1 < BatchSize * (q + 1) + BatchSize
    <3>1. BatchSize * (q + 1) = n + BatchSize
      BY <1>1, BatchAssumption
    <3> HIDE DEF to
    <3> QED
      BY <1>3, <3>1, BatchAssumption
  <2> QED
    BY <1>1, <1>3, <2>1, BatchAssumption DEF Batches
<1>5. to = m \/ to = BatchSize * (q + 1)
  BY <1>1, BatchAssumption DEF LesserOf
<1>6. (BatchSize * (q + 1)) % BatchSize = 0
  BY <1>1, BatchAssumption
<1> QED
  BY <1>2, <1>4, <1>5, <1>6

-----------------------------------------------------------------------------
(* The inductive invariant.                                                *)

(* What each phase of a run may rely on: in particular, that the vectors   *)
(* received are parallel to the texts that were missing.                   *)
PhaseInv(r) ==
    /\ pc[r] = "idle" => missing[r] = <<>> /\ next[r] = 1
    /\ pc[r] \in {"idle", "lookup"} => fresh[r] = <<>> /\ posts[r] = 0 /\ attempt[r] = 1
    /\ pc[r] = "lookup" /\ ~hasCache[r] => missing[r] = <<>> /\ next[r] = 1
    /\ pc[r] = "post" => next[r] = 1
    /\ pc[r] = "store" => Len(fresh[r]) = Len(missing[r])
    /\ Len(fresh[r]) <= Len(missing[r])
    /\ stats[r].misses = Len(missing[r])

(* Every vector at hand is one of the text of its position.                *)
TextInv(r) ==
    /\ \A i \in DOMAIN input[r] :
          vectors[r][i] # NoVector => vectors[r][i].text = input[r][i]
    /\ \A k \in 1..Len(fresh[r]) :
          fresh[r][k] # NoVector /\ fresh[r][k].text = input[r][missing[r][k]]

(* The loops still have position i ahead of them.                          *)
Ahead(r, i) ==
    \/ pc[r] = "lookup" /\ i >= next[r]
    \/ \E k \in 1..Len(missing[r]) : missing[r][k] = i /\ (pc[r] = "store" => k >= next[r])

(* No position is forgotten: it has its vector or the loops will come to   *)
(* it, and a result has them all.                                          *)
SlotInv(r) ==
    /\ pc[r] \in {"lookup", "post", "store"} =>
          \A i \in DOMAIN input[r] : vectors[r][i] # NoVector \/ Ahead(r, i)
    /\ pc[r] \in {"done", "ragged"} => \A i \in DOMAIN input[r] : vectors[r][i] # NoVector

(* What was cached when the run started is not missing.                    *)
WarmInv(r) ==
    /\ ~hasCache[r] => warm[r] = {}
    /\ \A k \in 1..Len(missing[r]) : input[r][missing[r][k]] \notin warm[r]
    /\ posts[r] > 0 => Len(missing[r]) > 0

(* The requests of the batches received and of the one under way.          *)
PostInv(r) ==
    /\ posts[r] <= MaxRetries * Batches(Len(missing[r]))
    /\ pc[r] = "post" =>
          /\ posts[r] <= MaxRetries * Batches(Len(fresh[r])) + (attempt[r] - 1)
          /\ Len(fresh[r]) = Len(missing[r]) \/ Len(fresh[r]) % BatchSize = 0

RunInv(r) == PhaseInv(r) /\ TextInv(r) /\ SlotInv(r) /\ WarmInv(r) /\ PostInv(r)

(* The cache loses nothing that a run relies on, and no vector is of a     *)
(* checkpoint to come.                                                     *)
SharedInv ==
    /\ CacheCoherent
    /\ \A r \in Runs : warm[r] \subseteq Cached
    /\ \A t \in Texts : cache[t].model <= checkpoint
    /\ \A r \in Runs :
          /\ \A i \in DOMAIN input[r] : vectors[r][i].model <= checkpoint
          /\ \A k \in 1..Len(fresh[r]) : fresh[r][k].model <= checkpoint
          /\ pc[r] = "ragged" => checkpoint > 1

IInv == TypeOK /\ SharedInv /\ \A r \in Runs : RunInv(r)

-----------------------------------------------------------------------------
(* One step at a time.                                                     *)

(* A run that the step does not concern.                                   *)
Untouched(u) ==
    UNCHANGED <<hasCache[u], pc[u], input[u], vectors[u], missing[u], next[u], fresh[u],
                attempt[u], stats[u], posts[u], warm[u]>>

(* It keeps its invariant.                                                 *)
LEMMA FrameLemma ==
    ASSUME NEW u \in Runs, RunInv(u), Untouched(u)
    PROVE  RunInv(u)'
<1>1. PhaseInv(u)'
  BY DEF Untouched, RunInv, PhaseInv
<1>2. TextInv(u)'
  BY DEF Untouched, RunInv, TextInv
<1>3. SlotInv(u)'
  BY DEF Untouched, RunInv, SlotInv, Ahead
<1>4. WarmInv(u)'
  BY DEF Untouched, RunInv, WarmInv
<1>5. PostInv(u)'
  BY DEF Untouched, RunInv, PostInv, Batches
<1> QED
  BY <1>1, <1>2, <1>3, <1>4, <1>5 DEF RunInv

(* A step of one run that changes neither the cache nor a vector, and does *)
(* not assemble a ragged matrix of vectors of the first checkpoint.        *)
LEMMA SharedLemma ==
    ASSUME TypeOK, SharedInv, NEW r \in Runs,
           UNCHANGED <<cache, checkpoint, input, vectors, fresh, warm>>,
           \A u \in Runs \ {r} : pc'[u] = pc[u],
           pc'[r] = "ragged" => checkpoint > 1
    PROVE  SharedInv'
BY DEF SharedInv, CacheCoherent, Cached

(* A run starts: what is cached now will not be missing.                   *)
LEMMA StartStep ==
    ASSUME IInv, NEW r \in Runs, Start(r)
    PROVE  IInv'
<1>1. /\ pc[r] = "idle" /\ pc'[r] = "lookup" /\ warm'[r] = IF hasCache[r] THEN Cached ELSE {}
      /\ \A u \in Runs \ {r} : Untouched(u)
      /\ UNCHANGED <<cache, checkpoint, hasCache, input, vectors, missing, next, fresh, attempt,
                     stats, posts>>
  BY DEF Start, IInv, TypeOK, Untouched
<1>2. TypeOK'
  BY DEF Start, IInv, TypeOK, Live, Cached
<1>3. RunInv(r)'
  <2>1. PhaseInv(r)' /\ TextInv(r)' /\ PostInv(r)'
    BY <1>1 DEF IInv, RunInv, PhaseInv, TextInv, PostInv, Batches
  <2>2. \A i \in DOMAIN input[r] : i >= 1
    BY InputLemma DEF IInv, TypeOK
  <2>3. SlotInv(r)'
    BY <1>1, <2>2 DEF IInv, RunInv, PhaseInv, SlotInv, Ahead
  <2>4. Len(missing[r]) = 0
    BY <1>1 DEF IInv, RunInv, PhaseInv
  <2>5. WarmInv(r)'
    BY <1>1, <2>4 DEF IInv, RunInv, WarmInv, PhaseInv
  <2> QED
    BY <2>1, <2>3, <2>5 DEF RunInv
<1>4. SharedInv'
  BY <1>1 DEF IInv, SharedInv, CacheCoherent, Cached, Untouched
<1> QED
  BY <1>1, <1>2, <1>3, <1>4, FrameLemma DEF IInv

(* A text that is looked up: its vector, or one more missing position.     *)
LEMMA LookupStep ==
    ASSUME IInv, NEW r \in Runs, Lookup(r)
    PROVE  IInv'
<1> DEFINE i == next[r]
           t == input[r][i]
           hit == cache[t]
<1>1. /\ i \in DOMAIN input[r] /\ i \in 1..Len(vectors[r]) /\ t \in Texts /\ hit \in Vectors
      /\ pc[r] = "lookup" /\ hasCache[r] /\ next'[r] = i + 1
      /\ \A u \in Runs \ {r} : Untouched(u)
      /\ UNCHANGED <<cache, checkpoint, hasCache, pc, input, fresh, attempt, posts, warm>>
  <2>1. i \in DOMAIN input[r] /\ DOMAIN input[r] = 1..Len(input[r]) /\ t \in Texts
    BY InputLemma DEF Lookup, IInv, TypeOK
  <2>2. \A u \in Runs \ {r} : Untouched(u)
    BY DEF Lookup, IInv, TypeOK, Untouched
  <2> QED
    BY <2>1, <2>2 DEF Lookup, IInv, TypeOK
<1>P. PhaseInv(r) /\ TextInv(r) /\ SlotInv(r) /\ WarmInv(r) /\ PostInv(r)
  BY DEF IInv, RunInv
<1>2. CASE hit # NoVector
  <2>1. /\ vectors' = [vectors EXCEPT ![r] = [vectors[r] EXCEPT ![i] = hit]]
        /\ missing' = missing /\ stats' = [stats EXCEPT ![r].hits = @ + 1]
        /\ next' = [next EXCEPT ![r] = i + 1]
    BY <1>2 DEF Lookup
  <2>2. /\ vectors'[r] \in Seq(Vectors) /\ Len(vectors'[r]) = Len(vectors[r])
        /\ \A j \in DOMAIN input[r] : vectors'[r][j] = IF j = i THEN hit ELSE vectors[r][j]
    <3>1. vectors[r] \in Seq(Vectors) /\ Len(vectors[r]) = Len(input[r])
      BY DEF IInv, TypeOK
    <3>2. vectors'[r] = [vectors[r] EXCEPT ![i] = hit]
      BY <2>1 DEF IInv, TypeOK
    <3>3. DOMAIN input[r] = 1..Len(input[r])
      BY InputLemma DEF IInv, TypeOK
    <3> QED
      BY <1>1, <3>1, <3>2, <3>3, ExceptSeq
  <2>3. TypeOK'
    <3>1. vectors' = [vectors EXCEPT ![r] = vectors'[r]]
      BY <2>1 DEF IInv, TypeOK
    <3>2. vectors' \in [Runs -> Seq(Vectors)]
      BY <2>2, <3>1 DEF IInv, TypeOK
    <3>3. \A u \in Runs : Len(vectors'[u]) = Len(vectors[u])
      BY <2>2, <3>1 DEF IInv, TypeOK
    <3>4. next' \in [Runs -> Nat \ {0}]
      BY <2>1 DEF IInv, TypeOK
    <3>5. stats' \in [Runs -> [hits : Nat, misses : Nat]]
      <4>1. stats[r] \in [hits : Nat, misses : Nat] /\ stats \in [Runs -> [hits : Nat, misses : Nat]]
        BY DEF IInv, TypeOK
      <4> QED
        BY <2>1, <4>1
    <3> QED
      BY <1>1, <2>1, <3>2, <3>3, <3>4, <3>5 DEF IInv, TypeOK
  <2>4. hit.text = t /\ hit.model <= checkpoint
    BY <1>1, <1>2 DEF IInv, SharedInv, CacheCoherent, Cached
  <2>5. stats'[r].misses = stats[r].misses
    BY <2>1 DEF IInv, TypeOK
  <2>6. PhaseInv(r)' /\ PostInv(r)' /\ WarmInv(r)'
    BY <1>1, <1>P, <2>1, <2>5 DEF PhaseInv, PostInv, WarmInv, Batches
  <2>7. TextInv(r)'
    BY <1>1, <1>P, <2>1, <2>2, <2>4 DEF TextInv
  <2>8. SlotInv(r)'
    <3> SUFFICES ASSUME NEW j \in DOMAIN input[r], vectors'[r][j] = NoVector
                 PROVE  Ahead(r, j)'
      BY <1>1 DEF SlotInv
    <3>1. j # i /\ vectors[r][j] = NoVector /\ j \in Nat
      BY <1>2, <2>2, InputLemma DEF IInv, TypeOK
    <3>2. Ahead(r, j)
      BY <1>1, <1>P, <3>1 DEF SlotInv
    <3>3. i \in Nat
      BY DEF IInv, TypeOK
    <3> QED
      BY <1>1, <2>1, <3>1, <3>2, <3>3 DEF Ahead
  <2>9. SharedInv'
    BY <1>1, <2>2, <2>4 DEF IInv, SharedInv, CacheCoherent, Cached, Untouched
  <2> QED
    BY <1>1, <2>3, <2>6, <2>7, <2>8, <2>9, FrameLemma DEF IInv, RunInv
<1>3. CASE hit = NoVector
  <2> DEFINE m == missing[r]
  <2>1. /\ missing' = [missing EXCEPT ![r] = Append(m, i)]
        /\ vectors' = vectors /\ stats' = [stats EXCEPT ![r].misses = @ + 1]
        /\ next' = [next EXCEPT ![r] = i + 1]
    BY <1>3 DEF Lookup
  <2>2. /\ m \in Seq(DOMAIN input[r]) /\ m \in Seq(Nat) /\ Len(m) \in Nat
        /\ missing'[r] = Append(m, i) /\ i \in Nat
    BY <1>1, <2>1 DEF IInv, TypeOK
  <2>3. /\ missing'[r] \in Seq(DOMAIN input[r]) /\ missing'[r] \in Seq(Nat)
        /\ Len(missing'[r]) = Len(m) + 1
        /\ \A k \in 1..Len(m) : missing'[r][k] = m[k]
        /\ missing'[r][Len(m) + 1] = i
    <3> HIDE DEF m, i
    <3>1. Append(m, i) \in Seq(DOMAIN input[r])
      BY <1>1, <2>2, AppendProperties
    <3> QED
      BY <2>2, <3>1, AppendProperties
  <2>4. TypeOK'
    <3>1. missing' = [missing EXCEPT ![r] = missing'[r]]
      BY <2>1 DEF IInv, TypeOK
    <3>2. missing' \in [Runs -> Seq(Nat)]
      BY <2>3, <3>1 DEF IInv, TypeOK
    <3>3. \A u \in Runs : missing'[u] \in Seq(DOMAIN input[u])
      BY <2>3, <3>1 DEF IInv, TypeOK
    <3>4. next' \in [Runs -> Nat \ {0}]
      BY <2>1 DEF IInv, TypeOK
    <3>5. stats' \in [Runs -> [hits : Nat, misses : Nat]]
      <4>1. stats[r] \in [hits : Nat, misses : Nat] /\ stats \in [Runs -> [hits : Nat, misses : Nat]]
        BY DEF IInv, TypeOK
      <4> QED
        BY <2>1, <4>1
    <3> QED
      BY <1>1, <2>1, <3>2, <3>3, <3>4, <3>5 DEF IInv, TypeOK
  <2>5. stats'[r].misses = stats[r].misses + 1 /\ Len(fresh[r]) = 0 /\ posts[r] = 0
    BY <1>1, <1>P, <2>1 DEF IInv, TypeOK, PhaseInv
  <2>6. PhaseInv(r)'
    BY <1>1, <1>P, <2>3, <2>5 DEF PhaseInv
  <2>7. TextInv(r)'
    BY <1>1, <1>P, <2>1, <2>5 DEF TextInv
  <2>8. PostInv(r)'
    <3>1. 0 <= MaxRetries * Batches(Len(m) + 1)
      <4>1. Len(m) + 1 \in Nat
        BY <2>2
      <4>2. MaxRetries * Batches(Len(m) + 1) \in Nat
        BY <4>1, BatchesType
      <4> QED
        BY <4>2
    <3>2. Batches(Len(missing[r]))' = Batches(Len(m) + 1)
      BY <2>3 DEF Batches
    <3> QED
      BY <1>1, <2>5, <3>1, <3>2 DEF PostInv
  <2>9. WarmInv(r)'
    <3>1. t \notin warm[r]
      BY <1>1, <1>3 DEF IInv, SharedInv, Cached
    <3>2. \A k \in 1..Len(missing'[r]) : input[r][missing'[r][k]] \notin warm[r]
      BY <1>P, <2>2, <2>3, <3>1 DEF WarmInv
    <3> QED
      BY <1>1, <1>P, <2>5, <3>2 DEF WarmInv
  <2>10. SlotInv(r)'
    <3> SUFFICES ASSUME NEW j \in DOMAIN input[r], vectors'[r][j] = NoVector
                 PROVE  Ahead(r, j)'
      BY <1>1 DEF SlotInv
    <3>1. Ahead(r, j) /\ j \in Nat
      BY <1>1, <1>P, <2>1, InputLemma DEF SlotInv, IInv, TypeOK
    <3>2. CASE j = i
      <4>1. Len(m) + 1 \in 1..Len(missing'[r])
        BY <2>2, <2>3
      <4> QED
        BY <1>1, <2>3, <3>2, <4>1 DEF Ahead
    <3>3. CASE j # i /\ j >= i
      BY <1>1, <2>2, <3>1, <3>3 DEF Ahead
    <3>4. CASE j # i /\ ~(j >= i)
      <4>1. PICK k \in 1..Len(m) : m[k] = j
        BY <3>1, <3>4 DEF Ahead
      <4>2. k \in 1..Len(missing'[r]) /\ missing'[r][k] = j
        BY <2>2, <2>3, <4>1
      <4> QED
        BY <1>1, <4>2 DEF Ahead
    <3> QED
      BY <3>2, <3>3, <3>4
  <2>11. SharedInv'
    BY <1>1, <2>1, SharedLemma DEF IInv, SharedInv
  <2> QED
    BY <1>1, <2>4, <2>6, <2>7, <2>8, <2>9, <2>10, <2>11, FrameLemma DEF IInv, RunInv
<1> QED
  BY <1>2, <1>3

(* A run without a cache misses everything.                                *)
LEMMA SkipLookupStep ==
    ASSUME IInv, NEW r \in Runs, SkipLookup(r)
    PROVE  IInv'
<1> DEFINE n == Len(input[r])
           all == [i \in DOMAIN input[r] |-> i]
<1>1. /\ pc[r] = "lookup" /\ ~hasCache[r] /\ pc' = [pc EXCEPT ![r] = "post"]
      /\ missing' = [missing EXCEPT ![r] = all]
      /\ stats' = [stats EXCEPT ![r].misses = @ + n]
      /\ UNCHANGED <<cache, checkpoint, hasCache, input, vectors, next, fresh, attempt, posts, warm>>
  BY DEF SkipLookup
<1>2. n \in Nat \ {0} /\ DOMAIN input[r] = 1..n
  BY InputLemma DEF IInv, TypeOK
<1>3. /\ all \in Seq(DOMAIN input[r]) /\ all \in Seq(Nat) /\ Len(all) = n
      /\ \A k \in 1..n : all[k] = k
  BY <1>2
<1> HIDE DEF all
<1>P. PhaseInv(r) /\ TextInv(r) /\ SlotInv(r) /\ WarmInv(r) /\ PostInv(r)
  BY DEF IInv, RunInv
<1>U. \A u \in Runs \ {r} : Untouched(u)
  BY <1>1 DEF IInv, TypeOK, Untouched
<1>4. missing'[r] = all /\ pc'[r] = "post"
  BY <1>1 DEF IInv, TypeOK
<1>5. stats' \in [Runs -> [hits : Nat, misses : Nat]] /\ stats'[r].misses = stats[r].misses + n
  <2>1. stats[r] \in [hits : Nat, misses : Nat] /\ stats \in [Runs -> [hits : Nat, misses : Nat]]
    BY DEF IInv, TypeOK
  <2> QED
    BY <1>1, <1>2, <2>1
<1>6. TypeOK'
  <2>1. missing' \in [Runs -> Seq(Nat)] /\ \A u \in Runs : missing'[u] \in Seq(DOMAIN input[u])
    BY <1>1, <1>3 DEF IInv, TypeOK
  <2> QED
    BY <1>1, <1>5, <2>1 DEF IInv, TypeOK, Live
<1>7. Len(missing[r]) = 0 /\ Len(fresh[r]) = 0 /\ posts[r] = 0 /\ attempt[r] = 1 /\ next[r] = 1
  BY <1>1, <1>P DEF PhaseInv
<1>8. PhaseInv(r)'
  BY <1>1, <1>P, <1>2, <1>3, <1>4, <1>5, <1>7 DEF PhaseInv
<1>9. TextInv(r)'
  BY <1>1, <1>P, <1>7 DEF TextInv
<1>10. SlotInv(r)'
  BY <1>1, <1>2, <1>3, <1>4 DEF SlotInv, Ahead
<1>11. WarmInv(r)'
  BY <1>1, <1>P, <1>7 DEF WarmInv
<1>12. PostInv(r)'
  <2>0. n \in Nat /\ 0 \in Nat
    BY <1>2
  <2>1. /\ MaxRetries * Batches(n) \in Nat /\ MaxRetries * Batches(0) \in Nat
        /\ 0 % BatchSize = 0
    <3>1. 0 % BatchSize = 0
      BY BatchAssumption
    <3> HIDE DEF n
    <3> QED
      BY <2>0, <3>1, BatchesType
  <2>2. Batches(Len(missing[r]))' = Batches(n) /\ Batches(Len(fresh[r]))' = Batches(0)
    BY <1>1, <1>3, <1>4, <1>7 DEF Batches
  <2> QED
    BY <1>1, <1>4, <1>7, <2>1, <2>2 DEF PostInv
<1>13. SharedInv'
  BY <1>1, <1>4, <1>U, SharedLemma DEF IInv, Untouched
<1> QED
  BY <1>6, <1>8, <1>9, <1>10, <1>11, <1>12, <1>13, <1>U, FrameLemma DEF IInv, RunInv

(* A matrix whose rows are all there is ragged only if the checkpoint has  *)
(* changed.                                                                *)
LEMMA AssembledLemma ==
    ASSUME IInv, NEW r \in Runs, \A i \in DOMAIN input[r] : vectors[r][i] # NoVector
    PROVE  Assembled(r) \in {"done", "ragged"} /\ (Assembled(r) = "ragged" => checkpoint > 1)
<1>1. /\ vectors[r] \in Seq(Vectors) /\ DOMAIN input[r] = 1..Len(vectors[r])
      /\ checkpoint \in 1..Len(Dim) /\ DOMAIN Dim = 1..Len(Dim) /\ Len(Dim) \in Nat
  BY InputLemma, DimAssumption DEF IInv, TypeOK
<1>2. CASE checkpoint = 1
  <2>1. ASSUME NEW i \in DOMAIN input[r] PROVE Width(vectors[r][i]) = Dim[1]
    <3>1. vectors[r][i] \in Vectors /\ vectors[r][i] # NoVector
      BY <1>1, ElementOfSeq
    <3>2. vectors[r][i].model \in 1..Len(Dim) /\ vectors[r][i].model <= 1
      BY <1>1, <1>2, <3>1 DEF Vectors, IInv, SharedInv
    <3>3. vectors[r][i].model = 1
      BY <1>1, <3>2
    <3> QED
      BY <3>1, <3>3 DEF Width
  <2> QED
    BY <2>1 DEF Assembled
<1>3. CASE checkpoint # 1
  BY <1>1, <1>3 DEF Assembled
<1> QED
  BY <1>2, <1>3

(* The phase `where`, whose loop is at `at`, has ahead of it whatever has   *)
(* no vector yet.                                                          *)
Left(r, where, at) ==
    \A i \in DOMAIN input[r] :
        vectors[r][i] # NoVector
        \/ \E k \in 1..Len(missing[r]) : missing[r][k] = i /\ (where = "store" => k >= at)

Full(r) == \A i \in DOMAIN input[r] : vectors[r][i] # NoVector

(* A step that only moves a run on: nothing but its pc and its place in    *)
(* the loops changes, and what the next phase relies on holds.             *)
LEMMA MoveLemma ==
    ASSUME IInv, NEW r \in Runs, NEW where \in Live \cup {"done", "ragged", "failed", "crashed"},
           NEW at \in Nat \ {0},
           where \notin {"idle", "lookup"}, where = "post" => at = 1,
           pc' = [pc EXCEPT ![r] = where], next' = [next EXCEPT ![r] = at],
           UNCHANGED <<cache, checkpoint, hasCache, input, vectors, missing, fresh, attempt,
                       stats, posts, warm>>,
           where = "store" => Len(fresh[r]) = Len(missing[r]),
           where \in {"post", "store"} => Left(r, where, at),
           where \in {"done", "ragged"} => Full(r),
           where = "ragged" => checkpoint > 1,
           where = "post" => pc[r] \in {"lookup", "post"}
    PROVE  IInv'
<1>1. pc'[r] = where /\ next'[r] = at /\ \A u \in Runs \ {r} : Untouched(u)
  BY DEF IInv, TypeOK, Untouched
<1>P. PhaseInv(r) /\ TextInv(r) /\ SlotInv(r) /\ WarmInv(r) /\ PostInv(r)
  BY DEF IInv, RunInv
<1>2. TypeOK'
  BY DEF IInv, TypeOK
<1>3. PhaseInv(r)' /\ TextInv(r)' /\ WarmInv(r)'
  BY <1>1, <1>P DEF PhaseInv, TextInv, WarmInv
<1>4. SlotInv(r)'
  BY <1>1 DEF SlotInv, Ahead, Left, Full
<1>5. PostInv(r)'
  <2>1. CASE pc[r] = "lookup" /\ where = "post"
    <3>1. Len(fresh[r]) = 0 /\ posts[r] = 0 /\ attempt[r] = 1 /\ 0 % BatchSize = 0
      BY <1>P, <2>1, BatchAssumption DEF PhaseInv
    <3>2. MaxRetries * Batches(0) \in Nat
      BY BatchesType
    <3>3. Batches(Len(fresh[r]))' = Batches(0)
      BY <3>1 DEF Batches
    <3> QED
      BY <1>P, <3>1, <3>2, <3>3 DEF PostInv, Batches
  <2>2. CASE pc[r] = "post" \/ where # "post"
    BY <1>1, <1>P, <2>2 DEF PostInv, Batches
  <2> QED
    BY <2>1, <2>2
<1>6. SharedInv'
  BY <1>1, SharedLemma DEF IInv, Untouched
<1> QED
  BY <1>1, <1>2, <1>3, <1>4, <1>5, <1>6, FrameLemma DEF IInv, RunInv

(* The lookup is over: what was not found is posted.                       *)
LEMMA LookedUpStep ==
    ASSUME IInv, NEW r \in Runs, LookedUp(r)
    PROVE  IInv'
<1> DEFINE where == IF missing[r] = <<>> THEN Assembled(r) ELSE "post"
<1>1. /\ pc[r] = "lookup" /\ pc' = [pc EXCEPT ![r] = where] /\ next' = [next EXCEPT ![r] = 1]
      /\ UNCHANGED <<cache, checkpoint, hasCache, input, vectors, missing, fresh, attempt,
                     stats, posts, warm>>
  BY DEF LookedUp
<1>2. ASSUME NEW i \in DOMAIN input[r]
      PROVE  vectors[r][i] # NoVector \/ \E k \in 1..Len(missing[r]) : missing[r][k] = i
  <2>1. i \in 1..Len(input[r]) /\ Len(input[r]) \in Nat /\ next[r] \in Nat /\ next[r] > Len(input[r])
    BY InputLemma DEF IInv, TypeOK, LookedUp
  <2>2. ~(i >= next[r])
    BY <2>1
  <2> QED
    BY <1>1, <2>2 DEF IInv, RunInv, SlotInv, Ahead
<1>3. /\ where \in {"done", "ragged", "post"} /\ (where = "ragged" => checkpoint > 1)
      /\ where \in {"done", "ragged"} => Full(r)
  <2>1. CASE missing[r] = <<>>
    <3>1. \A i \in DOMAIN input[r] : vectors[r][i] # NoVector
      BY <1>2, <2>1
    <3> QED
      BY <2>1, <3>1, AssembledLemma DEF Full
  <2>2. CASE missing[r] # <<>>
    BY <2>2
  <2> QED
    BY <2>1, <2>2
<1>4. where \in Live \cup {"done", "ragged", "failed", "crashed"}
  BY <1>3 DEF Live
<1> DEFINE at == 1
<1>5. at \in Nat \ {0} /\ at = 1 /\ next' = [next EXCEPT ![r] = at]
  BY <1>1
<1>6. Left(r, where, at)
  BY <1>2, <1>3 DEF Left
<1> HIDE DEF where, at
<1> QED
  BY <1>1, <1>3, <1>4, <1>5, <1>6, MoveLemma

(* All batches were received: the loop that stores them begins.            *)
LEMMA AllReceivedStep ==
    ASSUME IInv, NEW r \in Runs, AllReceived(r)
    PROVE  IInv'
<1>1. /\ pc[r] = "post" /\ pc' = [pc EXCEPT ![r] = "store"] /\ next[r] = 1
      /\ next' = [next EXCEPT ![r] = 1] /\ Len(fresh[r]) = Len(missing[r])
      /\ UNCHANGED <<cache, checkpoint, hasCache, input, vectors, missing, fresh, attempt,
                     stats, posts, warm>>
  BY DEF AllReceived, IInv, RunInv, PhaseInv, TypeOK
<1>2. \A i \in DOMAIN input[r] :
         vectors[r][i] # NoVector \/ \E k \in 1..Len(missing[r]) : missing[r][k] = i /\ k >= 1
  BY <1>1 DEF IInv, RunInv, SlotInv, Ahead
<1> DEFINE where == "store"
           at == 1
<1>3. /\ where \in Live /\ where = "store" /\ at \in Nat \ {0} /\ pc' = [pc EXCEPT ![r] = where]
      /\ next' = [next EXCEPT ![r] = at] /\ Left(r, where, at)
  BY <1>1, <1>2 DEF Live, Left
<1> HIDE DEF where, at
<1> QED
  BY <1>1, <1>3, MoveLemma

(* The loop is over: every position has its vector.                        *)
LEMMA StoredStep ==
    ASSUME IInv, NEW r \in Runs, Stored(r)
    PROVE  IInv'
<1>1. /\ pc[r] = "store" /\ pc' = [pc EXCEPT ![r] = Assembled(r)]
      /\ next' = [next EXCEPT ![r] = next[r]]
      /\ UNCHANGED <<cache, checkpoint, hasCache, input, vectors, missing, fresh, attempt,
                     stats, posts, warm>>
  BY DEF Stored, IInv, TypeOK
<1>2. \A i \in DOMAIN input[r] : vectors[r][i] # NoVector
  <2> TAKE i \in DOMAIN input[r]
  <2>1. ~ \E k \in 1..Len(missing[r]) : k >= next[r]
    BY DEF Stored, IInv, TypeOK
  <2> QED
    BY <1>1, <2>1 DEF IInv, RunInv, SlotInv, Ahead
<1>3. Assembled(r) \in {"done", "ragged"} /\ (Assembled(r) = "ragged" => checkpoint > 1)
  BY <1>2, AssembledLemma
<1>4. next[r] \in Nat \ {0}
  BY DEF IInv, TypeOK
<1> DEFINE where == Assembled(r)
<1>5. /\ where \in {"done", "ragged"} /\ (where = "ragged" => checkpoint > 1)
      /\ pc' = [pc EXCEPT ![r] = where] /\ Full(r)
  BY <1>1, <1>2, <1>3 DEF Full
<1> HIDE DEF where
<1> QED
  BY <1>1, <1>4, <1>5, MoveLemma

(* A process that dies leaves nothing undone for the others.               *)
LEMMA CrashStep ==
    ASSUME IInv, NEW r \in Runs, Crash(r)
    PROVE  IInv'
<1>1. /\ pc' = [pc EXCEPT ![r] = "crashed"] /\ next' = [next EXCEPT ![r] = next[r]]
      /\ UNCHANGED <<cache, checkpoint, hasCache, input, vectors, missing, fresh, attempt,
                     stats, posts, warm>>
  BY DEF Crash, IInv, TypeOK
<1>2. next[r] \in Nat \ {0}
  BY DEF IInv, TypeOK
<1> QED
  BY <1>1, <1>2, MoveLemma

(* There is a request left for the batch under way, whatever becomes of    *)
(* it; the batch that follows has its own.                                 *)
LEMMA AnotherPost ==
    ASSUME IInv, NEW r \in Runs, Posting(r)
    PROVE  LET to == LesserOf(Len(fresh[r]) + BatchSize, Len(missing[r]))
           IN  /\ posts[r] + 1 <= MaxRetries * Batches(Len(fresh[r])) + attempt[r]
               /\ posts[r] + 1 <= MaxRetries * Batches(to)
               /\ posts[r] + 1 <= MaxRetries * Batches(Len(missing[r]))
               /\ to = Len(missing[r]) \/ to % BatchSize = 0
<1> DEFINE n == Len(fresh[r])
           m == Len(missing[r])
           to == LesserOf(n + BatchSize, m)
<1>1. /\ n \in Nat /\ m \in Nat /\ n < m /\ posts[r] \in Nat /\ attempt[r] \in 1..MaxRetries
      /\ pc[r] = "post"
  BY DEF IInv, TypeOK, Posting
<1>2. posts[r] <= MaxRetries * Batches(n) + (attempt[r] - 1) /\ n % BatchSize = 0
  <2>1. PostInv(r)
    BY DEF IInv, RunInv
  <2> QED
    BY <1>1, <2>1 DEF PostInv
<1> HIDE DEF n, m
<1>3. Batches(to) = Batches(n) + 1 /\ (to = m \/ to % BatchSize = 0)
  BY <1>1, <1>2, BatchesNext
<1>4. to \in Nat /\ to <= m
  BY <1>1, BatchAssumption DEF LesserOf
<1> HIDE DEF to
<1>5. /\ MaxRetries * Batches(to) <= MaxRetries * Batches(m)
      /\ MaxRetries * Batches(m) \in Nat /\ MaxRetries * Batches(to) \in Nat
      /\ MaxRetries * Batches(n) \in Nat /\ Batches(n) \in Nat
  BY <1>1, <1>4, BatchesMonotone, BatchesType
<1>6. MaxRetries * Batches(to) = MaxRetries * Batches(n) + MaxRetries
  BY <1>3, <1>5, RetriesAssumption
<1>7. /\ posts[r] + 1 <= MaxRetries * Batches(n) + attempt[r]
      /\ posts[r] + 1 <= MaxRetries * Batches(to)
      /\ posts[r] + 1 <= MaxRetries * Batches(m)
  <2> DEFINE x == MaxRetries * Batches(n)
             y == MaxRetries * Batches(to)
             z == MaxRetries * Batches(m)
  <2>1. x \in Nat /\ y = x + MaxRetries /\ y <= z /\ z \in Nat /\ posts[r] <= x + (attempt[r] - 1)
    BY <1>2, <1>5, <1>6
  <2> HIDE DEF x, y, z
  <2>2. posts[r] + 1 <= x + attempt[r] /\ posts[r] + 1 <= y /\ posts[r] + 1 <= z
    BY <1>1, <2>1, RetriesAssumption
  <2> QED
    BY <2>2 DEF x, y, z
<1> QED
  BY <1>3, <1>7 DEF n, m, to

(* A batch that fails for good, sent or not.                               *)
LEMMA FailsStep ==
    ASSUME IInv, NEW r \in Runs, RequestInvalid(r) \/ BatchFailed(r)
    PROVE  IInv'
<1>1. /\ Posting(r) /\ pc[r] = "post" /\ pc' = [pc EXCEPT ![r] = "failed"]
      /\ posts' = posts \/ posts' = [posts EXCEPT ![r] = @ + 1]
      /\ UNCHANGED <<cache, checkpoint, hasCache, input, vectors, missing, next, fresh, attempt,
                     stats, warm>>
  BY DEF RequestInvalid, BatchFailed, Fails, Sent, Posting
<1>2. pc'[r] = "failed" /\ \A u \in Runs \ {r} : Untouched(u)
  BY <1>1 DEF IInv, TypeOK, Untouched
<1>3. posts'[r] \in Nat /\ posts'[r] <= posts[r] + 1 /\ posts[r] \in Nat
  <2>1. posts \in [Runs -> Nat]
    BY DEF IInv, TypeOK
  <2> QED
    BY <1>1, <2>1
<1>P. PhaseInv(r) /\ TextInv(r) /\ SlotInv(r) /\ WarmInv(r) /\ PostInv(r)
  BY DEF IInv, RunInv
<1>4. TypeOK'
  <2>1. TypeOK
    BY DEF IInv
  <2>2. posts \in [Runs -> Nat] /\ pc \in [Runs -> Live \cup {"done", "ragged", "failed", "crashed"}]
    BY <2>1 DEF TypeOK
  <2>3. posts' \in [Runs -> Nat]
    BY <1>1, <2>2
  <2>4. pc' \in [Runs -> Live \cup {"done", "ragged", "failed", "crashed"}]
    BY <1>1, <2>2
  <2> QED
    BY <1>1, <2>1, <2>3, <2>4 DEF TypeOK
<1>5. PhaseInv(r)' /\ TextInv(r)' /\ SlotInv(r)'
  <2>1. PhaseInv(r)'
    BY <1>1, <1>2, <1>P DEF PhaseInv
  <2>2. TextInv(r)'
    BY <1>1, <1>P DEF TextInv
  <2>3. SlotInv(r)'
    BY <1>1, <1>2, <1>P DEF SlotInv
  <2> QED
    BY <2>1, <2>2, <2>3
<1>6. Len(missing[r]) > 0
  BY DEF IInv, TypeOK, RequestInvalid, BatchFailed, Posting
<1>7. WarmInv(r)'
  BY <1>1, <1>6, <1>P DEF WarmInv
<1>8. PostInv(r)'
  <2>1. posts[r] + 1 <= MaxRetries * Batches(Len(missing[r]))
    BY <1>1, AnotherPost
  <2>2. Len(missing[r]) \in Nat
    BY DEF IInv, TypeOK
  <2>3. MaxRetries * Batches(Len(missing[r])) \in Nat
    BY <2>2, BatchesType
  <2>4. posts'[r] <= MaxRetries * Batches(Len(missing[r]))
    BY <1>3, <2>1, <2>3
  <2> QED
    BY <1>1, <1>2, <2>4 DEF PostInv, Batches
<1>9. SharedInv'
  BY <1>1, <1>2, SharedLemma DEF IInv, Untouched
<1> QED
  BY <1>2, <1>4, <1>5, <1>7, <1>8, <1>9, FrameLemma DEF IInv, RunInv

(* A batch that is sent again.                                             *)
LEMMA BatchRetriedStep ==
    ASSUME IInv, NEW r \in Runs, BatchRetried(r)
    PROVE  IInv'
<1>1. /\ Posting(r) /\ pc[r] = "post" /\ attempt[r] < MaxRetries
      /\ posts' = [posts EXCEPT ![r] = @ + 1] /\ attempt' = [attempt EXCEPT ![r] = @ + 1]
      /\ UNCHANGED <<cache, checkpoint, hasCache, pc, input, vectors, missing, next, fresh,
                     stats, warm>>
  BY DEF BatchRetried, Sent, Posting
<1>2. /\ \A u \in Runs \ {r} : Untouched(u)
      /\ posts'[r] = posts[r] + 1 /\ attempt'[r] = attempt[r] + 1
      /\ posts[r] \in Nat /\ attempt[r] \in 1..MaxRetries
  BY <1>1 DEF IInv, TypeOK, Untouched
<1>P. PhaseInv(r) /\ TextInv(r) /\ SlotInv(r) /\ WarmInv(r) /\ PostInv(r)
  BY DEF IInv, RunInv
<1>3. attempt[r] + 1 \in 1..MaxRetries
  BY <1>1, <1>2, RetriesAssumption
<1>4. TypeOK'
  BY <1>1, <1>3 DEF IInv, TypeOK
<1>5. PhaseInv(r)' /\ TextInv(r)' /\ SlotInv(r)'
  BY <1>1, <1>P DEF PhaseInv, TextInv, SlotInv, Ahead
<1>6. Len(missing[r]) > 0
  BY <1>1 DEF IInv, TypeOK, Posting
<1>7. WarmInv(r)'
  BY <1>1, <1>6, <1>P DEF WarmInv
<1>8. PostInv(r)'
  <2>1. /\ posts[r] + 1 <= MaxRetries * Batches(Len(fresh[r])) + attempt[r]
        /\ posts[r] + 1 <= MaxRetries * Batches(Len(missing[r]))
    BY <1>1, AnotherPost
  <2>2. attempt'[r] - 1 = attempt[r]
    BY <1>2
  <2>3. /\ posts'[r] <= MaxRetries * Batches(Len(fresh[r])) + (attempt'[r] - 1)
        /\ posts'[r] <= MaxRetries * Batches(Len(missing[r]))
    BY <1>2, <2>1, <2>2
  <2> QED
    BY <1>1, <1>P, <2>3 DEF PostInv, Batches
<1>9. SharedInv'
  BY <1>1, <1>2, SharedLemma DEF IInv, Untouched, SharedInv
<1> QED
  BY <1>2, <1>4, <1>5, <1>7, <1>8, <1>9, FrameLemma DEF IInv, RunInv

(* A batch that is answered: its vectors follow those of the earlier ones. *)
LEMMA BatchOkStep ==
    ASSUME IInv, NEW r \in Runs, BatchOk(r)
    PROVE  IInv'
<1> DEFINE from == Len(fresh[r])
           to == LesserOf(from + BatchSize, Len(missing[r]))
           size == to - from
           new == [k \in DOMAIN Batch(r) |-> Vector(Batch(r)[k])]
<1>1. /\ Posting(r) /\ pc[r] = "post"
      /\ posts' = [posts EXCEPT ![r] = @ + 1] /\ attempt' = [attempt EXCEPT ![r] = 1]
      /\ fresh' = [fresh EXCEPT ![r] = fresh[r] \o new]
      /\ UNCHANGED <<cache, checkpoint, hasCache, pc, input, vectors, missing, next, stats, warm>>
  BY DEF BatchOk, Sent, Posting
<1>2. /\ \A u \in Runs \ {r} : Untouched(u)
      /\ posts'[r] = posts[r] + 1 /\ attempt'[r] = 1 /\ posts[r] \in Nat
      /\ fresh'[r] = fresh[r] \o new
  BY <1>1 DEF IInv, TypeOK, Untouched
<1>P. PhaseInv(r) /\ TextInv(r) /\ SlotInv(r) /\ WarmInv(r) /\ PostInv(r)
  BY DEF IInv, RunInv
<1>3. /\ from \in Nat /\ size \in 1..BatchSize /\ from + size <= Len(missing[r])
      /\ Batch(r) = [k \in 1..size |-> input[r][missing[r][from + k]]]
      /\ Batch(r) \in Seq(Texts) /\ Len(Batch(r)) = size
  BY <1>1, BatchLemma DEF IInv
<1>4. size \in Nat /\ to \in Nat /\ to = from + size /\ Len(missing[r]) \in Nat
  BY <1>3, BatchAssumption DEF IInv, TypeOK, LesserOf
<1>5. DOMAIN Batch(r) = 1..size
  BY <1>3
<1>6. ASSUME NEW k \in 1..size
      PROVE  /\ new[k] \in Vectors /\ new[k] # NoVector /\ new[k].model = checkpoint
             /\ new[k].text = input[r][missing[r][from + k]]
  <2>1. Batch(r)[k] \in Texts /\ Batch(r)[k] = input[r][missing[r][from + k]]
    BY <1>3, <1>6, ElementOfSeq
  <2>2. new[k] = Vector(Batch(r)[k])
    BY <1>5, <1>6
  <2> QED
    BY <2>1, <2>2, VectorLemma DEF IInv, TypeOK
<1>7. new \in Seq(Vectors) /\ Len(new) = size
  <2>1. new = [k \in 1..size |-> Vector(Batch(r)[k])]
    BY <1>5
  <2>2. \A k \in 1..size : Vector(Batch(r)[k]) \in Vectors
    BY <1>5, <1>6
  <2> QED
    BY <1>4, <2>1, <2>2
<1> HIDE DEF new
<1>8. /\ fresh'[r] \in Seq(Vectors) /\ Len(fresh'[r]) = to
      /\ \A k \in 1..to : fresh'[r][k] = IF k <= from THEN fresh[r][k] ELSE new[k - from]
  <2> DEFINE old == fresh[r]
  <2>1. old \in Seq(Vectors) /\ Len(old) = from /\ fresh'[r] = old \o new
    BY <1>2 DEF IInv, TypeOK
  <2> HIDE DEF old, from, to, size
  <2>2. /\ old \o new \in Seq(Vectors) /\ Len(old \o new) = Len(old) + Len(new)
        /\ \A k \in 1..(Len(old) + Len(new)) :
              (old \o new)[k] = IF k <= Len(old) THEN old[k] ELSE new[k - Len(old)]
    BY <1>7, <2>1, ConcatProperties
  <2>3. Len(old) + Len(new) = to
    BY <1>4, <1>7, <2>1
  <2>4. /\ fresh'[r] \in Seq(Vectors) /\ Len(fresh'[r]) = to
        /\ \A k \in 1..to : fresh'[r][k] = IF k <= from THEN old[k] ELSE new[k - from]
    BY <2>1, <2>2, <2>3
  <2> QED
    BY <2>4 DEF old
<1>9. ASSUME NEW k \in 1..to
      PROVE  /\ fresh'[r][k] # NoVector /\ fresh'[r][k].model <= checkpoint
             /\ fresh'[r][k].text = input[r][missing[r][k]]
  <2>1. CASE k <= from
    <3>1. fresh'[r][k] = fresh[r][k]
      <4> HIDE DEF from, to, size
      <4> QED  BY <1>8, <1>9, <2>1
    <3>2. k \in 1..from
      <4> HIDE DEF from, to, size
      <4> QED  BY <1>3, <1>4, <1>9, <2>1
    <3> QED
      BY <1>P, <3>1, <3>2 DEF TextInv, IInv, SharedInv
  <2>2. CASE ~(k <= from)
    <3>1. fresh'[r][k] = new[k - from] /\ k - from \in 1..size /\ from + (k - from) = k
      BY <1>3, <1>4, <1>8, <2>2
    <3>2. checkpoint \in Nat
      BY DimAssumption DEF IInv, TypeOK
    <3> QED
      BY <1>6, <3>1, <3>2
  <2> QED
    BY <2>1, <2>2
<1>10. TypeOK'
  <2>1. 1 \in 1..MaxRetries
    BY RetriesAssumption
  <2>2. fresh' \in [Runs -> Seq(Vectors)]
    BY <1>1, <1>2, <1>8 DEF IInv, TypeOK
  <2>3. attempt' \in [Runs -> 1..MaxRetries] /\ posts' \in [Runs -> Nat]
    BY <1>1, <2>1 DEF IInv, TypeOK
  <2> QED
    BY <1>1, <2>2, <2>3 DEF IInv, TypeOK
<1>11. PhaseInv(r)'
  BY <1>1, <1>3, <1>4, <1>8, <1>P DEF PhaseInv
<1>12. TextInv(r)'
  BY <1>1, <1>8, <1>9, <1>P DEF TextInv
<1>13. SlotInv(r)'
  BY <1>1, <1>P DEF SlotInv, Ahead
<1>14. WarmInv(r)'
  <2>1. Len(missing[r]) > 0
    BY <1>1, <1>4 DEF IInv, TypeOK, Posting
  <2> QED
    BY <1>1, <1>P, <2>1 DEF WarmInv
<1>15. PostInv(r)'
  <2>1. /\ posts[r] + 1 <= MaxRetries * Batches(to)
        /\ posts[r] + 1 <= MaxRetries * Batches(Len(missing[r]))
        /\ to = Len(missing[r]) \/ to % BatchSize = 0
    BY <1>1, AnotherPost
  <2>2. MaxRetries * Batches(to) \in Nat
    BY <1>4, BatchesType
  <2>3. /\ posts'[r] <= MaxRetries * Batches(to) + (attempt'[r] - 1)
        /\ posts'[r] <= MaxRetries * Batches(Len(missing[r]))
    <3> DEFINE x == MaxRetries * Batches(to)
    <3>1. x \in Nat /\ posts[r] + 1 <= x
      BY <2>1, <2>2
    <3> HIDE DEF x
    <3>2. posts'[r] <= x + (attempt'[r] - 1)
      BY <1>2, <3>1
    <3> QED
      BY <1>2, <2>1, <3>2 DEF x
  <2>4. Batches(Len(fresh[r]))' = Batches(to) /\ Len(fresh'[r]) = to
    BY <1>8 DEF Batches
  <2>5. Batches(Len(missing[r]))' = Batches(Len(missing[r]))
    BY <1>1 DEF Batches
  <2> QED
    BY <1>1, <2>1, <2>3, <2>4, <2>5 DEF PostInv
<1>16. SharedInv'
  <2>1. \A u \in Runs : \A k \in 1..Len(fresh'[u]) : fresh'[u][k].model <= checkpoint
    <3> TAKE u \in Runs
    <3>1. CASE u = r
      BY <1>8, <1>9, <3>1
    <3>2. CASE u # r
      BY <1>2, <3>2 DEF Untouched, IInv, SharedInv
    <3> QED
      BY <3>1, <3>2
  <2> QED
    BY <1>1, <2>1 DEF IInv, SharedInv, CacheCoherent, Cached
<1> QED
  BY <1>2, <1>10, <1>11, <1>12, <1>13, <1>14, <1>15, <1>16, FrameLemma DEF IInv, RunInv


(* A received vector goes to its position, and under its text.             *)
LEMMA StoreStep ==
    ASSUME IInv, NEW r \in Runs, Store(r)
    PROVE  IInv'
<1> DEFINE k == next[r]
           i == missing[r][k]
           v == fresh[r][k]
           t == input[r][i]
<1>1. /\ pc[r] = "store" /\ k <= Len(missing[r])
      /\ vectors' = [vectors EXCEPT ![r] = [vectors[r] EXCEPT ![i] = v]]
      /\ next' = [next EXCEPT ![r] = k + 1]
      /\ cache' = (IF hasCache[r] THEN [cache EXCEPT ![t] = v] ELSE cache)
      /\ UNCHANGED <<checkpoint, hasCache, pc, input, missing, fresh, attempt, stats, posts, warm>>
  BY DEF Store, Keep
<1>P. PhaseInv(r) /\ TextInv(r) /\ SlotInv(r) /\ WarmInv(r) /\ PostInv(r)
  BY DEF IInv, RunInv
<1>2. /\ \A u \in Runs \ {r} : Untouched(u)
      /\ next'[r] = k + 1 /\ vectors'[r] = [vectors[r] EXCEPT ![i] = v]
  BY <1>1 DEF IInv, TypeOK, Untouched
<1>3. /\ k \in 1..Len(missing[r]) /\ k \in 1..Len(fresh[r]) /\ i \in DOMAIN input[r]
      /\ i \in 1..Len(vectors[r]) /\ v \in Vectors /\ t \in Texts
  <2>1. /\ k \in 1..Len(missing[r]) /\ Len(fresh[r]) = Len(missing[r])
        /\ missing[r] \in Seq(DOMAIN input[r]) /\ fresh[r] \in Seq(Vectors)
        /\ Len(vectors[r]) = Len(input[r])
    BY <1>1, <1>P DEF IInv, TypeOK, PhaseInv
  <2>2. i \in DOMAIN input[r] /\ v \in Vectors
    BY <2>1, ElementOfSeq
  <2> QED
    BY <2>1, <2>2, InputLemma DEF IInv, TypeOK
<1>4. v # NoVector /\ v.text = t /\ v.model <= checkpoint
  BY <1>3, <1>P DEF TextInv, IInv, SharedInv
<1>5. /\ vectors'[r] \in Seq(Vectors) /\ Len(vectors'[r]) = Len(vectors[r])
      /\ \A j \in DOMAIN input[r] : vectors'[r][j] = IF j = i THEN v ELSE vectors[r][j]
  <2> DEFINE old == vectors[r]
  <2>1. /\ old \in Seq(Vectors) /\ DOMAIN input[r] = 1..Len(old)
        /\ vectors'[r] = [old EXCEPT ![i] = v]
    BY <1>2, InputLemma DEF IInv, TypeOK
  <2> HIDE DEF old, i, v
  <2> QED
    BY <1>3, <2>1, ExceptSeq DEF old
<1>6. /\ cache' \in [Texts -> Vectors]
      /\ \A s \in Texts : cache'[s] = cache[s] \/ (s = t /\ cache'[s] = v)
  BY <1>1, <1>3 DEF IInv, TypeOK
<1> HIDE DEF i, v, t
<1>7. TypeOK'
  <2>1. vectors' \in [Runs -> Seq(Vectors)]
    BY <1>1, <1>2, <1>5 DEF IInv, TypeOK
  <2>2. next' \in [Runs -> Nat \ {0}]
    BY <1>1 DEF IInv, TypeOK
  <2>3. \A u \in Runs : Len(vectors'[u]) = Len(vectors[u])
    BY <1>2, <1>5 DEF Untouched
  <2> QED
    BY <1>1, <1>6, <2>1, <2>2, <2>3 DEF IInv, TypeOK
<1>8. PhaseInv(r)' /\ WarmInv(r)' /\ PostInv(r)'
  BY <1>1, <1>P DEF PhaseInv, WarmInv, PostInv, Batches
<1>9. TextInv(r)'
  BY <1>1, <1>4, <1>5, <1>P DEF TextInv, t
<1>10. SlotInv(r)'
  <2> SUFFICES ASSUME NEW j \in DOMAIN input[r], vectors'[r][j] = NoVector
               PROVE  Ahead(r, j)'
    BY <1>1 DEF SlotInv
  <2>1. j # i /\ vectors[r][j] = NoVector
    BY <1>4, <1>5
  <2>2. PICK l \in 1..Len(missing[r]) : missing[r][l] = j /\ l >= k
    BY <1>1, <1>P, <2>1 DEF SlotInv, Ahead
  <2>3. l # k
    BY <2>1, <2>2 DEF i
  <2>4. l >= k + 1
    BY <1>3, <2>2, <2>3
  <2> QED
    BY <1>1, <1>2, <2>2, <2>4 DEF Ahead
<1>11. SharedInv'
  <2>1. Cached \subseteq Cached' /\ CacheCoherent'
    BY <1>4, <1>6 DEF Cached, CacheCoherent, IInv, SharedInv
  <2>2. \A s \in Texts : cache'[s].model <= checkpoint
    BY <1>4, <1>6 DEF IInv, SharedInv
  <2>3. \A u \in Runs : \A j \in DOMAIN input[u] : vectors'[u][j].model <= checkpoint
    <3> TAKE u \in Runs
    <3>1. CASE u = r
      BY <1>4, <1>5, <3>1 DEF IInv, SharedInv
    <3>2. CASE u # r
      BY <1>2, <3>2 DEF IInv, SharedInv, Untouched
    <3> QED
      BY <1>1, <3>1, <3>2
  <2> QED
    BY <1>1, <2>1, <2>2, <2>3 DEF IInv, SharedInv
<1> QED
  BY <1>2, <1>7, <1>8, <1>9, <1>10, <1>11, FrameLemma DEF IInv, RunInv

(* Another checkpoint concerns no run.                                     *)
LEMMA RedeployStep ==
    ASSUME IInv, Redeploy
    PROVE  IInv'
<1>1. /\ checkpoint \in Nat /\ checkpoint' = checkpoint + 1 /\ checkpoint' \in DOMAIN Dim
      /\ UNCHANGED <<cache, hasCache, pc, input, vectors, missing, next, fresh, attempt, stats,
                     posts, warm>>
  BY DimAssumption DEF Redeploy, IInv, TypeOK
<1>2. \A r \in Runs : Untouched(r)
  BY <1>1 DEF Untouched
<1>3. TypeOK'
  BY <1>1 DEF IInv, TypeOK
<1>4. SharedInv'
  <2>1. ASSUME NEW x \in Vectors, x.model <= checkpoint PROVE x.model <= checkpoint'
    <3>1. x.model \in Nat
      BY DimAssumption DEF Vectors, NoVector
    <3> QED
      BY <1>1, <2>1, <3>1
  <2>2. \A s \in Texts : cache[s].model <= checkpoint'
    BY <2>1 DEF IInv, TypeOK, SharedInv
  <2>3. ASSUME NEW r \in Runs, NEW j \in DOMAIN input[r]
        PROVE  vectors[r][j].model <= checkpoint'
    <3>1. vectors[r] \in Seq(Vectors) /\ j \in 1..Len(vectors[r])
      BY InputLemma DEF IInv, TypeOK
    <3>2. vectors[r][j] \in Vectors
      BY <3>1, ElementOfSeq
    <3> QED
      BY <2>1, <3>2 DEF IInv, SharedInv
  <2>4. ASSUME NEW r \in Runs, NEW k \in 1..Len(fresh[r])
        PROVE  fresh[r][k].model <= checkpoint'
    <3>1. fresh[r] \in Seq(Vectors)
      BY DEF IInv, TypeOK
    <3>2. fresh[r][k] \in Vectors
      BY <3>1, ElementOfSeq
    <3> QED
      BY <2>1, <3>2 DEF IInv, SharedInv
  <2> QED
    BY <1>1, <2>2, <2>3, <2>4 DEF IInv, SharedInv, CacheCoherent, Cached
<1> QED
  BY <1>2, <1>3, <1>4, FrameLemma DEF IInv

-----------------------------------------------------------------------------
(* The invariant holds.                                                    *)

LEMMA IInit == Init => IInv
<1> SUFFICES ASSUME Init PROVE IInv
  OBVIOUS
<1>1. input \in [Runs -> Inputs] /\ NoVector \in Vectors
  BY DEF Init, Vectors
<1>2. ASSUME NEW r \in Runs
      PROVE  /\ vectors[r] = [i \in 1..Len(input[r]) |-> NoVector] /\ Len(input[r]) \in Nat
             /\ vectors[r] \in Seq(Vectors) /\ Len(vectors[r]) = Len(input[r])
             /\ DOMAIN input[r] = 1..Len(input[r])
  <2>1. Len(input[r]) \in Nat /\ DOMAIN input[r] = 1..Len(input[r])
    BY <1>1, InputLemma
  <2> QED
    BY <1>1, <2>1 DEF Init
<1>3. checkpoint \in DOMAIN Dim /\ checkpoint = 1
  BY DimAssumption DEF Init
<1>4. TypeOK
  <2>1. vectors \in [Runs -> Seq(Vectors)]
    BY <1>2 DEF Init
  <2>2. /\ missing \in [Runs -> Seq(Nat)] /\ fresh \in [Runs -> Seq(Vectors)]
        /\ \A r \in Runs : missing[r] \in Seq(DOMAIN input[r])
    BY DEF Init
  <2>3. attempt \in [Runs -> 1..MaxRetries]
    BY RetriesAssumption DEF Init
  <2>4. /\ cache \in [Texts -> Vectors] /\ pc \in [Runs -> Live \cup {"done", "ragged", "failed", "crashed"}]
        /\ hasCache \in [Runs -> BOOLEAN]
    BY <1>1 DEF Init, Live
  <2>5. /\ stats \in [Runs -> [hits : Nat, misses : Nat]] /\ next \in [Runs -> Nat \ {0}]
        /\ posts \in [Runs -> Nat] /\ warm \in [Runs -> SUBSET Texts]
    BY DEF Init
  <2> QED
    BY <1>1, <1>2, <1>3, <2>1, <2>2, <2>3, <2>4, <2>5 DEF TypeOK
<1>5. SharedInv
  <2>1. NoVector.model = 0 /\ 0 <= checkpoint
    BY <1>3 DEF NoVector
  <2> QED
    BY <1>2, <2>1 DEF Init, SharedInv, CacheCoherent, Cached
<1>6. ASSUME NEW r \in Runs PROVE RunInv(r)
  <2>1. Len(missing[r]) = 0 /\ Len(fresh[r]) = 0
    BY DEF Init
  <2>2. PhaseInv(r) /\ SlotInv(r) /\ WarmInv(r)
    BY <2>1 DEF Init, PhaseInv, SlotInv, WarmInv
  <2>3. TextInv(r)
    <3>1. \A i \in DOMAIN input[r] : vectors[r][i] = NoVector
      BY <1>2
    <3>2. 1..Len(fresh[r]) = {}
      BY <2>1
    <3> QED
      BY <3>1, <3>2 DEF TextInv
  <2>4. 0 <= MaxRetries * Batches(0)
    <3>1. MaxRetries * Batches(0) \in Nat
      BY BatchesType
    <3> QED
      BY <3>1
  <2>5. PostInv(r)
    BY <2>1, <2>4 DEF Init, PostInv
  <2> QED
    BY <2>2, <2>3, <2>5 DEF RunInv
<1> QED
  BY <1>4, <1>5, <1>6 DEF IInv

LEMMA IStep == IInv /\ [Next]_vars => IInv'
<1> SUFFICES ASSUME IInv, [Next]_vars PROVE IInv'
  OBVIOUS
<1>1. CASE \E r \in Runs : Start(r) \/ RunStep(r) \/ Crash(r)
  <2>1. PICK r \in Runs : Start(r) \/ RunStep(r) \/ Crash(r)
    BY <1>1
  <2>2. CASE Start(r) \/ Crash(r)
    BY <2>2, StartStep, CrashStep
  <2>3. CASE Lookup(r) \/ SkipLookup(r) \/ LookedUp(r)
    BY <2>3, LookupStep, SkipLookupStep, LookedUpStep
  <2>4. CASE RequestInvalid(r) \/ BatchOk(r) \/ BatchRetried(r) \/ BatchFailed(r)
    BY <2>4, FailsStep, BatchOkStep, BatchRetriedStep
  <2>5. CASE AllReceived(r) \/ Store(r) \/ Stored(r)
    BY <2>5, AllReceivedStep, StoreStep, StoredStep
  <2> QED
    BY <2>1, <2>2, <2>3, <2>4, <2>5 DEF RunStep
<1>2. CASE Redeploy
  BY <1>2, RedeployStep
<1>3. CASE UNCHANGED vars
  <2>1. \A r \in Runs : Untouched(r)
    BY <1>3 DEF vars, Untouched
  <2>2. TypeOK' /\ SharedInv'
    BY <1>3 DEF vars, IInv, TypeOK, SharedInv, CacheCoherent, Cached
  <2> QED
    BY <2>1, <2>2, FrameLemma, <1>3 DEF IInv
<1> QED
  BY <1>1, <1>2, <1>3 DEF Next, Over

LEMMA Invariance == Spec => []IInv
BY IInit, IStep, PTL DEF Spec
-----------------------------------------------------------------------------
(* The theorems.                                                           *)

(* Every variable keeps its type: in particular, embed_texts() looks for   *)
(* no position that its input does not have, and makes at most max_retries *)
(* attempts at a batch.                                                    *)
THEOREM EmbedderTypeCorrect == Spec => []TypeOK
<1>1. IInv => TypeOK
  BY DEF IInv
<1> QED
  BY <1>1, Invariance, PTL

(* For any number of processes on one cache directory, killed at any step: *)
(* EmbeddingCache never holds the vector of another text.                  *)
THEOREM CacheIsCoherent == Spec => []CacheCoherent
<1>1. IInv => CacheCoherent
  BY DEF IInv, SharedInv
<1> QED
  BY <1>1, Invariance, PTL

(* For any mixture of hits and misses and any split into batches: the row  *)
(* i of embed_texts()'s matrix is the vector of texts[i], and only after a *)
(* change of checkpoint can the rows differ in length.                     *)
THEOREM ResultsAligned == Spec => []ResultAligned
<1>1. IInv => ResultAligned
  BY DEF IInv, RunInv, TextInv, SlotInv, SharedInv, ResultAligned
<1> QED
  BY <1>1, Invariance, PTL

(* A run whose texts were cached when it started sends no request.         *)
THEOREM NothingRecomputed == Spec => []NoRecompute
<1>1. ASSUME IInv, NEW r \in Runs, TextsOf(r) \subseteq warm[r]
      PROVE  posts[r] = 0
  <2>1. SUFFICES ASSUME posts[r] > 0 PROVE FALSE
    BY <1>1 DEF IInv, TypeOK
  <2>2. 1 \in 1..Len(missing[r]) /\ missing[r] \in Seq(DOMAIN input[r])
    BY <1>1, <2>1 DEF IInv, TypeOK, RunInv, WarmInv
  <2>3. missing[r][1] \in DOMAIN input[r]
    BY <2>2, ElementOfSeq
  <2>4. input[r][missing[r][1]] \in TextsOf(r)
    BY <2>3 DEF TextsOf
  <2> QED
    BY <1>1, <2>2, <2>4 DEF IInv, RunInv, WarmInv
<1>2. IInv => NoRecompute
  BY <1>1 DEF NoRecompute
<1> QED
  BY <1>2, Invariance, PTL

(* Whatever fails and is sent again: at most max_retries requests for each *)
(* batch that the misses of the run make.                                  *)
THEOREM RequestsBudgeted == Spec => []RequestBudget
<1>1. IInv => RequestBudget
  BY DEF IInv, RunInv, PhaseInv, PostInv, RequestBudget, Batches
<1> QED
  BY <1>1, Invariance, PTL
=============================================================================
