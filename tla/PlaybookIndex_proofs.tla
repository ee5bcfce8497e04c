------------------------ MODULE PlaybookIndex_proofs ------------------------
(***************************************************************************)
(* Proofs about PlaybookIndex for any directory, any number of indexers    *)
(* and retrievals and any bounds: type correctness, and every property of  *)
(* the collection and of the retrievals that the race run checks.          *)
(***************************************************************************)
EXTENDS PlaybookIndex, FiniteSetTheorems, TLAPS

-----------------------------------------------------------------------------
(* The inductive invariant.                                                *)

Looping == {"files", "delete", "add"}

Holding == {"opened"} \cup Looping

Reading == {"opened", "counted", "sized"}

(* A collection that is gone has no chunks, identities are not used again, *)
(* and the history has the races that are on.                              *)
StoreInv ==
    /\ coll \in {0, lastId}
    /\ coll = 0 => chunks = {}
    /\ IsFiniteSet(chunks)
    /\ Raced \subseteq raced

(* What the locals of a run are in each phase.                             *)
LocalInv(i) ==
    /\ ix[i] \in Holding => handle[i] \in 1..lastId
    /\ ix[i] \notin Looping => listed[i] = {} /\ existing[i] = Nothing
    /\ ix[i] \notin Looping \cup {"done"} => read[i] = Nothing
    /\ ix[i] \in {"delete", "add"} => listed[i] # {} /\ read[i][Current(i)] \in Versions

(* A clean run is alone, and its collection stays.                         *)
AloneInv(i) ==
    clean[i] =>
        /\ Indexing(i) \/ ix[i] = "done"
        /\ \A j \in Indexers \ {i} : ~Indexing(j)
        /\ ix[i] \in Holding => handle[i] = coll
        /\ ix[i] \in Holding \cup {"done"} => coll # 0

(* Whatever other runs do, between the deletion and the addition of a      *)
(* file's chunks nobody adds others.                                       *)
AddInv(i) ==
    swallowed = 0 /\ ix[i] = "add" /\ handle[i] = coll /\ Current(i) \notin raced =>
        Stored(Current(i)) \in {{}, Chunkified(i)}

(* What a clean run has treated is current; what it has still to treat is  *)
(* what it found.                                                          *)
TreatedInv(i) ==
    swallowed = 0 /\ clean[i] =>
        \A f \in FileSet \ raced :
            /\ f \notin listed[i] /\ read[i][f] # 0 => Stored(f) = ChunksOf(f, read[i][f])
            /\ f \in listed[i] /\ existing[i][f] # 0 /\ ~(ix[i] \in {"delete", "add"} /\ f = Current(i))
                  => Stored(f) = ChunksOf(f, existing[i][f])

(* A clean rebuild starts from nothing.                                    *)
RebuildInv(i) ==
    clean[i] /\ rebuild[i] =>
        \A f \in FileSet :
            Stored(f) = IF f \in listed[i] THEN {} ELSE ChunksOf(f, read[i][f])

(* Without edits every run sees the one version of each file.              *)
SameInv ==
    edits = 0 =>
        /\ raced = {}
        /\ \A f \in FileSet :
              /\ dir[f] \in {0} \cup Versions
              /\ Stored(f) \subseteq ChunksOf(f, dir[f])
              /\ \A i \in Indexers : read[i][f] \in {0, dir[f]} /\ existing[i][f] \in {0, dir[f]}

(* Run i will index f, or is not done.                                     *)
Responsible(i, f) ==
    \/ ix[i] \in {"dropped", "opened", "failed", "crashed"}
    \/ /\ ix[i] \in Looping /\ f \in listed[i]
       /\ \/ existing[i][f] # dir[f]
          \/ rebuild[i]
          \/ ix[i] \in {"delete", "add"} /\ f = Current(i)

(* A file that is not indexed is a run's to index.                         *)
CoverInv ==
    edits = 0 /\ swallowed = 0 /\ runs > 0 =>
        \A f \in FileSet :
            Stored(f) = ChunksOf(f, dir[f]) \/ \E i \in Indexers : Responsible(i, f)

(* What a retrieval that no index run overlapped may rely on.              *)
RetrieveInv(r) ==
    /\ rt[r] \in Reading => rtHandle[r] # 0
    /\ rt[r] = "raised" => overlapped[r]
    /\ rt[r] \in Reading /\ ~overlapped[r] =>
          /\ rtHandle[r] = coll
          /\ rt[r] # "opened" => chunks # {}
          /\ rt[r] = "sized" => nFetch[r] # 0

IndexInv(i) == LocalInv(i) /\ AloneInv(i) /\ TreatedInv(i) /\ RebuildInv(i)

IInv ==
    /\ TypeOK /\ StoreInv /\ FileWhole /\ SameInv /\ CoverInv
    /\ \A i \in Indexers : IndexInv(i) /\ AddInv(i)
    /\ \A r \in Retrievals : RetrieveInv(r)


-----------------------------------------------------------------------------
(* Operators.                                                              *)

(* A non-empty family of finite sets has a minimal one.                    *)
LEMMA SetMin ==
    ASSUME NEW S, NEW F, F # {}, F \subseteq FiniteSubsetsOf(S)
    PROVE  \E T \in F : \A U \in F : U \subseteq T => U = T
<1>2. IsWellFoundedOn(StrictSubsetOrdering(S), FiniteSubsetsOf(S))
  BY FS_StrictSubsetOrderingWellFounded
<1>3. PICK T \in F : \A U \in F : ~(<<U, T>> \in StrictSubsetOrdering(S))
  BY <1>2, WFMin
<1> QED
  BY <1>3 DEF StrictSubsetOrdering, FiniteSubsetsOf

(* A non-empty set of positions has a first one.                           *)
LEMMA MinLemma ==
    ASSUME NEW S \in SUBSET Nat, S # {}
    PROVE  Min(S) \in S
<1> DEFINE F == {1..n : n \in S}
<1>1. F # {} /\ F \subseteq FiniteSubsetsOf(Nat)
  <2>1. \A n \in Nat : IsFiniteSet(1..n)
    BY FS_Interval
  <2> QED
    BY <2>1 DEF FiniteSubsetsOf
<1>2. \A T \in F : \E n \in S : T = 1..n
  OBVIOUS
<1>3. \A m \in S : 1..m \in F
  OBVIOUS
<1> HIDE DEF F
<1>4. PICK T \in F : \A U \in F : U \subseteq T => U = T
  BY <1>1, SetMin
<1>5. PICK n \in S : T = 1..n
  BY <1>2
<1>6. ASSUME NEW m \in S PROVE n <= m
  <2>1. SUFFICES ASSUME ~(n <= m) PROVE FALSE
    OBVIOUS
  <2>2. m \in Nat /\ n \in Nat /\ m < n
    BY <2>1
  <2>3. 1..m \subseteq 1..n /\ n \in 1..n /\ n \notin 1..m
    BY <2>2
  <2>4. 1..m = 1..n
    BY <1>3, <1>4, <1>5, <2>3
  <2> QED
    BY <2>3, <2>4
<1> QED
  BY <1>6 DEF Min

(* There is a file whose turn it is as long as one is listed.              *)
LEMMA CurrentLemma ==
    ASSUME TypeOK, NEW i \in Indexers, listed[i] # {}
    PROVE  Current(i) \in listed[i] /\ Current(i) \in FileSet
<1> DEFINE S == {n \in DOMAIN Files : Files[n] \in listed[i]}
<1>1. S \in SUBSET Nat /\ S # {} /\ listed[i] \subseteq FileSet
  BY PlaybookAssumption DEF TypeOK, FileSet
<1>2. Min(S) \in S
  BY <1>1, MinLemma
<1> QED
  BY <1>1, <1>2 DEF Current

(* The chunks of a version of a file.                                      *)
LEMMA ChunksLemma ==
    ASSUME NEW f \in FileSet, NEW v
    PROVE  /\ ChunksOf(f, v) \subseteq Chunks /\ IsFiniteSet(ChunksOf(f, v))
           /\ \A c \in ChunksOf(f, v) : c.file = f /\ c.version = v
           /\ ChunksOf(f, v) # {} => v \in Versions
           /\ ChunksOf(f, 0) = {}
<1>1. 0 \notin Versions /\ ChunkCount \in [Versions -> Nat]
  BY PlaybookAssumption
<1>2. CASE v \in Versions
  <2> DEFINE n == ChunkCount[v]
             S == 1..n
  <2>1. n \in Nat /\ IsFiniteSet(S)
    BY <1>1, <1>2, FS_Interval
  <2>2. ChunksOf(f, v) = {[file |-> f, idx |-> i, version |-> v] : i \in S}
    BY <1>2 DEF ChunksOf
  <2>3. IsFiniteSet(ChunksOf(f, v))
    <3> HIDE DEF S
    <3>1. IsFiniteSet({[file |-> f, idx |-> i, version |-> v] : i \in S})
      <4> DEFINE F == [i \in S |-> [file |-> f, idx |-> i, version |-> v]]
                 T == {[file |-> f, idx |-> i, version |-> v] : i \in S}
      <4>1. F \in Surjection(S, T)
        BY DEF Surjection
      <4> HIDE DEF F, T
      <4> QED
        BY <2>1, <4>1, FS_Surjection DEF T
    <3> QED
      BY <2>2, <3>1
  <2> QED
    BY <1>1, <1>2, <2>1, <2>2, <2>3 DEF Chunks, ChunksOf
<1>3. CASE v \notin Versions
  BY <1>1, <1>3, FS_EmptySet DEF ChunksOf
<1> QED
  BY <1>2, <1>3

(* What add() does: nothing to other files, and all or nothing to its own  *)
(* if that has no chunks or already these.                                 *)
LEMMA AddedLemma ==
    ASSUME TypeOK, NEW f \in FileSet, NEW v, chunks' = Added(ChunksOf(f, v))
    PROVE  /\ chunks' \subseteq Chunks
           /\ IsFiniteSet(chunks) => IsFiniteSet(chunks')
           /\ \A g \in FileSet \ {f} : Stored(g)' = Stored(g)
           /\ Stored(f)' \subseteq Stored(f) \cup ChunksOf(f, v)
           /\ Stored(f) \in {{}, ChunksOf(f, v)} => Stored(f)' = ChunksOf(f, v)
<1> DEFINE new == {c \in ChunksOf(f, v) : ~\E o \in chunks : o.file = c.file /\ o.idx = c.idx}
<1>1. chunks' = chunks \cup new /\ new \subseteq ChunksOf(f, v)
  BY DEF Added
<1>2. /\ ChunksOf(f, v) \subseteq Chunks /\ IsFiniteSet(ChunksOf(f, v))
      /\ \A c \in ChunksOf(f, v) : c.file = f
  BY ChunksLemma
<1>3. IsFiniteSet(new)
  BY <1>1, <1>2, FS_Subset
<1>4. chunks' \subseteq Chunks /\ (IsFiniteSet(chunks) => IsFiniteSet(chunks'))
  <2>1. IsFiniteSet(chunks) => IsFiniteSet(chunks \cup new)
    BY <1>3, FS_Union
  <2> HIDE DEF new
  <2> QED
    BY <1>1, <1>2, <2>1 DEF TypeOK
<1>5. \A g \in FileSet \ {f} : Stored(g)' = Stored(g)
  BY <1>1, <1>2 DEF Stored
<1>6. Stored(f)' = Stored(f) \cup new
  BY <1>1, <1>2 DEF Stored
<1>7. Stored(f) = {} => new = ChunksOf(f, v)
  BY <1>2 DEF Stored
<1> HIDE DEF new
<1>8. CASE Stored(f) = {}
  BY <1>1, <1>4, <1>5, <1>6, <1>7, <1>8
<1>9. CASE Stored(f) = ChunksOf(f, v)
  BY <1>1, <1>4, <1>5, <1>6, <1>9
<1>10. CASE Stored(f) \notin {{}, ChunksOf(f, v)}
  BY <1>1, <1>4, <1>5, <1>6, <1>10
<1> QED
  BY <1>8, <1>9, <1>10


-----------------------------------------------------------------------------
(* What a step leaves alone.                                               *)

(* The locals of run j, its history apart.                                 *)
Own(j) == UNCHANGED <<ix[j], handle[j], rebuild[j], listed[j], existing[j], read[j]>>

(* If run j is clean, the step does not disturb it: at most the collection *)
(* is made, before the run opens it.                                       *)
Calm(j) ==
    clean'[j] =>
        /\ clean[j] /\ chunks' = chunks
        /\ swallowed' = 0 => swallowed = 0
        /\ \A k \in Indexers \ {j} : Indexing(k)' => Indexing(k)
        /\ (coll' = coll /\ raced \subseteq raced') \/ ix[j] = "dropped"

Later == lastId \in Nat /\ lastId' \in Nat /\ lastId <= lastId'

(* Files lose their chunks, if anything.                                   *)
Shrinks ==
    /\ swallowed' = 0 => swallowed = 0
    /\ \/ chunks' = {}
       \/ /\ coll' = coll /\ raced \subseteq raced'
          /\ \A f \in FileSet : Stored(f)' \in {{}, Stored(f)}

LEMMA IndexFrame ==
    ASSUME NEW j \in Indexers, IndexInv(j), Own(j), Calm(j), Later
    PROVE  IndexInv(j)'
<1>1. Current(j)' = Current(j) /\ Indexing(j)' = Indexing(j)
  BY DEF Own, Current, Indexing
<1>2. LocalInv(j)'
  <2>1. handle[j] \in 1..lastId => handle[j] \in 1..lastId'
    BY DEF Later
  <2> QED
    BY <1>1, <2>1 DEF IndexInv, LocalInv, Own
<1>3. CASE ~clean'[j]
  BY <1>2, <1>3 DEF IndexInv, AloneInv, TreatedInv, RebuildInv
<1>4. CASE clean'[j]
  <2>1. /\ clean[j] /\ chunks' = chunks
        /\ swallowed' = 0 => swallowed = 0
        /\ \A k \in Indexers \ {j} : Indexing(k)' => Indexing(k)
        /\ (coll' = coll /\ raced \subseteq raced') \/ ix[j] = "dropped"
    BY <1>4 DEF Calm
  <2>2. RebuildInv(j)'
    BY <2>1 DEF IndexInv, RebuildInv, Own, Stored
  <2>3. AloneInv(j)'
    BY <1>1, <2>1 DEF IndexInv, AloneInv, Own, Holding, Looping
  <2>4. TreatedInv(j)'
    <3>1. CASE coll' = coll /\ raced \subseteq raced'
      BY <1>1, <2>1, <3>1 DEF IndexInv, TreatedInv, Own, Stored
    <3>2. CASE ix[j] = "dropped"
      <4>1. listed'[j] = {} /\ read'[j] = Nothing
        BY <3>2 DEF IndexInv, LocalInv, Own, Looping
      <4> QED
        BY <4>1 DEF TreatedInv, Nothing
    <3> QED
      BY <2>1, <3>1, <3>2
  <2> QED
    BY <1>2, <2>2, <2>3, <2>4 DEF IndexInv
<1> QED
  BY <1>3, <1>4

LEMMA AddFrame ==
    ASSUME TypeOK, NEW j \in Indexers, LocalInv(j), AddInv(j), Own(j), Shrinks
    PROVE  AddInv(j)'
<1>1. SUFFICES ASSUME swallowed' = 0, ix'[j] = "add", handle'[j] = coll', Current(j)' \notin raced'
               PROVE  Stored(Current(j))' \in {{}, Chunkified(j)'}
  BY DEF AddInv
<1>2. Current(j)' = Current(j) /\ Chunkified(j)' = Chunkified(j)
  BY DEF Own, Current, Chunkified
<1>3. Current(j) \in FileSet
  BY <1>1, CurrentLemma DEF LocalInv, Own
<1>4. CASE chunks' = {}
  BY <1>4 DEF Stored
<1>5. CASE coll' = coll /\ raced \subseteq raced' /\ \A f \in FileSet : Stored(f)' \in {{}, Stored(f)}
  <2>1. Stored(Current(j)) \in {{}, Chunkified(j)}
    BY <1>1, <1>2, <1>5 DEF AddInv, Own, Shrinks
  <2>2. Stored(Current(j))' = {c \in chunks' : c.file = Current(j)}
    BY <1>2 DEF Stored
  <2>3. Stored(Current(j))' \in {{}, Stored(Current(j))}
    BY <1>3, <1>5, <2>2 DEF Stored
  <2> QED
    BY <1>2, <2>1, <2>3
<1> QED
  BY <1>4, <1>5 DEF Shrinks

LEMMA WholeFrame ==
    ASSUME FileWhole, Shrinks
    PROVE  FileWhole'
BY DEF FileWhole, Shrinks, Stored, ChunksOf

(* The history knows of all races and overlaps.                            *)
LEMMA HistoryLemma ==
    ASSUME TypeOK, MarkHistory
    PROVE  /\ Raced' \subseteq raced' /\ raced' \subseteq FileSet
           /\ overlapped' \in [Retrievals -> BOOLEAN]
           /\ coll' = coll => raced \subseteq raced'
           /\ \A r \in Retrievals : overlapped[r] => overlapped'[r]
<1>1. raced' = (IF coll' # coll THEN {} ELSE raced) \cup Raced' /\ raced \subseteq FileSet
  BY DEF MarkHistory, TypeOK
<1>2. Raced' \subseteq FileSet
  BY DEF Raced
<1>3. overlapped' \in [Retrievals -> BOOLEAN]
  BY DEF MarkHistory, TypeOK
<1>4. \A r \in Retrievals : overlapped[r] => overlapped'[r]
  BY DEF MarkHistory
<1> QED
  BY <1>1, <1>2, <1>3, <1>4

(* Nothing happens to a retrieval that no index run overlaps.              *)
LEMMA RetrieveFrame ==
    ASSUME TypeOK, MarkHistory, NEW r \in Retrievals, RetrieveInv(r),
           UNCHANGED <<rt[r], rtHandle[r], nFetch[r]>>,
           \/ \E i \in Indexers : Indexing(i) \/ Indexing(i)'
           \/ chunks' = chunks /\ (coll' = coll \/ coll = 0)
    PROVE  RetrieveInv(r)'
<1>1. overlapped[r] => overlapped'[r]
  BY HistoryLemma
<1>2. CASE \E i \in Indexers : Indexing(i) \/ Indexing(i)'
  <2>1. rt[r] \in Reading => overlapped'[r]
    BY <1>2 DEF MarkHistory, Reading
  <2> QED
    BY <1>1, <2>1 DEF RetrieveInv
<1>3. CASE chunks' = chunks /\ (coll' = coll \/ coll = 0)
  BY <1>1, <1>3 DEF RetrieveInv
<1> QED
  BY <1>2, <1>3

(* What is read or stored is of the directory, or was.                     *)
Growing ==
    edits' = 0 =>
        /\ edits = 0 /\ dir' = dir
        /\ \A f \in FileSet :
              /\ Stored(f)' \subseteq Stored(f) \cup ChunksOf(f, dir[f])
              /\ \A j \in Indexers :
                    /\ read'[j][f] \in {0, read[j][f], dir[f]}
                    /\ existing'[j][f] \in {0, existing[j][f]} \cup {c.version : c \in Stored(f)}

(* Without edits there are no races.                                       *)
LEMMA SameFrame ==
    ASSUME TypeOK, TypeOK', MarkHistory, SameInv, Growing, \A j \in Indexers : LocalInv(j)'
    PROVE  SameInv'
<1> SUFFICES ASSUME edits' = 0 PROVE SameInv'
  BY DEF SameInv
<1>1. /\ edits = 0 /\ dir' = dir /\ raced = {}
      /\ \A f \in FileSet :
           /\ dir[f] \in {0} \cup Versions
           /\ Stored(f) \subseteq ChunksOf(f, dir[f])
           /\ Stored(f)' \subseteq ChunksOf(f, dir[f])
           /\ \A j \in Indexers : read'[j][f] \in {0, dir[f]}
  BY DEF SameInv, Growing
<1>2. ASSUME NEW f \in FileSet, NEW j \in Indexers PROVE existing'[j][f] \in {0, dir[f]}
  <2>1. \A c \in Stored(f) : c.version = dir[f]
    BY <1>1, ChunksLemma
  <2> QED
    BY <1>1, <2>1 DEF SameInv, Growing
<1>3. Raced' = {}
  <2> SUFFICES ASSUME NEW f \in FileSet, NEW i \in Indexers, NEW j \in Indexers,
                      Treating(i, f)', Treating(j, f)', read'[i][f] # read'[j][f]
               PROVE  FALSE
    BY DEF Raced
  <2>1. read'[i][f] \in Versions /\ read'[j][f] \in Versions
    BY DEF Treating, LocalInv
  <2> QED
    BY <1>1, <2>1, PlaybookAssumption
<1>4. raced' = {}
  BY <1>1, <1>3 DEF MarkHistory
<1>5. \A f \in FileSet : ChunksOf(f, dir[f])' = ChunksOf(f, dir[f])
  BY <1>1 DEF ChunksOf
<1> QED
  BY <1>1, <1>2, <1>4, <1>5 DEF SameInv

(* Run i does not leave a file to nobody.                                  *)
Covers(i) ==
    edits = 0 /\ swallowed' = 0 =>
        \A f \in FileSet :
            \/ Stored(f)' = ChunksOf(f, dir[f]) \/ Responsible(i, f)'
            \/ Stored(f)' = Stored(f) /\ ~Responsible(i, f)

LEMMA CoverFrame ==
    ASSUME TypeOK, NEW i \in Indexers, CoverInv, Covers(i), UNCHANGED <<dir, edits, runs>>,
           swallowed' = 0 => swallowed = 0, \A j \in Indexers \ {i} : Own(j)
    PROVE  CoverInv'
<1> SUFFICES ASSUME edits = 0, swallowed' = 0, swallowed = 0, runs > 0, NEW f \in FileSet
             PROVE  Stored(f)' = ChunksOf(f, dir[f])' \/ \E j \in Indexers : Responsible(j, f)'
  BY DEF CoverInv
<1>1. ChunksOf(f, dir[f])' = ChunksOf(f, dir[f])
  BY DEF ChunksOf
<1>2. ASSUME NEW j \in Indexers \ {i} PROVE Responsible(j, f)' = Responsible(j, f)
  BY DEF Own, Responsible, Current
<1>3. Stored(f) = ChunksOf(f, dir[f]) \/ \E j \in Indexers : Responsible(j, f)
  BY DEF CoverInv
<1> QED
  BY <1>1, <1>2, <1>3 DEF Covers


(* A step of index run i.                                                  *)
StepOf(i) ==
    /\ Indexing(i) /\ MarkHistory /\ Later
    /\ UNCHANGED <<dir, edits, runs, rt, rtHandle, nFetch, found>>
    /\ swallowed' = 0 => swallowed = 0
    /\ \A j \in Indexers \ {i} : Own(j) /\ clean'[j] = clean[j]

(* It keeps the invariant if it keeps what concerns run i and the store.   *)
LEMMA RunLemma ==
    ASSUME IInv, NEW i \in Indexers, StepOf(i), TypeOK',
           coll' \in {0, lastId'}, coll' = 0 => chunks' = {}, IsFiniteSet(chunks'),
           FileWhole', IndexInv(i)', \A j \in Indexers : AddInv(j)', Growing, Covers(i)
    PROVE  IInv'
<1>1. TypeOK /\ SameInv /\ CoverInv /\ MarkHistory /\ (swallowed' = 0 => swallowed = 0)
  BY DEF IInv, StepOf
<1>2. \A j \in Indexers : IndexInv(j)'
  <2> TAKE j \in Indexers
  <2>1. CASE j # i
    <3>1. ~clean'[j] /\ Own(j)
      <4>1. AloneInv(j)
        BY DEF IInv, IndexInv
      <4> QED
        BY <2>1, <4>1 DEF AloneInv, StepOf
    <3>2. Calm(j)
      BY <3>1 DEF Calm
    <3>3. IndexInv(j) /\ Later
      BY DEF IInv, StepOf
    <3> QED
      BY <3>1, <3>2, <3>3, IndexFrame
  <2> QED
    BY <2>1
<1>3. StoreInv'
  BY <1>1, HistoryLemma DEF StoreInv
<1>4. SameInv'
  <2>1. \A j \in Indexers : LocalInv(j)'
    BY <1>2 DEF IndexInv
  <2> QED
    BY <1>1, <2>1, SameFrame
<1>5. CoverInv'
  BY <1>1, CoverFrame DEF StepOf
<1>6. ASSUME NEW r \in Retrievals PROVE RetrieveInv(r)'
  BY <1>1, RetrieveFrame DEF IInv, StepOf
<1> QED
  BY <1>2, <1>3, <1>4, <1>5, <1>6 DEF IInv

(* In particular a step that does not change the store.                    *)
LEMMA QuietLemma ==
    ASSUME IInv, NEW i \in Indexers, StepOf(i), TypeOK', UNCHANGED storeVars,
           IndexInv(i)', AddInv(i)', Growing, Covers(i)
    PROVE  IInv'
<1>1. Shrinks
  <2>1. coll' = coll => raced \subseteq raced'
    BY HistoryLemma DEF StepOf, IInv
  <2> QED
    BY <2>1 DEF Shrinks, StepOf, storeVars, Stored
<1>2. FileWhole'
  BY <1>1, WholeFrame DEF IInv
<1>3. ASSUME NEW j \in Indexers PROVE AddInv(j)'
  <2>1. CASE j = i
    BY <2>1
  <2>2. CASE j # i
    BY <1>1, <2>2, AddFrame DEF IInv, IndexInv, StepOf
  <2> QED
    BY <2>1, <2>2
<1>4. coll' \in {0, lastId'} /\ (coll' = 0 => chunks' = {}) /\ IsFiniteSet(chunks')
  BY DEF IInv, StoreInv, storeVars
<1> QED
  BY <1>2, <1>3, <1>4, RunLemma

(* A run that ends leaves nothing undone, or has not ended well.           *)
Settled(i) ==
    /\ listed[i] = {} /\ ix[i] \in Holding
    /\ edits = 0 => \A f \in FileSet : Responsible(i, f) => Stored(f) = ChunksOf(f, dir[f])

LEMMA LeaveLemma ==
    ASSUME IInv, NEW i \in Indexers, NEW end \in {"done", "failed", "crashed"}, Indexing(i),
           MarkHistory, Leave(i, end),
           UNCHANGED <<dir, edits, storeVars, runs, swallowed, retrieveVars>>,
           end = "done" => Settled(i)
    PROVE  IInv'
<1>1. /\ ix' = [ix EXCEPT ![i] = end] /\ handle' = [handle EXCEPT ![i] = 0]
      /\ listed' = [listed EXCEPT ![i] = {}] /\ existing' = [existing EXCEPT ![i] = Nothing]
      /\ end = "done" => UNCHANGED <<read, rebuild, clean>>
      /\ end # "done" => /\ read' = [read EXCEPT ![i] = Nothing]
                         /\ rebuild' = [rebuild EXCEPT ![i] = FALSE]
                         /\ clean' = [clean EXCEPT ![i] = FALSE]
      /\ UNCHANGED <<dir, edits, coll, lastId, chunks, runs, swallowed, rt, rtHandle, nFetch, found>>
  BY DEF Leave, storeVars, retrieveVars
<1>2. Nothing \in [FileSet -> {0} \cup Versions] /\ \A f \in FileSet : Nothing[f] = 0
  BY DEF Nothing
<1>3. TypeOK'
  <2>1. TypeOK
    BY DEF IInv
  <2>2. raced' \subseteq FileSet /\ overlapped' \in [Retrievals -> BOOLEAN]
    BY <2>1, HistoryLemma
  <2>3. /\ read' \in [Indexers -> [FileSet -> {0} \cup Versions]]
        /\ rebuild' \in [Indexers -> BOOLEAN] /\ clean' \in [Indexers -> BOOLEAN]
    <3>1. /\ read \in [Indexers -> [FileSet -> {0} \cup Versions]]
          /\ rebuild \in [Indexers -> BOOLEAN] /\ clean \in [Indexers -> BOOLEAN]
      BY <2>1 DEF TypeOK
    <3>2. CASE end = "done"
      BY <1>1, <3>1, <3>2
    <3>3. CASE end # "done"
      BY <1>1, <1>2, <3>1, <3>3
    <3> QED
      BY <3>2, <3>3
  <2>4. /\ ix' \in [Indexers -> {"idle", "dropped", "opened", "files", "delete", "add", "done",
                                "failed", "crashed"}]
        /\ handle' \in [Indexers -> Nat] /\ listed' \in [Indexers -> SUBSET FileSet]
        /\ existing' \in [Indexers -> [FileSet -> {0} \cup Versions]]
    BY <1>1, <1>2, <2>1 DEF TypeOK
  <2> QED
    BY <1>1, <2>1, <2>2, <2>3, <2>4 DEF TypeOK
<1>4. /\ ix'[i] = end /\ handle'[i] = 0 /\ listed'[i] = {} /\ existing'[i] = Nothing
      /\ end = "done" => read'[i] = read[i] /\ rebuild'[i] = rebuild[i] /\ clean'[i] = clean[i]
      /\ end # "done" => read'[i] = Nothing /\ ~clean'[i]
      /\ \A j \in Indexers \ {i} : Own(j) /\ clean'[j] = clean[j]
  BY <1>1 DEF IInv, TypeOK, Own
<1>5. StepOf(i)
  BY <1>1, <1>4 DEF StepOf, Later, IInv, TypeOK
<1>6. IndexInv(i)'
  <2>1. LocalInv(i)'
    BY <1>4 DEF LocalInv, Holding, Looping
  <2>2. CASE end # "done"
    BY <1>4, <2>1, <2>2 DEF IndexInv, AloneInv, TreatedInv, RebuildInv
  <2>3. CASE end = "done"
    <3>1. Settled(i) /\ AloneInv(i) /\ TreatedInv(i) /\ RebuildInv(i)
      BY <2>3 DEF IInv, IndexInv
    <3>2. AloneInv(i)'
      BY <1>1, <1>4, <2>3, <3>1 DEF AloneInv, Settled, Holding, Looping, Indexing, Own
    <3>3. raced \subseteq raced'
      BY <1>1, HistoryLemma DEF IInv
    <3>4. TreatedInv(i)'
      BY <1>1, <1>4, <2>3, <3>1, <3>3 DEF TreatedInv, Settled, Stored
    <3>5. RebuildInv(i)'
      BY <1>1, <1>4, <2>3, <3>1 DEF RebuildInv, Settled, Stored
    <3> QED
      BY <2>1, <3>2, <3>4, <3>5 DEF IndexInv
  <2> QED
    BY <2>2, <2>3
<1>7. AddInv(i)'
  BY <1>4 DEF AddInv
<1>8. Growing
  <2>1. \A j \in Indexers : read'[j] \in {read[j], Nothing} /\ existing'[j] \in {existing[j], Nothing}
    BY <1>4 DEF Own
  <2> QED
    BY <1>1, <1>2, <2>1 DEF Growing, Stored
<1>9. Covers(i)
  <2>1. CASE end # "done"
    BY <1>4, <2>1 DEF Covers, Responsible
  <2>2. CASE end = "done"
    BY <1>1, <2>2 DEF Covers, Settled, Stored
  <2> QED
    BY <2>1, <2>2
<1> QED
  BY <1>1, <1>3, <1>5, <1>6, <1>7, <1>8, <1>9, QuietLemma DEF storeVars

(* A run that is killed, fails or comes to an end.                         *)
LEMMA EndSteps ==
    ASSUME IInv, NEW i \in Indexers, MarkHistory, CrashIndex(i) \/ AddRaises(i) \/ EndIndex(i)
    PROVE  IInv'
<1>1. CASE CrashIndex(i)
  BY <1>1, LeaveLemma DEF CrashIndex
<1>2. CASE AddRaises(i)
  BY <1>2, LeaveLemma DEF AddRaises, Indexing
<1>3. CASE EndIndex(i)
  <2>1. Settled(i)
    BY <1>3 DEF EndIndex, Settled, Responsible, Holding, Looping
  <2> QED
    BY <1>3, <2>1, LeaveLemma DEF EndIndex, Indexing
<1> QED
  BY <1>1, <1>2, <1>3


(* get_or_create_collection().                                             *)
LEMMA OpenLemma ==
    ASSUME TypeOK, StoreInv, Open
    PROVE  /\ coll' \in Nat /\ lastId' \in Nat /\ Later /\ coll' = lastId' /\ coll' # 0
           /\ chunks' = chunks /\ (coll' = coll \/ (coll = 0 /\ chunks = {}))
<1>1. coll \in Nat /\ lastId \in Nat /\ coll \in {0, lastId} /\ (coll = 0 => chunks = {})
  BY DEF TypeOK, StoreInv
<1>2. CASE coll = 0
  <2>1. coll' = lastId + 1 /\ lastId' = lastId + 1 /\ chunks' = {}
    BY <1>2 DEF Open
  <2> QED
    BY <1>1, <1>2, <2>1 DEF Later
<1>3. CASE coll # 0
  <2>1. coll' = coll /\ lastId' = lastId /\ chunks' = chunks
    BY <1>3 DEF Open, storeVars
  <2>2. coll = lastId
    BY <1>1, <1>3
  <2>3. Later
    BY <1>1, <2>1 DEF Later
  <2> QED
    BY <1>1, <1>3, <2>1, <2>2, <2>3
<1> QED
  BY <1>2, <1>3

LEMMA OpenIndexStep ==
    ASSUME IInv, NEW i \in Indexers, MarkHistory, OpenIndex(i)
    PROVE  IInv'
<1>1. /\ ix[i] = "dropped" /\ ix' = [ix EXCEPT ![i] = "opened"]
      /\ handle' = [handle EXCEPT ![i] = coll']
      /\ UNCHANGED <<dir, edits, rebuild, listed, existing, read, runs, swallowed, clean, rt,
                     rtHandle, nFetch, found>>
  BY DEF OpenIndex, retrieveVars
<1>2. /\ coll' \in Nat /\ lastId' \in Nat /\ Later /\ coll' = lastId' /\ coll' # 0
      /\ chunks' = chunks /\ (coll' = coll \/ (coll = 0 /\ chunks = {}))
  BY OpenLemma DEF OpenIndex, IInv
<1>3. TypeOK /\ LocalInv(i) /\ AloneInv(i) /\ TreatedInv(i) /\ RebuildInv(i)
  BY DEF IInv, IndexInv
<1>4. TypeOK'
  BY <1>1, <1>2, <1>3, HistoryLemma DEF TypeOK
<1>5. /\ ix'[i] = "opened" /\ handle'[i] = coll' /\ listed[i] = {} /\ existing[i] = Nothing
      /\ read[i] = Nothing /\ \A j \in Indexers \ {i} : Own(j) /\ clean'[j] = clean[j]
  BY <1>1, <1>3 DEF TypeOK, Own, LocalInv, Looping
<1>6. StepOf(i)
  BY <1>1, <1>2, <1>5 DEF StepOf, Indexing
<1>7. IndexInv(i)'
  <2>1. handle'[i] \in 1..lastId'
    BY <1>2, <1>5
  <2>2. LocalInv(i)'
    BY <1>1, <1>5, <2>1 DEF LocalInv, Holding, Looping
  <2>3. AloneInv(i)'
    BY <1>1, <1>2, <1>3, <1>5 DEF AloneInv, Indexing, Own
  <2>4. TreatedInv(i)'
    BY <1>1, <1>5 DEF TreatedInv, Nothing
  <2>5. RebuildInv(i)'
    BY <1>1, <1>2, <1>3 DEF RebuildInv, Stored
  <2> QED
    BY <2>2, <2>3, <2>4, <2>5 DEF IndexInv
<1>8. Shrinks
  <2>1. coll' = coll => raced \subseteq raced'
    BY <1>3, HistoryLemma
  <2> QED
    BY <1>1, <1>2, <2>1 DEF Shrinks, Stored
<1>9. FileWhole'
  BY <1>8, WholeFrame DEF IInv
<1>10. ASSUME NEW j \in Indexers PROVE AddInv(j)'
  <2>1. CASE j = i
    BY <1>5, <2>1 DEF AddInv
  <2>2. CASE j # i
    BY <1>5, <1>8, <2>2, AddFrame DEF IInv, IndexInv
  <2> QED
    BY <2>1, <2>2
<1>11. Growing
  BY <1>1, <1>2 DEF Growing, Stored
<1>12. Covers(i)
  BY <1>5 DEF Covers, Responsible
<1>13. IsFiniteSet(chunks')
  BY <1>2 DEF IInv, StoreInv
<1> QED
  BY <1>2, <1>4, <1>6, <1>7, <1>9, <1>10, <1>11, <1>12, <1>13, RunLemma

(* What the stored hashes tell of a whole file.                            *)
LEMMA FirstHashesLemma ==
    ASSUME TypeOK, FileWhole, swallowed = 0, NEW first \in FirstHashes,
           NEW f \in FileSet \ raced, first[f] # 0
    PROVE  Stored(f) = ChunksOf(f, first[f])
<1>1. first[f] \in IF Stored(f) = {} THEN {0} ELSE {c.version : c \in Stored(f)}
  BY DEF FirstHashes
<1>2. PICK c \in Stored(f) : first[f] = c.version
  BY <1>1
<1>3. PICK v \in Versions : Stored(f) = ChunksOf(f, v)
  BY <1>2 DEF FileWhole
<1>4. c.version = v
  BY <1>2, <1>3, ChunksLemma
<1> QED
  BY <1>2, <1>3, <1>4

LEMMA ScanStep ==
    ASSUME IInv, NEW i \in Indexers, MarkHistory, Scan(i)
    PROVE  IInv'
<1> DEFINE files == {f \in FileSet : dir[f] # 0}
<1>1. TypeOK /\ LocalInv(i) /\ AloneInv(i) /\ TreatedInv(i) /\ RebuildInv(i) /\ ix[i] = "opened"
  BY DEF IInv, IndexInv, Scan
<1>2. listed[i] = {} /\ existing[i] = Nothing /\ read[i] = Nothing /\ \A f \in FileSet : Nothing[f] = 0
  BY <1>1 DEF LocalInv, Looping, Nothing
<1>3. CASE files = {}
  <2>1. ASSUME edits = 0, NEW f \in FileSet PROVE Stored(f) = ChunksOf(f, dir[f])
    <3>1. dir[f] = 0 /\ Stored(f) \subseteq ChunksOf(f, dir[f])
      BY <1>3, <2>1 DEF IInv, SameInv
    <3>2. ChunksOf(f, 0) = {}
      BY ChunksLemma
    <3> QED
      BY <3>1, <3>2
  <2>2. Settled(i)
    BY <1>1, <1>2, <2>1 DEF Settled, Holding
  <2> QED
    BY <1>1, <1>3, <2>2, LeaveLemma DEF Scan, Indexing
<1>4. CASE files # {}
  <2>1. /\ ix' = [ix EXCEPT ![i] = "files"] /\ listed' = [listed EXCEPT ![i] = files]
        /\ \/ existing' = existing
           \/ \E first \in FirstHashes : existing' = [existing EXCEPT ![i] = first]
        /\ UNCHANGED <<dir, edits, storeVars, coll, lastId, chunks, runs, swallowed, rt, rtHandle,
                       nFetch, found, handle, rebuild, read, clean>>
    BY <1>4 DEF Scan, storeVars, retrieveVars
  <2>2. PICK first : /\ existing' = [existing EXCEPT ![i] = first]
                     /\ first = Nothing \/ first \in FirstHashes
    <3>1. CASE existing' = existing
      <4>1. existing' = [existing EXCEPT ![i] = Nothing]
        BY <1>1, <1>2, <3>1 DEF TypeOK
      <4> QED
        BY <4>1
    <3> QED
      BY <2>1, <3>1
  <2>3. first \in [FileSet -> {0} \cup Versions]
    BY <2>2 DEF Nothing, FirstHashes
  <2>4. TypeOK'
    <3>1. raced' \subseteq FileSet /\ overlapped' \in [Retrievals -> BOOLEAN]
      BY <1>1, HistoryLemma
    <3>2. /\ existing' \in [Indexers -> [FileSet -> {0} \cup Versions]]
          /\ listed' \in [Indexers -> SUBSET FileSet]
      BY <1>1, <2>1, <2>2, <2>3 DEF TypeOK
    <3> QED
      BY <1>1, <2>1, <3>1, <3>2 DEF TypeOK
  <2>5. /\ ix'[i] = "files" /\ listed'[i] = files /\ existing'[i] = first /\ handle'[i] = handle[i]
        /\ \A j \in Indexers \ {i} : Own(j) /\ clean'[j] = clean[j]
    BY <1>1, <2>1, <2>2 DEF TypeOK, Own
  <2>6. StepOf(i)
    BY <1>1, <2>1, <2>5 DEF StepOf, Later, TypeOK, Indexing
  <2>7. raced \subseteq raced'
    BY <1>1, <2>1, HistoryLemma
  <2>8. ASSUME swallowed = 0, NEW f \in FileSet \ raced, first[f] # 0
        PROVE  Stored(f) = ChunksOf(f, first[f])
    BY <1>1, <1>2, <2>2, <2>8, FirstHashesLemma DEF IInv
  <2>9. IndexInv(i)'
    <3>1. LocalInv(i)'
      BY <1>1, <2>1, <2>5 DEF LocalInv, Holding, Looping
    <3>2. AloneInv(i)'
      BY <1>1, <2>1, <2>5 DEF AloneInv, Indexing, Own, Holding, Looping
    <3>3. TreatedInv(i)'
      BY <1>2, <2>1, <2>5, <2>7, <2>8 DEF TreatedInv, Stored
    <3>4. RebuildInv(i)'
      <4>1. \A f \in FileSet : ChunksOf(f, 0) = {}
        BY ChunksLemma
      <4> QED
        BY <1>1, <1>2, <2>1, <4>1 DEF RebuildInv, Stored
    <3> QED
      BY <3>1, <3>2, <3>3, <3>4 DEF IndexInv
  <2>10. AddInv(i)'
    BY <2>5 DEF AddInv
  <2>11. Growing
    <3>1. \A j \in Indexers, f \in FileSet :
             existing'[j][f] \in {0, existing[j][f]} \cup {c.version : c \in Stored(f)}
      <4> TAKE j \in Indexers, f \in FileSet
      <4>1. CASE j = i
        BY <1>2, <2>2, <2>5, <4>1 DEF FirstHashes
      <4>2. CASE j # i
        BY <2>5, <4>2 DEF Own
      <4> QED
        BY <4>1, <4>2
    <3> QED
      BY <2>1, <3>1 DEF Growing, Stored
  <2>12. Covers(i)
    <3> SUFFICES ASSUME edits = 0, swallowed = 0, NEW f \in FileSet
                 PROVE  Stored(f) = ChunksOf(f, dir[f]) \/ Responsible(i, f)'
      BY <2>1 DEF Covers, Stored
    <3>1. CASE dir[f] = 0
      <4>1. Stored(f) \subseteq ChunksOf(f, 0) /\ ChunksOf(f, 0) = {}
        BY <3>1, ChunksLemma DEF IInv, SameInv
      <4> QED
        BY <3>1, <4>1
    <3>2. CASE dir[f] # 0 /\ first[f] = dir[f]
      BY <2>8, <3>2 DEF IInv, SameInv
    <3>3. CASE dir[f] # 0 /\ first[f] # dir[f]
      BY <2>1, <2>5, <3>3 DEF Responsible, Looping
    <3> QED
      BY <3>1, <3>2, <3>3
  <2> QED
    BY <2>1, <2>4, <2>6, <2>9, <2>10, <2>11, <2>12, QuietLemma
<1> QED
  BY <1>3, <1>4


(* One turn of the loop up to the first change of the collection.          *)
LEMMA ReadFileStep ==
    ASSUME IInv, NEW i \in Indexers, MarkHistory, ReadFile(i)
    PROVE  IInv'
<1> DEFINE f == Current(i)
<1>1. /\ TypeOK /\ LocalInv(i) /\ AloneInv(i) /\ TreatedInv(i) /\ RebuildInv(i)
      /\ ix[i] = "files" /\ listed[i] # {}
      /\ UNCHANGED <<dir, edits, storeVars, coll, lastId, chunks, runs, swallowed, rt, rtHandle,
                     nFetch, found>>
  BY DEF IInv, IndexInv, ReadFile, ReadUnless, storeVars, retrieveVars
<1>2. f \in listed[i] /\ f \in FileSet
  BY <1>1, CurrentLemma
<1>3. CASE dir[f] \in {0, Undecodable}
  <2>1. Leave(i, "failed")
    BY <1>3 DEF ReadFile, ReadUnless
  <2> QED
    BY <1>1, <2>1, LeaveLemma DEF Indexing, retrieveVars
<1>4. CASE dir[f] \notin {0, Undecodable}
  <2> DEFINE skip == existing[i][f] = dir[f] /\ ~rebuild[i]
             where == IF skip THEN "files" ELSE "delete"
             left == IF skip THEN listed[i] \ {f} ELSE listed[i]
  <2>1. /\ read' = [read EXCEPT ![i][f] = dir[f]]
        /\ ix' = [ix EXCEPT ![i] = where] /\ listed' = [listed EXCEPT ![i] = left]
        /\ UNCHANGED <<handle, rebuild, existing, clean>>
    <3>1. CASE skip
      BY <1>1, <1>4, <3>1 DEF ReadFile, ReadUnless, TypeOK
    <3>2. CASE ~skip
      BY <1>1, <1>4, <3>2 DEF ReadFile, ReadUnless, TypeOK
    <3> QED
      BY <3>1, <3>2
  <2>2. dir[f] \in Versions /\ dir[f] # 0
    BY <1>1, <1>2, <1>4 DEF TypeOK
  <2>3. /\ \A j \in Indexers \ {i} : Own(j) /\ clean'[j] = clean[j]
        /\ ix'[i] = where /\ listed'[i] = left
        /\ \A g \in FileSet : read'[i][g] = IF g = f THEN dir[f] ELSE read[i][g]
    <3>1. read'[i] = [read[i] EXCEPT ![f] = dir[f]]
      BY <1>1, <2>1 DEF TypeOK
    <3>2. \A g \in FileSet : read'[i][g] = IF g = f THEN dir[f] ELSE read[i][g]
      BY <1>1, <1>2, <3>1 DEF TypeOK
    <3> QED
      BY <1>1, <2>1, <3>2 DEF TypeOK, Own
  <2>4. ~skip => Current(i)' = f
    BY <2>3 DEF Current
  <2>5. TypeOK'
    <3>1. raced' \subseteq FileSet /\ overlapped' \in [Retrievals -> BOOLEAN]
      BY <1>1, HistoryLemma DEF IInv
    <3>2. read' \in [Indexers -> [FileSet -> {0} \cup Versions]]
      BY <1>1, <1>2, <2>1, <2>2 DEF TypeOK
    <3>3. listed' \in [Indexers -> SUBSET FileSet]
      BY <1>1, <2>1 DEF TypeOK
    <3>4. where \in {"files", "delete"}
      OBVIOUS
    <3> QED
      BY <1>1, <2>1, <3>1, <3>2, <3>3, <3>4 DEF TypeOK
  <2>6. StepOf(i)
    BY <1>1, <2>1, <2>3 DEF StepOf, Later, TypeOK, Indexing
  <2>7. raced \subseteq raced'
    BY <1>1, HistoryLemma
  <2>8. IndexInv(i)'
    <3>1. LocalInv(i)'
      <4>1. CASE skip
        BY <1>1, <2>1, <2>3, <4>1 DEF LocalInv, Holding, Looping
      <4>2. CASE ~skip
        BY <1>1, <1>2, <2>1, <2>2, <2>3, <2>4, <4>2 DEF LocalInv, Holding, Looping
      <4> QED
        BY <4>1, <4>2
    <3>2. AloneInv(i)'
      BY <1>1, <2>1, <2>3 DEF AloneInv, Indexing, Own, Holding, Looping
    <3>3. TreatedInv(i)'
      <4> SUFFICES ASSUME swallowed = 0, clean[i], NEW g \in FileSet \ raced
                   PROVE  /\ g \notin left /\ read'[i][g] # 0 => Stored(g) = ChunksOf(g, read'[i][g])
                          /\ g \in left /\ existing[i][g] # 0
                             /\ ~(where \in {"delete", "add"} /\ g = Current(i)')
                                => Stored(g) = ChunksOf(g, existing[i][g])
        BY <1>1, <2>1, <2>3, <2>7 DEF TreatedInv, Stored
      <4>1. CASE skip /\ g = f
        BY <1>1, <1>2, <2>2, <2>3, <4>1 DEF TreatedInv
      <4>2. CASE skip /\ g # f
        BY <1>1, <2>3, <4>2 DEF TreatedInv
      <4>3. CASE ~skip
        BY <1>1, <1>2, <2>3, <2>4, <4>3 DEF TreatedInv
      <4> QED
        BY <4>1, <4>2, <4>3
    <3>4. RebuildInv(i)'
      <4>1. CASE skip
        BY <2>1, <4>1 DEF RebuildInv
      <4>2. CASE ~skip
        BY <1>1, <1>2, <2>1, <2>3, <4>2 DEF RebuildInv, Stored
      <4> QED
        BY <4>1, <4>2
    <3> QED
      BY <3>1, <3>2, <3>3, <3>4 DEF IndexInv
  <2>9. AddInv(i)'
    BY <2>3 DEF AddInv
  <2>10. Growing
    <3>1. ASSUME NEW j \in Indexers, NEW g \in FileSet PROVE read'[j][g] \in {0, read[j][g], dir[g]}
      BY <2>3 DEF Own
    <3> QED
      BY <1>1, <2>1, <3>1 DEF Growing, Stored
  <2>11. Covers(i)
    <3> SUFFICES ASSUME NEW g \in FileSet, Responsible(i, g)
                 PROVE  Responsible(i, g)'
      BY <1>1 DEF Covers, Stored
    <3>1. CASE skip
      BY <1>1, <2>1, <2>3, <3>1 DEF Responsible, Looping
    <3>2. CASE ~skip
      BY <1>1, <2>1, <2>3, <3>2 DEF Responsible, Looping
    <3> QED
      BY <3>1, <3>2
  <2> QED
    BY <1>1, <2>5, <2>6, <2>8, <2>9, <2>10, <2>11, QuietLemma
<1> QED
  BY <1>3, <1>4

(* What ToAdd() does to run i.                                             *)
LEMMA ToAddLemma ==
    ASSUME IInv, NEW i \in Indexers, ToAdd(i)
    PROVE  /\ ix[i] = "delete" /\ ix'[i] = "add"
           /\ UNCHANGED <<handle[i], rebuild[i], listed[i], existing[i], read[i]>>
           /\ ix' \in [Indexers -> {"idle", "dropped", "opened", "files", "delete", "add", "done",
                                    "failed", "crashed"}]
           /\ UNCHANGED <<dir, edits, coll, lastId, handle, rebuild, listed, existing, read, runs,
                          rt, rtHandle, nFetch, found>>
           /\ \A j \in Indexers \ {i} : Own(j)
           /\ Current(i) \in listed[i] /\ Current(i) \in FileSet /\ Current(i)' = Current(i)
           /\ LocalInv(i)' /\ Later
<1>1. /\ ix[i] = "delete" /\ ix' = [ix EXCEPT ![i] = "add"]
      /\ UNCHANGED <<dir, edits, coll, lastId, handle, rebuild, listed, existing, read, runs,
                     rt, rtHandle, nFetch, found>>
  BY DEF ToAdd, retrieveVars
<1>2. TypeOK /\ LocalInv(i)
  BY DEF IInv, IndexInv
<1>3. Current(i) \in listed[i] /\ Current(i) \in FileSet
  BY <1>1, <1>2, CurrentLemma DEF LocalInv
<1>4. Current(i)' = Current(i)
  BY <1>1 DEF Current
<1>5. ix'[i] = "add" /\ \A j \in Indexers \ {i} : Own(j)
  BY <1>1, <1>2 DEF TypeOK, Own
<1>6. LocalInv(i)'
  BY <1>1, <1>2, <1>4, <1>5 DEF LocalInv, Holding, Looping
<1> QED
  BY <1>1, <1>2, <1>3, <1>4, <1>5, <1>6 DEF TypeOK, Later

(* The chunks of the file are deleted.                                     *)
LEMMA DeleteChunksStep ==
    ASSUME IInv, NEW i \in Indexers, MarkHistory, DeleteChunks(i)
    PROVE  IInv'
<1> DEFINE f == Current(i)
<1>1. /\ ToAdd(i) /\ handle[i] = coll /\ chunks' = chunks \ Stored(f)
      /\ UNCHANGED <<swallowed, clean>>
  BY DEF DeleteChunks, Gone
<1>2. TypeOK /\ LocalInv(i) /\ AloneInv(i) /\ TreatedInv(i) /\ RebuildInv(i)
  BY DEF IInv, IndexInv
<1>3. \A g \in FileSet : Stored(g)' = IF g = f THEN {} ELSE Stored(g)
  BY <1>1 DEF Stored
<1>4. raced \subseteq raced' /\ raced' \subseteq FileSet /\ overlapped' \in [Retrievals -> BOOLEAN]
  BY <1>1, <1>2, HistoryLemma DEF ToAdd
<1>5. TypeOK'
  BY <1>1, <1>2, <1>4, ToAddLemma DEF TypeOK
<1>6. StepOf(i)
  BY <1>1, ToAddLemma DEF StepOf, Indexing
<1>7. Shrinks
  BY <1>1, <1>3, <1>4, ToAddLemma DEF Shrinks
<1>8. IndexInv(i)'
  <2>1. AloneInv(i)'
    BY <1>1, <1>2, ToAddLemma DEF AloneInv, Indexing, Own, Holding, Looping
  <2>2. TreatedInv(i)'
    BY <1>1, <1>2, <1>3, <1>4, ToAddLemma DEF TreatedInv
  <2>3. RebuildInv(i)'
    BY <1>1, <1>2, <1>3, ToAddLemma DEF RebuildInv
  <2> QED
    BY <1>1, <2>1, <2>2, <2>3, ToAddLemma DEF IndexInv
<1>9. ASSUME NEW j \in Indexers PROVE AddInv(j)'
  <2>1. CASE j = i
    <3>1. Stored(Current(i))' = {}
      BY <1>1, <1>3, ToAddLemma DEF Stored
    <3> QED
      BY <2>1, <3>1 DEF AddInv
  <2>2. CASE j # i
    BY <1>1, <1>7, <2>2, ToAddLemma, AddFrame DEF IInv, IndexInv
  <2> QED
    BY <2>1, <2>2
<1>10. FileWhole'
  BY <1>7, WholeFrame DEF IInv
<1>11. Growing
  BY <1>1, <1>3, ToAddLemma DEF Growing
<1>12. Covers(i)
  BY <1>1, <1>3, ToAddLemma DEF Covers, Responsible, Looping
<1>13. coll' \in {0, lastId'} /\ (coll' = 0 => chunks' = {}) /\ IsFiniteSet(chunks')
  BY <1>1, ToAddLemma, FS_Subset DEF IInv, StoreInv
<1> QED
  BY <1>5, <1>6, <1>8, <1>9, <1>10, <1>11, <1>12, <1>13, RunLemma

(* The deletion fails: the run knows of no error, but of a collection that *)
(* is gone it will, and any other failure is counted.                      *)
LEMMA DeleteSwallowedStep ==
    ASSUME IInv, NEW i \in Indexers, MarkHistory, DeleteSwallowed(i)
    PROVE  IInv'
<1>1. /\ ToAdd(i) /\ UNCHANGED <<coll, lastId, chunks, storeVars>>
      /\ \/ handle[i] # coll /\ UNCHANGED <<swallowed, clean>>
         \/ /\ swallowed < MaxSwallowed /\ swallowed' = swallowed + 1
            /\ clean' = [clean EXCEPT ![i] = FALSE]
  BY DEF DeleteSwallowed, Gone, Swallow, ToAdd, storeVars
<1>2. TypeOK /\ LocalInv(i) /\ AloneInv(i) /\ TreatedInv(i) /\ RebuildInv(i)
  BY DEF IInv, IndexInv
<1>3. raced \subseteq raced' /\ raced' \subseteq FileSet /\ overlapped' \in [Retrievals -> BOOLEAN]
  BY <1>1, <1>2, HistoryLemma
<1>4. /\ swallowed' \in 0..MaxSwallowed /\ (swallowed' = 0 => swallowed = 0)
      /\ handle[i] = coll => swallowed' # 0
  BY <1>1, <1>2, PlaybookAssumption DEF TypeOK
<1>5. /\ clean' \in [Indexers -> BOOLEAN] /\ \A j \in Indexers \ {i} : clean'[j] = clean[j]
      /\ clean'[i] => clean[i]
  BY <1>1, <1>2 DEF TypeOK
<1>6. TypeOK'
  BY <1>1, <1>2, <1>3, <1>4, <1>5, ToAddLemma DEF TypeOK
<1>7. StepOf(i)
  BY <1>1, <1>4, <1>5, ToAddLemma DEF StepOf, Indexing
<1>8. IndexInv(i)'
  <2>1. AloneInv(i)'
    BY <1>1, <1>2, <1>5, ToAddLemma DEF AloneInv, Indexing, Own, Holding, Looping
  <2>2. TreatedInv(i)'
    BY <1>1, <1>2, <1>3, <1>4, <1>5, ToAddLemma DEF TreatedInv, Stored
  <2>3. RebuildInv(i)'
    BY <1>1, <1>2, <1>5, ToAddLemma DEF RebuildInv, Stored
  <2> QED
    BY <1>1, <2>1, <2>2, <2>3, ToAddLemma DEF IndexInv
<1>9. AddInv(i)'
  BY <1>1, <1>4, ToAddLemma DEF AddInv
<1>10. Growing
  BY <1>1, ToAddLemma DEF Growing, Stored
<1>11. Covers(i)
  BY <1>1, ToAddLemma DEF Covers, Responsible, Looping, Stored
<1> QED
  BY <1>1, <1>6, <1>7, <1>8, <1>9, <1>10, <1>11, QuietLemma


(* The chunks read are added: to none of the file, or it is a race.        *)
LEMMA AddChunksStep ==
    ASSUME IInv, NEW i \in Indexers, MarkHistory, AddChunks(i)
    PROVE  IInv'
<1>0. TypeOK /\ LocalInv(i) /\ ix[i] = "add"
  BY DEF IInv, IndexInv, AddChunks
<1>f. PICK f \in FileSet : f = Current(i) /\ f \in listed[i]
  BY <1>0, CurrentLemma DEF LocalInv
<1>v. PICK v \in Versions : v = read[i][f]
  BY <1>0, <1>f DEF LocalInv
<1>1. /\ ix[i] = "add" /\ (ChunksOf(f, v) # {} => handle[i] = coll)
      /\ chunks' = Added(ChunksOf(f, v))
      /\ ix' = [ix EXCEPT ![i] = "files"] /\ listed' = [listed EXCEPT ![i] = @ \ {f}]
      /\ UNCHANGED <<dir, edits, coll, lastId, handle, rebuild, existing, read, runs, swallowed,
                     clean, rt, rtHandle, nFetch, found>>
  BY <1>f, <1>v DEF AddChunks, Chunkified, FileTreated, Gone, retrieveVars
<1>2. /\ TypeOK /\ LocalInv(i) /\ AloneInv(i) /\ TreatedInv(i) /\ RebuildInv(i) /\ AddInv(i)
      /\ StoreInv /\ SameInv /\ FileWhole
  BY DEF IInv, IndexInv
<1>4. /\ chunks' \subseteq Chunks /\ IsFiniteSet(chunks')
      /\ \A g \in FileSet \ {f} : Stored(g)' = Stored(g)
      /\ Stored(f)' \subseteq Stored(f) \cup ChunksOf(f, v)
      /\ Stored(f) \in {{}, ChunksOf(f, v)} => Stored(f)' = ChunksOf(f, v)
  BY <1>1, <1>2, <1>f, <1>v, AddedLemma DEF StoreInv
<1>5. ChunksOf(f, v) = {} => chunks' = chunks /\ Stored(f)' = Stored(f)
  BY <1>1 DEF Added, Stored
<1>6. ASSUME swallowed = 0, f \notin raced, ChunksOf(f, v) # {} \/ handle[i] = coll
      PROVE  Stored(f)' = ChunksOf(f, v)
  BY <1>1, <1>2, <1>4, <1>6, <1>f, <1>v DEF AddInv, Chunkified
<1>7. /\ ix'[i] = "files" /\ listed'[i] = listed[i] \ {f}
      /\ \A j \in Indexers \ {i} : Own(j) /\ clean'[j] = clean[j]
  BY <1>1, <1>2 DEF TypeOK, Own
<1>8. raced \subseteq raced' /\ raced' \subseteq FileSet /\ overlapped' \in [Retrievals -> BOOLEAN]
  BY <1>1, <1>2, HistoryLemma
<1>9. TypeOK'
  BY <1>1, <1>2, <1>4, <1>8 DEF TypeOK
<1>10. StepOf(i)
  BY <1>1, <1>2, <1>7 DEF StepOf, Indexing, Later, TypeOK
<1>11. IndexInv(i)'
  <2>1. LocalInv(i)'
    BY <1>1, <1>2, <1>7 DEF LocalInv, Holding, Looping
  <2>2. AloneInv(i)'
    BY <1>1, <1>2, <1>7 DEF AloneInv, Indexing, Own, Holding, Looping
  <2>3. TreatedInv(i)'
    <3> SUFFICES ASSUME swallowed = 0, clean[i], NEW g \in FileSet \ raced
                 PROVE  /\ g \notin listed'[i] /\ read[i][g] # 0 =>
                              Stored(g)' = ChunksOf(g, read[i][g])
                        /\ g \in listed'[i] /\ existing[i][g] # 0 =>
                              Stored(g)' = ChunksOf(g, existing[i][g])
      BY <1>1, <1>8 DEF TreatedInv, Stored, ChunksOf
    <3>1. CASE g = f
      <4>1. handle[i] = coll
        BY <1>1, <1>2 DEF AloneInv, Holding, Looping
      <4> QED
        BY <1>6, <1>7, <1>v, <3>1, <4>1
    <3>2. CASE g # f
      BY <1>2, <1>4, <1>7, <1>f, <3>2 DEF TreatedInv
    <3> QED
      BY <3>1, <3>2
  <2>4. RebuildInv(i)'
    <3> SUFFICES ASSUME clean[i], rebuild[i], NEW g \in FileSet
                 PROVE  Stored(g)' = IF g \in listed'[i] THEN {} ELSE ChunksOf(g, read[i][g])
      BY <1>1 DEF RebuildInv, Stored, ChunksOf
    <3>1. CASE g = f
      BY <1>2, <1>f, <1>v, <1>4, <1>7, <3>1 DEF RebuildInv
    <3>2. CASE g # f
      BY <1>2, <1>4, <1>7, <3>2 DEF RebuildInv
    <3> QED
      BY <3>1, <3>2
  <2> QED
    BY <2>1, <2>2, <2>3, <2>4 DEF IndexInv
<1>12. ASSUME NEW j \in Indexers PROVE AddInv(j)'
  <2> SUFFICES ASSUME swallowed = 0, ix'[j] = "add", handle'[j] = coll, Current(j)' \notin raced'
               PROVE  Stored(Current(j))' \in {{}, Chunkified(j)'}
    BY <1>1 DEF AddInv
  <2> DEFINE g == Current(j)
  <2>1. j # i /\ Own(j)
    BY <1>7
  <2>2. /\ g' = g /\ Chunkified(j)' = ChunksOf(g, read[j][g]) /\ ix[j] = "add"
        /\ handle[j] = coll /\ g \notin raced /\ Stored(g)' = {c \in chunks' : c.file = g}
    BY <1>8, <2>1 DEF Own, Current, Chunkified, Stored
  <2>3. Stored(g) \in {{}, ChunksOf(g, read[j][g])}
    BY <2>2 DEF IInv, AddInv, Chunkified
  <2>4. g \in FileSet
    BY <1>2, <2>2, CurrentLemma DEF IInv, IndexInv, LocalInv
  <2>5. CASE g # f
    BY <1>4, <2>2, <2>3, <2>4, <2>5 DEF Stored
  <2>6. CASE g = f /\ ChunksOf(f, v) = {}
    BY <1>5, <2>2, <2>3, <2>6 DEF Stored
  <2>7. CASE g = f /\ ChunksOf(f, v) # {}
    <3>1. Treating(i, f) /\ Treating(j, f) /\ f \notin Raced
      BY <1>1, <1>2, <1>f, <2>2, <2>7 DEF Treating, StoreInv
    <3>2. read[j][f] = v
      BY <1>f, <1>v, <3>1 DEF Raced
    <3>3. Stored(f)' = ChunksOf(f, v)
      BY <1>6, <2>2, <2>7
    <3> QED
      BY <2>2, <2>7, <3>2, <3>3 DEF Stored
  <2> QED
    BY <2>5, <2>6, <2>7
<1>13. FileWhole'
  <2> SUFFICES ASSUME swallowed = 0, NEW g \in FileSet \ raced, Stored(g)' # {}
               PROVE  \E w \in Versions : Stored(g)' = ChunksOf(g, w)
    BY <1>1, <1>8 DEF FileWhole, Stored, ChunksOf
  <2>1. CASE g # f \/ ChunksOf(f, v) = {}
    BY <1>2, <1>4, <1>5, <2>1 DEF FileWhole
  <2>2. CASE g = f /\ ChunksOf(f, v) # {}
    BY <1>f, <1>v, <1>6, <2>2
  <2> QED
    BY <2>1, <2>2
<1>14. ASSUME edits = 0 PROVE v = dir[f]
  BY <1>2, <1>f, <1>v, <1>14, PlaybookAssumption DEF SameInv
<1>15. Growing
  BY <1>1, <1>4, <1>14 DEF Growing
<1>16. Covers(i)
  <2> SUFFICES ASSUME edits = 0, swallowed = 0, NEW g \in FileSet
               PROVE  \/ Stored(g)' = ChunksOf(g, dir[g]) \/ Responsible(i, g)'
                      \/ Stored(g)' = Stored(g) /\ ~Responsible(i, g)
    BY <1>1 DEF Covers
  <2>1. CASE g = f
    <3>1. f \notin raced /\ Stored(f) \subseteq ChunksOf(f, v)
      BY <1>2, <1>f, <1>v, <1>14 DEF SameInv
    <3> QED
      BY <1>5, <1>6, <1>14, <2>1, <3>1
  <2>2. CASE g # f
    BY <1>1, <1>4, <1>7, <1>f, <2>2 DEF Responsible, Looping
  <2> QED
    BY <2>1, <2>2
<1>17. coll' \in {0, lastId'} /\ (coll' = 0 => chunks' = {})
  <2>1. coll = 0 => ChunksOf(f, v) = {}
    <3>1. handle[i] \in 1..lastId
      BY <1>1, <1>2 DEF LocalInv, Holding, Looping
    <3> QED
      BY <1>1, <3>1
  <2> QED
    BY <1>1, <1>2, <1>5, <2>1 DEF StoreInv
<1> QED
  BY <1>4, <1>9, <1>10, <1>11, <1>12, <1>13, <1>15, <1>16, <1>17, RunLemma

LEMMA IndexSteps ==
    ASSUME IInv, NEW i \in Indexers, MarkHistory, IndexStep(i) \/ CrashIndex(i)
    PROVE  IInv'
BY OpenIndexStep, ScanStep, ReadFileStep, DeleteChunksStep, DeleteSwallowedStep, AddChunksStep,
   EndSteps DEF IndexStep


-----------------------------------------------------------------------------
(* Steps of the others.                                                    *)

(* index() begins, and may drop the collection under everyone's feet.      *)
LEMMA StartIndexStep ==
    ASSUME IInv, NEW i \in Indexers, NEW flag \in BOOLEAN, MarkHistory, StartIndex(i, flag)
    PROVE  IInv'
<1>1. /\ ~Indexing(i) /\ runs < MaxRuns /\ runs' = runs + 1
      /\ rebuild' = [rebuild EXCEPT ![i] = flag] /\ ix' = [ix EXCEPT ![i] = "dropped"]
      /\ handle' = [handle EXCEPT ![i] = 0] /\ listed' = [listed EXCEPT ![i] = {}]
      /\ existing' = [existing EXCEPT ![i] = Nothing] /\ read' = [read EXCEPT ![i] = Nothing]
      /\ clean' = [j \in Indexers |->
                     j = i /\ swallowed' = swallowed /\ ~\E k \in Indexers : Indexing(k)]
      /\ UNCHANGED <<dir, edits, lastId, rt, rtHandle, nFetch, found>>
  BY DEF StartIndex, retrieveVars, storeVars
<1>2. \/ flag /\ coll' = 0 /\ chunks' = {} /\ swallowed' = swallowed
      \/ flag /\ swallowed < MaxSwallowed /\ swallowed' = swallowed + 1 /\ UNCHANGED <<coll, chunks>>
      \/ ~flag /\ UNCHANGED <<coll, chunks, swallowed>>
  BY DEF StartIndex, Swallow, storeVars
<1>3. TypeOK /\ StoreInv /\ FileWhole
  BY DEF IInv
<1>4. raced' \subseteq FileSet /\ overlapped' \in [Retrievals -> BOOLEAN]
      /\ (coll' = coll => raced \subseteq raced')
  BY <1>3, HistoryLemma
<1>5. Nothing \in [FileSet -> {0} \cup Versions] /\ \A f \in FileSet : Nothing[f] = 0
  BY DEF Nothing
<1>6. TypeOK'
  <2>1. runs' \in 0..MaxRuns /\ swallowed' \in 0..MaxSwallowed
    BY <1>1, <1>2, <1>3, PlaybookAssumption DEF TypeOK
  <2>2. coll' \in Nat /\ lastId' \in Nat /\ coll' <= lastId' /\ chunks' \subseteq Chunks
    BY <1>1, <1>2, <1>3 DEF TypeOK
  <2>3. clean' \in [Indexers -> BOOLEAN]
    BY <1>1
  <2>4. /\ existing' \in [Indexers -> [FileSet -> {0} \cup Versions]]
        /\ read' \in [Indexers -> [FileSet -> {0} \cup Versions]]
        /\ listed' \in [Indexers -> SUBSET FileSet] /\ handle' \in [Indexers -> Nat]
        /\ rebuild' \in [Indexers -> BOOLEAN]
        /\ ix' \in [Indexers -> {"idle", "dropped", "opened", "files", "delete", "add", "done",
                                 "failed", "crashed"}]
    BY <1>1, <1>3, <1>5 DEF TypeOK
  <2> QED
    BY <1>1, <1>3, <1>4, <2>1, <2>2, <2>3, <2>4 DEF TypeOK
<1>7. /\ ix'[i] = "dropped" /\ rebuild'[i] = flag /\ listed'[i] = {} /\ existing'[i] = Nothing
      /\ read'[i] = Nothing /\ \A j \in Indexers \ {i} : Own(j) /\ ~clean'[j]
  BY <1>1, <1>3 DEF TypeOK, Own
<1>8. StoreInv'
  BY <1>1, <1>2, <1>3, HistoryLemma, FS_EmptySet DEF StoreInv
<1>9. swallowed' = 0 => swallowed = 0
  BY <1>2, <1>3 DEF TypeOK
<1>10. Shrinks
  BY <1>2, <1>4, <1>9 DEF Shrinks, Stored
<1>11. FileWhole'
  BY <1>3, <1>10, WholeFrame
<1>12. ASSUME NEW j \in Indexers PROVE IndexInv(j)' /\ AddInv(j)'
  <2>1. CASE j # i
    <3>1. Calm(j) /\ Later /\ IndexInv(j) /\ AddInv(j) /\ Own(j)
      BY <1>1, <1>3, <1>7, <2>1 DEF Calm, Later, TypeOK, IInv
    <3> QED
      BY <1>3, <1>10, <3>1, IndexFrame, AddFrame DEF IndexInv
  <2>2. CASE j = i
    <3>1. LocalInv(i)'
      BY <1>7 DEF LocalInv, Holding, Looping
    <3>2. AloneInv(i)'
      BY <1>1, <1>7 DEF AloneInv, Indexing, Own, Holding, Looping
    <3>3. TreatedInv(i)'
      BY <1>5, <1>7 DEF TreatedInv
    <3>4. RebuildInv(i)'
      <4> SUFFICES ASSUME clean'[i], flag, NEW f \in FileSet
                   PROVE  Stored(f)' = ChunksOf(f, 0)
        BY <1>5, <1>7 DEF RebuildInv, ChunksOf
      <4>1. swallowed' = swallowed
        BY <1>1
      <4>2. swallowed' # swallowed + 1
        BY <1>3, <4>1 DEF TypeOK
      <4>3. chunks' = {}
        BY <1>2, <4>2
      <4> QED
        BY <4>3, ChunksLemma DEF Stored
    <3>5. AddInv(i)'
      BY <1>7 DEF AddInv
    <3> QED
      BY <2>2, <3>1, <3>2, <3>3, <3>4, <3>5 DEF IndexInv
  <2> QED
    BY <2>1, <2>2
<1>13. SameInv'
  <2>1. \A j \in Indexers : read'[j] \in {read[j], Nothing} /\ existing'[j] \in {existing[j], Nothing}
    BY <1>7 DEF Own
  <2>2. Growing
    BY <1>1, <1>2, <1>5, <2>1 DEF Growing, Stored
  <2> QED
    BY <1>3, <1>6, <1>12, <2>2, SameFrame DEF IInv, IndexInv
<1>14. CoverInv'
  BY <1>7 DEF CoverInv, Responsible
<1>15. ASSUME NEW r \in Retrievals PROVE RetrieveInv(r)'
  <2>1. Indexing(i)'
    BY <1>7 DEF Indexing
  <2> QED
    BY <1>1, <1>3, <2>1, RetrieveFrame DEF IInv
<1> QED
  BY <1>6, <1>8, <1>11, <1>12, <1>13, <1>14, <1>15 DEF IInv

(* A step that is no index run's: it may make the collection, if there is  *)
(* none.                                                                   *)
LEMMA OutsideLemma ==
    ASSUME IInv, MarkHistory, TypeOK', UNCHANGED <<indexVars, chunks>>, Later,
           coll' \in {0, lastId'}, coll' = coll \/ (coll = 0 /\ chunks = {}),
           edits' = 0 => edits = 0 /\ dir' = dir
    PROVE  /\ StoreInv' /\ FileWhole' /\ SameInv' /\ CoverInv'
           /\ \A i \in Indexers : IndexInv(i)' /\ AddInv(i)'
<1>1. /\ TypeOK /\ StoreInv /\ FileWhole /\ SameInv
      /\ UNCHANGED <<ix, handle, rebuild, listed, existing, read, runs, swallowed, clean>>
      /\ \A j \in Indexers : Own(j)
  BY DEF IInv, indexVars, Own
<1>2. coll' = coll => raced \subseteq raced'
  BY <1>1, HistoryLemma
<1>3. StoreInv'
  BY <1>1, HistoryLemma DEF StoreInv
<1>4. Shrinks
  BY <1>1, <1>2 DEF Shrinks, Stored
<1>5. FileWhole'
  BY <1>1, <1>4, WholeFrame
<1>6. ASSUME NEW j \in Indexers PROVE IndexInv(j)' /\ AddInv(j)'
  <2>1. IndexInv(j) /\ AddInv(j) /\ LocalInv(j) /\ AloneInv(j)
    BY DEF IInv, IndexInv
  <2>2. clean[j] /\ coll = 0 => ix[j] = "dropped"
    BY <2>1 DEF AloneInv, Indexing, Holding, Looping
  <2>3. Calm(j)
    BY <1>1, <1>2, <2>2 DEF Calm, Indexing
  <2> QED
    BY <1>1, <1>4, <2>1, <2>3, IndexFrame, AddFrame
<1>7. SameInv'
  <2>1. Growing
    BY <1>1 DEF Growing, Stored
  <2> QED
    BY <1>1, <1>6, <2>1, SameFrame DEF IndexInv
<1>8. CoverInv'
  <2> SUFFICES ASSUME edits' = 0, swallowed = 0, runs > 0, NEW f \in FileSet
               PROVE  Stored(f)' = ChunksOf(f, dir[f])' \/ \E j \in Indexers : Responsible(j, f)'
    BY <1>1 DEF CoverInv
  <2>1. /\ ChunksOf(f, dir[f])' = ChunksOf(f, dir[f]) /\ Stored(f)' = Stored(f)
        /\ \A j \in Indexers : Responsible(j, f)' = Responsible(j, f)
    BY <1>1 DEF ChunksOf, Stored, Responsible, Current
  <2> QED
    BY <2>1 DEF IInv, CoverInv
<1> QED
  BY <1>3, <1>5, <1>6, <1>7, <1>8

(* The directory is edited, or everything is over.                         *)
LEMMA EditStep ==
    ASSUME IInv, MarkHistory,
           Over \/ \E f \in FileSet : \E v \in {0, Undecodable} \cup Contents[f] : Edit(f, v)
    PROVE  IInv'
<1>1. /\ UNCHANGED <<storeVars, indexVars, retrieveVars, coll, lastId, chunks, rt, rtHandle, nFetch, found>>
      /\ \/ UNCHANGED <<dir, edits>>
         \/ /\ edits < MaxEdits /\ edits' = edits + 1
            /\ \E f \in FileSet : \E v \in {0, Undecodable} \cup Contents[f] :
                  dir' = [dir EXCEPT ![f] = v]
  BY DEF Over, Edit, storeVars, retrieveVars
<1>2. TypeOK /\ StoreInv /\ \A r \in Retrievals : RetrieveInv(r)
  BY DEF IInv
<1>3. raced' \subseteq FileSet /\ overlapped' \in [Retrievals -> BOOLEAN]
  BY <1>2, HistoryLemma
<1>4. dir' \in [FileSet -> {0, Undecodable} \cup Versions] /\ edits' \in 0..MaxEdits
      /\ (edits' = 0 => edits = 0 /\ dir' = dir)
  <2>1. dir \in [FileSet -> {0, Undecodable} \cup Versions] /\ edits \in 0..MaxEdits
    BY <1>2 DEF TypeOK
  <2>2. edits' \in 0..MaxEdits /\ (edits' = 0 => edits = 0 /\ dir' = dir)
    BY <1>1, <2>1, PlaybookAssumption
  <2>3. CASE UNCHANGED <<dir, edits>>
    BY <2>1, <2>2, <2>3
  <2>4. CASE \E f \in FileSet : \E v \in {0, Undecodable} \cup Contents[f] :
               dir' = [dir EXCEPT ![f] = v]
    <3>1. \A f \in FileSet : Contents[f] \subseteq Versions
      BY PlaybookAssumption
    <3> QED
      BY <2>1, <2>2, <2>4, <3>1
  <2> QED
    BY <1>1, <2>3, <2>4
<1>5. TypeOK'
  BY <1>1, <1>2, <1>3, <1>4 DEF TypeOK, indexVars
<1>6. Later
  BY <1>1, <1>2 DEF Later, TypeOK
<1>7. \A r \in Retrievals : RetrieveInv(r)'
  BY <1>1, <1>2, RetrieveFrame
<1> QED
  BY <1>1, <1>2, <1>4, <1>5, <1>6, <1>7, OutsideLemma DEF IInv, StoreInv

(* A step of a retrieval or of the health command.                         *)
LEMMA RetrieveSteps ==
    ASSUME IInv, MarkHistory, NEW r \in Retrievals, RetrieveStep(r)
    PROVE  IInv'
<1>1. TypeOK /\ StoreInv /\ \A q \in Retrievals : RetrieveInv(q)
  BY DEF IInv
<1>2. /\ raced' \subseteq FileSet /\ overlapped' \in [Retrievals -> BOOLEAN]
      /\ overlapped[r] => overlapped'[r]
  BY <1>1, HistoryLemma
<1>3. UNCHANGED <<dir, edits, indexVars>>
  BY DEF RetrieveStep, OpenRetrieval, ProbeCounts, RetrievalRaises, FirstCount, SecondCount, Query
<1>4. SUFFICES /\ rt' \in [Retrievals -> {"idle", "opened", "counted", "sized", "answered",
                                          "raised", "probing", "up", "down"}]
               /\ rtHandle' \in [Retrievals -> Nat] /\ nFetch' \in [Retrievals -> Nat]
               /\ found' \in [Retrievals -> SUBSET Chunks]
               /\ \A q \in Retrievals \ {r} : UNCHANGED <<rt[q], rtHandle[q], nFetch[q]>>
               /\ RetrieveInv(r)'
               /\ coll' \in Nat /\ lastId' \in Nat /\ coll' <= lastId' /\ Later
               /\ chunks' = chunks /\ coll' \in {0, lastId'}
               /\ coll' = coll \/ (coll = 0 /\ chunks = {})
  <2>1. ASSUME NEW q \in Retrievals PROVE RetrieveInv(q)'
    BY <1>1, <1>4, RetrieveFrame
  <2>2. TypeOK'
    BY <1>1, <1>2, <1>3, <1>4 DEF TypeOK, indexVars
  <2> QED
    BY <1>3, <1>4, <2>1, <2>2, OutsideLemma DEF IInv
<1>5. CASE OpenRetrieval(r)
  <2>1. /\ coll' \in Nat /\ lastId' \in Nat /\ Later /\ coll' = lastId' /\ coll' # 0
        /\ chunks' = chunks /\ (coll' = coll \/ (coll = 0 /\ chunks = {}))
    BY <1>1, <1>5, OpenLemma DEF OpenRetrieval
  <2>2. PICK step \in {"opened", "probing"} :
           /\ rt' = [rt EXCEPT ![r] = step] /\ rtHandle' = [rtHandle EXCEPT ![r] = coll']
           /\ UNCHANGED <<nFetch, found>>
    BY <1>5 DEF OpenRetrieval
  <2>3. rt'[r] = step /\ rtHandle'[r] = coll'
    BY <1>1, <2>2 DEF TypeOK
  <2>4. RetrieveInv(r)'
    BY <2>1, <2>3 DEF RetrieveInv, Reading
  <2> QED
    BY <1>1, <2>1, <2>2, <2>4 DEF TypeOK
<1>6. CASE ~OpenRetrieval(r)
  <2>1. /\ UNCHANGED <<coll, lastId, chunks>> /\ coll' \in Nat /\ lastId' \in Nat /\ coll' <= lastId'
        /\ Later /\ coll' \in {0, lastId'}
    <3>1. UNCHANGED <<coll, lastId, chunks>>
      BY <1>6 DEF RetrieveStep, ProbeCounts, RetrievalRaises, FirstCount, SecondCount, Query, storeVars
    <3> QED
      BY <1>1, <3>1 DEF Later, TypeOK, StoreInv
  <2>2. ASSUME NEW how \in {"answered", "raised", "up", "down"}, Return(r, how)
        PROVE  /\ rt' \in [Retrievals -> {"idle", "opened", "counted", "sized", "answered",
                                          "raised", "probing", "up", "down"}]
               /\ rtHandle' \in [Retrievals -> Nat] /\ nFetch' \in [Retrievals -> Nat]
               /\ rt'[r] = how
               /\ \A q \in Retrievals \ {r} : UNCHANGED <<rt[q], rtHandle[q], nFetch[q]>>
    BY <1>1, <2>2 DEF Return, TypeOK
  <2>3. CASE ProbeCounts(r) \/ RetrievalRaises(r) \/ (Query(r) /\ nFetch[r] = 0)
    <3>1. PICK how \in {"raised", "up", "down"} :
             Return(r, how) /\ found' = found /\ (how = "raised" => overlapped[r])
      BY <1>1, <2>3 DEF ProbeCounts, RetrievalRaises, Query, Gone, RetrieveInv, Reading
    <3>2. rt'[r] = how
      BY <2>2, <3>1
    <3>3. RetrieveInv(r)'
      BY <1>2, <3>1, <3>2 DEF RetrieveInv, Reading
    <3> QED
      BY <1>1, <2>1, <2>2, <3>1, <3>3 DEF TypeOK
  <2>4. CASE FirstCount(r) /\ chunks = {}
    <3>1. Return(r, "answered") /\ found' = found
      BY <2>4 DEF FirstCount
    <3>2. rt'[r] = "answered"
      BY <2>2, <3>1
    <3>3. RetrieveInv(r)'
      BY <3>2 DEF RetrieveInv, Reading
    <3> QED
      BY <1>1, <2>1, <2>2, <3>1, <3>3 DEF TypeOK
  <2>5. CASE FirstCount(r) /\ chunks # {}
    <3>1. rt[r] = "opened" /\ rt' = [rt EXCEPT ![r] = "counted"] /\ UNCHANGED <<rtHandle, nFetch, found>>
      BY <2>5 DEF FirstCount
    <3>2. rt'[r] = "counted"
      BY <1>1, <3>1 DEF TypeOK
    <3>3. RetrieveInv(r)'
      BY <1>1, <1>2, <2>1, <2>5, <3>1, <3>2 DEF RetrieveInv, Reading
    <3> QED
      BY <1>1, <2>1, <3>1, <3>3 DEF TypeOK
  <2>6. CASE SecondCount(r)
    <3> DEFINE n == LesserOf(TopK * OverFetch, Cardinality(chunks))
    <3>1. rt[r] = "counted" /\ rt' = [rt EXCEPT ![r] = "sized"] /\ nFetch' = [nFetch EXCEPT ![r] = n]
          /\ UNCHANGED <<rtHandle, found>>
      BY <2>6 DEF SecondCount
    <3>2. n \in Nat /\ (chunks # {} => n # 0)
      <4>1. Cardinality(chunks) \in Nat /\ (chunks # {} => Cardinality(chunks) # 0)
        BY <1>1, FS_CardinalityType, FS_EmptySet DEF StoreInv
      <4>2. TopK * OverFetch \in Nat \ {0}
        BY PlaybookAssumption
      <4> QED
        BY <4>1, <4>2 DEF LesserOf
    <3> HIDE DEF n
    <3>3. rt'[r] = "sized" /\ nFetch'[r] = n
      BY <1>1, <3>1 DEF TypeOK
    <3>4. RetrieveInv(r)'
      BY <1>1, <1>2, <2>1, <3>1, <3>2, <3>3 DEF RetrieveInv, Reading
    <3> QED
      BY <1>1, <2>1, <3>1, <3>2, <3>4 DEF TypeOK
  <2>7. CASE Query(r) /\ nFetch[r] # 0
    <3>1. PICK top \in SUBSET chunks : found' = [found EXCEPT ![r] = top]
      BY <2>7 DEF Query
    <3>2. Return(r, "answered")
      BY <2>7 DEF Query
    <3>3. rt'[r] = "answered"
      BY <2>2, <3>2
    <3>4. RetrieveInv(r)'
      BY <3>3 DEF RetrieveInv, Reading
    <3> QED
      BY <1>1, <2>1, <2>2, <3>1, <3>2, <3>4 DEF TypeOK
  <2> QED
    BY <1>6, <2>3, <2>4, <2>5, <2>6, <2>7 DEF RetrieveStep
<1> QED
  BY <1>5, <1>6


-----------------------------------------------------------------------------
(* The invariant holds.                                                    *)

LEMMA IInit == Init => IInv
<1> SUFFICES ASSUME Init PROVE IInv
  OBVIOUS
<1>1. Nothing \in [FileSet -> {0} \cup Versions] /\ \A f \in FileSet : Nothing[f] = 0
  BY DEF Nothing
<1>2. \A f \in FileSet : Stored(f) = {} /\ ChunksOf(f, 0) = {}
  BY ChunksLemma DEF Init, Stored
<1>3. TypeOK
  BY PlaybookAssumption DEF Init, TypeOK
<1>4. StoreInv /\ FileWhole /\ CoverInv
  BY <1>2, FS_EmptySet DEF Init, StoreInv, FileWhole, CoverInv, Raced, Treating
<1>5. SameInv
  BY <1>2 DEF Init, SameInv
<1>6. ASSUME NEW i \in Indexers PROVE IndexInv(i) /\ AddInv(i)
  <2>1. ix[i] = "idle" /\ listed[i] = {} /\ existing[i] = Nothing /\ read[i] = Nothing /\ ~clean[i]
    BY DEF Init, Nothing
  <2> QED
    BY <2>1 DEF IndexInv, LocalInv, AloneInv, TreatedInv, RebuildInv, AddInv, Holding, Looping
<1>7. \A r \in Retrievals : RetrieveInv(r)
  BY DEF Init, RetrieveInv, Reading
<1> QED
  BY <1>3, <1>4, <1>5, <1>6, <1>7 DEF IInv

LEMMA IStep == IInv /\ [Next]_vars => IInv'
<1> SUFFICES ASSUME IInv, [Next]_vars PROVE IInv'
  OBVIOUS
<1>1. CASE Next
  <2>1. MarkHistory
    BY <1>1 DEF Next
  <2>2. CASE \E i \in Indexers, flag \in BOOLEAN : StartIndex(i, flag)
    BY <2>1, <2>2, StartIndexStep
  <2>3. CASE \E i \in Indexers : IndexStep(i) \/ CrashIndex(i)
    BY <2>1, <2>3, IndexSteps
  <2>4. CASE \E r \in Retrievals : RetrieveStep(r)
    BY <2>1, <2>4, RetrieveSteps
  <2>5. CASE Over \/ \E f \in FileSet : \E v \in {0, Undecodable} \cup Contents[f] : Edit(f, v)
    BY <2>1, <2>5, EditStep
  <2> QED
    BY <1>1, <2>2, <2>3, <2>4, <2>5 DEF Next
<1>2. CASE UNCHANGED vars
  <2>1. UNCHANGED <<dir, edits, coll, lastId, chunks, ix, handle, rebuild, listed, existing, read,
                    runs, swallowed, clean, rt, rtHandle, nFetch, found, overlapped, raced>>
    BY <1>2 DEF vars, storeVars, indexVars, retrieveVars, historyVars
  <2>2. TypeOK' /\ FileWhole'
    BY <2>1 DEF IInv, TypeOK, FileWhole, Stored, ChunksOf
  <2>3. StoreInv'
    <3>1. \A i \in Indexers, f \in FileSet : Treating(i, f)' = Treating(i, f)
      BY <2>1 DEF Treating, Current
    <3>2. Raced' = Raced
      BY <2>1, <3>1 DEF Raced
    <3> QED
      BY <2>1, <3>2 DEF IInv, StoreInv
  <2>4. SameInv' /\ CoverInv'
    BY <2>1 DEF IInv, SameInv, CoverInv, Stored, ChunksOf, Responsible, Current
  <2>5. ASSUME NEW i \in Indexers PROVE IndexInv(i)' /\ AddInv(i)'
    <3>1. LocalInv(i)' /\ AloneInv(i)' /\ RebuildInv(i)'
      BY <2>1 DEF IInv, IndexInv, LocalInv, AloneInv, RebuildInv, Indexing, Current, Stored, ChunksOf
    <3>2. TreatedInv(i)'
      BY <2>1 DEF IInv, IndexInv, TreatedInv, Current, Stored, ChunksOf
    <3>3. AddInv(i)'
      <4>1. Current(i)' = Current(i) /\ Chunkified(i)' = Chunkified(i)
        BY <2>1 DEF Current, Chunkified, ChunksOf
      <4>2. Stored(Current(i))' = Stored(Current(i))
        BY <2>1, <4>1 DEF Stored
      <4> QED
        BY <2>1, <4>1, <4>2 DEF IInv, AddInv
    <3> QED
      BY <3>1, <3>2, <3>3 DEF IndexInv
  <2>6. \A r \in Retrievals : RetrieveInv(r)'
    BY <2>1 DEF IInv, RetrieveInv
  <2> QED
    BY <2>2, <2>3, <2>4, <2>5, <2>6 DEF IInv
<1> QED
  BY <1>1, <1>2

LEMMA Invariance == Spec => []IInv
BY IInit, IStep, PTL DEF Spec
-----------------------------------------------------------------------------
(* The theorems.                                                           *)

(* Every variable keeps its type: in particular, an index run treats no    *)
(* file that it could not read.                                            *)
THEOREM PlaybookTypeCorrect == Spec => []TypeOK
<1>1. IInv => TypeOK
  BY DEF IInv
<1> QED
  BY <1>1, Invariance, PTL

(* All or nothing per file, for any number of index runs at once, killed   *)
(* between any two calls of Chroma: unless a deletion failed, or two runs  *)
(* treated the file at once having read different versions of it.          *)
THEOREM FilesStayWhole == Spec => []FileWhole
<1>1. IInv => FileWhole
  BY DEF IInv
<1> QED
  BY <1>1, Invariance, PTL

(* A completed run that was alone leaves what it listed as it read it, and *)
(* the skip test of index() is right about what it skips.                  *)
THEOREM DoneRunsAreCurrent == Spec => []DoneIsCurrent
<1>1. IInv => DoneIsCurrent
  BY DEF IInv, IndexInv, LocalInv, TreatedInv, DoneIsCurrent, Looping
<1> QED
  BY <1>1, Invariance, PTL

(* Index runs over one directory that all complete leave it indexed, in    *)
(* any order of their steps, rebuilds included.                            *)
THEOREM OverlapsConverge == Spec => []OverlapConverges
<1>1. ASSUME IInv, edits = 0, swallowed = 0, \A i \in Indexers : ix[i] \in {"idle", "done"}, runs > 0
      PROVE  chunks = UNION {ChunksOf(f, dir[f]) : f \in FileSet}
  <2>1. \A f \in FileSet : Stored(f) = ChunksOf(f, dir[f])
    BY <1>1 DEF IInv, CoverInv, Responsible, Looping
  <2>2. \A c \in chunks : c.file \in FileSet /\ c \in Stored(c.file)
    BY <1>1 DEF IInv, TypeOK, Chunks, Stored
  <2>3. \A f \in FileSet : ChunksOf(f, dir[f]) \subseteq chunks
    BY <2>1 DEF Stored
  <2> QED
    BY <2>1, <2>2, <2>3
<1>2. IInv => OverlapConverges
  BY <1>1 DEF OverlapConverges
<1> QED
  BY <1>2, Invariance, PTL

(* A completed --rebuild that was alone leaves exactly what it read, after *)
(* whatever earlier runs and their errors had left.                        *)
THEOREM RebuildsRepair == Spec => []RebuildRepairs
<1>1. ASSUME IInv, NEW i \in Indexers, ix[i] = "done", rebuild[i], clean[i]
      PROVE  chunks = UNION {ChunksOf(f, read[i][f]) : f \in FileSet}
  <2>1. \A f \in FileSet : Stored(f) = ChunksOf(f, read[i][f])
    BY <1>1 DEF IInv, IndexInv, LocalInv, RebuildInv, Looping
  <2>2. \A c \in chunks : c.file \in FileSet /\ c \in Stored(c.file)
    BY <1>1 DEF IInv, TypeOK, Chunks, Stored
  <2>3. \A f \in FileSet : ChunksOf(f, read[i][f]) \subseteq chunks
    BY <2>1 DEF Stored
  <2> QED
    BY <2>1, <2>2, <2>3
<1>2. IInv => RebuildRepairs
  BY <1>1 DEF RebuildRepairs
<1> QED
  BY <1>2, Invariance, PTL

(* No retrieval raises unless an index run overlapped it, and an answer is *)
(* of one version of each playbook that is whole.                          *)
THEOREM RetrievalsSound == Spec => RetrievalSound
<1> DEFINE Sound(r) ==
             /\ rt'[r] = "raised" => overlapped'[r]
             /\ found'[r] # found[r] /\ ~overlapped[r] /\ swallowed = 0 =>
                   \A c, d \in found'[r] :
                      c.file = d.file /\ c.file \notin raced => c.version = d.version
<1>1. ASSUME IInv, IInv', [Next]_vars, NEW r \in Retrievals PROVE Sound(r)
  <2>1. rt'[r] = "raised" => overlapped'[r]
    BY <1>1 DEF IInv, RetrieveInv
  <2>2. ASSUME found'[r] # found[r], swallowed = 0, NEW c \in found'[r], NEW d \in found'[r],
               c.file = d.file, c.file \notin raced
        PROVE  c.version = d.version
    <3>1. found'[r] \subseteq chunks
      <4>1. CASE UNCHANGED vars
        BY <2>2, <4>1 DEF vars, retrieveVars
      <4>2. CASE \E q \in Retrievals : RetrieveStep(q)
        <5>1. PICK q \in Retrievals : RetrieveStep(q)
          BY <4>2
        <5>2. \/ found' = found
              \/ \E top \in SUBSET chunks : found' = [found EXCEPT ![q] = top]
          BY <5>1 DEF RetrieveStep, OpenRetrieval, ProbeCounts, RetrievalRaises, FirstCount,
                      SecondCount, Query
        <5> QED
          BY <1>1, <2>2, <5>2 DEF IInv, TypeOK
      <4>3. CASE \E i \in Indexers : CrashIndex(i) \/ IndexStep(i) \/ \E flag \in BOOLEAN : StartIndex(i, flag)
        <5>1. found' = found
          BY <4>3 DEF IndexStep, CrashIndex, StartIndex, OpenIndex, Scan, ReadFile, ReadUnless,
                      DeleteChunks, DeleteSwallowed, ToAdd, AddChunks, FileTreated, AddRaises,
                      EndIndex, retrieveVars
        <5> QED
          BY <2>2, <5>1
      <4>4. CASE Over \/ \E f \in FileSet : \E v \in {0, Undecodable} \cup Contents[f] : Edit(f, v)
        BY <2>2, <4>4 DEF Over, Edit, retrieveVars
      <4> QED
        BY <1>1, <4>1, <4>2, <4>3, <4>4 DEF Next
    <3>2. c \in Stored(c.file) /\ d \in Stored(c.file) /\ c.file \in FileSet
      BY <1>1, <2>2, <3>1 DEF IInv, TypeOK, Stored, Chunks
    <3>3. PICK v \in Versions : Stored(c.file) = ChunksOf(c.file, v)
      BY <1>1, <2>2, <3>2 DEF IInv, FileWhole
    <3> QED
      BY <3>2, <3>3, ChunksLemma
  <2> QED
    BY <2>1, <2>2
<1>2. IInv /\ IInv' /\ [Next]_vars => [\A r \in Retrievals : Sound(r)]_vars
  BY <1>1
<1>3. [][\A r \in Retrievals : Sound(r)]_vars => RetrievalSound
  BY DEF RetrievalSound
<1> HIDE DEF Sound
<1> QED
  BY <1>2, <1>3, Invariance, PTL DEF Spec
=============================================================================
