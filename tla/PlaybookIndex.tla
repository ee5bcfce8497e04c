--------------------------- MODULE PlaybookIndex ---------------------------
(***************************************************************************)
(* soc_agent/rag: PlaybookIndexer.index() keeps a Chroma collection in     *)
(* step with a directory of Markdown playbooks.  Several index runs may    *)
(* overlap ("make index" by hand and from a job: nothing locks them out),  *)
(* while other processes query the collection: the retrievers of an        *)
(* analyze run and the health command.  The operator edits playbooks at    *)
(* any time, and an index run may be killed.                               *)
(*                                                                         *)
(* A playbook's content is a number: 0 no file, otherwise a version that   *)
(* _chunkify() splits into ChunkCount[v] chunks (0: an empty file), or     *)
(* Undecodable.  A chunk is a record; its id is <<file, idx>>, and version *)
(* stands for file_hash.  Each Chroma call is one step.                    *)
(***************************************************************************)
EXTENDS Naturals, FiniteSetsExt, Sequences

CONSTANTS Files,        \* the playbook names, a sequence in sorted order
          ChunkCount,   \* chunks of each readable version
          Contents,     \* the versions each playbook may have
          Undecodable,  \* the version that is not UTF-8
          Indexers,     \* processes that run index(), each one run at a time
          Retrievals,   \* calls of retrieve() or, by "soc-agent health", of count()
          TopK,
          OverFetch,
          MaxEdits,     \* bound: edits of the directory
          MaxRuns,      \* bound: index runs
          MaxSwallowed  \* bound: deletions and drops that fail

Versions == DOMAIN ChunkCount

FileSet == {Files[i] : i \in DOMAIN Files}

ASSUME PlaybookAssumption ==
    /\ Undecodable \notin Versions \cup {0}
    /\ 0 \notin Versions
    /\ Contents \in [FileSet -> SUBSET Versions]
    /\ Files \in Seq(FileSet) /\ ChunkCount \in [Versions -> Nat]
    /\ TopK \in Nat \ {0} /\ OverFetch \in Nat \ {0}
    /\ MaxEdits \in Nat /\ MaxRuns \in Nat /\ MaxSwallowed \in Nat

VARIABLES dir,         \* the playbook directory
          edits,       \* bound counter
          coll,        \* the collection: an identity, or 0 when it is gone
          lastId,      \* the identity given last
          chunks,      \* its chunks
          ix,          \* where each index run is
          handle,      \* the collection object it holds
          rebuild,     \* its --rebuild flag
          listed,      \* its `files`, those not yet treated, in the order of Files
          existing,    \* its map from file to the hash found in the collection
          read,        \* the version it read of each file, 0 if it has not
          runs,        \* bound counter: index runs started
          swallowed,   \* bound counter: suppressed errors of deletions
          rt,          \* where each retrieval is
          rtHandle,    \* the collection object each retrieval holds
          nFetch,      \* its n_fetch
          found,       \* its result
          overlapped,  \* history: an index run was active during the retrieval
          clean,       \* history: no other index run, and no suppressed error of
                       \*   this one, since it started
          raced        \* history: files treated by two runs that read different
                       \*   versions of it, since the collection was made

storeVars == <<coll, lastId, chunks>>
indexVars == <<ix, handle, rebuild, listed, existing, read, runs, swallowed, clean>>
retrieveVars == <<rt, rtHandle, nFetch, found>>
historyVars == <<overlapped, raced>>
vars == <<dir, edits, storeVars, indexVars, retrieveVars, historyVars>>

ChunksOf(f, v) ==
    IF v \in Versions THEN {[file |-> f, idx |-> i, version |-> v] : i \in 1..ChunkCount[v]}
                      ELSE {}

Stored(f) == {c \in chunks : c.file = f}

(* Chroma's add() silently ignores an id that is already there.            *)
Added(new) == chunks \cup {c \in new : ~\E o \in chunks : o.file = c.file /\ o.idx = c.idx}

Indexing(i) == ix[i] \in {"dropped", "opened", "files", "delete", "add"}

(* The file whose turn it is: `files` is sorted.                           *)
Current(i) == Files[Min({n \in DOMAIN Files : Files[n] \in listed[i]})]

(* Run i replaces the chunks of f in the collection of the moment.         *)
Treating(i, f) ==
    ix[i] \in {"delete", "add"} /\ Current(i) = f /\ handle[i] = coll

Raced == {f \in FileSet :
            \E i, j \in Indexers : /\ Treating(i, f) /\ Treating(j, f)
                                   /\ read[i][f] # read[j][f]}

(* The history of a step: only retrievals under way are marked.            *)
MarkHistory ==
    /\ raced' = (IF coll' # coll THEN {} ELSE raced) \cup Raced'
    /\ overlapped' = [r \in Retrievals |->
          \/ overlapped[r]
          \/ /\ rt[r] \in {"opened", "counted", "sized"}
             /\ \E i \in Indexers : Indexing(i) \/ Indexing(i)']

Init ==
    /\ dir \in [FileSet -> {0} \cup Versions]
    /\ \A f \in FileSet : dir[f] \in {0} \cup Contents[f]
    /\ edits = 0
    /\ coll = 0 /\ lastId = 0 /\ chunks = {}
    /\ ix = [i \in Indexers |-> "idle"]
    /\ handle = [i \in Indexers |-> 0]
    /\ rebuild = [i \in Indexers |-> FALSE]
    /\ listed = [i \in Indexers |-> {}]
    /\ existing = [i \in Indexers |-> [f \in FileSet |-> 0]]
    /\ read = [i \in Indexers |-> [f \in FileSet |-> 0]]
    /\ runs = 0 /\ swallowed = 0
    /\ clean = [i \in Indexers |-> FALSE]
    /\ rt = [r \in Retrievals |-> "idle"]
    /\ rtHandle = [r \in Retrievals |-> 0]
    /\ nFetch = [r \in Retrievals |-> 0]
    /\ found = [r \in Retrievals |-> {}]
    /\ overlapped = [r \in Retrievals |-> FALSE]
    /\ raced = {}

(* get_or_create_collection(): a new, empty collection has a new identity. *)
Open ==
    IF coll = 0 THEN coll' = lastId + 1 /\ lastId' = lastId + 1 /\ chunks' = {}
                ELSE UNCHANGED storeVars

(* The end of run i: its locals are gone, but for what the properties ask  *)
(* of a completed run, its flag and the versions it read.                  *)
Nothing == [f \in FileSet |-> 0]

Leave(i, end) ==
    /\ ix' = [ix EXCEPT ![i] = end]
    /\ handle' = [handle EXCEPT ![i] = 0]
    /\ listed' = [listed EXCEPT ![i] = {}]
    /\ existing' = [existing EXCEPT ![i] = Nothing]
    /\ IF end = "done" THEN UNCHANGED <<read, rebuild, clean>>
       ELSE /\ read' = [read EXCEPT ![i] = Nothing]
            /\ rebuild' = [rebuild EXCEPT ![i] = FALSE]
            /\ clean' = [clean EXCEPT ![i] = FALSE]

Swallow == swallowed < MaxSwallowed /\ swallowed' = swallowed + 1

-----------------------------------------------------------------------------
(* The operator edits, adds or removes a playbook.                         *)
Edit(f, v) ==
    /\ edits < MaxEdits
    /\ v # dir[f]
    /\ dir' = [dir EXCEPT ![f] = v]
    /\ edits' = edits + 1
    /\ UNCHANGED <<storeVars, indexVars, retrieveVars>>

(* index() begins; with --rebuild it first drops the collection, whoever   *)
(* else uses it, or swallows the error of trying to.                       *)
StartIndex(i, flag) ==
    /\ ~Indexing(i)
    /\ runs < MaxRuns
    /\ runs' = runs + 1
    /\ rebuild' = [rebuild EXCEPT ![i] = flag]
    /\ \/ flag /\ coll' = 0 /\ chunks' = {} /\ UNCHANGED <<lastId, swallowed>>
       \/ flag /\ coll # 0 /\ Swallow /\ UNCHANGED storeVars
       \/ ~flag /\ UNCHANGED <<storeVars, swallowed>>
    /\ clean' = [j \in Indexers |->
                   j = i /\ swallowed' = swallowed /\ ~\E k \in Indexers : Indexing(k)]
    /\ ix' = [ix EXCEPT ![i] = "dropped"]
    /\ handle' = [handle EXCEPT ![i] = 0]
    /\ listed' = [listed EXCEPT ![i] = {}]
    /\ existing' = [existing EXCEPT ![i] = Nothing]
    /\ read' = [read EXCEPT ![i] = Nothing]
    /\ UNCHANGED <<dir, edits, retrieveVars>>

OpenIndex(i) ==
    /\ ix[i] = "dropped"
    /\ Open
    /\ handle' = [handle EXCEPT ![i] = coll']
    /\ ix' = [ix EXCEPT ![i] = "opened"]
    /\ UNCHANGED <<dir, edits, rebuild, listed, existing, read, runs, swallowed, clean,
                   retrieveVars>>

(* Another run dropped the collection: Chroma raises for this handle.      *)
Gone(h) == h # coll

(* The directory is listed; an empty one ends the run with the collection  *)
(* untouched.  Otherwise the stored hashes are read: of the chunks of one  *)
(* file, the first that Chroma happens to return counts.  A failing read   *)
(* is swallowed, and nothing is known of any file.                         *)
FirstHashes ==
    {first \in [FileSet -> {0} \cup Versions] :
       \A f \in FileSet :
          first[f] \in IF Stored(f) = {} THEN {0} ELSE {c.version : c \in Stored(f)}}

Scan(i) ==
    LET files == {f \in FileSet : dir[f] # 0}
    IN  /\ ix[i] = "opened"
        /\ IF files = {} THEN Leave(i, "done")
           ELSE /\ ix' = [ix EXCEPT ![i] = "files"]
                /\ listed' = [listed EXCEPT ![i] = files]
                /\ \/ UNCHANGED existing
                   \/ /\ ~Gone(handle[i])
                      /\ \E first \in FirstHashes : existing' = [existing EXCEPT ![i] = first]
                /\ UNCHANGED <<handle, rebuild, read, clean>>
        /\ UNCHANGED <<dir, edits, storeVars, runs, swallowed, retrieveVars>>

(* One turn of the loop, up to its first change of the collection: read,   *)
(* hash, skip.  A file that cannot be decoded, or that has gone, raises.   *)
ReadUnless(i, unreadable, same) ==
    LET f == Current(i)
    IN  /\ ix[i] = "files"
        /\ listed[i] # {}
        /\ IF dir[f] \in unreadable THEN Leave(i, "failed")
           ELSE /\ read' = [read EXCEPT ![i][f] = dir[f]]
                /\ IF existing[i][f] \in same /\ ~rebuild[i]
                   THEN listed' = [listed EXCEPT ![i] = @ \ {Current(i)}] /\ UNCHANGED ix
                   ELSE ix' = [ix EXCEPT ![i] = "delete"] /\ UNCHANGED listed
                /\ UNCHANGED <<handle, rebuild, existing, clean>>
        /\ UNCHANGED <<dir, edits, storeVars, runs, swallowed, retrieveVars>>

(* Mutant of ReadFile: undecodable bytes are taken for a version.          *)
ReadFileUndecoded(i) == ReadUnless(i, {0}, {dir[Current(i)]})

(* Mutant of ReadFile: any file that is already indexed is skipped.        *)
ReadFileSkippingKnown(i) == ReadUnless(i, {0, Undecodable}, Versions)

ReadFile(i) == ReadUnless(i, {0, Undecodable}, {dir[Current(i)]})

ToAdd(i) ==
    /\ ix[i] = "delete"
    /\ ix' = [ix EXCEPT ![i] = "add"]
    /\ UNCHANGED <<dir, edits, coll, lastId, handle, rebuild, listed, existing, read, runs,
                   retrieveVars>>

(* Mutant of DeleteChunks: the old chunks stay.                            *)
DeleteNoChunks(i) == ToAdd(i) /\ UNCHANGED <<chunks, swallowed, clean>>

DeleteChunks(i) ==
    /\ ToAdd(i)
    /\ ~Gone(handle[i])
    /\ chunks' = chunks \ Stored(Current(i))
    /\ UNCHANGED <<swallowed, clean>>

(* An error of delete() is suppressed and the loop goes on.                *)
DeleteSwallowed(i) ==
    /\ ToAdd(i)
    /\ IF Gone(handle[i]) THEN UNCHANGED <<swallowed, clean>>
       ELSE Swallow /\ clean' = [clean EXCEPT ![i] = FALSE]
    /\ UNCHANGED chunks

FileTreated(i) ==
    /\ ix' = [ix EXCEPT ![i] = "files"]
    /\ listed' = [listed EXCEPT ![i] = @ \ {Current(i)}]
    /\ UNCHANGED <<dir, edits, coll, lastId, handle, rebuild, existing, read, runs, swallowed,
                   clean, retrieveVars>>

Chunkified(i) == ChunksOf(Current(i), read[i][Current(i)])

(* Mutant of AddChunks: the file is read a second time.                    *)
AddChunksReread(i) ==
    /\ ix[i] = "add"
    /\ ~Gone(handle[i])
    /\ chunks' = Added(ChunksOf(Current(i), dir[Current(i)]))
    /\ FileTreated(i)

(* Chunks of the content read earlier; an empty file adds none.            *)
AddChunks(i) ==
    /\ ix[i] = "add"
    /\ Chunkified(i) # {} => ~Gone(handle[i])
    /\ chunks' = Added(Chunkified(i))
    /\ FileTreated(i)

(* Mutant of AddRaises: the error is suppressed as that of delete() is.    *)
AddRaisesSuppressed(i) ==
    /\ ix[i] = "add"
    /\ Chunkified(i) # {}
    /\ UNCHANGED chunks
    /\ FileTreated(i)

(* An error of add() or of the embedding model ends the run.               *)
AddRaises(i) ==
    /\ ix[i] = "add"
    /\ Chunkified(i) # {}
    /\ Leave(i, "failed")
    /\ UNCHANGED <<dir, edits, storeVars, runs, swallowed, retrieveVars>>

EndIndex(i) ==
    /\ ix[i] = "files"
    /\ listed[i] = {}
    /\ Leave(i, "done")
    /\ UNCHANGED <<dir, edits, storeVars, runs, swallowed, retrieveVars>>

CrashIndex(i) ==
    /\ Indexing(i)
    /\ Leave(i, "crashed")
    /\ UNCHANGED <<dir, edits, storeVars, runs, swallowed, retrieveVars>>

-----------------------------------------------------------------------------
(* retrieve() of one cluster: open, count, count again, query.  The health *)
(* command's count() opens the collection too, so it may create it.        *)
OpenRetrieval(r) ==
    /\ rt[r] = "idle"
    /\ Open
    /\ rtHandle' = [rtHandle EXCEPT ![r] = coll']
    /\ \E step \in {"opened", "probing"} : rt' = [rt EXCEPT ![r] = step]
    /\ UNCHANGED <<dir, edits, indexVars, nFetch, found>>

(* The call is over, and its locals are gone.                              *)
Return(r, how) ==
    /\ rt' = [rt EXCEPT ![r] = how]
    /\ rtHandle' = [rtHandle EXCEPT ![r] = 0]
    /\ nFetch' = [nFetch EXCEPT ![r] = 0]

(* The chroma row of health: count() turns an error into 0, and 0 is DOWN. *)
ProbeCounts(r) ==
    /\ rt[r] = "probing"
    /\ Return(r, IF Gone(rtHandle[r]) \/ chunks = {} THEN "down" ELSE "up")
    /\ UNCHANGED <<dir, edits, storeVars, indexVars, found>>

(* The collection was dropped under the retrieval's handle: Chroma raises. *)
RetrievalRaises(r) ==
    /\ rt[r] \in {"opened", "counted", "sized"}
    /\ Gone(rtHandle[r])
    /\ Return(r, "raised")
    /\ UNCHANGED <<dir, edits, storeVars, indexVars, found>>

(* Mutant of FirstCount: an empty collection is queried too.               *)
FirstCountUnchecked(r) ==
    /\ rt[r] = "opened"
    /\ ~Gone(rtHandle[r])
    /\ rt' = [rt EXCEPT ![r] = "counted"]
    /\ UNCHANGED <<dir, edits, storeVars, indexVars, rtHandle, nFetch, found>>

FirstCount(r) ==
    /\ rt[r] = "opened"
    /\ ~Gone(rtHandle[r])
    /\ IF chunks = {} THEN Return(r, "answered")
       ELSE rt' = [rt EXCEPT ![r] = "counted"] /\ UNCHANGED <<rtHandle, nFetch>>
    /\ UNCHANGED <<dir, edits, storeVars, indexVars, found>>

LesserOf(a, b) == IF a < b THEN a ELSE b

SecondCount(r) ==
    /\ rt[r] = "counted"
    /\ ~Gone(rtHandle[r])
    /\ nFetch' = [nFetch EXCEPT ![r] = LesserOf(TopK * OverFetch, Cardinality(chunks))]
    /\ rt' = [rt EXCEPT ![r] = "sized"]
    /\ UNCHANGED <<dir, edits, storeVars, indexVars, rtHandle, found>>

(* Chroma refuses to fetch 0 results; otherwise it returns the n_fetch     *)
(* nearest chunks, any of which the MITRE boost may put among the TopK.    *)
Query(r) ==
    /\ rt[r] = "sized"
    /\ ~Gone(rtHandle[r])
    /\ IF nFetch[r] = 0 THEN Return(r, "raised") /\ UNCHANGED found
       ELSE /\ Return(r, "answered")
            /\ \E top \in SUBSET chunks :
                 /\ Cardinality(top) =
                      LesserOf(TopK, LesserOf(nFetch[r], Cardinality(chunks)))
                 /\ found' = [found EXCEPT ![r] = top]
    /\ UNCHANGED <<dir, edits, storeVars, indexVars>>

Over ==
    /\ ~\E i \in Indexers : Indexing(i)
    /\ \A r \in Retrievals : rt[r] \in {"answered", "raised", "up", "down"}
    /\ UNCHANGED <<dir, edits, storeVars, indexVars, retrieveVars>>

IndexStep(i) ==
    \/ OpenIndex(i) \/ Scan(i) \/ ReadFile(i)
    \/ DeleteChunks(i) \/ DeleteSwallowed(i)
    \/ AddChunks(i) \/ AddRaises(i)
    \/ EndIndex(i)

RetrieveStep(r) ==
    \/ OpenRetrieval(r) \/ ProbeCounts(r) \/ RetrievalRaises(r)
    \/ FirstCount(r) \/ SecondCount(r) \/ Query(r)

Next ==
    /\ \/ \E f \in FileSet : \E v \in {0, Undecodable} \cup Contents[f] : Edit(f, v)
       \/ \E i \in Indexers, flag \in BOOLEAN : StartIndex(i, flag)
       \/ \E i \in Indexers : IndexStep(i) \/ CrashIndex(i)
       \/ \E r \in Retrievals : RetrieveStep(r)
       \/ Over
    /\ MarkHistory

Spec == Init /\ [][Next]_vars
-----------------------------------------------------------------------------
Chunks == [file : FileSet, idx : Nat, version : Versions]

TypeOK ==
    /\ dir \in [FileSet -> {0, Undecodable} \cup Versions]
    /\ coll \in Nat /\ lastId \in Nat /\ coll <= lastId /\ chunks \subseteq Chunks
    /\ ix \in [Indexers -> {"idle", "dropped", "opened", "files", "delete", "add", "done",
                            "failed", "crashed"}]
    /\ handle \in [Indexers -> Nat]
    /\ runs \in 0..MaxRuns /\ edits \in 0..MaxEdits /\ swallowed \in 0..MaxSwallowed
    /\ rebuild \in [Indexers -> BOOLEAN] /\ clean \in [Indexers -> BOOLEAN]
    /\ listed \in [Indexers -> SUBSET FileSet]
    /\ existing \in [Indexers -> [FileSet -> {0} \cup Versions]]
    /\ read \in [Indexers -> [FileSet -> {0} \cup Versions]]
    /\ rt \in [Retrievals -> {"idle", "opened", "counted", "sized", "answered", "raised",
                              "probing", "up", "down"}]
    /\ rtHandle \in [Retrievals -> Nat] /\ nFetch \in [Retrievals -> Nat]
    /\ found \in [Retrievals -> SUBSET Chunks] /\ overlapped \in [Retrievals -> BOOLEAN]
    /\ raced \subseteq FileSet

(* All or nothing per file: at every moment, after every kill and in every *)
(* overlap of two runs, the collection holds either no chunk of a file or  *)
(* exactly the chunks of one version of it.  Without it the skip test,     *)
(* which looks at one chunk's hash, would keep a torn file forever.  The   *)
(* two exceptions: a failed deletion, and two runs that treated the file   *)
(* at once having read different versions of it.                           *)
FileWhole ==
    swallowed = 0 =>
        \A f \in FileSet \ raced :
            Stored(f) # {} => \E v \in Versions : Stored(f) = ChunksOf(f, v)

(* A completed run with no other run beside or after it leaves each file   *)
(* it listed indexed as it read it, also the files it skipped, and also    *)
(* after runs that overlapped, were killed or failed; but not after a      *)
(* deletion whose error was suppressed, nor for a file torn by a race.     *)
DoneIsCurrent ==
    swallowed = 0 =>
        \A i \in Indexers : ix[i] = "done" /\ clean[i] =>
            \A f \in FileSet \ raced :
                read[i][f] # 0 => Stored(f) = ChunksOf(f, read[i][f])

(* Two runs over one directory do no harm to each other, in any order of   *)
(* their steps, rebuilds included: if nobody edits and every run that was  *)
(* started completes, the index is the directory.                          *)
OverlapConverges ==
    /\ edits = 0 /\ swallowed = 0
    /\ \A i \in Indexers : ix[i] \in {"idle", "done"}
    /\ runs > 0
    => chunks = UNION {ChunksOf(f, dir[f]) : f \in FileSet}

(* A completed --rebuild with no other run beside or after it, whose own   *)
(* drop and deletions did not fail, leaves exactly what it read, whatever  *)
(* torn, raced or stale chunks earlier runs and their errors had left.     *)
RebuildRepairs ==
    \A i \in Indexers : ix[i] = "done" /\ rebuild[i] /\ clean[i] =>
        chunks = UNION {ChunksOf(f, read[i][f]) : f \in FileSet}

(* The race of count() with query() can hurt only while an index run is    *)
(* active: a retrieval on a quiet collection never raises.  What it does   *)
(* answer is of one version of each playbook, as long as the file is whole.*)
RetrievalSound ==
    [][\A r \in Retrievals :
         /\ rt'[r] = "raised" => overlapped'[r]
         /\ found'[r] # found[r] /\ ~overlapped[r] /\ swallowed = 0 =>
               \A c, d \in found'[r] :
                  c.file = d.file /\ c.file \notin raced => c.version = d.version
      ]_vars

(* What "make index" and the README promise of a completed (re)build: the  *)
(* index holds no playbook that the run did not find in the directory.     *)
IndexMirrorsDirectory ==
    \A i \in Indexers : ix[i] = "done" => \A c \in chunks : read[i][c.file] # 0
=============================================================================
