\* Three index runs, two at once: kills, failing deletions and an edit, against one retrieval or count.
SPECIFICATION Spec
CONSTANTS
    Files <- MCFiles
    ChunkCount <- MCChunkCount
    Contents <- MCContents
    Undecodable = 9
    Indexers = {i1, i2}
    Retrievals = {q1}
    TopK = 2
    OverFetch = 1
    MaxEdits = 1
    MaxRuns = 3
    MaxSwallowed = 1
SYMMETRY IndexerSymmetry
INVARIANTS TypeOK FileWhole DoneIsCurrent OverlapConverges RebuildRepairs
PROPERTY RetrievalSound
