\* The same system, asked whether a completed run mirrors the directory.
SPECIFICATION Spec
CONSTANTS
    Files <- MCFiles
    ChunkCount <- MCChunkCount
    Contents <- MCContents
    Undecodable = 9
    Indexers = {i1}
    Retrievals = {q1}
    TopK = 2
    OverFetch = 1
    MaxEdits = 1
    MaxRuns = 2
    MaxSwallowed = 0
INVARIANT IndexMirrorsDirectory
