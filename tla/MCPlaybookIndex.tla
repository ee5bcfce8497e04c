-------------------------- MODULE MCPlaybookIndex --------------------------
(* PlaybookIndex for TLC: version 1 has two chunks, version 2 has one, and *)
(* version 3 is an empty file.  One playbook changes between the first two *)
(* and the other is empty; either may be removed or become undecodable.    *)
(* Indexers are interchangeable.                                           *)
EXTENDS PlaybookIndex, TLC

MCFiles == <<"bruteforce.md", "phishing.md">>
MCChunkCount == <<2, 1, 0>>
MCContents == [f \in FileSet |-> IF f = "phishing.md" THEN {3} ELSE {1, 2}]

IndexerSymmetry == Permutations(Indexers)
=============================================================================
