----------------------------- MODULE MCFileIndex -----------------------------
(* FileIndex on one Claude log, one Codex session and the name it is        *)
(* archived under, or on the first of them, or on the other two.            *)
EXTENDS FileIndex, TLC

CodexPair == 2..3
CodexPairArchive == 2 :> 3
CodexPairRoots == (2 :> SessionsRoot) @@ (3 :> ArchiveRoot)

OneOfEach == 1..3
OneOfEachRoots == (1 :> ClaudeRoot) @@ (2 :> SessionsRoot) @@ (3 :> ArchiveRoot)
OneOfEachArchive == 2 :> 3

OneClaude == 1..1
OneClaudeRoots == 1 :> ClaudeRoot

NoArchive == <<>>

Interchangeable == Permutations(Inodes) \cup Permutations(Records)

=============================================================================
