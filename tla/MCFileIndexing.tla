--------------------------- MODULE MCFileIndexing ---------------------------
(* The indexing of one file on small instances. *)
EXTENDS FileIndexing, TLC

\* Documents, chunks and requests are interchangeable.
Symmetry == Permutations(Docs) \cup Permutations(Chunks) \cup Permutations(Reqs)

=============================================================================
