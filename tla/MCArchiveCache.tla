--------------------------- MODULE MCArchiveCache ---------------------------
EXTENDS ArchiveCache, TLC

\* Threads, buffer names and stamps are interchangeable.
Symmetry == Permutations(Threads) \cup Permutations(Bufs) \cup Permutations(Stamps)
=============================================================================
