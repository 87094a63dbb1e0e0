------------------------- MODULE MC_RecursiveMutex -------------------------
\* Small instances of RecursiveMutex.
EXTENDS RecursiveMutex, TLC

AnyThread == Permutations(Thread)
=============================================================================
