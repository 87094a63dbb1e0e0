----------------------------- MODULE MC_NsyncMu -----------------------------
\* Small instances of NsyncMu.
EXTENDS NsyncMu, TLC

CONSTANTS t1, t2, t3

\* No step tells threads apart, and thread t's waiter struct goes with it.
ThreadSymmetry == Permutations(Thread)
=============================================================================
