------------------------ MODULE MC_ThreadLifecycle ------------------------
(***************************************************************************)
(* Small instances of ThreadLifecycle: the main thread and a few others.   *)
(***************************************************************************)
EXTENDS ThreadLifecycleInvariant, TLC

\* The threads that pthread_create makes are interchangeable.
ChildSymmetry == Permutations(Thread \ {Main})
=============================================================================
