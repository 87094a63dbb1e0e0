---------------------------- MODULE MC_Semaphore ----------------------------
\* A small instance of Semaphore.
EXTENDS Semaphore
=============================================================================
