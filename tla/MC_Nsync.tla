------------------------------ MODULE MC_Nsync ------------------------------
(***************************************************************************)
(* Two kinds of clients of one nsync_mu: those of a condition variable,    *)
(* and those of conditional critical sections.                             *)
(***************************************************************************)
EXTENDS NsyncCv, TLC

CONSTANTS t1, t2, t3, s1, s2

VARIABLES clients,      \* which kind there is
          reader_waits  \* history: a reader has called nsync_mu_wait

MCInit == CvInit /\ clients \in {"cv", "cond"} /\ reader_waits = FALSE

ReaderWaits == \E t \in Thread : pc[t] = "idle" /\ pc'[t] = "cond_spin" /\ hold[t] = "reader"

MCNext ==
    /\ \/ clients = "cv" /\ CvNext
       \/ clients = "cond" /\ Next /\ UNCHANGED cv
    /\ reader_waits' = (reader_waits \/ ReaderWaits)
    /\ UNCHANGED clients

MCSpec == MCInit /\ [][MCNext]_<<cvars, clients, reader_waits>>

\* Locals and fields of waiter structs are not told apart where they are dead: the
\* code assigns them before it reads them again.
Live(t) ==
    [mode |-> IF pc[t] = "idle" THEN "-" ELSE mode[t],
     after |-> IF pc[t] = "idle" THEN "-" ELSE after[t],
     slow |-> IF pc[t] \in {"lock", "queue", "sleep", "p"} THEN <<clear[t], count[t], me[t]>> ELSE <<>>]

LiveFields(w) == IF w \in inuse THEN nw[w] ELSE [sem |-> nw[w].sem]

MCView ==
    <<word, waiters, [w \in Waiter |-> LiveFields(w)], pool, data, pc, hold,
      [t \in Thread |-> Live(t)], calls, wake, scan, cw, cv, clients, reader_waits>>

\* No step tells threads apart.
ThreadSymmetry == Permutations(Thread)

----------------------------------------------------------------------------
\* nsync_mu_lock and nsync_mu_rlock block only until the lock is free: with a
\* condition variable, whose wakeups move waiters to the queue of the lock, no
\* waiter is left in that queue when nobody has the lock.
CvStrandsNobody == clients = "cv" => NobodyStranded

\* The same of nsync_mu_lock among nsync_mu_waits of writers, deadlines included.
CondStrandsNoWriter == (clients = "cond" /\ ~reader_waits) => WriterNotStranded
=============================================================================
