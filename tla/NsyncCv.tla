------------------------------ MODULE NsyncCv ------------------------------
(***************************************************************************)
(* The condition variable nsync_cv (third_party/nsync/mem/nsync_cv.c) over *)
(* one nsync_mu, whose waiters a wakeup may move to the queue of the lock. *)
(* What runs under the spinlock of the condition variable is one step, and *)
(* CV_NON_EMPTY says whether its queue is.                                 *)
(***************************************************************************)
EXTENDS NsyncMu

VARIABLES cv_waiters,  \* pcv->waiters
          claim,       \* wake_waiters will set MU_WRITER_WAITING
          signalled    \* history: threads whose wait a wakeup has ended

cv == <<cv_waiters, claim, signalled>>
cvars == <<vars, cv>>

\* nsync_cv_wait_with_deadline_generic up to the unlock: the struct is prepared
\* and queued before the lock is released.
CvWait(t) ==
    /\ pc[t] = "idle" /\ hold[t] # "none" /\ calls < CallBudget
    /\ calls' = calls + 1
    /\ TakeWaiter(t)
    /\ nw' = [nw EXCEPT ![t] = [@ EXCEPT !.waiting = TRUE, !.removed = FALSE, !.l_type = hold[t],
                                         !.cond = FALSE, !.cv_mu = TRUE]]
    /\ cw' = [cw EXCEPT ![t] = NoCw]
    /\ cv_waiters' = dll_make_last(cv_waiters, t)
    /\ mode' = [mode EXCEPT ![t] = hold[t]]
    /\ after' = [after EXCEPT ![t] = "cv_loop"]
    /\ Goto(t, "unlock")
    /\ UNCHANGED <<mu, data, hold, clear, count, me, wake, scan, claim, signalled>>

CvSleep(t) ==
    /\ pc[t] = "cv_loop" /\ nw[t].waiting /\ cw[t].outcome = "none"
    /\ Goto(t, "cv_p")
    /\ UNCHANGED <<mu, nw, pool, data, hold, local, calls, wake, scan, cw, cv>>

CvP(t) ==
    /\ pc[t] = "cv_p"
    /\ nsync_mu_semaphore_p(t)
    /\ Goto(t, "cv_loop")
    /\ UNCHANGED <<mu, pool, data, hold, local, calls, wake, scan, cw, cv>>

\* The deadline, or a cancellation.
CvTimeout(t) ==
    /\ pc[t] = "cv_p" /\ mode[t] \in TimedModes
    /\ cw' = [cw EXCEPT ![t].outcome = "semaphore"]
    /\ Goto(t, "cv_loop")
    /\ UNCHANGED <<mu, nw, pool, data, hold, local, calls, wake, scan, cv>>

CvConfirm(t) ==
    /\ pc[t] = "cv_loop" /\ cw[t].outcome = "semaphore" /\ StillQueued(t)
    /\ cv_waiters' = dll_remove(cv_waiters, t)
    /\ nw' = [nw EXCEPT ![t].waiting = FALSE, ![t].removed = TRUE]
    /\ cw' = [cw EXCEPT ![t].outcome = "ETIMEDOUT"]
    /\ UNCHANGED <<mu, pool, data, pc, hold, local, calls, wake, scan, claim, signalled>>

\* Moved to the queue of the lock and woken there: the thread is the designated
\* waker and goes on with the struct it has.
CvRequeued(t) ==
    /\ pc[t] = "cv_loop" /\ ~nw[t].waiting /\ ~nw[t].cv_mu
    /\ EnterSlow(t, t, nw[t].l_type, TRUE, "cv_return")
    /\ UNCHANGED <<mu, pool, data, hold, calls, wake, scan, cw, cv>>

\* Woken from the condition variable: lock with nsync_mu_lock or nsync_mu_rlock.
CvRelock(t) ==
    /\ pc[t] = "cv_loop" /\ ~nw[t].waiting /\ nw[t].cv_mu
    /\ IF Zero(lock_type[mode[t]].zero_to_acquire)
       THEN /\ word' = Bits(Add(word, mode[t]), {}, lock_type[mode[t]].clear_on_acquire)
            /\ hold' = [hold EXCEPT ![t] = mode[t]]
            /\ Goto(t, "cv_return")
            /\ UNCHANGED <<nw, pool, local>>
       ELSE /\ EnterSlow(t, nsync_waiter_new_(t), mode[t], FALSE, "cv_return")
            /\ TakeWaiter(nsync_waiter_new_(t))
            /\ UNCHANGED <<word, hold>>
    /\ UNCHANGED <<waiters, data, calls, wake, scan, cw, cv>>

CvReturn(t) ==
    /\ pc[t] = "cv_return"
    /\ nsync_waiter_free_(t)
    /\ cw' = [cw EXCEPT ![t] = NoCw]
    /\ signalled' = signalled \ {t}
    /\ Goto(t, "idle")
    /\ UNCHANGED <<mu, nw, data, hold, local, calls, wake, scan, cv_waiters, claim>>

----------------------------------------------------------------------------
IsReader(w) == nw[w].l_type = "reader"

\* The first waiter; with a reader go all readers and the first writer.
Chosen ==
    {i \in DOMAIN cv_waiters :
        \/ i = 1
        \/ /\ IsReader(cv_waiters[1])
           /\ \/ IsReader(cv_waiters[i])
              \/ \A j \in 1..(i - 1) : IsReader(cv_waiters[j])}

Dequeue(t, W) ==
    /\ pc[t] = "idle" /\ calls < CallBudget /\ cv_waiters # <<>>
    /\ calls' = calls + 1
    /\ wake' = [wake EXCEPT ![t] = SelectSeq(cv_waiters, LAMBDA w : w \in W)]
    /\ cv_waiters' = SelectSeq(cv_waiters, LAMBDA w : w \notin W)
    /\ nw' = [w \in Waiter |-> IF w \in W THEN [nw[w] EXCEPT !.removed = TRUE] ELSE nw[w]]
    /\ signalled' = signalled \cup W
    /\ after' = [after EXCEPT ![t] = "idle"]
    /\ Goto(t, "transfer")
    /\ UNCHANGED <<mu, pool, data, hold, mode, clear, count, me, scan, cw, claim>>

nsync_cv_signal(t) == Dequeue(t, {cv_waiters[i] : i \in Chosen})

nsync_cv_broadcast(t) == Dequeue(t, Listed(cv_waiters))

\* wake_waiters: when the lock is held and the first waiter, or not all of them,
\* could get it, waiters move to its queue.
first_cant_acquire(t) == ~Zero(lock_type[nw[Head(wake[t])].l_type].zero_to_acquire)

\* Mutant: moves waiters to the queue of a lock that nobody has.
ShouldTransfer_Free(t) ==
    /\ SpinFree
    /\ first_cant_acquire(t) \/ (Len(wake[t]) > 1 /\ \E w \in Listed(wake[t]) : ~IsReader(w))

ShouldTransfer(t) ==
    /\ "MU_WLOCK" \in word.bits \/ word.readers > 0
    /\ SpinFree
    /\ \/ first_cant_acquire(t)
       \/ Len(wake[t]) > 1 /\ \E w \in Listed(wake[t]) : ~IsReader(w)

Moved(t) ==
    {w \in Listed(wake[t]) :
        \/ first_cant_acquire(t)
        \/ w # Head(wake[t]) /\ ~(IsReader(Head(wake[t])) /\ IsReader(w))}

\* Mutant: wakes what it has moved as well.
Remaining_All(t) == wake[t]

Remaining(t) == SelectSeq(wake[t], LAMBDA w : w \notin Moved(t))

Transfer(t) ==
    /\ pc[t] = "transfer" /\ ShouldTransfer(t)
    /\ word' = Bits(word, {"MU_SPINLOCK", "MU_WAITING"}, {"MU_ALL_FALSE"})
    /\ LET M == Moved(t)
       IN  /\ waiters' = waiters \o SelectSeq(wake[t], LAMBDA w : w \in M)
           /\ wake' = [wake EXCEPT ![t] = Remaining(t)]
           /\ nw' = [w \in Waiter |-> IF w \in M THEN [nw[w] EXCEPT !.cv_mu = FALSE] ELSE nw[w]]
           /\ claim' = [claim EXCEPT ![t] = /\ \E w \in M : ~IsReader(w)
                                            /\ \A w \in Listed(wake[t]) \ M : ~IsReader(w)]
    /\ Goto(t, "xfer")
    /\ UNCHANGED <<pool, data, hold, local, calls, scan, cw, cv_waiters, signalled>>

TransferEnd(t) ==
    /\ pc[t] = "xfer"
    /\ word' = Bits(word, IF claim[t] THEN {"MU_WRITER_WAITING"} ELSE {}, {"MU_SPINLOCK"})
    /\ claim' = [claim EXCEPT ![t] = FALSE]
    /\ Goto(t, IF wake[t] = <<>> THEN after[t] ELSE "wake")
    /\ UNCHANGED <<waiters, nw, pool, data, hold, local, calls, wake, scan, cw, cv_waiters, signalled>>

\* The conditions do not hold, or the swap, which is tried once, fails.
NoTransfer(t) ==
    /\ pc[t] = "transfer"
    /\ Goto(t, "wake")
    /\ UNCHANGED <<mu, nw, pool, data, hold, local, calls, wake, scan, cw, cv>>

----------------------------------------------------------------------------
CvInit == Init /\ cv_waiters = <<>> /\ claim = [t \in Thread |-> FALSE] /\ signalled = {}

CvStep(t) ==
    \/ CvWait(t) \/ CvSleep(t) \/ CvP(t) \/ CvTimeout(t) \/ CvConfirm(t)
    \/ CvRequeued(t) \/ CvRelock(t) \/ CvReturn(t)
    \/ nsync_cv_signal(t) \/ nsync_cv_broadcast(t)
    \/ Transfer(t) \/ TransferEnd(t) \/ NoTransfer(t)

\* The clients of the condition variable do not call nsync_mu_wait as well.
CvNext ==
    \E t \in Thread : CvStep(t) \/ ((LockStep(t) \/ LockCall(t)) /\ UNCHANGED cv)

CvSpec == CvInit /\ [][CvNext]_cvars

----------------------------------------------------------------------------
(***************************************************************************)
(* Properties.                                                             *)
(***************************************************************************)
\* A struct is on the condition variable, or where the lock has it, never on
\* both: a wakeup moves it and a timeout takes it out of the right queue.
CvOneList ==
    /\ OneList
    /\ Cardinality(Listed(cv_waiters)) = Len(cv_waiters)
    /\ \A w \in Listed(cv_waiters) :
          /\ nw[w].waiting /\ nw[w].cv_mu /\ w \notin Queued
          /\ \A t \in Thread : w \notin Listed(ToWake(t))

\* A thread that a signal or broadcast took from the queue does not report a
\* timeout, so a signal is never spent on a wait that has failed.
SignalNotLost == \A t \in signalled : cw[t].outcome # "ETIMEDOUT"
=============================================================================
