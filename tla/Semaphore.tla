----------------------------- MODULE Semaphore -----------------------------
(***************************************************************************)
(* The unnamed semaphores of libc/thread/sem_*.c: an atomic counter, a     *)
(* count of waiters, and a futex.  Every atomic access is a step.          *)
(*                                                                         *)
(* A program may destroy a semaphore whatever the other threads do, and    *)
(* keep using it, which sem_destroy documents; it sets one up again when   *)
(* nobody is in a call.  The build is one where a failed unassert or       *)
(* npassert ends the process.                                              *)
(***************************************************************************)
EXTENDS Integers, FiniteSets

CONSTANTS
    Thread,
    Initial,      \* the values sem_init is called with
    IntMax,       \* INT_MAX, also SEM_VALUE_MAX
    Spins,        \* sem_trywait calls before sem_timedwait sleeps (7)
    Polling,      \* the futexes of the build: BOOLEAN, or {FALSE} if none polls
    Cancelable,   \* threads that pthread_cancel may be called on
    CallBudget    \* bound: calls of the program

ASSUME SemaphoreAssumption ==
    /\ IsFiniteSet(Thread)
    /\ IntMax \in Nat
    /\ Initial \subseteq 0..IntMax
    /\ Spins \in Nat \ {0}
    /\ Polling \subseteq BOOLEAN
    /\ Cancelable \subseteq Thread
    /\ CallBudget \in Nat

VARIABLES
    value,      \* sem_value
    waiters,    \* sem_waiters
    live,       \* between sem_init and sem_destroy
    pc,         \* what each thread executes next
    v,          \* the local variable v
    tries,      \* the local variable i of sem_timedwait
    waiting,    \* is the thread in sem_timedwait rather than sem_trywait?
    deadline,   \* was it given an abstime?
    res,        \* the outcome of the last call
    late,       \* did sem_destroy read sem_waiters before that call was counted?
    cancel,     \* was pthread_cancel called?
    masked,     \* is the thread's cancel state PTHREAD_CANCEL_MASKED?
    polling,    \* does the futex fall back on polling, as on Windows?
    crashed,    \* the threads with a failed assertion
    calls,      \* calls made so far
    start,      \* what sem_init stored
    posted,     \* successful posts since
    taken       \* successful waits since

shared == <<value, waiters, live>>
locals == <<v, tries, waiting, deadline, late>>
ghosts == <<start, posted, taken>>
settings == <<masked, polling>>
vars == <<shared, pc, locals, res, cancel, settings, crashed, calls, ghosts>>

IntMin == -IntMax - 1

\* Two's complement addition of one.
Increment(n) == IF n = IntMax THEN IntMin ELSE n + 1

PC == {"idle", "try", "trycas", "register", "load", "futex", "asleep", "cas",
       "cleanup", "wake", "destroy", "dead"}

Result == {"OK", "EAGAIN", "EINVAL", "EBUSY", "EINTR", "ETIMEDOUT",
           "ECANCELED", "exit"}

\* Threads that sem_waiters counts.
Registered == {t \in Thread : pc[t] \in {"load", "futex", "asleep", "cas", "cleanup"}}

Init ==
    /\ start \in Initial
    /\ value = start
    /\ waiters = 0
    /\ live = TRUE
    /\ pc = [t \in Thread |-> "idle"]
    /\ v = [t \in Thread |-> 0]
    /\ tries = [t \in Thread |-> 0]
    /\ waiting = [t \in Thread |-> FALSE]
    /\ deadline = [t \in Thread |-> FALSE]
    /\ res = [t \in Thread |-> "OK"]
    /\ late = [t \in Thread |-> FALSE]
    /\ cancel = [t \in Thread |-> FALSE]
    /\ masked \in [Thread -> BOOLEAN]
    /\ \A t \in Thread \ Cancelable : ~masked[t]
    /\ polling \in Polling
    /\ crashed = {}
    /\ calls = 0
    /\ posted = 0
    /\ taken = 0

At(t, l) == pc[t] = l /\ crashed = {}

Goto(t, l) == pc' = [pc EXCEPT ![t] = l]

Call(t) ==
    /\ At(t, "idle")
    /\ calls < CallBudget
    /\ calls' = calls + 1

\* The semaphore is destroyed, or sem_destroy has found no waiters and is going
\* to destroy it.
Doomed == ~live \/ \E s \in Thread : pc[s] = "destroy"

\* A call of any function but sem_destroy and sem_init.
Begin(t) == Call(t) /\ late' = [late EXCEPT ![t] = Doomed]

\* A call ends with outcome r.
Return(t, r) == Goto(t, "idle") /\ res' = [res EXCEPT ![t] = r]

\* sem_timedwait leaves its loop with outcome r.
Leave(t, r) == Goto(t, "cleanup") /\ res' = [res EXCEPT ![t] = r]

\* The local variable v is not used again before it is assigned.
Forget(t) == v' = [v EXCEPT ![t] = 0]

Take ==
    /\ value' = value - 1
    /\ taken' = taken + 1

\* An unassert or npassert of thread t.
unassert(t, x) == crashed' = IF x THEN crashed ELSE crashed \cup {t}

----------------------------------------------------------------------------
(***************************************************************************)
(* sem_trywait, which sem_timedwait calls Spins times first.               *)
(***************************************************************************)
TryCall(t) ==
    /\ Begin(t)
    /\ Goto(t, "try")
    /\ waiting' = [waiting EXCEPT ![t] = FALSE]
    /\ deadline' = [deadline EXCEPT ![t] = FALSE]
    /\ UNCHANGED <<shared, v, tries, res, cancel, settings, crashed, ghosts>>

WaitCall(t, abstime) ==
    /\ Begin(t)
    /\ Goto(t, "try")
    /\ waiting' = [waiting EXCEPT ![t] = TRUE]
    /\ deadline' = [deadline EXCEPT ![t] = abstime]
    /\ tries' = [tries EXCEPT ![t] = 0]
    /\ UNCHANGED <<shared, v, res, cancel, settings, crashed, ghosts>>

TryLoad(t) ==
    /\ At(t, "try")
    /\ v' = [v EXCEPT ![t] = value]
    /\ unassert(t, value > IntMin)
    /\ Goto(t, "trycas")
    /\ UNCHANGED <<shared, tries, waiting, deadline, late, res, cancel, settings, calls, ghosts>>

TryEagain(t) ==
    /\ At(t, "trycas")
    /\ v[t] = 0
    /\ IF waiting[t]
       THEN /\ tries' = [tries EXCEPT ![t] = @ + 1]
            /\ Goto(t, IF tries[t] + 1 < Spins THEN "try" ELSE "register")
            /\ UNCHANGED res
       ELSE Return(t, "EAGAIN") /\ UNCHANGED tries
    /\ UNCHANGED <<shared, v, waiting, deadline, late, cancel, settings, crashed, calls, ghosts>>

TryCas(t) ==
    /\ At(t, "trycas")
    /\ v[t] # 0
    /\ IF v[t] < 0
       THEN Return(t, "EINVAL") /\ Forget(t) /\ UNCHANGED <<value, crashed, taken>>
       ELSE IF value = v[t]
       THEN Take /\ Return(t, "OK") /\ Forget(t) /\ UNCHANGED crashed
       ELSE /\ v' = [v EXCEPT ![t] = value]
            /\ unassert(t, value > IntMin)
            /\ UNCHANGED <<value, pc, res, taken>>
    /\ UNCHANGED <<waiters, live, tries, waiting, deadline, late, cancel, settings,
                   calls, start, posted>>

----------------------------------------------------------------------------
(***************************************************************************)
(* The part of sem_timedwait that may sleep.                               *)
(***************************************************************************)
Register(t) ==
    /\ At(t, "register")
    /\ waiters' = waiters + 1
    /\ unassert(t, waiters >= 0)
    /\ tries' = [tries EXCEPT ![t] = 0]
    /\ Goto(t, "load")
    /\ UNCHANGED <<value, live, v, waiting, deadline, late, res, cancel, settings, calls, ghosts>>

WaitLoad(t) ==
    /\ At(t, "load")
    /\ v' = [v EXCEPT ![t] = value]
    /\ IF value = 0 THEN Goto(t, "futex") /\ UNCHANGED <<res, crashed>>
       ELSE IF value > 0 THEN Goto(t, "cas") /\ UNCHANGED <<res, crashed>>
       ELSE Leave(t, "EINVAL") /\ unassert(t, value > IntMin)
    /\ UNCHANGED <<shared, tries, waiting, deadline, late, cancel, settings, calls, ghosts>>

\* Mutant: stores the decremented value instead of exchanging it.
WaitCas_Store(t) ==
    /\ At(t, "cas")
    /\ value' = v[t] - 1
    /\ taken' = taken + 1
    /\ Leave(t, "OK") /\ Forget(t)
    /\ UNCHANGED <<waiters, live, tries, waiting, deadline, late, cancel, settings, crashed, calls, start, posted>>

\* Mutant: takes the token that it saw, whatever the value is now.
WaitCas_Blind(t) ==
    /\ At(t, "cas")
    /\ Take /\ Leave(t, "OK") /\ Forget(t)
    /\ UNCHANGED <<waiters, live, tries, waiting, deadline, late, cancel, settings, crashed, calls, start, posted>>

WaitCas(t) ==
    /\ At(t, "cas")
    /\ IF value = v[t]
       THEN Take /\ Leave(t, "OK")
       ELSE Goto(t, "load") /\ UNCHANGED <<value, res, taken>>
    /\ Forget(t)
    /\ UNCHANGED <<waiters, live, tries, waiting, deadline, late, cancel, settings, crashed, calls, start, posted>>

\* A weak compare-and-swap may fail although the value is the expected one.
CasSpurious(t) ==
    /\ At(t, "cas")
    /\ Goto(t, "load")
    /\ Forget(t)
    /\ UNCHANGED <<shared, tries, waiting, deadline, late, res, cancel, settings, crashed, calls, ghosts>>

\* Mutant: compares nothing before it sleeps.
FutexWait_NoCompare(t) ==
    /\ At(t, "futex")
    /\ ~polling
    /\ Goto(t, "asleep")
    /\ UNCHANGED <<shared, locals, res, cancel, settings, crashed, calls, ghosts>>

\* nsync_futex_wait_: compares and sleeps in one step of the kernel; polling
\* returns when the value differs.
FutexWait(t) ==
    /\ At(t, "futex")
    /\ polling => value # 0
    /\ Goto(t, IF value # 0 THEN "load" ELSE "asleep")
    /\ UNCHANGED <<shared, locals, res, cancel, settings, crashed, calls, ghosts>>

\* The futex wait returns although nobody posted.
FutexSpurious(t) ==
    /\ At(t, "asleep")
    /\ Goto(t, "load")
    /\ UNCHANGED <<shared, locals, res, cancel, settings, crashed, calls, ghosts>>

FutexInterrupted(t) ==
    /\ At(t, "asleep")
    /\ Leave(t, "EINTR")
    /\ UNCHANGED <<shared, locals, cancel, settings, crashed, calls, ghosts>>

\* -ETIMEDOUT: the deadline is compared with the clock once more.
TimedOut(t) ==
    /\ unassert(t, deadline[t])
    /\ \/ Leave(t, "ETIMEDOUT")
       \/ Goto(t, "load") /\ UNCHANGED res

\* The deadline passes in the sleep, or has passed before it.
FutexTimeout(t) ==
    /\ crashed = {}
    /\ pc[t] \in {"futex", "asleep"}
    /\ deadline[t]
    /\ TimedOut(t)
    /\ UNCHANGED <<shared, locals, cancel, settings, calls, ghosts>>

\* A canceled thread: pthread_exit runs the cleanup handler, unless the thread
\* asked for ECANCELED.  The polling fallback says -ETIMEDOUT instead.
FutexCanceled(t) ==
    /\ crashed = {}
    /\ pc[t] \in {"futex", "asleep"}
    /\ cancel[t]
    /\ IF masked[t] /\ polling
       THEN TimedOut(t)
       ELSE Leave(t, IF masked[t] THEN "ECANCELED" ELSE "exit") /\ UNCHANGED crashed
    /\ UNCHANGED <<shared, locals, cancel, settings, calls, ghosts>>

\* Mutant: a thread that is canceled never runs the cleanup handler.
Cleanup_NotOnExit(t) ==
    /\ At(t, "cleanup")
    /\ waiters' = IF res[t] = "exit" THEN waiters ELSE waiters - 1
    /\ unassert(t, waiters > 0)
    /\ Goto(t, IF res[t] = "exit" THEN "dead" ELSE "idle")
    /\ UNCHANGED <<value, live, locals, res, cancel, settings, calls, ghosts>>

\* sem_timedwait_cleanup.
Cleanup(t) ==
    /\ At(t, "cleanup")
    /\ waiters' = waiters - 1
    /\ unassert(t, waiters > 0)
    /\ Goto(t, IF res[t] = "exit" THEN "dead" ELSE "idle")
    /\ UNCHANGED <<value, live, locals, res, cancel, settings, calls, ghosts>>

----------------------------------------------------------------------------
(***************************************************************************)
(* sem_post.                                                               *)
(***************************************************************************)
PostAdd(t) ==
    /\ Begin(t)
    /\ value' = Increment(value)
    /\ unassert(t, value > IntMin)
    /\ IF value >= 0
       THEN Goto(t, "wake") /\ UNCHANGED res
       ELSE Return(t, "EINVAL")
    /\ posted' = IF value >= 0 THEN posted + 1 ELSE posted
    /\ UNCHANGED <<waiters, live, v, tries, waiting, deadline, cancel, settings, start, taken>>

\* Mutant: only wakes somebody when the value was zero before.
PostWake_OnlyFirst(t) ==
    /\ At(t, "wake")
    /\ res' = [res EXCEPT ![t] = "OK"]
    /\ \/ /\ value = 1
          /\ \E s \in Thread : /\ pc[s] = "asleep"
                               /\ pc' = [pc EXCEPT ![t] = "idle", ![s] = "load"]
       \/ /\ value # 1 \/ \A s \in Thread : pc[s] # "asleep"
          /\ Goto(t, "idle")
    /\ UNCHANGED <<shared, locals, cancel, settings, crashed, calls, ghosts>>

\* nsync_futex_wake_: wakes one sleeper, if there is one.
PostWake(t) ==
    /\ At(t, "wake")
    /\ res' = [res EXCEPT ![t] = "OK"]
    /\ \/ \E s \in Thread : /\ pc[s] = "asleep"
                            /\ pc' = [pc EXCEPT ![t] = "idle", ![s] = "load"]
       \/ /\ \A s \in Thread : pc[s] # "asleep"
          /\ Goto(t, "idle")
    /\ UNCHANGED <<shared, locals, cancel, settings, crashed, calls, ghosts>>

----------------------------------------------------------------------------
(***************************************************************************)
(* sem_destroy, sem_init, sem_getvalue.                                    *)
(***************************************************************************)
Outside(s) == pc[s] \in {"idle", "wake", "dead"}

\* Threads in a call that sem_waiters does not count.
Uncounted == {s \in Thread : pc[s] \notin {"idle", "dead"}} \ Registered

\* Mutant: does not look at sem_waiters.
DestroyCheck_NoBusy(t) ==
    /\ Call(t)
    /\ unassert(t, waiters >= 0)
    /\ Goto(t, "destroy")
    /\ late' = [s \in Thread |-> late[s] \/ s \in Uncounted]
    /\ UNCHANGED <<shared, v, tries, waiting, deadline, res, cancel, settings, ghosts>>

DestroyCheck(t) ==
    /\ Call(t)
    /\ unassert(t, waiters >= 0)
    /\ IF waiters # 0
       THEN Return(t, "EBUSY") /\ UNCHANGED late
       ELSE /\ Goto(t, "destroy")
            /\ late' = [s \in Thread |-> late[s] \/ s \in Uncounted]
            /\ UNCHANGED res
    /\ UNCHANGED <<shared, v, tries, waiting, deadline, cancel, settings, ghosts>>

DestroyStore(t) ==
    /\ At(t, "destroy")
    /\ value' = IntMin
    /\ live' = FALSE
    /\ Return(t, "OK")
    /\ UNCHANGED <<waiters, locals, cancel, settings, crashed, calls, ghosts>>

sem_init(t, n) ==
    /\ Call(t)
    /\ ~live
    /\ \A s \in Thread : Outside(s)
    /\ value' = n
    /\ waiters' = 0
    /\ live' = TRUE
    /\ start' = n
    /\ posted' = 0
    /\ taken' = 0
    /\ res' = [res EXCEPT ![t] = "OK"]
    /\ UNCHANGED <<pc, locals, cancel, settings, crashed>>

sem_getvalue(t) ==
    /\ Begin(t)
    /\ Return(t, "OK")
    /\ UNCHANGED <<shared, v, tries, waiting, deadline, cancel, settings, crashed, ghosts>>

\* pthread_cancel.
Cancel(t) ==
    /\ crashed = {}
    /\ t \in Cancelable
    /\ ~cancel[t]
    /\ cancel' = [cancel EXCEPT ![t] = TRUE]
    /\ UNCHANGED <<shared, pc, locals, res, settings, crashed, calls, ghosts>>

----------------------------------------------------------------------------
\* What a thread does inside a call without waiting for anybody.
Step(t) ==
    \/ TryLoad(t) \/ TryEagain(t) \/ TryCas(t)
    \/ Register(t) \/ WaitLoad(t) \/ WaitCas(t) \/ FutexWait(t) \/ Cleanup(t)
    \/ PostWake(t) \/ DestroyStore(t)

Environment(t) ==
    \/ Cancel(t) \/ FutexCanceled(t) \/ FutexTimeout(t)
    \/ FutexInterrupted(t) \/ FutexSpurious(t) \/ CasSpurious(t)

Program(t) ==
    \/ TryCall(t) \/ PostAdd(t) \/ DestroyCheck(t) \/ sem_getvalue(t)
    \/ \E abstime \in BOOLEAN : WaitCall(t, abstime)
    \/ \E n \in Initial : sem_init(t, n)

\* Every thread is outside or asleep, or the process has ended.
Quiet == crashed # {} \/ \A t \in Thread : pc[t] \in {"idle", "dead", "asleep"}
                                           \/ (polling /\ pc[t] = "futex")

Rest == Quiet /\ UNCHANGED vars

Next == (\E t \in Thread : Step(t) \/ Environment(t) \/ Program(t)) \/ Rest

Spec == Init /\ [][Next]_vars

\* Threads that can run do run, and a compare-and-swap that is repeated does
\* not fail spuriously for ever.
FairSpec == Spec /\ \A t \in Thread : WF_vars(Step(t)) /\ SF_vars(WaitCas(t))

----------------------------------------------------------------------------
\* Threads inside sem_trywait or sem_timedwait that have no outcome yet.
Wanting == {t \in Thread : pc[t] \in {"try", "trycas", "register", "load", "futex",
                                      "asleep", "cas"}}

Abstract == INSTANCE AbstractSemaphore WITH up <- live, avail <- IF live THEN value ELSE 0,
                                            wanting <- Wanting

\* The atomics and the futex implement a counting semaphore.
Implements == Abstract!Spec

TypeOK ==
    /\ value \in IntMin..IntMax
    /\ waiters \in Int
    /\ live \in BOOLEAN
    /\ pc \in [Thread -> PC]
    /\ v \in [Thread -> IntMin..IntMax]
    /\ tries \in [Thread -> 0..Spins]
    /\ waiting \in [Thread -> BOOLEAN]
    /\ deadline \in [Thread -> BOOLEAN]
    /\ res \in [Thread -> Result]
    /\ late \in [Thread -> BOOLEAN]
    /\ cancel \in [Thread -> BOOLEAN]
    /\ masked \in [Thread -> BOOLEAN]
    /\ polling \in BOOLEAN
    /\ crashed \in SUBSET Thread
    /\ calls \in Nat
    /\ start \in Initial
    /\ posted \in Nat
    /\ taken \in Nat

\* Tokens are neither lost nor made up, whatever the loads, compare-and-swaps,
\* timeouts and cancelations of sem_timedwait, sem_trywait and sem_post do.
TokenConservation ==
    TypeOK /\ ((live /\ start + posted - taken <= IntMax) => value = start + posted - taken)

\* sem_waiters counts exactly the threads in the sleeping part of
\* sem_timedwait, on every way out of it, so that sem_destroy's EBUSY is right.
WaitersExact == waiters = Cardinality(Registered)

\* A token that is there while a thread sleeps on the futex is about to be
\* taken or announced: some post has its wake still to do, or some thread that
\* is awake will look at the value again.
NoLostWakeup ==
    (live /\ value > 0 /\ \E t \in Thread : pc[t] = "asleep") =>
        \E t \in Thread : pc[t] \in {"wake", "load", "cas"}

\* A wait without a deadline that polls, of a thread canceled in masked mode.
MaskedPoll(t) == polling /\ masked[t] /\ cancel[t] /\ waiting[t] /\ ~deadline[t]

\* Only a destroyed semaphore is refused, and sem_destroy spares the threads it
\* counts ("@raise EBUSY if `sem` has waiters"): no assertion fails and no call
\* raises EINVAL unless sem_destroy read sem_waiters before it could count the
\* call.  The one exception is the wait of MaskedPoll, which is told of a
\* timeout and fails npassert(abstime): MaskedCancelHandled is about it.
OnlyInvalidRefused ==
    /\ \A t \in crashed : late[t] \/ MaskedPoll(t)
    /\ \A t \in Thread : (pc[t] = "idle" /\ res[t] = "EINVAL") => late[t]

\* "@raise ECANCELED if calling thread was cancelled in masked mode": the wait
\* of such a thread on a valid semaphore does not end the process.
MaskedCancelHandled == \A t \in crashed : (masked[t] /\ cancel[t]) => late[t]

\* The threads that wait do not all sleep on while there is a token.
TokenTaken ==
    (live /\ value > 0 /\ \E t \in Thread : pc[t] = "asleep")
        ~> (~live \/ value <= 0 \/ crashed # {} \/ \A t \in Thread : pc[t] # "asleep")
=============================================================================
