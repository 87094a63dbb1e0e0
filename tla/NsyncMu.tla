------------------------------ MODULE NsyncMu ------------------------------
(***************************************************************************)
(* The reader/writer lock nsync_mu (third_party/nsync/mu.c) with its       *)
(* conditional critical sections (mem/nsync_mu_wait.c) and waiter structs  *)
(* (common.c).  A loop that loads mu->word, tests it and updates it with a *)
(* compare and swap is one step, taken when the swap succeeds.  Code that  *)
(* owns the spinlock is one step with the swap that gives the spinlock up. *)
(***************************************************************************)
EXTENDS Integers, Sequences, FiniteSets, Dll

CONSTANTS Thread,               \* thread t has reserved the waiter struct t
          Spare,                \* waiter structs a busy thread borrows
          LONG_WAIT_THRESHOLD,  \* 30 in the code
          SemMax,               \* tokens of a semaphore that are told apart
          Modes,                \* modes in which clients lock
          CondModes,            \* modes in which clients call nsync_mu_wait
          TimedModes,           \* those in which that call has a deadline
          CallBudget            \* bound: calls other than unlocking

ASSUME NsyncAssumption ==
    /\ IsFiniteSet(Thread) /\ IsFiniteSet(Spare) /\ Thread \cap Spare = {}
    /\ LONG_WAIT_THRESHOLD \in Nat \ {0} /\ SemMax \in Nat \ {0} /\ CallBudget \in Nat
    /\ Modes \subseteq {"reader", "writer"}
    /\ CondModes \subseteq Modes /\ TimedModes \subseteq Modes

Waiter == Thread \cup Spare

VARIABLES word,          \* mu->word
          waiters,       \* mu->waiters
          nw,            \* the fields of the waiter structs
          inuse,         \* waiter structs with WAITER_IN_USE
          free_waiters,  \* the pool of waiter structs nobody reserved
          data,          \* what the lock protects, and nsync_mu_wait waits for
          pc, hold, mode, clear, count, me, after, calls,
          wake, scan, cw

mu == <<word, waiters>>
pool == <<inuse, free_waiters>>
local == <<mode, clear, count, me, after>>
vars == <<word, waiters, nw, inuse, free_waiters, data,
          pc, hold, mode, clear, count, me, after, calls, wake, scan, cw>>

----------------------------------------------------------------------------
\* The word: its flag bits, and the count of readers in its upper part.

Bit == {"MU_WLOCK", "MU_SPINLOCK", "MU_WAITING", "MU_DESIG_WAKER", "MU_CONDITION",
        "MU_WRITER_WAITING", "MU_LONG_WAIT", "MU_ALL_FALSE"}

lock_type ==
    [writer |-> [zero_to_acquire  |-> {"MU_WLOCK", "MU_RLOCK_FIELD", "MU_LONG_WAIT"},
                 set_when_waiting |-> {"MU_WAITING", "MU_WRITER_WAITING"},
                 clear_on_acquire |-> {"MU_WRITER_WAITING"},
                 clear_on_uncontended_release |-> {"MU_ALL_FALSE"}],
     reader |-> [zero_to_acquire  |-> {"MU_WLOCK", "MU_WRITER_WAITING", "MU_LONG_WAIT"},
                 set_when_waiting |-> {"MU_WAITING"},
                 clear_on_acquire |-> {},
                 clear_on_uncontended_release |-> {}]]

Zero(mask) ==
    /\ mask \cap word.bits = {}
    /\ "MU_RLOCK_FIELD" \in mask => word.readers = 0

Bits(w, set, clr) == [w EXCEPT !.bits = (@ \cup set) \ clr]

Add(w, m) == IF m = "writer" THEN Bits(w, {"MU_WLOCK"}, {}) ELSE [w EXCEPT !.readers = @ + 1]

Sub(w, m) == IF m = "writer" THEN Bits(w, {}, {"MU_WLOCK"}) ELSE [w EXCEPT !.readers = @ - 1]

SpinFree == "MU_SPINLOCK" \notin word.bits

Goto(t, l) == pc' = [pc EXCEPT ![t] = l]

----------------------------------------------------------------------------
\* A thread uses the struct it reserved, or one of the pool while that is busy.

nsync_waiter_new_(t) ==
    IF t \notin inuse THEN t
    ELSE IF free_waiters # <<>> THEN Head(free_waiters)
    ELSE CHOOSE w \in Spare : w \notin inuse

TakeWaiter(w) ==
    /\ inuse' = inuse \cup {w}
    /\ free_waiters' = SelectSeq(free_waiters, LAMBDA x : x # w)

nsync_waiter_free_(w) ==
    /\ inuse' = inuse \ {w}
    /\ free_waiters' = IF w \in Spare THEN dll_make_first(free_waiters, w) ELSE free_waiters

\* Mutant: the token is lost.
nsync_mu_semaphore_v_Lost(w) == nw

\* Counts of tokens past SemMax only let a waiter look at nw.waiting again.
nsync_mu_semaphore_v(w) == [nw EXCEPT ![w].sem = IF @ < SemMax THEN @ + 1 ELSE @]

----------------------------------------------------------------------------
\* nsync_mu_lock, nsync_mu_rlock, and the trylocks when they succeed.  A swap
\* that fails by a race ends up in nsync_mu_lock_slow_, which does the same.

LockFast(t, m) ==
    /\ pc[t] = "idle" /\ hold[t] = "none" /\ calls < CallBudget
    /\ Zero(lock_type[m].zero_to_acquire)
    /\ word' = Bits(Add(word, m), {}, lock_type[m].clear_on_acquire)
    /\ hold' = [hold EXCEPT ![t] = m]
    /\ calls' = calls + 1
    /\ UNCHANGED <<waiters, nw, pool, data, pc, local, wake, scan, cw>>

\* Enter nsync_mu_lock_slow_ with waiter w, and continue at pc l once it is locked.
EnterSlow(t, w, m, woken, l) ==
    /\ mode' = [mode EXCEPT ![t] = m]
    /\ clear' = [clear EXCEPT ![t] = woken]
    /\ count' = [count EXCEPT ![t] = 0]
    /\ me' = [me EXCEPT ![t] = w]
    /\ after' = [after EXCEPT ![t] = l]
    /\ nw' = [nw EXCEPT ![w].l_type = m, ![w].cond = FALSE, ![w].cv_mu = FALSE]
    /\ Goto(t, "lock")

LockSlow(t, m) ==
    /\ pc[t] = "idle" /\ hold[t] = "none" /\ calls < CallBudget
    /\ ~Zero(lock_type[m].zero_to_acquire)
    /\ calls' = calls + 1
    /\ EnterSlow(t, nsync_waiter_new_(t), m, FALSE, "idle")
    /\ TakeWaiter(nsync_waiter_new_(t))
    /\ UNCHANGED <<mu, data, hold, wake, scan, cw>>

long_wait(t) == IF count[t] = LONG_WAIT_THRESHOLD THEN {"MU_LONG_WAIT"} ELSE {}

clear_bits(t) == IF clear[t] THEN {"MU_DESIG_WAKER"} ELSE {}

\* Mutant: nothing stops a thread that was woken.
zero_to_acquire_Woken(t) == IF clear[t] THEN {} ELSE lock_type[mode[t]].zero_to_acquire

\* Only mutual exclusion stops a thread that was woken.
zero_to_acquire(t) ==
    lock_type[mode[t]].zero_to_acquire
        \ (IF clear[t] THEN {"MU_WRITER_WAITING", "MU_LONG_WAIT"} ELSE {})

\* nsync_mu_wait and nsync_cv_wait lock with the struct t that they free themselves.
Acquire(t) ==
    /\ pc[t] = "lock" /\ Zero(zero_to_acquire(t))
    /\ word' = Bits(Add(word, mode[t]), {},
                    clear_bits(t) \cup long_wait(t) \cup lock_type[mode[t]].clear_on_acquire)
    /\ hold' = [hold EXCEPT ![t] = mode[t]]
    /\ IF after[t] = "idle" \/ me[t] # t THEN nsync_waiter_free_(me[t]) ELSE UNCHANGED pool
    /\ Goto(t, after[t])
    /\ UNCHANGED <<waiters, nw, data, local, calls, wake, scan, cw>>

QueueSpin(t) ==
    /\ pc[t] = "lock" /\ ~Zero(zero_to_acquire(t)) /\ SpinFree
    /\ word' = Bits(word, {"MU_SPINLOCK"} \cup long_wait(t) \cup lock_type[mode[t]].set_when_waiting,
                    clear_bits(t) \cup {"MU_ALL_FALSE"})
    /\ Goto(t, "queue")
    /\ UNCHANGED <<waiters, nw, pool, data, hold, local, calls, wake, scan, cw>>

\* The first wait goes to the end of the queue, later ones to its front.
Queue(t) ==
    /\ pc[t] = "queue"
    /\ nw' = [nw EXCEPT ![me[t]].waiting = TRUE]
    /\ waiters' = IF count[t] = 0 THEN dll_make_last(waiters, me[t]) ELSE dll_make_first(waiters, me[t])
    /\ word' = Bits(word, {}, {"MU_SPINLOCK"})
    /\ Goto(t, "sleep")
    /\ UNCHANGED <<pool, data, hold, local, calls, wake, scan, cw>>

Sleep(t) ==
    /\ pc[t] = "sleep"
    /\ IF nw[me[t]].waiting
       THEN Goto(t, "p") /\ UNCHANGED <<clear, count>>
       ELSE /\ Goto(t, "lock")
            /\ clear' = [clear EXCEPT ![t] = TRUE]
            /\ count' = [count EXCEPT ![t] = IF @ < LONG_WAIT_THRESHOLD THEN @ + 1 ELSE @]
    /\ UNCHANGED <<mu, nw, pool, data, hold, mode, me, after, calls, wake, scan, cw>>

nsync_mu_semaphore_p(w) == nw[w].sem > 0 /\ nw' = [nw EXCEPT ![w].sem = @ - 1]

SleepP(t) ==
    /\ pc[t] = "p"
    /\ nsync_mu_semaphore_p(me[t])
    /\ Goto(t, "sleep")
    /\ UNCHANGED <<mu, pool, data, hold, local, calls, wake, scan, cw>>

----------------------------------------------------------------------------
\* nsync_mu_unlock and nsync_mu_runlock.

UnlockCall(t) ==
    /\ pc[t] = "idle" /\ hold[t] # "none"
    /\ mode' = [mode EXCEPT ![t] = hold[t]]
    /\ after' = [after EXCEPT ![t] = "idle"]
    /\ Goto(t, "unlock")
    /\ UNCHANGED <<mu, nw, pool, data, hold, clear, count, me, calls, wake, scan, cw>>

\* Mutant: leaves the waking to another reader that may not exist.
NoneToWake_Reader ==
    "MU_WAITING" \notin word.bits \/ "MU_DESIG_WAKER" \in word.bits \/ word.readers > 0

\* Nobody to wake, a designated waker is up, readers are left, or a reader
\* leaves and every waiter has a false condition.
NoneToWake ==
    \/ "MU_WAITING" \notin word.bits
    \/ "MU_DESIG_WAKER" \in word.bits
    \/ word.readers > 1
    \/ word.readers = 1 /\ "MU_ALL_FALSE" \in word.bits

ReleaseQuick(t) ==
    /\ pc[t] = "unlock" /\ NoneToWake
    /\ word' = Bits(Sub(word, mode[t]), {}, lock_type[mode[t]].clear_on_uncontended_release)
    /\ hold' = [hold EXCEPT ![t] = "none"]
    /\ Goto(t, after[t])
    /\ UNCHANGED <<waiters, nw, pool, data, local, calls, wake, scan, cw>>

NoScan == [new |-> <<>>, kept |-> <<>>, set |-> {}, testing |-> FALSE, late |-> FALSE]

\* Take the spinlock and the whole queue.  With conditions to test the lock is
\* kept, as a writer's, until the end.
Take(t) ==
    /\ pc[t] = "unlock" /\ ~NoneToWake /\ SpinFree
    /\ LET testing == "MU_CONDITION" \in word.bits
           rest == Sub(word, mode[t])
       IN  /\ word' = Bits(IF testing THEN Add(rest, "writer") ELSE rest,
                           {"MU_SPINLOCK", "MU_DESIG_WAKER"}, {})
           /\ hold' = [hold EXCEPT ![t] = IF testing THEN "writer" ELSE "none"]
           /\ scan' = [scan EXCEPT ![t] = [new |-> waiters, kept |-> <<>>, set |-> {"MU_ALL_FALSE"},
                                           testing |-> testing, late |-> testing]]
    /\ waiters' = <<>>
    /\ Goto(t, "scan")
    /\ UNCHANGED <<nw, pool, data, local, calls, wake, cw>>

wake_type(t) == IF wake[t] = <<>> THEN "none" ELSE nw[wake[t][1]].l_type

condition_true(w) == nw[w].cond => data

\* Whether this round of the scan still tests conditions.
StillTesting(t) ==
    LET p == Head(scan[t].new)
    IN  /\ scan[t].testing
        /\ wake_type(t) # "writer"
        /\ ~(wake_type(t) = "none" /\ nw[p].l_type = "writer" /\ ~nw[p].cond)

\* The positions a round looks at: it stops once it has found a writer to wake.
Ready(t) == {i \in DOMAIN scan[t].new : condition_true(scan[t].new[i])}

FirstReady(t, i) == i \in Ready(t) /\ \A j \in Ready(t) : i <= j

StopsAt(t, i) ==
    wake_type(t) = "none" /\ FirstReady(t, i) /\ nw[scan[t].new[i]].l_type = "writer"

Looked(t) ==
    IF wake_type(t) = "writer" THEN {}
    ELSE {i \in DOMAIN scan[t].new : \A j \in DOMAIN scan[t].new : StopsAt(t, j) => i <= j}

Woken(t) ==
    {i \in Looked(t) \cap Ready(t) : StopsAt(t, i) \/ nw[scan[t].new[i]].l_type = "reader"}

\* A writer that could acquire if it were first is passed over for readers.
PassedOver(t) == (Looked(t) \cap Ready(t)) \ Woken(t)

\* Mutant: forgets that the search stopped early.
set_on_release_Stopped(t) ==
    (scan[t].set \cup (IF PassedOver(t) # {} THEN {"MU_WRITER_WAITING"} ELSE {}))
        \ (IF PassedOver(t) # {} THEN {"MU_ALL_FALSE"} ELSE {})

set_on_release(t) ==
    (scan[t].set \cup (IF PassedOver(t) # {} THEN {"MU_WRITER_WAITING"} ELSE {}))
        \ (IF PassedOver(t) # {} \/ Looked(t) # DOMAIN scan[t].new THEN {"MU_ALL_FALSE"} ELSE {})

\* One round over the waiters picked up.  The spinlock is free while conditions
\* are tested, and taken again by Respin.
Scan(t) ==
    /\ pc[t] = "scan" /\ scan[t].new # <<>>
    /\ LET W == {scan[t].new[i] : i \in Woken(t)}
           left == SelectSeq(scan[t].new, LAMBDA w : w \notin W)
       IN  /\ wake' = [wake EXCEPT ![t] = @ \o SelectSeq(scan[t].new, LAMBDA w : w \in W)]
           /\ nw' = [w \in Waiter |-> IF w \in W THEN [nw[w] EXCEPT !.removed = TRUE] ELSE nw[w]]
           /\ IF StillTesting(t)
              THEN /\ word' = Bits(word, {}, {"MU_SPINLOCK"})
                   /\ scan' = [scan EXCEPT ![t].new = left, ![t].set = set_on_release(t)]
                   /\ Goto(t, "respin")
                   /\ UNCHANGED waiters
              ELSE /\ scan' = [scan EXCEPT ![t].new = waiters, ![t].kept = @ \o left,
                                           ![t].set = set_on_release(t), ![t].testing = FALSE]
                   /\ waiters' = <<>>
                   /\ UNCHANGED <<word, pc>>
    /\ UNCHANGED <<pool, data, hold, local, calls, cw>>

\* Take the spinlock again, and pick up the waiters that came in meanwhile.
Respin(t) ==
    /\ pc[t] = "respin" /\ SpinFree
    /\ word' = Bits(word, {"MU_SPINLOCK"}, {})
    /\ scan' = [scan EXCEPT ![t].kept = @ \o scan[t].new, ![t].new = waiters]
    /\ waiters' = <<>>
    /\ Goto(t, "scan")
    /\ UNCHANGED <<nw, pool, data, hold, local, calls, wake, cw>>

\* Mutant: leaves a designated waker behind when nobody was woken.
clear_on_release_Waker(t) ==
    {"MU_SPINLOCK"}
        \cup (IF "MU_ALL_FALSE" \notin scan[t].set THEN {"MU_ALL_FALSE"} ELSE {})
        \cup (IF scan[t].kept = <<>>
              THEN {"MU_WAITING", "MU_WRITER_WAITING", "MU_CONDITION", "MU_ALL_FALSE"} ELSE {})

\* Mutant: takes the waiters left for unconditional ones.
clear_on_release_Condition(t) == {"MU_SPINLOCK", "MU_CONDITION", "MU_ALL_FALSE"}

clear_on_release(t) ==
    {"MU_SPINLOCK"}
        \cup (IF wake[t] = <<>> THEN {"MU_DESIG_WAKER"} ELSE {})
        \cup (IF "MU_ALL_FALSE" \notin scan[t].set THEN {"MU_ALL_FALSE"} ELSE {})
        \cup (IF scan[t].kept = <<>>
              THEN {"MU_WAITING", "MU_WRITER_WAITING", "MU_CONDITION", "MU_ALL_FALSE"} ELSE {})

Finish(t) ==
    /\ pc[t] = "scan" /\ scan[t].new = <<>>
    /\ waiters' = scan[t].kept
    /\ word' = Bits(IF scan[t].late THEN Sub(word, "writer") ELSE word,
                    scan[t].set, clear_on_release(t))
    /\ hold' = [hold EXCEPT ![t] = "none"]
    /\ scan' = [scan EXCEPT ![t] = NoScan]
    /\ Goto(t, IF wake[t] = <<>> THEN after[t] ELSE "wake")
    /\ UNCHANGED <<nw, pool, data, local, calls, wake, cw>>

\* Wake the waiters found, each by a store to its struct and then a token.
WakeStore(t) ==
    /\ pc[t] = "wake"
    /\ nw' = [nw EXCEPT ![Head(wake[t])].waiting = FALSE]
    /\ Goto(t, "v")
    /\ UNCHANGED <<mu, pool, data, hold, local, calls, wake, scan, cw>>

WakeV(t) ==
    /\ pc[t] = "v"
    /\ nw' = nsync_mu_semaphore_v(Head(wake[t]))
    /\ wake' = [wake EXCEPT ![t] = Tail(@)]
    /\ Goto(t, IF Len(wake[t]) = 1 THEN after[t] ELSE "wake")
    /\ UNCHANGED <<mu, pool, data, hold, local, calls, scan, cw>>

----------------------------------------------------------------------------
\* nsync_mu_wait_with_deadline, for the condition that data is true.

NoCw == [first |-> FALSE, had_waiters |-> FALSE, outcome |-> "none"]

\* Prepare the struct for another wait.
Prepare(t, m, first) ==
    /\ nw' = [nw EXCEPT ![t] = [@ EXCEPT !.waiting = TRUE, !.removed = FALSE, !.l_type = m,
                                         !.cond = TRUE, !.cv_mu = FALSE]]
    /\ cw' = [cw EXCEPT ![t] = [NoCw EXCEPT !.first = first]]
    /\ Goto(t, "cond_spin")

\* With a true condition the call returns at once.
CondCall(t) ==
    /\ pc[t] = "idle" /\ hold[t] \in CondModes /\ calls < CallBudget /\ ~data
    /\ calls' = calls + 1
    /\ mode' = [mode EXCEPT ![t] = hold[t]]
    /\ after' = [after EXCEPT ![t] = "cond_loop"]
    /\ TakeWaiter(t)
    /\ Prepare(t, hold[t], TRUE)
    /\ UNCHANGED <<mu, data, hold, clear, count, me, wake, scan>>

CondSpin(t) ==
    /\ pc[t] = "cond_spin" /\ SpinFree
    /\ word' = Bits(word, {"MU_SPINLOCK", "MU_WAITING", "MU_CONDITION"}, {"MU_ALL_FALSE"})
    /\ waiters' = IF cw[t].first THEN dll_make_last(waiters, t) ELSE dll_make_first(waiters, t)
    /\ cw' = [cw EXCEPT ![t].had_waiters = "MU_WAITING" \in word.bits /\ "MU_DESIG_WAKER" \notin word.bits]
    /\ Goto(t, "cond_release")
    /\ UNCHANGED <<nw, pool, data, hold, local, calls, wake, scan>>

\* Give up the spinlock and the lock; the last holder leaves the lock to
\* nsync_mu_unlock_slow_ when there were waiters and no designated waker.
CondRelease(t) ==
    /\ pc[t] = "cond_release"
    /\ LET rest == Sub(word, mode[t])
           slow == cw[t].had_waiters /\ rest.readers = 0 /\ "MU_WLOCK" \notin rest.bits
       IN  /\ word' = Bits(IF slow THEN word ELSE rest, {}, {"MU_SPINLOCK"})
           /\ hold' = IF slow THEN hold ELSE [hold EXCEPT ![t] = "none"]
           /\ Goto(t, IF slow THEN "unlock" ELSE "cond_loop")
    /\ UNCHANGED <<waiters, nw, pool, data, local, calls, wake, scan, cw>>

\* Once its semaphore has timed out a waiter that was woken only spins for the store.
CondLoop(t) ==
    /\ pc[t] = "cond_loop"
    /\ IF nw[t].waiting
       THEN cw[t].outcome = "none" /\ Goto(t, "cond_p") /\ UNCHANGED <<local, nw>>
       ELSE EnterSlow(t, t, mode[t], TRUE, "cond_check")
    /\ UNCHANGED <<mu, pool, data, hold, calls, wake, scan, cw>>

CondP(t) ==
    /\ pc[t] = "cond_p"
    /\ nsync_mu_semaphore_p(t)
    /\ Goto(t, "cond_loop")
    /\ UNCHANGED <<mu, pool, data, hold, local, calls, wake, scan, cw>>

CondTimeout(t) ==
    /\ pc[t] = "cond_p" /\ mode[t] \in TimedModes
    /\ cw' = [cw EXCEPT ![t].outcome = "semaphore"]
    /\ Goto(t, IF nw[t].waiting THEN "cond_try" ELSE "cond_loop")
    /\ UNCHANGED <<mu, nw, pool, data, hold, local, calls, wake, scan>>

\* mu_try_acquire_after_timeout_or_cancel: spin for the spinlock and a writer
\* lock, asking readers to stay out.
TryZero == Zero(lock_type.writer.zero_to_acquire \cup {"MU_SPINLOCK"})

TryMark(t) ==
    /\ pc[t] = "cond_try" /\ ~TryZero
    /\ {"MU_WRITER_WAITING", "MU_SPINLOCK"} \cap word.bits = {}
    /\ word' = Bits(word, {"MU_WRITER_WAITING"}, {})
    /\ UNCHANGED <<waiters, nw, pool, data, pc, hold, local, calls, wake, scan, cw>>

\* Mutant: does not look at remove_count.
StillQueued_NoCount(t) == nw[t].waiting

\* Neither woken, nor taken out of the queue by a thread about to wake it.
StillQueued(t) == nw[t].waiting /\ ~nw[t].removed

\* Holding both, nobody else changes the word, and the store at the end is of
\* the word as it was before, with the lock the caller wants or with none.
TryConfirm(t) ==
    /\ pc[t] = "cond_try" /\ TryZero
    /\ IF StillQueued(t)
       THEN /\ waiters' = dll_remove(waiters, t)
            /\ nw' = [nw EXCEPT ![t].waiting = FALSE, ![t].removed = TRUE]
            /\ word' = Add(word, mode[t])
            /\ hold' = [hold EXCEPT ![t] = mode[t]]
            /\ cw' = [cw EXCEPT ![t].outcome = "ETIMEDOUT"]
            /\ Goto(t, "cond_check")
       ELSE Goto(t, "cond_loop") /\ UNCHANGED <<mu, nw, hold, cw>>
    /\ UNCHANGED <<pool, data, local, calls, wake, scan>>

\* With the lock again: return, or wait once more.
CondCheck(t) ==
    /\ pc[t] = "cond_check"
    /\ IF data \/ cw[t].outcome = "ETIMEDOUT"
       THEN /\ nsync_waiter_free_(t)
            /\ cw' = [cw EXCEPT ![t] = NoCw]
            /\ Goto(t, "idle")
            /\ UNCHANGED <<nw, after>>
       ELSE /\ after' = [after EXCEPT ![t] = "cond_loop"]
            /\ Prepare(t, mode[t], FALSE)
            /\ UNCHANGED pool
    /\ UNCHANGED <<mu, data, hold, mode, clear, count, me, calls, wake, scan>>

\* The client changes what the lock protects.
Write(t) ==
    /\ pc[t] = "idle" /\ hold[t] = "writer" /\ CondModes # {}
    /\ data' = ~data
    /\ UNCHANGED <<mu, nw, pool, pc, hold, local, calls, wake, scan, cw>>

----------------------------------------------------------------------------
Init ==
    /\ word = [bits |-> {}, readers |-> 0] /\ waiters = <<>>
    /\ nw = [w \in Waiter |-> [waiting |-> FALSE, sem |-> 0, l_type |-> "writer",
                               cond |-> FALSE, cv_mu |-> FALSE, removed |-> FALSE]]
    /\ inuse = {} /\ free_waiters = <<>> /\ data = FALSE
    /\ pc = [t \in Thread |-> "idle"] /\ hold = [t \in Thread |-> "none"]
    /\ mode = [t \in Thread |-> "writer"] /\ clear = [t \in Thread |-> FALSE]
    /\ count = [t \in Thread |-> 0] /\ me = [t \in Thread |-> t]
    /\ after = [t \in Thread |-> "idle"] /\ calls = 0
    /\ wake = [t \in Thread |-> <<>>] /\ scan = [t \in Thread |-> NoScan]
    /\ cw = [t \in Thread |-> NoCw]

\* Locking and unlocking: the steps of a call, and the unlock every lock leads to.
LockStep(t) ==
    \/ Acquire(t) \/ QueueSpin(t) \/ Queue(t) \/ Sleep(t) \/ SleepP(t)
    \/ UnlockCall(t) \/ ReleaseQuick(t) \/ Take(t) \/ Scan(t) \/ Respin(t)
    \/ Finish(t) \/ WakeStore(t) \/ WakeV(t)

LockCall(t) == \E m \in Modes : LockFast(t, m) \/ LockSlow(t, m)

\* Conditional critical sections, and the client's writes to what they wait for.
CondStep(t) ==
    \/ CondCall(t) \/ CondSpin(t) \/ CondRelease(t) \/ CondLoop(t) \/ CondP(t)
    \/ CondTimeout(t) \/ TryMark(t) \/ TryConfirm(t) \/ CondCheck(t) \/ Write(t)

Next == \E t \in Thread : LockStep(t) \/ LockCall(t) \/ CondStep(t)

Spec == Init /\ [][Next]_vars

----------------------------------------------------------------------------
(***************************************************************************)
(* Properties.                                                             *)
(***************************************************************************)
SpinHolders == {t \in Thread : pc[t] \in {"queue", "scan", "cond_release", "xfer"}}
Listed(s) == {s[i] : i \in DOMAIN s}
Scanning == {t \in Thread : pc[t] \in {"scan", "respin"}}
Private == UNION {Listed(scan[t].new) \cup Listed(scan[t].kept) : t \in Scanning}
Queued == Listed(waiters) \cup Private
\* Waiters a thread took from the queue and has still to wake.
ToWake(t) == IF pc[t] = "v" THEN Tail(wake[t]) ELSE wake[t]

\* Every field has the values that the struct and the locals can hold.
TypeOK ==
    /\ word.bits \subseteq Bit /\ word.readers \in 0..Cardinality(Thread)
    /\ Listed(waiters) \subseteq Waiter
    /\ \A w \in Waiter : nw[w].sem \in 0..SemMax
    /\ inuse \subseteq Waiter /\ Listed(free_waiters) \subseteq Spare \ inuse
    /\ \A t \in Thread : hold[t] \in {"none", "reader", "writer"} /\ me[t] \in Waiter

\* A writer excludes everybody, and the word tells who holds the lock and
\* whether its spinlock is held.
WordTellsHolders ==
    LET writers == {t \in Thread : hold[t] = "writer"}
        readers == {t \in Thread : hold[t] = "reader"}
    IN  /\ Cardinality(writers) <= 1 /\ (writers # {} => readers = {})
        /\ "MU_WLOCK" \in word.bits <=> writers # {}
        /\ word.readers = Cardinality(readers)
        /\ Cardinality(SpinHolders) = IF SpinFree THEN 0 ELSE 1

\* A struct with nw.waiting set is in exactly one list: the queue, the lists of
\* the thread that scans it, or the wake list of one thread, so that it is
\* neither lost nor woken twice for one wait.
OneList ==
    LET own(t) == scan[t].new \o scan[t].kept \o ToWake(t)
    IN  /\ TypeOK
        /\ Cardinality(Listed(waiters)) = Len(waiters)
        /\ \A w \in Listed(waiters) : nw[w].waiting
        /\ \A t \in Thread :
              /\ Cardinality(Listed(own(t))) = Len(own(t))
              /\ \A w \in Listed(own(t)) : nw[w].waiting /\ w \notin Listed(waiters)
              /\ \A u \in Thread \ {t} : Listed(own(t)) \cap Listed(own(u)) = {}

\* MU_CONDITION is never missing: no condition is evaluated by a thread that
\* does not hold the lock, which nsync_mu_unlock_slow_ would panic about.
ConditionMarked ==
    /\ (\E w \in Queued : nw[w].cond) => "MU_CONDITION" \in word.bits
    /\ \A t \in Scanning :
           (pc[t] = "scan" /\ scan[t].new # <<>> /\ ~StillTesting(t)) =>
               \A i \in Looked(t) : ~nw[scan[t].new[i]].cond

\* Threads that were woken and neither hold the lock nor sleep again.
Awake ==
    {t \in Thread :
        \/ pc[t] = "lock" /\ clear[t]
        \/ pc[t] \in {"sleep", "p"} /\ me[t] \notin Queued
        \/ /\ after[t] \in {"cond_loop", "cv_loop"} /\ ~nw[t].cv_mu /\ t \notin Queued
           /\ pc[t] \in {"wake", "v", "cond_loop", "cond_p", "cond_try", "cv_loop", "cv_p"}}

\* MU_DESIG_WAKER is set only while a former waiter is on its way to the lock,
\* or a thread looks for one to wake.
WakerExists == "MU_DESIG_WAKER" \in word.bits => Awake # {} \/ Scanning # {}

\* MU_ALL_FALSE is set only while every waiter in the queue has a false condition,
\* or a writer may be changing them.
AllFalseTrue ==
    ("MU_ALL_FALSE" \in word.bits /\ "MU_WLOCK" \notin word.bits) =>
        \A w \in Queued : ~condition_true(w)

\* The waiters that could be let in now, though no thread has the lock or is on
\* its way to it, woken or timed out, to wake them when it unlocks.
Stranded ==
    {w \in Listed(waiters) :
        /\ condition_true(w)
        /\ word.readers = 0 /\ {"MU_WLOCK", "MU_SPINLOCK"} \cap word.bits = {}
        /\ Awake = {} /\ \A t \in Thread : pc[t] # "cond_try"}

\* nsync_mu_lock blocks only until the lock is free: no writer is left in the
\* queue of a lock that nobody has.
WriterNotStranded == \A w \in Stranded : nw[w].l_type # "writer"

\* Nobody is, writer or reader.
NobodyStranded == Stranded = {}

\* A thread that has been woken does not stay asleep: its semaphore has a token,
\* or the thread that woke it is about to put one there.
WokenHasToken ==
    \A t \in Thread :
        LET w == IF pc[t] = "p" THEN me[t] ELSE t
        IN  (pc[t] \in {"p", "cond_p", "cv_p"} /\ ~nw[w].waiting) =>
                \/ nw[w].sem > 0
                \/ \E u \in Thread : pc[u] = "v" /\ Head(wake[u]) = w
=============================================================================
