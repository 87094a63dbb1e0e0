---------------------------- MODULE ProcTracker ----------------------------
(***************************************************************************)
(* The subprocess tracker of libc/proc/proc.c and wait4() on Windows: the  *)
(* worker thread that waits on the handles of all children, the threads    *)
(* that call wait4(), and the objects that both share under __proc.lock.   *)
(*                                                                         *)
(* A handle stands for the process it was opened for; an execve() ends the *)
(* process and leaves the handle of the next one in its exit code.  Handle *)
(* numbers are not used again, so that the use of a closed one can be seen.*)
(***************************************************************************)
EXTENDS Integers, Sequences, FiniteSets, Dll

CONSTANTS
    Caller,            \* threads that call wait4() and kill()
    NoOne,             \* the holder of a free lock
    Slots,             \* handles the worker waits on at once (64)
    PoolSize,          \* objects that need no malloc() (8)
    SigchldIgnored,    \* the values "ignored" may have, a subset of BOOLEAN
    Calls,             \* bound: the calls that are made besides a blocking wait4()
    MaxHandle,         \* bound: processes ever created
    CallBudget,        \* bound: calls of wait4() and kill()
    InterruptBudget    \* bound: signals for threads in wait4(), unless SIGCHLD is ignored

ASSUME ProcAssumption ==
    /\ IsFiniteSet(Caller)
    /\ NoOne \notin Caller /\ "worker" \notin Caller \cup {NoOne}
    /\ Slots \in Nat \ {0}
    /\ PoolSize \in Nat \ {0}
    /\ SigchldIgnored \subseteq BOOLEAN
    /\ Calls \subseteq {"nohang", "kill", "failure"}
    /\ MaxHandle \in Nat
    /\ CallBudget \in Nat
    /\ InterruptBudget \in Nat

VARIABLES
    ignored,     \* is SIGCHLD ignored, or SA_NOCLDWAIT set?
    lock,        \* holder of __proc.lock over several steps
    list, zombies, free,   \* lists of __proc, first to last
    undead,      \* the members of the list __proc.undead, which is never walked
    used,        \* objects taken from the pool or malloc() so far
    status, waiters, pid, handle,  \* fields of struct Proc
    anywaiters,  \* __proc.waiters
    onbirth,     \* event: a process was added (resets itself)
    haszombies,  \* event: there are zombies (reset by hand)
    state,       \* the process behind each handle
    successor,   \* the handle in the exit code of a process that called execve
    open,        \* handles that are open
    spc, sobj,   \* a thread in posix_spawn() or fork(), and its object
    wpc, wobj, whandle, wi, \* the worker: where it is, objects[], handles[], the result i
    pc, want, nohang, pr, hwait, woke,  \* each caller: where it is, its locals
    sem,         \* callers whose pt_semaphore was released
    reported,    \* how often wait4() returned each process
    pending,     \* callers that have a signal to handle
    calls, interrupts

lists == <<list, zombies, undead, free, used>>
objects == <<status, waiters, pid, handle>>
events == <<onbirth, haszombies>>
kernel == <<state, successor, open>>
worker == <<wpc, wobj, whandle, wi>>
locals == <<want, nohang, pr, hwait, woke>>
caller == <<pc, locals, sem, reported>>
budget == <<pending, calls, interrupts>>
spawner == <<spc, sobj>>
vars == <<ignored, lock, lists, objects, anywaiters, events, kernel, spawner, worker, caller, budget>>

Worker == "worker"
Handle == 1..MaxHandle
Object == 1..(PoolSize + MaxHandle)   \* no run needs more
AnyChild == -1                  \* wait4() for any child

Listed(s) == {s[i] : i \in DOMAIN s}

\* The elements S of s in some order.
Arrangements(S, s) == {r \in UNION {[1..n -> S] : n \in 0..Len(s)} : Listed(r) = S}

\* In the order of s, and the last one first: sets with one member.
InOrder(S, s) ==
    {r \in Arrangements(S, s) :
        \A i, j \in DOMAIN r : i < j => Position(s, r[i]) < Position(s, r[j])}
LastFirst(S, s) ==
    {r \in Arrangements(S, s) :
        \A i, j \in DOMAIN r : i < j => Position(s, r[i]) > Position(s, r[j])}

Init ==
    /\ ignored \in SigchldIgnored
    /\ lock = NoOne
    /\ list = <<>> /\ zombies = <<>> /\ undead = {} /\ free = <<>>
    /\ used = 0
    /\ status = [o \in Object |-> "ALIVE"]
    /\ waiters = [o \in Object |-> 0]
    /\ pid = [o \in Object |-> 0]
    /\ handle = [o \in Object |-> 0]
    /\ anywaiters = 0
    /\ onbirth = FALSE /\ haszombies = FALSE
    /\ state = [h \in Handle |-> "none"]
    /\ successor = [h \in Handle |-> 0]
    /\ open = {}
    /\ spc = "idle" /\ sobj = 0
    /\ wpc = "assemble" /\ wobj = <<>> /\ whandle = <<>> /\ wi = 0
    /\ pc = [t \in Caller |-> "idle"]
    /\ want = [t \in Caller |-> AnyChild]
    /\ nohang = [t \in Caller |-> FALSE]
    /\ pr = [t \in Caller |-> 0]
    /\ hwait = [t \in Caller |-> 0]
    /\ woke = [t \in Caller |-> 0]
    /\ sem = {}
    /\ reported = [h \in Handle |-> 0]
    /\ pending = {}
    /\ calls = 0
    /\ interrupts = IF ignored THEN InterruptBudget ELSE 0

Goto(t, l) == pc' = [pc EXCEPT ![t] = l]

\* The call is over and its locals are gone.
Return(t) ==
    /\ Goto(t, "idle")
    /\ want' = [want EXCEPT ![t] = AnyChild]
    /\ nohang' = [nohang EXCEPT ![t] = FALSE]
    /\ pr' = [pr EXCEPT ![t] = 0]
    /\ hwait' = [hwait EXCEPT ![t] = 0]
    /\ woke' = [woke EXCEPT ![t] = 0]

\* WaitForMultipleObjects returns for a process that has ended.
Signaled(h) == state[h] \in {"exited", "execed"}

----------------------------------------------------------------------------
(***************************************************************************)
(* Children: posix_spawn() and fork() add them; they exit or execve().     *)
(***************************************************************************)
NewHandle == CHOOSE h \in Handle : state[h] = "none"

\* __proc_new: the pool first, then the free list, then malloc().
__proc_new == IF used < PoolSize \/ free = <<>> THEN used + 1 ELSE free[1]

\* The object is cleared, and filled in if a process p was started.
Allocate(o, p) ==
    /\ used' = IF o > used THEN o ELSE used
    /\ status' = [status EXCEPT ![o] = "ALIVE"]
    /\ waiters' = [waiters EXCEPT ![o] = 0]
    /\ pid' = [pid EXCEPT ![o] = p]
    /\ handle' = [handle EXCEPT ![o] = p]

\* The process runs before its object is in the list.
Spawn ==
    /\ spc = "idle" /\ lock = NoOne
    /\ \E h \in Handle : state[h] = "none"
    /\ Allocate(__proc_new, NewHandle)
    /\ free' = dll_remove(free, __proc_new)
    /\ state' = [state EXCEPT ![NewHandle] = "running"]
    /\ open' = open \cup {NewHandle}
    /\ spc' = "launched"
    /\ sobj' = __proc_new
    /\ UNCHANGED <<lock, list, zombies, undead, anywaiters, events, successor, worker, caller,
                   budget>>

\* No process could be started: the object goes to the free list.
SpawnFail ==
    /\ "failure" \in Calls
    /\ spc = "idle" /\ lock = NoOne
    /\ calls < CallBudget
    /\ calls' = calls + 1
    /\ Allocate(__proc_new, 0)
    /\ free' = dll_make_first(dll_remove(free, __proc_new), __proc_new)
    /\ UNCHANGED <<lock, list, zombies, undead, anywaiters, events, kernel, spawner, worker,
                   caller, pending, interrupts>>

\* Mutant: forgets to tell the worker.
__proc_add_NoEvent ==
    /\ lock = NoOne
    /\ spc = "launched"
    /\ list' = dll_make_first(list, sobj)
    /\ spc' = "idle"
    /\ sobj' = 0
    /\ UNCHANGED <<lock, zombies, undead, free, used, objects, anywaiters, events, kernel,
                   worker, caller, budget>>

__proc_add ==
    /\ lock = NoOne
    /\ spc = "launched"
    /\ list' = dll_make_first(list, sobj)
    /\ onbirth' = TRUE
    /\ spc' = "idle"
    /\ sobj' = 0
    /\ UNCHANGED <<lock, zombies, undead, free, used, objects, anywaiters, haszombies, kernel,
                   worker, caller, budget>>

Exit(h) ==
    /\ state[h] = "running"
    /\ state' = [state EXCEPT ![h] = "exited"]
    /\ UNCHANGED <<lock, lists, objects, anywaiters, events, successor, open, spawner,
                   worker, caller, budget>>

Execve(h) ==
    /\ state[h] = "running"
    /\ \E g \in Handle : state[g] = "none"
    /\ state' = [state EXCEPT ![h] = "execed", ![NewHandle] = "running"]
    /\ successor' = [successor EXCEPT ![h] = NewHandle]
    /\ open' = open \cup {NewHandle}
    /\ UNCHANGED <<lock, lists, objects, anywaiters, events, spawner, worker, caller, budget>>

----------------------------------------------------------------------------
(***************************************************************************)
(* What the worker and wait4() do to an object under the lock.             *)
(***************************************************************************)
\* Mutant: drops children although SIGCHLD is not ignored.
AutoReaped_Always(o, iswait4) == ~iswait4 /\ waiters[o] = 1 /\ anywaiters = 0

\* Does the worker, which still counts as a waiter, leave no zombie?
AutoReaped(o, iswait4) == ~iswait4 /\ waiters[o] = 1 /\ anywaiters = 0 /\ ignored

\* Mutant: the object stays in the list of living processes.
Zombify_Kept(o) ==
    /\ status' = [status EXCEPT ![o] = "ZOMBIE"]
    /\ zombies' = dll_make_first(zombies, o)
    /\ haszombies' = TRUE
    /\ UNCHANGED <<list, free, handle, open>>

Zombify(o) ==
    /\ status' = [status EXCEPT ![o] = "ZOMBIE"]
    /\ list' = dll_remove(list, o)
    /\ zombies' = dll_make_first(zombies, o)
    /\ haszombies' = TRUE
    /\ UNCHANGED <<free, handle, open>>

AutoReap(o) ==
    /\ list' = dll_remove(list, o)
    /\ free' = dll_make_first(free, o)
    /\ open' = open \ {handle[o]}
    /\ UNCHANGED <<zombies, status, handle, haszombies>>

\* Mutant: leaves the old handle open.
Adopt_Open(o) ==
    /\ handle' = [handle EXCEPT ![o] = successor[handle[o]]]
    /\ UNCHANGED <<list, zombies, free, status, haszombies, open>>

\* A child that called execve() lives on behind the handle in its exit code.
Adopt(o) ==
    /\ open' = open \ {handle[o]}
    /\ handle' = [handle EXCEPT ![o] = successor[handle[o]]]
    /\ UNCHANGED <<list, zombies, free, status, haszombies>>

Exited(o) == state[handle[o]] = "exited"

\* __proc_harvest, after the caller's own --waiters.
__proc_harvest(o, iswait4) ==
    \/ /\ state[handle[o]] = "running"
       /\ UNCHANGED <<list, zombies, free, status, handle, haszombies, open>>
    \/ state[handle[o]] = "execed" /\ Adopt(o)
    \/ Exited(o) /\ AutoReaped(o, iswait4) /\ AutoReap(o)
    \/ Exited(o) /\ ~AutoReaped(o, iswait4) /\ Zombify(o)

\* The objects of S that lose their last waiter, after their process was reaped.
Deserted(S) == {o \in S : waiters[o] = 1 /\ status[o] = "UNDEAD"}

\* __proc_free on the objects of s, the last one first.
__proc_free(s) ==
    /\ undead' = undead \ Listed(s)
    /\ free' = s \o free
    /\ open' = open \ {handle[o] : o \in Listed(s)}

\* Gives up one claim on each object of S, in the order of s.
Release(S, s) ==
    /\ waiters' = [o \in Object |-> IF o \in S THEN waiters[o] - 1 ELSE waiters[o]]
    /\ \E d \in LastFirst(Deserted(S), s) : __proc_free(d)

\* Mutant: never resets the event.
ResetZombies_Never == UNCHANGED haszombies

ResetZombies == haszombies' = (haszombies /\ zombies' # <<>>)

\* __proc_reap: the caller gets the status of a zombie.
__proc_reap(t, o) ==
    /\ zombies' = dll_remove(zombies, o)
    /\ ResetZombies
    /\ IF waiters[o] # 0
       THEN /\ status' = [status EXCEPT ![o] = "UNDEAD"]
            /\ undead' = undead \cup {o}
            /\ UNCHANGED <<free, open>>
       ELSE /\ free' = dll_make_first(free, o)
            /\ open' = open \ {handle[o]}
            /\ UNCHANGED <<status, undead>>
    /\ Return(t)
    /\ reported' = [reported EXCEPT ![pid[o]] = @ + 1]

----------------------------------------------------------------------------
(***************************************************************************)
(* __proc_worker.                                                          *)
(***************************************************************************)
Unwatched(k) == {o \in Listed(SubSeq(list, 1, k)) : waiters[o] = 0}

\* It looks at k elements: up to the one that fills its slots.
Visited(k) ==
    /\ k = Len(list) \/ Cardinality(Unwatched(k)) = Slots
    /\ \A j \in 0..(k - 1) : Cardinality(Unwatched(j)) < Slots

WorkerAssemble ==
    /\ wpc = "assemble"
    /\ lock = NoOne
    /\ \E k \in 0..Len(list) :
          /\ Visited(k)
          /\ wobj' \in InOrder(Unwatched(k), list)
          /\ waiters' = [o \in Object |-> IF o \in Unwatched(k) THEN 1 ELSE waiters[o]]
          /\ list' = SubSeq(list, k + 1, Len(list)) \o SubSeq(list, 1, k)
    /\ whandle' = [i \in DOMAIN wobj' |-> handle[wobj'[i]]]
    /\ wpc' = "enter"
    /\ UNCHANGED <<lock, zombies, undead, free, used, status, pid, handle, anywaiters, events,
                   kernel, spawner, wi, caller, budget>>

\* WaitForMultipleObjects fails if a handle was closed since: _Exit(157).
WorkerEnter ==
    /\ wpc = "enter"
    /\ wpc' = IF Listed(whandle) \subseteq open THEN "wait" ELSE "panic"
    /\ UNCHANGED <<lock, lists, objects, anywaiters, events, kernel, spawner, wobj, whandle, wi,
                   caller, budget>>

\* The first process that has ended; 0 stands for onbirth, which comes last
\* and is waited on when a slot is left, and for the timeout of 5 ms that is
\* used when none is.
WorkerWake ==
    /\ wpc = "wait"
    /\ \/ \E i \in DOMAIN whandle :
             /\ Signaled(whandle[i])
             /\ \A j \in 1..(i - 1) : ~Signaled(whandle[j])
             /\ wi' = i
             /\ UNCHANGED onbirth
       \/ /\ \A j \in DOMAIN whandle : ~Signaled(whandle[j])
          /\ onbirth \/ Len(whandle) = Slots
          /\ wi' = 0
          /\ onbirth' = (onbirth /\ Len(whandle) = Slots)
    /\ wpc' = "woke"
    /\ UNCHANGED <<lock, lists, objects, anywaiters, haszombies, kernel, spawner, wobj, whandle,
                   caller, budget>>

Others == {wobj[j] : j \in DOMAIN wobj \ {wi}}

\* Gives up the claim on every object but the one that woke it.
WorkerRelease ==
    /\ wpc = "woke"
    /\ lock = NoOne
    /\ Release(Others, wobj)
    /\ wobj' = IF wi = 0 THEN <<>> ELSE <<wobj[wi]>>
    /\ whandle' = <<>>
    /\ wi' = 0
    /\ lock' = IF wi = 0 THEN NoOne ELSE Worker
    /\ wpc' = IF wi = 0 THEN "assemble" ELSE "change"
    /\ UNCHANGED <<list, zombies, used, status, pid, handle, anywaiters, events, state, successor,
                   spawner, caller, budget>>

\* Is the child a zombie that no one waits for?
Unclaimed(o) == status'[o] = "ZOMBIE" /\ waiters'[o] = 0 /\ anywaiters = 0

\* Handles the change of the object that woke it.
WorkerChange ==
    /\ wpc = "change"
    /\ LET o == wobj[1]
       IN \/ /\ status[o] = "ALIVE"
             /\ waiters' = [waiters EXCEPT ![o] = @ - 1]
             /\ __proc_harvest(o, FALSE)
             /\ wpc' = IF Unclaimed(o) THEN "raise" ELSE "assemble"
             /\ UNCHANGED undead
          \/ /\ status[o] # "ALIVE"
             /\ Release({o}, wobj)
             /\ wpc' = "assemble"
             /\ UNCHANGED <<list, zombies, status, handle, haszombies>>
    /\ wobj' = <<>>
    /\ lock' = NoOne
    /\ UNCHANGED <<used, pid, anywaiters, onbirth, state, successor, spawner, whandle, wi,
                   caller, budget>>

\* __sig_generate(SIGCHLD), without the lock.
WorkerRaise ==
    /\ wpc = "raise"
    /\ wpc' = "assemble"
    /\ UNCHANGED <<lock, lists, objects, anywaiters, events, kernel, spawner, wobj, whandle, wi,
                   caller, budget>>

----------------------------------------------------------------------------
(***************************************************************************)
(* __proc_wait: wait4() for one child or for any.                          *)
(***************************************************************************)
WaitCall(t, p, b) ==
    /\ pc[t] = "idle"
    /\ b => "nohang" \in Calls
    /\ calls < CallBudget
    /\ calls' = calls + 1
    /\ want' = [want EXCEPT ![t] = p]
    /\ nohang' = [nohang EXCEPT ![t] = b]
    /\ Goto(t, "check")
    /\ UNCHANGED <<lock, lists, objects, anywaiters, events, kernel, spawner, worker, pr, hwait,
                   woke, sem, reported, pending, interrupts>>

\* A signal for the thread: wakes its semaphore if it is inside the wait.
Interrupt(t) ==
    /\ interrupts < InterruptBudget
    /\ pc[t] # "idle"
    /\ interrupts' = interrupts + 1
    /\ pending' = pending \cup {t}
    /\ sem' = IF pc[t] = "blocked" THEN sem \cup {t} ELSE sem
    /\ UNCHANGED <<lock, lists, objects, anywaiters, events, kernel, spawner, worker, pc, want,
                   nohang, pr, hwait, woke,  reported, calls>>

\* _check_cancel and __sig_get: the call returns, or a handler with SA_RESTART ran.
CheckSignals(t) ==
    /\ pc[t] = "check"
    /\ pending' = pending \ {t}
    /\ \/ t \in pending /\ Return(t)
       \/ Goto(t, "zombies") /\ UNCHANGED locals
    /\ UNCHANGED <<lock, lists, objects, anywaiters, events, kernel, spawner, worker, sem, reported, calls, interrupts>>

\* From here to the unlock at CheckForZombies, with the lock or when it is free.
Matching(t) == {i \in DOMAIN zombies : want[t] \in {AnyChild, pid[zombies[i]]}}

AtZombies(t) == pc[t] = "zombies" /\ lock \in {NoOne, t}

__proc_check(t) ==
    /\ AtZombies(t)
    /\ \E i \in Matching(t) : /\ \A j \in Matching(t) : i <= j
                              /\ __proc_reap(t, zombies[i])
    /\ lock' = NoOne
    /\ UNCHANGED <<list, used, waiters, pid, handle, anywaiters, onbirth, state, successor,
                   spawner, worker, sem, budget>>

NothingToWaitFor(t) ==
    /\ AtZombies(t)
    /\ Matching(t) = {}
    /\ nohang[t] \/ list = <<>>
    /\ Return(t)
    /\ lock' = NoOne
    /\ UNCHANGED <<lists, objects, anywaiters, events, kernel, spawner, worker, sem, reported, budget>>

\* Where the search of the list ends: at the child, else at the last element.
Searched(t) ==
    IF \E o \in Listed(list) : pid[o] = want[t]
    THEN CHOOSE o \in Listed(list) : pid[o] = want[t]
    ELSE list[Len(list)]

\* Mutant: does not count the waiter.
Claim_None(o) == UNCHANGED waiters

Claim(o) == waiters' = [waiters EXCEPT ![o] = @ + 1]

Register(t) ==
    /\ AtZombies(t)
    /\ Matching(t) = {} /\ ~nohang[t] /\ list # <<>>
    /\ \/ /\ want[t] = AnyChild
          /\ anywaiters' = anywaiters + 1
          /\ UNCHANGED <<waiters, pr, hwait>>
       \/ /\ want[t] # AnyChild
          /\ Claim(Searched(t))
          /\ pr' = [pr EXCEPT ![t] = Searched(t)]
          /\ hwait' = [hwait EXCEPT ![t] = handle[Searched(t)]]
          /\ UNCHANGED anywaiters
    /\ lock' = NoOne
    /\ Goto(t, "enter")
    /\ UNCHANGED <<lists, status, pid, handle, events, kernel, spawner, worker, want, nohang,
                   woke,  sem, reported, budget>>

\* Publishes the semaphore and waits; the wait fails on a closed handle.
Enter(t) ==
    /\ pc[t] = "enter"
    /\ IF want[t] = AnyChild \/ hwait[t] \in open
       THEN Goto(t, "blocked") /\ UNCHANGED woke
       ELSE Goto(t, "woke") /\ woke' = [woke EXCEPT ![t] = -1]
    /\ UNCHANGED <<lock, lists, objects, anywaiters, events, kernel, spawner, worker, want,
                   nohang, pr, hwait,  sem, reported, budget>>

\* Is hWaitObject signaled?
Awaited(t) == IF want[t] = AnyChild THEN haszombies ELSE Signaled(hwait[t])

Wake(t) ==
    /\ pc[t] = "blocked"
    /\ Awaited(t) \/ t \in sem
    /\ woke' = [woke EXCEPT ![t] = IF Awaited(t) THEN 0 ELSE 1]
    /\ sem' = sem \ {t}
    /\ Goto(t, "woke")
    /\ UNCHANGED <<lock, lists, objects, anywaiters, events, kernel, spawner, worker, want,
                   nohang, pr, hwait,  reported, budget>>

\* After the wait, with the lock: a wait() style wakeup.
WokeAny(t) ==
    /\ pc[t] = "woke" /\ lock = NoOne
    /\ woke[t] = 0 /\ want[t] = AnyChild
    /\ anywaiters' = anywaiters - 1
    /\ lock' = t
    /\ Goto(t, "zombies")
    /\ UNCHANGED <<lists, objects, events, kernel, spawner, worker, locals, sem, reported, budget>>

Unclaim(t) ==
    \/ /\ want[t] = AnyChild
       /\ anywaiters' = anywaiters - 1
       /\ UNCHANGED <<waiters, undead, free, open>>
    \/ /\ want[t] # AnyChild
       /\ Release({pr[t]}, <<pr[t]>>)
       /\ UNCHANGED anywaiters

\* The semaphore was released, or the wait failed.
WokeKilled(t) ==
    /\ pc[t] = "woke" /\ lock = NoOne
    /\ woke[t] # 0
    /\ Unclaim(t)
    /\ IF woke[t] = 1
       THEN Goto(t, "check") /\ UNCHANGED locals
       ELSE Return(t)
    /\ UNCHANGED <<lock, list, zombies, used, status, pid, handle, events, state, successor,
                   spawner, worker, sem, reported, budget>>

\* The process ended: whoever is first to know harvests it.
WokeExit(t) ==
    /\ pc[t] = "woke" /\ lock = NoOne
    /\ woke[t] = 0 /\ want[t] # AnyChild
    /\ waiters' = [waiters EXCEPT ![pr[t]] = @ - 1]
    /\ IF status[pr[t]] = "ALIVE"
       THEN __proc_harvest(pr[t], TRUE)
       ELSE UNCHANGED <<list, zombies, free, status, handle, haszombies, open>>
    /\ lock' = t
    /\ Goto(t, "status")
    /\ UNCHANGED <<undead, used, pid, anywaiters, onbirth, state, successor, spawner, worker,
                   locals, sem, reported, budget>>

\* It only called execve(): unlock, and wait again.
StatusAlive(t) ==
    /\ pc[t] = "status" /\ status[pr[t]] = "ALIVE"
    /\ lock' = NoOne
    /\ Goto(t, "unlocked")
    /\ UNCHANGED <<lists, objects, anywaiters, events, kernel, spawner, worker, locals, sem, reported, budget>>

\* Reads the waiters after the unlock, and has the worker look if there are none.
NotifyWorker(t) ==
    /\ pc[t] = "unlocked"
    /\ onbirth' = (onbirth \/ waiters[pr[t]] = 0)
    /\ Goto(t, "check")
    /\ UNCHANGED <<lock, lists, objects, anywaiters, haszombies, kernel, spawner, worker, locals, sem, reported, budget>>

StatusZombie(t) ==
    /\ pc[t] = "status" /\ status[pr[t]] = "ZOMBIE"
    /\ __proc_reap(t, pr[t])
    /\ lock' = NoOne
    /\ UNCHANGED <<list, used, waiters, pid, handle, anywaiters, onbirth, state, successor,
                   spawner, worker, sem, budget>>

\* Mutant: waits again, for a child that is gone.
StatusUndead_Loops(t) ==
    /\ pc[t] = "status" /\ status[pr[t]] = "UNDEAD"
    /\ IF waiters[pr[t]] = 0
       THEN __proc_free(<<pr[t]>>)
       ELSE UNCHANGED <<undead, free, open>>
    /\ lock' = NoOne
    /\ Goto(t, "check")
    /\ UNCHANGED <<list, zombies, used, objects, anywaiters, events, state, successor, spawner,
                   worker, locals, sem, reported, budget>>

\* Another thread was given the status.
StatusUndead(t) ==
    /\ pc[t] = "status" /\ status[pr[t]] = "UNDEAD"
    /\ IF waiters[pr[t]] = 0
       THEN __proc_free(<<pr[t]>>)
       ELSE UNCHANGED <<undead, free, open>>
    /\ lock' = NoOne
    /\ Return(t)
    /\ UNCHANGED <<list, zombies, used, objects, anywaiters, events, state, successor, spawner,
                   worker, sem, reported, budget>>

----------------------------------------------------------------------------
(***************************************************************************)
(* kill(): TerminateProcess on every child under the lock, or on the handle*)
(* that __proc_search found, after the lock is released.                   *)
(***************************************************************************)
Terminated(S) == state' = [h \in Handle |-> IF h \in S /\ state[h] = "running"
                                            THEN "exited" ELSE state[h]]

KillAll(t) ==
    /\ "kill" \in Calls
    /\ pc[t] = "idle" /\ lock = NoOne
    /\ calls < CallBudget
    /\ calls' = calls + 1
    /\ Terminated({handle[o] : o \in Listed(list)})
    /\ UNCHANGED <<lock, lists, objects, anywaiters, events, successor, open, spawner, worker,
                   caller, pending, interrupts>>

__proc_search(t, o) ==
    /\ "kill" \in Calls
    /\ pc[t] = "idle" /\ lock = NoOne
    /\ calls < CallBudget
    /\ calls' = calls + 1
    /\ o \in Listed(list)
    /\ hwait' = [hwait EXCEPT ![t] = handle[o]]
    /\ Goto(t, "kill")
    /\ UNCHANGED <<lock, lists, objects, anywaiters, events, kernel, spawner, worker, want,
                   nohang, pr, woke, sem, reported, pending, interrupts>>

\* TerminateProcess has no effect on a handle that was closed.
KillUse(t) ==
    /\ pc[t] = "kill"
    /\ Terminated({hwait[t]} \cap open)
    /\ Return(t)
    /\ UNCHANGED <<lock, lists, objects, anywaiters, events, successor, open, spawner, worker,
                   sem, reported, budget>>

----------------------------------------------------------------------------
WorkerStep ==
    \/ WorkerAssemble \/ WorkerEnter \/ WorkerWake \/ WorkerRelease \/ WorkerChange \/ WorkerRaise

CallerStep(t) ==
    \/ CheckSignals(t) \/ __proc_check(t) \/ NothingToWaitFor(t) \/ Register(t) \/ Enter(t)
    \/ Wake(t) \/ WokeAny(t) \/ WokeKilled(t) \/ WokeExit(t) \/ StatusAlive(t)
    \/ NotifyWorker(t) \/ StatusZombie(t) \/ StatusUndead(t) \/ KillUse(t)

Call(t) ==
    \/ \E p \in Handle \cup {AnyChild}, b \in BOOLEAN : WaitCall(t, p, b)
    \/ KillAll(t)
    \/ \E o \in Object : __proc_search(t, o)
    \/ Interrupt(t)

\* _Exit(157) ends everything; until then the program leaves the action of
\* SIGCHLD as it is.
Going == wpc # "panic" /\ UNCHANGED ignored

Next ==
    /\ Going
    /\ \/ WorkerStep
       \/ Spawn \/ SpawnFail \/ __proc_add
       \/ \E h \in Handle : Exit(h) \/ Execve(h)
       \/ \E t \in Caller : CallerStep(t) \/ Call(t)

Spec == Init /\ [][Next]_vars

\* The scheduler runs the worker and every thread inside a call, and whoever waits
\* for the lock gets it.
Fairness ==
    /\ WF_wpc(Going /\ WorkerStep)
    /\ \A t \in Caller : WF_pc(Going /\ CallerStep(t))

----------------------------------------------------------------------------
(***************************************************************************)
(* Properties.                                                             *)
(***************************************************************************)
Launched == IF spc = "launched" THEN {sobj} ELSE {}
Claims(t) == pc[t] \in {"enter", "blocked", "woke"}
Tracked == Listed(list) \cup Listed(zombies) \cup undead

\* Every field has the values that struct Proc, the events and the locals can hold.
TypeOK ==
    /\ ignored \in BOOLEAN
    /\ lock \in Caller \cup {NoOne, Worker}
    /\ \A s \in {list, zombies, free, wobj} : Listed(s) \subseteq Object
    /\ undead \subseteq Object
    /\ used \in 0..(PoolSize + MaxHandle)
    /\ status \in [Object -> {"ALIVE", "ZOMBIE", "UNDEAD"}]
    /\ waiters \in [Object -> 0..(Cardinality(Caller) + 1)]
    /\ pid \in [Object -> Handle \cup {0}]
    /\ handle \in [Object -> Handle \cup {0}]
    /\ anywaiters \in 0..Cardinality(Caller)
    /\ onbirth \in BOOLEAN /\ haszombies \in BOOLEAN
    /\ state \in [Handle -> {"none", "running", "exited", "execed"}]
    /\ open \subseteq Handle
    /\ spc \in {"idle", "launched"} /\ sobj \in Object \cup {0}
    /\ wpc \in {"assemble", "enter", "wait", "woke", "change", "raise", "panic"}
    /\ pc \in [Caller -> {"idle", "check", "zombies", "enter", "blocked", "woke", "status",
                          "unlocked", "kill"}]

\* An object is in exactly one place: one of the four lists, once, or in the
\* hands of the thread that spawns; and the list agrees with its status field.
OnePlace ==
    /\ TypeOK
    /\ \A s \in {list, zombies, free} : \A i, j \in DOMAIN s : s[i] = s[j] => i = j
    /\ Tracked \cup Listed(free) \cup Launched = 1..used
    /\ Tracked \cap Listed(free) = {} /\ (Tracked \cup Listed(free)) \cap Launched = {}
    /\ \A o \in Listed(list) : status[o] = "ALIVE"
    /\ \A o \in Listed(zombies) : status[o] = "ZOMBIE"
    /\ \A o \in undead : status[o] = "UNDEAD"

\* Proc.waiters and __proc.waiters count the threads that hold a pointer to the
\* object, the worker included: none of them is ever left with an object that
\* was freed and given to another child, and a reaped process keeps its object
\* only as long as someone waits on it.
WaitersExact ==
    /\ \A o \in Object : waiters[o] = Cardinality({t \in Caller : Claims(t) /\ pr[t] = o})
                                     + Cardinality({i \in DOMAIN wobj : wobj[i] = o})
    /\ anywaiters = Cardinality({t \in Caller : Claims(t) /\ want[t] = AnyChild})
    /\ \A o \in Object : waiters[o] > 0 => o \in Tracked
    /\ lock = NoOne => \A o \in undead : waiters[o] > 0

\* CloseHandle is called once for every handle: the open ones are those of the
\* tracked children, and those of their execve() successors not yet adopted.
HandlesOwned ==
    /\ \A o \in Tracked \cup Launched : handle[o] \in open
    /\ \A o1, o2 \in Tracked \cup Launched : handle[o1] = handle[o2] => o1 = o2
    /\ \A h \in open : \/ \E o \in Tracked \cup Launched : handle[o] = h
                       \/ \E g \in open : successor[g] = h

\* Children, by the id they were born with.
Born == {h \in Handle : state[h] # "none" /\ \A g \in Handle : successor[g] # h}

\* The exit of a child is reported to exactly one wait4(): until then the child
\* is tracked, and after that no call can get it again.  (When SIGCHLD is ignored
\* the worker may drop it unreported.)  A child that execve() goes on with is no
\* zombie: only its last program's exit is reported.
ReportedOnce ==
    /\ \A o \in Listed(zombies) \cup undead : state[handle[o]] = "exited"
    /\ \A p \in Born :
          LET tracked == \E o \in Listed(list) \cup Listed(zombies) \cup Launched : pid[o] = p
          IN \/ reported[p] = IF tracked THEN 0 ELSE 1
             \/ ignored /\ reported[p] = 0

\* The manual reset event agrees with the list of zombies whenever the lock is free.
EventMatches == lock = NoOne => (haszombies <=> zombies # <<>>)

\* No wait fails on a handle that was closed after it was copied, as it is when
\* another thread adopts the successor of a child that called execve(), and no
\* signal ends a wait: after either, wait4() gives up its claim and nobody tells
\* the worker, which had left the child to it.
Undisturbed == wpc # "panic" /\ (\A t \in Caller : woke[t] # -1) /\ interrupts = 0

\* The exit of a tracked child that nobody has noticed yet, neither the worker nor
\* a thread in wait4(): it is in the list of living processes.
Unnoticed(h) == state[h] = "exited" /\ \E o \in Listed(list) : handle[o] = h

\* The process that a child has become by execve().
Now(p) ==
    LET now[h \in Handle] == IF successor[h] = 0 THEN h ELSE now[successor[h]]
    IN  now[p]

\* In wait4() for one child that has exited, and with a claim on an exited one.
Answered(t) == pc[t] \notin {"idle", "kill"} /\ want[t] \in Born /\ state[Now(want[t])] = "exited"
Awoken(t) == Claims(t) /\ want[t] # AnyChild /\ state[hwait[t]] = "exited"

\* Every call is for a process whose posix_spawn() or fork() is over.
KnownIds ==
    \A t \in Caller : want[t] = AnyChild \/ (want[t] \in Born /\ \A o \in Launched : pid[o] # want[t])

\* Waiting on another child than the one the call is for.
Astray(t) == Claims(t) /\ want[t] # AnyChild /\ pid[pr[t]] # want[t]
=============================================================================
