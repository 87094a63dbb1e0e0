--------------------------- MODULE RecursiveMutex ---------------------------
(***************************************************************************)
(* The recursive and error checking mutexes of libc/intrin, and the normal *)
(* ones that do not use nsync: a spin lock, and the plain fields _owner,   *)
(* _depth and _pid, which other threads read without the lock.  Every      *)
(* access to a field is a step, in the order of the code.                  *)
(*                                                                         *)
(* The model follows one process; after fork() it goes on as the parent or *)
(* as the child, where the other threads are gone and the mutex is what it *)
(* was.  The child of vfork() runs on the memory of the suspended thread.  *)
(***************************************************************************)
EXTENDS Integers, FiniteSets

CONSTANTS
    Thread,
    Main,         \* the main thread
    Type,         \* "normal", "recursive" or "errorcheck"
    MaxDepth,     \* the largest _depth (63)
    TidReused,    \* may a child have the tid of its parent's main thread? (NetBSD)
    Forks,        \* may the program call fork()?
    Vforks,       \* do children of vfork() lock, or also unlock? ("none" if there are none)
    CallBudget    \* bound: calls that lock, destroy, initialize or vfork

ASSUME MutexAssumption ==
    /\ Main \in Thread
    /\ Type \in {"normal", "recursive", "errorcheck"}
    /\ MaxDepth \in Nat
    /\ TidReused \in BOOLEAN
    /\ Forks \in BOOLEAN
    /\ Vforks \in {"none", "lock", "unlock"}
    /\ CallBudget \in Nat

VARIABLES
    lock,      \* _lock, 0 or 1
    owner,     \* _owner, a tid or 0
    depth,     \* _depth
    mpid,      \* _pid
    pc,        \* what each thread executes next
    try,       \* is the call a trylock?
    res,       \* the result of the last call
    mode,      \* does the thread run as itself, in a fork or in a vfork child?
    tid,       \* the tid of each thread, in the child that it runs in
    pid,       \* __pid
    alive,     \* is the mutex initialized?
    holds,     \* how many times each thread has locked the mutex
    idled,     \* did the vfork child of the thread call lock?
    calls      \* calls made so far

fields == <<lock, owner, depth, mpid, alive>>
process == <<mode, tid, pid, idled>>
vars == <<fields, pc, try, res, process, holds, calls>>

PC == {"idle", "spin", "depth", "owner", "pid", "unlock", "level", "disown",
       "release", "gone"}

Result == {"OK", "EBUSY", "EAGAIN", "EDEADLK", "EPERM"}

Init ==
    /\ lock = 0
    /\ owner = <<>>
    /\ depth = 0
    /\ mpid = 0
    /\ pc = [t \in Thread |-> "idle"]
    /\ try = [t \in Thread |-> FALSE]
    /\ res = [t \in Thread |-> "OK"]
    /\ mode = [t \in Thread |-> "self"]
    /\ tid = [t \in Thread |-> <<t, "self">>]
    /\ pid = 1
    /\ alive = TRUE
    /\ holds = [t \in Thread |-> 0]
    /\ idled = [t \in Thread |-> FALSE]
    /\ calls = 0

gettid(t) == tid[t]

\* The system gives the thread of a child a tid of its own, except NetBSD, where
\* that of the main thread is 1 in every process.
ChildTids(t) ==
    {<<t, "child">>} \cup (IF TidReused THEN {<<Main, "self">>} ELSE {})

NoOwner == <<>>

Goto(t, l) == pc' = [pc EXCEPT ![t] = l]

Return(t, r) == Goto(t, "idle") /\ res' = [res EXCEPT ![t] = r]

\* What the child of vfork() does is not done by the thread that waits for it.
Hold(t, n) ==
    holds' = [holds EXCEPT ![t] = IF mode[t] = "vforked" THEN @ ELSE @ + n]

Call(t) ==
    /\ pc[t] = "idle"
    /\ alive
    /\ calls < CallBudget
    /\ calls' = calls + 1

----------------------------------------------------------------------------
(***************************************************************************)
(* pthread_mutex_lock and pthread_mutex_trylock.                           *)
(***************************************************************************)
\* Mutant: lets the count wrap around.
Relock_Wraps(t) ==
    IF Type = "errorcheck"
    THEN Return(t, "EDEADLK") /\ UNCHANGED <<depth, holds>>
    ELSE depth' = (depth + 1) % (MaxDepth + 1) /\ Hold(t, 1) /\ Return(t, "OK")

\* The caller owns the mutex already.
Relock(t) ==
    IF Type = "errorcheck"
    THEN Return(t, "EDEADLK") /\ UNCHANGED <<depth, holds>>
    ELSE IF depth < MaxDepth
    THEN depth' = depth + 1 /\ Hold(t, 1) /\ Return(t, "OK")
    ELSE Return(t, "EAGAIN") /\ UNCHANGED <<depth, holds>>

LockCall(t, trylock) ==
    /\ Call(t)
    /\ mode[t] # "vforked"
    /\ try' = [try EXCEPT ![t] = trylock]
    /\ IF Type # "normal" /\ owner = gettid(t)
       THEN Relock(t)
       ELSE Goto(t, "spin") /\ UNCHANGED <<depth, holds, res>>
    /\ UNCHANGED <<lock, owner, mpid, alive, process>>

\* pthread_mutex_lock returns at once in the child of vfork(), where programs
\* only call what is marked @vforksafe.
LockVforked(t) ==
    /\ Call(t)
    /\ mode[t] = "vforked"
    /\ idled' = [idled EXCEPT ![t] = TRUE]
    /\ Return(t, "OK")
    /\ UNCHANGED <<fields, try, mode, tid, pid, holds>>

\* atomic_exchange finds the lock free.
Acquire(t) ==
    /\ pc[t] = "spin"
    /\ lock = 0
    /\ lock' = 1
    /\ Hold(t, 1)
    /\ IF Type = "normal" THEN Return(t, "OK")
       ELSE Goto(t, "depth") /\ UNCHANGED res
    /\ UNCHANGED <<owner, depth, mpid, alive, try, process, calls>>

\* atomic_exchange finds the lock taken: lock spins, trylock gives up.
Busy(t) ==
    /\ pc[t] = "spin"
    /\ lock = 1
    /\ try[t]
    /\ Return(t, "EBUSY")
    /\ UNCHANGED <<fields, try, process, holds, calls>>

SetDepth(t) ==
    /\ pc[t] = "depth"
    /\ depth' = 0
    /\ Goto(t, "owner")
    /\ UNCHANGED <<lock, owner, mpid, alive, try, res, process, holds, calls>>

\* Mutant: forgets to say who owns the mutex.
SetOwner_Forgets(t) ==
    /\ pc[t] = "owner"
    /\ Goto(t, "pid")
    /\ UNCHANGED <<fields, try, res, process, holds, calls>>

SetOwner(t) ==
    /\ pc[t] = "owner"
    /\ owner' = gettid(t)
    /\ Goto(t, "pid")
    /\ UNCHANGED <<lock, depth, mpid, alive, try, res, process, holds, calls>>

\* Mutant: forgets to say which process locked the mutex.
SetPid_Forgets(t) ==
    /\ pc[t] = "pid"
    /\ Return(t, "OK")
    /\ UNCHANGED <<fields, try, process, holds, calls>>

SetPid(t) ==
    /\ pc[t] = "pid"
    /\ mpid' = pid
    /\ Return(t, "OK")
    /\ UNCHANGED <<lock, owner, depth, alive, try, process, holds, calls>>

----------------------------------------------------------------------------
(***************************************************************************)
(* pthread_mutex_unlock.                                                   *)
(***************************************************************************)
\* A correct program unlocks what it locked.  In the child of vfork() both calls
\* are @vforksafe, and are documented to do nothing.
MayUnlock(t) ==
    IF mode[t] = "vforked" THEN idled[t] /\ Vforks = "unlock" ELSE holds[t] > 0

UnlockCall(t) ==
    /\ pc[t] = "idle"
    /\ alive
    /\ MayUnlock(t)
    /\ Goto(t, IF Type = "normal" THEN "release" ELSE "unlock")
    /\ UNCHANGED <<fields, try, res, process, holds, calls>>

\* Mutant: does not compare the process that locked with the one that unlocks.
Foreign_AnyProcess(t) == owner # NoOwner /\ owner # gettid(t)

\* The mutex is held by another thread, or by the process that forked.
Foreign(t) == owner # NoOwner /\ (owner # gettid(t) \/ mpid # pid)

UnlockCheck(t) ==
    /\ pc[t] = "unlock"
    /\ IF Foreign(t) THEN Return(t, "EPERM")
       ELSE Goto(t, "level") /\ UNCHANGED res
    /\ UNCHANGED <<fields, try, process, holds, calls>>

\* Mutant: counts below zero.
UnlockLevel_Underflow(t) ==
    /\ pc[t] = "level"
    /\ depth' = depth - 1
    /\ Hold(t, -1)
    /\ Return(t, "OK")
    /\ UNCHANGED <<lock, owner, mpid, alive, try, process, calls>>

\* Mutant: gives the mutex up at the first unlock.
UnlockLevel_AllAtOnce(t) ==
    /\ pc[t] = "level"
    /\ Goto(t, "disown")
    /\ UNCHANGED <<fields, try, res, process, holds, calls>>

UnlockLevel(t) ==
    /\ pc[t] = "level"
    /\ IF depth > 0
       THEN depth' = depth - 1 /\ Hold(t, -1) /\ Return(t, "OK")
       ELSE Goto(t, "disown") /\ UNCHANGED <<depth, holds, res>>
    /\ UNCHANGED <<lock, owner, mpid, alive, try, process, calls>>

Disown(t) ==
    /\ pc[t] = "disown"
    /\ owner' = NoOwner
    /\ Goto(t, "release")
    /\ UNCHANGED <<lock, depth, mpid, alive, try, res, process, holds, calls>>

Release(t) ==
    /\ pc[t] = "release"
    /\ lock' = 0
    /\ Hold(t, -1)
    /\ Return(t, "OK")
    /\ UNCHANGED <<owner, depth, mpid, alive, try, process, calls>>

----------------------------------------------------------------------------
(***************************************************************************)
(* pthread_mutex_destroy, pthread_mutex_init, fork and vfork.              *)
(***************************************************************************)
pthread_mutex_destroy(t) ==
    /\ Call(t)
    /\ mode[t] # "vforked"
    /\ \A s \in Thread : pc[s] \in {"idle", "gone"}
    /\ \A s \in Thread : holds[s] = 0
    /\ alive' = FALSE
    /\ res' = [res EXCEPT ![t] = "OK"]
    /\ UNCHANGED <<lock, owner, depth, mpid, pc, try, process, holds>>

\* A mutex is set up again after it was destroyed, or in the child of fork().
pthread_mutex_init(t) ==
    /\ pc[t] = "idle"
    /\ calls < CallBudget
    /\ calls' = calls + 1
    /\ mode[t] # "vforked"
    /\ alive => mode[t] = "forked"
    /\ lock' = 0
    /\ owner' = NoOwner
    /\ depth' = 0
    /\ mpid' = 0
    /\ alive' = TRUE
    /\ holds' = [s \in Thread |-> 0]
    /\ res' = [res EXCEPT ![t] = "OK"]
    /\ UNCHANGED <<pc, try, process>>

ForkChild(t) ==
    /\ Forks
    /\ pc[t] = "idle"
    /\ mode[t] = "self"
    /\ pid = 1
    /\ pid' = 2
    /\ mode' = [mode EXCEPT ![t] = "forked"]
    /\ \E id \in ChildTids(t) : tid' = [tid EXCEPT ![t] = id]
    /\ pc' = [s \in Thread |-> IF s = t THEN "idle" ELSE "gone"]
    /\ UNCHANGED <<fields, try, res, idled, holds, calls>>

\* The thread is suspended until its child calls execve() or _exit().
Vfork(t) ==
    /\ Vforks # "none"
    /\ pc[t] = "idle"
    /\ mode[t] = "self"
    /\ calls < CallBudget
    /\ calls' = calls + 1
    /\ mode' = [mode EXCEPT ![t] = "vforked"]
    /\ \E id \in ChildTids(t) : tid' = [tid EXCEPT ![t] = id]
    /\ UNCHANGED <<fields, pc, try, res, pid, idled, holds>>

VforkEnd(t) ==
    /\ pc[t] = "idle"
    /\ mode[t] = "vforked"
    /\ mode' = [mode EXCEPT ![t] = "self"]
    /\ tid' = [tid EXCEPT ![t] = <<t, "self">>]
    /\ idled' = [idled EXCEPT ![t] = FALSE]
    /\ UNCHANGED <<fields, pc, try, res, pid, holds, calls>>

----------------------------------------------------------------------------
Step(t) ==
    \/ Acquire(t) \/ Busy(t) \/ SetDepth(t) \/ SetOwner(t) \/ SetPid(t)
    \/ UnlockCheck(t) \/ UnlockLevel(t) \/ Disown(t) \/ Release(t)

\* Calls are over, or every thread waits for a lock nobody is about to release.
Rest ==
    /\ \A t \in Thread : pc[t] \in {"idle", "spin", "gone"}
    /\ UNCHANGED vars

Next ==
    \/ \E t \in Thread :
          \/ Step(t)
          \/ \E trylock \in BOOLEAN : LockCall(t, trylock)
          \/ LockVforked(t)
          \/ UnlockCall(t)
          \/ pthread_mutex_destroy(t) \/ pthread_mutex_init(t)
          \/ ForkChild(t) \/ Vfork(t) \/ VforkEnd(t)
    \/ Rest

Spec == Init /\ [][Next]_vars

\* A thread inside a call goes on, who holds the mutex unlocks it, and the child
\* of a vfork() comes to its execve() or _exit().
FairSpec ==
    /\ Spec
    /\ \A t \in Thread : /\ WF_vars(Step(t)) /\ WF_vars(VforkEnd(t))
                         /\ WF_vars(holds[t] > 0 /\ UnlockCall(t))

----------------------------------------------------------------------------
TypeOK ==
    /\ lock \in {0, 1}
    /\ owner \in {NoOwner} \cup (Thread \X {"self", "child"})
    /\ depth \in 0..MaxDepth
    /\ mpid \in {0, 1, 2}
    /\ pc \in [Thread -> PC]
    /\ try \in [Thread -> BOOLEAN]
    /\ res \in [Thread -> Result]
    /\ mode \in [Thread -> {"self", "forked", "vforked"}]
    /\ tid \in [Thread -> Thread \X {"self", "child"}]
    /\ pid \in {1, 2}
    /\ alive \in BOOLEAN
    /\ holds \in [Thread -> Nat]
    /\ idled \in [Thread -> BOOLEAN]
    /\ calls \in Nat

\* The child of fork() relocked what a thread of its parent, which is not in the
\* child, held under the same tid: pthread_mutex_lock does not compare _pid.
Mistaken(s, t) ==
    pc[s] = "gone" /\ mode[t] = "forked" /\ owner = gettid(t) /\ mpid # pid

\* Two threads never hold the mutex, whatever the plain fields look like to
\* the threads that read them without the lock, and whoever forked, except that
\* the child of fork() may be mistaken for the owner it does not have any more.
MutualExclusion ==
    alive => \A s, t \in Thread : holds[s] > 0 /\ holds[t] > 0 =>
                 s = t \/ Mistaken(s, t) \/ Mistaken(t, s)

\* Between calls the fields tell who holds the mutex, and how often.
FieldsTellHolder ==
    Type # "normal" =>
        \A t \in Thread : (alive /\ holds[t] > 0 /\ pc[t] = "idle" /\ mode[t] = "self") =>
            /\ lock = 1
            /\ owner = gettid(t)
            /\ depth = holds[t] - 1

\* The owner of a recursive or error checking mutex never waits for itself,
\* except in the child of fork(), where its tid may be another one.
NoSelfDeadlock ==
    Type # "normal" =>
        \A t \in Thread : (pc[t] = "spin" /\ mode[t] # "forked") => holds[t] = 0

\* In the child of fork() a mutex that was locked stays so until it is
\* initialized again: nobody unlocks it there, neither the thread that forked
\* nor one that has the tid of the owner, for the _pid is the parent's.
InheritedStaysLocked ==
    [][(pid = 2 /\ mpid # 2 /\ lock = 1 /\ Type # "normal") =>
           (lock' = 1 \/ \E t \in Thread : pthread_mutex_init(t))]_vars

\* Who waits for the mutex gets it, when every holder unlocks it as often as it
\* locked it and calls come to an end (a spin lock is not fair), except in the
\* child of fork(), where nobody unlocks what another thread had locked.
WaiterAcquires ==
    \A t \in Thread : pc[t] = "spin" ~> (pc[t] = "idle" \/ pid = 2)

\* No step of the child of a vfork() changes the mutex.
VforkChildIdle ==
    (\E t \in Thread : mode[t] = "vforked" /\ pc[t] # "idle" /\ pc'[t] # pc[t])
        => UNCHANGED fields

\* "This function does nothing in vfork() children." (pthread_mutex_unlock): what
\* the child unlocks stays as the threads of its parent's process left it.
VforkUnlockDoesNothing == [][VforkChildIdle]_vars
=============================================================================
