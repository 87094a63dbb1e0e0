-------------------------- MODULE ThreadLifecycle --------------------------
(***************************************************************************)
(* The life of a POSIX thread in libc/thread: pthread_create, pthread_exit,*)
(* pthread_join, pthread_detach, the list _pthread_list with its spin lock,*)
(* the reaping of zombies, the reference counts that signal senders take,  *)
(* and what fork() does to the threads of the parent.                      *)
(*                                                                         *)
(* A thread object is used once: memory that was freed is never handed out *)
(* again, so that every late access to it can be seen.  A critical section *)
(* that only touches the list is one step; one that also reads the atomics *)
(* other threads write without the lock is one step per element.           *)
(***************************************************************************)
EXTENDS Integers, Sequences, FiniteSets, Dll

CONSTANTS
    Thread,         \* thread objects the program may ever use
    Main,           \* _pthread_static, the thread the process starts with
    NoThread,       \* the holder of a free lock, the null pointer
    ReclaimRoot,    \* may the process's first thread be joined or detached?
    SignalBudget,   \* bound: how many times threads signal other threads
    ForkBudget      \* bound: how many times fork() is called

ASSUME ThreadAssumption ==
    /\ IsFiniteSet(Thread)
    /\ Main \in Thread
    /\ NoThread \notin Thread
    /\ ReclaimRoot \in BOOLEAN
    /\ SignalBudget \in Nat
    /\ ForkBudget \in Nat

VARIABLES
    list,       \* _pthread_list, first element to last
    lock,       \* holder of _pthread_lock_obj
    mem,        \* the allocation of struct PosixThread, its stack and TLS
    status,     \* pt_status
    tid,        \* tib_tid: -1 before clone, 1 while running, 0 afterwards
    refs,       \* pt_refs
    pc,         \* what each thread executes next
    obj,        \* the pt each thread works on
    cursor,     \* index into list of a scan that holds the lock
    ret,        \* where _pthread_decimate or _pthread_unref returns to
    depth,      \* nested _pthread_unref calls made by _pthread_decimate
    claimed,    \* handles given to pthread_join or pthread_detach
    root,       \* the first thread of this process (the forker, after fork)
    finalized,  \* have the atexit handlers run?
    exited,     \* did the process call _Exit(0)?
    signals,    \* signals sent so far
    forks       \* fork() calls so far

heap == <<list, mem, status, tid, refs>>
local == <<obj, cursor, ret, depth>>
process == <<claimed, root, finalized, exited, signals, forks>>
vars == <<heap, lock, pc, local, process>>

Joinable == "Joinable"
Detached == "Detached"
Terminated == "Terminated"
Zombie == "Zombie"
Status == {Joinable, Detached, Terminated, Zombie}

\* Code that runs between two calls of the program, or inside one.
PC == {"unborn", "run", "create", "clone", "decimate", "scan", "unref",
       "sub", "free", "orphan1", "transition", "zombify", "orphan2",
       "leave", "dead", "wait", "remove", "detach", "kill", "everyone",
       "fork", "vanished", "abort"}

\* Where the common subroutines may return to.
Return == {"run", "create", "orphan1", "everyone"}

Listed == {list[i] : i \in DOMAIN list}

Init ==
    /\ list = <<Main>>
    /\ lock = NoThread
    /\ mem = [t \in Thread |-> IF t = Main THEN "static" ELSE "none"]
    /\ status = [t \in Thread |-> Joinable]
    /\ tid = [t \in Thread |-> IF t = Main THEN 1 ELSE -1]
    /\ refs = [t \in Thread |-> 0]
    /\ pc = [t \in Thread |-> IF t = Main THEN "run" ELSE "unborn"]
    /\ obj = [t \in Thread |-> NoThread]
    /\ cursor = [t \in Thread |-> 0]
    /\ ret = [t \in Thread |-> "run"]
    /\ depth = [t \in Thread |-> 0]
    /\ claimed = {}
    /\ root = Main
    /\ finalized = FALSE
    /\ exited = FALSE
    /\ signals = 0
    /\ forks = 0

(***************************************************************************)
(* Control.                                                                *)
(***************************************************************************)
At(t, l) == pc[t] = l /\ ~exited

Goto(t, l) == pc' = [pc EXCEPT ![t] = l]

\* Calls _pthread_decimate() and continues at l.
CallDecimate(t, l) ==
    /\ Goto(t, "decimate")
    /\ ret' = [ret EXCEPT ![t] = l]

\* Returns from _pthread_decimate or _pthread_unref.  When the caller is an
\* outer _pthread_decimate, that one starts over.
ReturnFrom(t) ==
    IF depth[t] > 0
    THEN /\ Goto(t, "decimate")
         /\ depth' = [depth EXCEPT ![t] = @ - 1]
         /\ UNCHANGED ret
    ELSE /\ Goto(t, ret[t])
         /\ ret' = [ret EXCEPT ![t] = "run"]
         /\ UNCHANGED depth

\* The local variable that held the object goes out of scope.
Forget(t) == obj' = [obj EXCEPT ![t] = NoThread]

----------------------------------------------------------------------------
(***************************************************************************)
(* _pthread_decimate: walk backwards over the zombies at the end of the    *)
(* list, and drop the first one whose thread has left its stack.           *)
(***************************************************************************)
DecimateLock(t) ==
    /\ At(t, "decimate")
    /\ lock = NoThread
    /\ lock' = t
    /\ cursor' = [cursor EXCEPT ![t] = Len(list)]
    /\ Goto(t, "scan")
    /\ UNCHANGED <<heap, obj, ret, depth, process>>

DecimateStop(t) ==
    /\ At(t, "scan")
    /\ \/ cursor[t] = 0
       \/ status[list[cursor[t]]] # Zombie
    /\ lock' = NoThread
    /\ cursor' = [cursor EXCEPT ![t] = 0]
    /\ ReturnFrom(t)
    /\ UNCHANGED <<heap, obj, process>>

DecimateSkip(t) ==
    /\ At(t, "scan")
    /\ cursor[t] # 0
    /\ status[list[cursor[t]]] = Zombie
    /\ tid[list[cursor[t]]] # 0
    /\ cursor' = [cursor EXCEPT ![t] = @ - 1]
    /\ UNCHANGED <<heap, lock, pc, obj, ret, depth, process>>

DecimateRemove(t) ==
    /\ At(t, "scan")
    /\ cursor[t] # 0
    /\ LET u == list[cursor[t]] IN
       /\ status[u] = Zombie
       /\ tid[u] = 0
       /\ list' = dll_remove(list, u)
       /\ obj' = [obj EXCEPT ![t] = u]
    /\ lock' = NoThread
    /\ cursor' = [cursor EXCEPT ![t] = 0]
    /\ depth' = [depth EXCEPT ![t] = @ + 1]
    /\ Goto(t, "unref")
    /\ UNCHANGED <<mem, status, tid, refs, ret, process>>

(***************************************************************************)
(* _pthread_unref: the count is loaded first, and only decremented when it *)
(* is not zero; whoever finds zero frees the object, then decimates.       *)
(***************************************************************************)
DerefLoad(t) ==
    /\ At(t, "unref")
    /\ Goto(t, IF refs[obj[t]] = 0 THEN "free" ELSE "sub")
    /\ UNCHANGED <<heap, lock, local, process>>

\* Mutant: compares the new count with zero, not the old one.
DerefSub_NewValue(t) ==
    /\ At(t, "sub")
    /\ refs' = [refs EXCEPT ![obj[t]] = @ - 1]
    /\ IF refs[obj[t]] = 1
       THEN Goto(t, "free") /\ UNCHANGED <<obj, ret, depth>>
       ELSE ReturnFrom(t) /\ Forget(t)
    /\ UNCHANGED <<list, mem, status, tid, lock, cursor, process>>

DerefSub(t) ==
    /\ At(t, "sub")
    /\ refs' = [refs EXCEPT ![obj[t]] = @ - 1]
    /\ IF refs[obj[t]] = 0
       THEN Goto(t, "free") /\ UNCHANGED <<obj, ret, depth>>
       ELSE ReturnFrom(t) /\ Forget(t)
    /\ UNCHANGED <<list, mem, status, tid, lock, cursor, process>>

\* _pthread_free, whose assertion ends the process if the object is in a list.
Free(t) ==
    /\ At(t, "free")
    /\ IF obj[t] \in Listed
       THEN Goto(t, "abort") /\ UNCHANGED <<mem, obj>>
       ELSE /\ mem' = IF mem[obj[t]] = "static" THEN mem
                      ELSE [mem EXCEPT ![obj[t]] = "freed"]
            /\ Forget(t)
            /\ Goto(t, "decimate")
    /\ UNCHANGED <<list, status, tid, refs, lock, cursor, ret, depth, process>>

----------------------------------------------------------------------------
(***************************************************************************)
(* pthread_create.                                                         *)
(***************************************************************************)
CreateCall(t) ==
    /\ At(t, "run")
    /\ CallDecimate(t, "create")
    /\ UNCHANGED <<heap, lock, obj, cursor, depth, process>>

\* EAGAIN: there is no memory for the object or for its TLS.
CreateFail(t) ==
    /\ At(t, "create")
    /\ Goto(t, "run")
    /\ UNCHANGED <<heap, lock, local, process>>

\* The attributes are refused, or there is no stack: _pthread_free is given an
\* object dll_init has not seen.  Its list element is still zero, so that the
\* element is not alone, and the assertion ends the process.
CreateRefused(t, u) ==
    /\ At(t, "create")
    /\ mem[u] = "none"
    /\ obj' = [obj EXCEPT ![t] = u]
    /\ Goto(t, "abort")
    /\ UNCHANGED <<heap, lock, cursor, ret, depth, process>>

CreateList(t, u, detachstate) ==
    /\ At(t, "create")
    /\ mem[u] = "none"
    /\ lock = NoThread
    /\ mem' = [mem EXCEPT ![u] = "live"]
    /\ status' = [status EXCEPT ![u] = detachstate]
    /\ list' = dll_make_first(list, u)
    /\ claimed' = IF detachstate = Detached THEN claimed \cup {u} ELSE claimed
    /\ obj' = [obj EXCEPT ![t] = u]
    /\ Goto(t, "clone")
    /\ UNCHANGED <<tid, refs, lock, cursor, ret, depth, root, finalized, exited,
                   signals, forks>>

Clone(t) ==
    /\ At(t, "clone")
    /\ tid' = [tid EXCEPT ![obj[t]] = 1]
    /\ pc' = [pc EXCEPT ![t] = "run", ![obj[t]] = "run"]
    /\ Forget(t)
    /\ UNCHANGED <<list, mem, status, refs, lock, cursor, ret, depth, process>>

\* clone() failed: the object is unlisted and freed, whatever its count is.
CloneFail(t) ==
    /\ At(t, "clone")
    /\ lock = NoThread
    /\ list' = dll_remove(list, obj[t])
    /\ mem' = [mem EXCEPT ![obj[t]] = "freed"]
    /\ Forget(t)
    /\ Goto(t, "run")
    /\ UNCHANGED <<status, tid, refs, lock, cursor, ret, depth, process>>

----------------------------------------------------------------------------
(***************************************************************************)
(* pthread_exit.                                                           *)
(***************************************************************************)
ExitCall(t) ==
    /\ At(t, "run")
    /\ CallDecimate(t, "orphan1")
    /\ UNCHANGED <<heap, lock, obj, cursor, depth, process>>

pthread_orphan_np == Len(list) = 1

ExitFinalize(t) ==
    /\ At(t, "orphan1")
    /\ lock = NoThread
    /\ finalized' = (finalized \/ pthread_orphan_np)
    /\ Goto(t, "transition")
    /\ UNCHANGED <<heap, lock, local, claimed, root, exited, signals, forks>>

ExitTransition(t) ==
    /\ At(t, "transition")
    /\ \/ /\ status[t] = Joinable
          /\ status' = [status EXCEPT ![t] = Terminated]
          /\ Goto(t, "orphan2")
       \/ /\ status[t] = Detached
          /\ status' = [status EXCEPT ![t] = Zombie]
          /\ Goto(t, "zombify")
    /\ UNCHANGED <<list, mem, tid, refs, lock, local, process>>

_pthread_zombify(u) ==
    /\ lock = NoThread
    /\ list' = dll_make_last(dll_remove(list, u), u)

\* Mutant: a dying detached thread leaves the list at once.
ExitZombify_Unlist(t) ==
    /\ At(t, "zombify")
    /\ lock = NoThread
    /\ list' = dll_remove(list, t)
    /\ Goto(t, "orphan2")
    /\ UNCHANGED <<mem, status, tid, refs, lock, local, process>>

ExitZombify(t) ==
    /\ At(t, "zombify")
    /\ _pthread_zombify(t)
    /\ Goto(t, "orphan2")
    /\ UNCHANGED <<mem, status, tid, refs, lock, local, process>>

ExitSurvivor(t) ==
    /\ At(t, "orphan2")
    /\ lock = NoThread
    /\ IF pthread_orphan_np
       THEN exited' = TRUE /\ Goto(t, "dead")
       ELSE Goto(t, "leave") /\ UNCHANGED exited
    /\ UNCHANGED <<heap, lock, local, claimed, root, finalized, signals, forks>>

\* The main thread clears its own tid; for the others clone() does.
ExitLeave(t) ==
    /\ At(t, "leave")
    /\ tid' = [tid EXCEPT ![t] = 0]
    /\ Goto(t, "dead")
    /\ UNCHANGED <<list, mem, status, refs, lock, local, process>>

----------------------------------------------------------------------------
(***************************************************************************)
(* pthread_join and pthread_detach.  POSIX leaves a second join or detach  *)
(* of one thread undefined: the program only passes handles it owns.       *)
(***************************************************************************)
Handle(u) ==
    /\ pc[u] # "unborn"
    /\ u \notin claimed
    /\ ReclaimRoot \/ u # root

JoinCall(t, u) ==
    /\ At(t, "run")
    /\ t # u
    /\ Handle(u)
    /\ claimed' = claimed \cup {u}
    /\ obj' = [obj EXCEPT ![t] = u]
    /\ Goto(t, "wait")
    /\ UNCHANGED <<heap, lock, cursor, ret, depth, root, finalized, exited,
                   signals, forks>>

JoinWait(t) ==
    /\ At(t, "wait")
    /\ tid[obj[t]] = 0
    /\ Goto(t, "remove")
    /\ UNCHANGED <<heap, lock, local, process>>

\* EBUSY when the deadline passes, ECANCELED when the caller is canceled.
JoinGiveUp(t) ==
    /\ At(t, "wait")
    /\ claimed' = claimed \ {obj[t]}
    /\ Forget(t)
    /\ Goto(t, "run")
    /\ UNCHANGED <<heap, lock, cursor, ret, depth, root, finalized, exited, signals, forks>>

\* Mutant: the joiner forgets to drop the list's reference.
JoinRemove_NoUnref(t) ==
    /\ At(t, "remove")
    /\ lock = NoThread
    /\ list' = dll_remove(list, obj[t])
    /\ Forget(t)
    /\ Goto(t, "run")
    /\ UNCHANGED <<mem, status, tid, refs, lock, cursor, ret, depth, process>>

JoinRemove(t) ==
    /\ At(t, "remove")
    /\ lock = NoThread
    /\ list' = dll_remove(list, obj[t])
    /\ ret' = [ret EXCEPT ![t] = "run"]
    /\ Goto(t, "unref")
    /\ UNCHANGED <<mem, status, tid, refs, lock, obj, cursor, depth, process>>

\* Mutant: stores the new status without noticing that the thread terminated.
DetachCall_Store(t, u) ==
    /\ At(t, "run")
    /\ Handle(u)
    /\ claimed' = claimed \cup {u}
    /\ status' = [status EXCEPT ![u] = Detached]
    /\ CallDecimate(t, "run")
    /\ UNCHANGED <<list, mem, tid, refs, lock, obj, cursor, depth, root, finalized,
                   exited, signals, forks>>

DetachCall(t, u) ==
    /\ At(t, "run")
    /\ Handle(u)
    /\ claimed' = claimed \cup {u}
    /\ \/ /\ status[u] = Joinable
          /\ status' = [status EXCEPT ![u] = Detached]
          /\ CallDecimate(t, "run")
          /\ UNCHANGED obj
       \/ /\ status[u] = Terminated
          /\ status' = [status EXCEPT ![u] = Zombie]
          /\ obj' = [obj EXCEPT ![t] = u]
          /\ Goto(t, "detach")
          /\ UNCHANGED ret
    /\ UNCHANGED <<list, mem, tid, refs, lock, cursor, depth, root, finalized,
                   exited, signals, forks>>

DetachZombify(t) ==
    /\ At(t, "detach")
    /\ _pthread_zombify(obj[t])
    /\ Forget(t)
    /\ CallDecimate(t, "run")
    /\ UNCHANGED <<mem, status, tid, refs, lock, cursor, depth, process>>

----------------------------------------------------------------------------
\* Mutant: pthread_create leaves the signals of a new thread unmasked.
Masked_Never(u) == FALSE

(***************************************************************************)
(* Senders of signals take a reference.  A thread that has not started yet *)
(* has every signal masked.                                                *)
(***************************************************************************)
Masked(u) == pc[u] = "unborn"

Running(u) == status[u] \in {Joinable, Detached}

__sig_generate(t) ==
    /\ At(t, "run")
    /\ signals < SignalBudget
    /\ signals' = signals + 1
    /\ lock = NoThread
    /\ \E u \in Listed \ {t} :
          /\ Running(u)
          /\ ~Masked(u)
          /\ refs' = [refs EXCEPT ![u] = @ + 1]
          /\ obj' = [obj EXCEPT ![t] = u]
    /\ Goto(t, "kill")
    /\ UNCHANGED <<list, mem, status, tid, lock, cursor, ret, depth, claimed,
                   root, finalized, exited, forks>>

\* __sig_killer works on the object, then the reference is dropped.
SigKiller(t) ==
    /\ At(t, "kill")
    /\ ret' = [ret EXCEPT ![t] = "run"]
    /\ Goto(t, "unref")
    /\ UNCHANGED <<heap, lock, obj, cursor, depth, process>>

\* pthread_cancel(0) signals every other running thread under the lock.
CancelEveryone(t) ==
    /\ At(t, "run")
    /\ signals < SignalBudget
    /\ signals' = signals + 1
    /\ lock = NoThread
    /\ lock' = t
    /\ cursor' = [cursor EXCEPT ![t] = 1]
    /\ Goto(t, "everyone")
    /\ UNCHANGED <<heap, obj, ret, depth, claimed, root, finalized, exited, forks>>


CancelEach(t) ==
    /\ At(t, "everyone")
    /\ cursor[t] \in DOMAIN list
    /\ cursor' = [cursor EXCEPT ![t] = @ + 1]
    /\ LET u == list[cursor[t]] IN
       IF u # t /\ Running(u)
       THEN /\ refs' = [refs EXCEPT ![u] = @ + 1]
            /\ obj' = [obj EXCEPT ![t] = u]
            /\ ret' = [ret EXCEPT ![t] = "everyone"]
            /\ Goto(t, "unref")
       ELSE UNCHANGED <<refs, obj, ret, pc>>
    /\ UNCHANGED <<list, mem, status, tid, lock, depth, process>>

CancelDone(t) ==
    /\ At(t, "everyone")
    /\ cursor[t] \notin DOMAIN list
    /\ lock' = NoThread
    /\ cursor' = [cursor EXCEPT ![t] = 0]
    /\ Goto(t, "run")
    /\ UNCHANGED <<heap, obj, ret, depth, process>>

----------------------------------------------------------------------------
(***************************************************************************)
(* fork().  The model follows the process whose turn it is: after a fork   *)
(* it goes on as the parent, or as the child, where no other thread exists.*)
(***************************************************************************)
ForkPrepare(t) ==
    /\ At(t, "run")
    /\ forks < ForkBudget
    /\ forks' = forks + 1
    /\ lock = NoThread
    /\ lock' = t
    /\ Goto(t, "fork")
    /\ UNCHANGED <<heap, local, claimed, root, finalized, exited, signals>>

ForkParent(t) ==
    /\ At(t, "fork")
    /\ lock' = NoThread
    /\ Goto(t, "run")
    /\ UNCHANGED <<heap, local, process>>

\* Mutant: the child keeps the status the parent's threads had.
ForkChild_NoZombies(t) ==
    /\ At(t, "fork")
    /\ ReclaimRoot \/ status[t] = Joinable
    /\ list' = dll_make_first(dll_remove(list, t), t)
    /\ lock' = NoThread
    /\ pc' = [u \in Thread |-> IF u = t THEN "run"
                               ELSE IF pc[u] \in {"unborn", "dead"} THEN pc[u]
                               ELSE "vanished"]
    /\ obj' = [u \in Thread |-> NoThread]
    /\ claimed' = {u \in Thread : IF u = t THEN status[t] = Detached
                                            ELSE mem[u] # "none"}
    /\ root' = t
    /\ UNCHANGED <<mem, status, tid, refs, cursor, ret, depth, finalized, exited,
                   signals, forks>>

\* The forker becomes the root of the child: a detached thread forks only in
\* programs that also reclaim their first thread.
ForkChild(t) ==
    /\ At(t, "fork")
    /\ ReclaimRoot \/ status[t] = Joinable
    /\ list' = dll_make_first(dll_remove(list, t), t)
    /\ status' = [u \in Thread |-> IF u \in Listed \ {t} THEN Zombie ELSE status[u]]
    /\ lock' = NoThread
    /\ pc' = [u \in Thread |-> IF u = t THEN "run"
                               ELSE IF pc[u] \in {"unborn", "dead"} THEN pc[u]
                               ELSE "vanished"]
    /\ obj' = [u \in Thread |-> NoThread]
    /\ claimed' = {u \in Thread : IF u = t THEN status[t] = Detached
                                            ELSE mem[u] # "none"}
    /\ root' = t
    /\ UNCHANGED <<mem, tid, refs, cursor, ret, depth, finalized, exited,
                   signals, forks>>

----------------------------------------------------------------------------
\* An assertion failed.
Aborted == \E t \in Thread : pc[t] = "abort"

\* The process is over: _Exit(0) was called, an assertion failed, or every thread
\* has left.
Over == exited \/ Aborted \/ \A t \in Thread : pc[t] \in {"unborn", "dead", "vanished"}

Finished == Over /\ UNCHANGED vars

Next ==
    \/ /\ ~Aborted
       /\ \E t \in Thread :
            \/ DecimateLock(t) \/ DecimateStop(t) \/ DecimateSkip(t) \/ DecimateRemove(t)
            \/ DerefLoad(t) \/ DerefSub(t) \/ Free(t)
            \/ CreateCall(t) \/ CreateFail(t) \/ Clone(t) \/ CloneFail(t)
            \/ ExitCall(t) \/ ExitFinalize(t) \/ ExitTransition(t) \/ ExitZombify(t)
            \/ ExitSurvivor(t) \/ ExitLeave(t)
            \/ JoinWait(t) \/ JoinGiveUp(t) \/ JoinRemove(t) \/ DetachZombify(t)
            \/ __sig_generate(t) \/ SigKiller(t)
            \/ CancelEveryone(t) \/ CancelEach(t) \/ CancelDone(t)
            \/ ForkPrepare(t) \/ ForkParent(t) \/ ForkChild(t)
            \/ \E u \in Thread : \/ JoinCall(t, u) \/ DetachCall(t, u)
                                 \/ CreateRefused(t, u)
                                 \/ CreateList(t, u, Joinable)
                                 \/ CreateList(t, u, Detached)
    \/ Finished

Spec == Init /\ [][Next]_vars

\* A thread that is on a processor keeps running; the one that holds the spin
\* lock never blocks.
LockHolderSteps(t) ==
    /\ ~Aborted
    /\ \/ DecimateStop(t) \/ DecimateSkip(t) \/ DecimateRemove(t) \/ CancelEach(t)
       \/ CancelDone(t) \/ ForkParent(t) \/ (lock = t /\ (DerefLoad(t) \/ DerefSub(t)))

FairSpec == Spec /\ \A t \in Thread : WF_vars(LockHolderSteps(t))

----------------------------------------------------------------------------
Gone == {"unborn", "dead", "vanished"}

\* Code that reads or writes the object obj[t].
Touching == {"clone", "wait", "remove", "unref", "sub", "free", "detach", "kill"}

\* Code that runs between dropping a list or signal reference and freeing.
Dropping == {"unref", "sub", "free"}

Allocated(u) == mem[u] \in {"static", "live"}

TypeOK ==
    /\ list \in Seq(Thread)
    /\ lock \in Thread \cup {NoThread}
    /\ mem \in [Thread -> {"static", "none", "live", "freed"}]
    /\ status \in [Thread -> Status]
    /\ tid \in [Thread -> {-1, 0, 1}]
    /\ refs \in [Thread -> Int]
    /\ pc \in [Thread -> PC]
    /\ obj \in [Thread -> Thread \cup {NoThread}]
    /\ cursor \in [Thread -> Nat]
    /\ ret \in [Thread -> Return]
    /\ depth \in [Thread -> Nat]
    /\ claimed \in SUBSET Thread
    /\ root \in Thread
    /\ finalized \in BOOLEAN
    /\ exited \in BOOLEAN
    /\ signals \in Nat
    /\ forks \in Nat

\* No thread uses a PosixThread that was freed: neither the one a call works
\* on, nor its own, nor one it meets while walking _pthread_list.
NoUseAfterFree ==
    /\ \A t \in Thread : pc[t] \in Touching => Allocated(obj[t])
    /\ \A t \in Thread : pc[t] \notin Gone => Allocated(t)
    /\ \A u \in Listed : Allocated(u)

\* _pthread_free is entered once per object, when no other thread works on it,
\* and the assertion at its top (the object is in no list) fails for one reason
\* only: pthread_create gives up an object that was never listed.
FreeAssertion ==
    \A t \in Thread :
        /\ pc[t] = "free" =>
              \A s \in Thread \ {t} : pc[s] \in Touching => obj[s] # obj[t]
        /\ pc[t] = "abort" => mem[obj[t]] = "none"

\* _Exit(0) is reached only by a thread that is the last one, after it ran the
\* atexit handlers: no thread that still runs is cut off.
LastSurvivor ==
    exited => /\ finalized
              /\ \A t \in Thread : pc[t] \in Gone

\* However pthread_detach and pthread_exit interleave, neither transition of
\* pt_status is lost: a thread past its own transition is Terminated if nobody
\* detached it, and a Zombie if somebody did.
NoLostDetach ==
    \A u \in Thread : pc[u] \in {"zombify", "orphan2", "leave", "dead"} =>
        /\ status[u] \in {Terminated, Zombie}
        /\ (Allocated(u) /\ u \notin claimed) => status[u] = Terminated

\* A thread object that left the list is freed, or somebody is about to drop a
\* reference to it (fork may strand the references of vanished threads).
NoLeak ==
    (\A t \in Thread : pc[t] # "vanished") =>
        \A u \in Thread : (mem[u] = "live" /\ u \notin Listed) =>
            \E t \in Thread : obj[t] = u /\ pc[t] \in Dropping \cup {"kill"}

=============================================================================
