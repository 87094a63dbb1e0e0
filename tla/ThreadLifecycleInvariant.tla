--------------------- MODULE ThreadLifecycleInvariant ---------------------
(***************************************************************************)
(* The inductive invariants of ThreadLifecycle.                            *)
(***************************************************************************)
EXTENDS ThreadLifecycle, DllProofs

----------------------------------------------------------------------------
\* Threads that hold a reference to u and have not dropped it yet.
Holders(u) == {t \in Thread : obj[t] = u /\ pc[t] \in {"kill", "unref", "sub"}}

Claiming == {"wait", "remove", "detach"}

\* A joinable thread that exits is Terminated from here on.
Past == {"orphan2", "leave", "dead", "vanished"}

ListInv ==
    /\ NoDuplicates(list)
    /\ \A u \in Listed : Allocated(u)

LockInv == \A t \in Thread : pc[t] \in {"scan", "everyone", "fork"} => lock = t

ScanInv ==
    \A t \in Thread : pc[t] = "scan" =>
        /\ cursor[t] \in 0..Len(list)
        /\ \A j \in (cursor[t] + 1)..Len(list) : status[list[j]] = Zombie

AliveInv ==
    \A t \in Thread :
        /\ pc[t] \notin Gone => t \in Listed /\ tid[t] = 1
        /\ pc[t] = "unborn" => tid[t] = -1
        /\ mem[t] = "none" => pc[t] = "unborn" /\ refs[t] = 0
        /\ mem[t] = "freed" => pc[t] = "unborn" \/ t \in claimed

StatusInv ==
    \A t \in Thread :
        /\ pc[t] \in {"orphan2", "leave", "dead"} => status[t] \in {Terminated, Zombie}
        /\ pc[t] = "zombify" => status[t] = Zombie
        /\ status[t] = Terminated => pc[t] \in Past

RootInv ==
    /\ root \in Listed
    /\ root \notin claimed
    /\ pc[root] # "unborn"
    /\ status[root] \in {Joinable, Terminated}
    /\ \A u \in Listed : Before(list, root, u) => status[u] = Zombie

ClaimInv ==
    \A u \in Thread : (u \notin claimed /\ Allocated(u)) =>
        u \in Listed /\ status[u] \in {Joinable, Terminated}

JoinInv ==
    \A t \in Thread : pc[t] \in Claiming =>
        /\ obj[t] \in Listed
        /\ obj[t] \in claimed
        /\ pc[obj[t]] # "unborn"
        /\ pc[t] \in {"wait", "remove"} => status[obj[t]] \in {Joinable, Terminated}
        /\ pc[t] = "remove" => tid[obj[t]] = 0
        /\ pc[t] = "detach" => /\ Before(list, obj[t], root)
                               /\ status[obj[t]] = Zombie
                               /\ pc[obj[t]] \in Past

CloneInv ==
    \A t \in Thread : pc[t] = "clone" =>
        /\ obj[t] \in Listed
        /\ pc[obj[t]] = "unborn"
        /\ mem[obj[t]] = "live"

\* Only one thread joins or detaches, creates, or frees an object.
OwnerInv ==
    \A s, t \in Thread : (s # t /\ obj[s] = obj[t]) =>
        /\ pc[s] \in Claiming => pc[t] \notin Claiming
        /\ pc[s] = "clone" => pc[t] # "clone"
        /\ pc[s] = "free" => pc[t] # "free"

UnbornInv ==
    \A t \in Thread :
        /\ pc[t] \in Touching => obj[t] \in Thread
        /\ (pc[t] \in Dropping \cup {"kill"} /\ pc[obj[t]] = "unborn") => lock = t

\* pthread_cancel(0) drops its references under the lock, and never the last.
RetInv ==
    \A t \in Thread :
        /\ ret[t] = "everyone" => /\ lock = t
                                  /\ pc[t] \in {"unref", "sub"}
                                  /\ depth[t] = 0
                                  /\ obj[t] \in Listed
        /\ pc[t] \in {"decimate", "scan", "unref", "sub", "free", "vanished"} \/ depth[t] = 0

RefInv ==
    \A u \in Thread :
        /\ u \in Listed => refs[u] >= Cardinality(Holders(u))
        /\ Holders(u) # {} => Allocated(u) /\ refs[u] >= Cardinality(Holders(u)) - 1

FreeInv ==
    \A t, u \in Thread : (pc[t] = "free" /\ obj[t] = u) =>
        /\ u \notin Listed
        /\ Allocated(u)
        /\ Holders(u) = {}

SurvivorInv ==
    /\ \A t \in Thread :
          (pc[t] \in {"transition", "zombify", "orphan2"} /\ Len(list) = 1) => finalized
    /\ exited => finalized /\ \A t \in Thread : pc[t] \in Gone

IInv ==
    /\ TypeOK
    /\ ListInv
    /\ LockInv
    /\ ScanInv
    /\ AliveInv
    /\ StatusInv
    /\ RootInv
    /\ ClaimInv
    /\ JoinInv
    /\ CloneInv
    /\ OwnerInv
    /\ UnbornInv
    /\ RetInv
    /\ RefInv
    /\ FreeInv
    /\ SurvivorInv

\* Code that runs with a reference it has not dropped yet.
Holding == {"kill", "unref", "sub"}

\* Somebody has dropped the last reference to u and frees it.
Freed(u) == \E t \in Thread : pc[t] = "free" /\ obj[t] = u

\* No reference is counted that nobody drops: those counted for a listed object have
\* holders, and an object that left the list is being freed or has one holder more
\* than references counted, which is the one who will free it.
Accounted(u) ==
    /\ u \in Listed => refs[u] <= Cardinality(Holders(u))
    /\ (mem[u] = "live" /\ u \notin Listed) =>
          \/ Freed(u)
          \/ Holders(u) # {} /\ refs[u] <= Cardinality(Holders(u)) - 1

\* A thread that vanished in a fork drops nothing.
LeakInv == (\A t \in Thread : pc[t] # "vanished") => \A u \in Thread : Accounted(u)

\* IInv is inductive, and LeakInv is inductive relative to it: what fork.c,
\* _pthread_unref, pthread_join and the others keep true of the list, the references,
\* the states and the owners of thread objects.
Invariants == IInv /\ LeakInv

\* Adding or removing one thread changes the size of a set of threads by one.
Counting ==
    \A X \in SUBSET Thread :
        /\ Cardinality(X) \in Nat
        /\ Cardinality(X) = 0 <=> X = {}
        /\ \A x \in Thread \ X : Cardinality(X \cup {x}) = Cardinality(X) + 1
        /\ \A x \in X : Cardinality(X \ {x}) = Cardinality(X) - 1
=============================================================================
