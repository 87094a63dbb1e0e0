-------------------------- MODULE ThreadStepProofs --------------------------
(***************************************************************************)
(* The invariant of ThreadLifecycle is kept by the steps that change a     *)
(* thread object or the list: those of pthread_create, pthread_exit and    *)
(* fork, of reaping, and of pthread_join and pthread_detach.               *)
(***************************************************************************)
EXTENDS ThreadLifecycleInvariant, TLAPS

\* A step of t alone keeps one owner for every object, if what t does with its own
\* object nobody else does with it.
LEMMA OwnerMoved ==
    ASSUME OwnerInv, NEW t \in Thread,
           \A s \in Thread \ {t} : pc'[s] = pc[s] /\ obj'[s] = obj[s],
           \A s \in Thread \ {t} : obj[s] = obj'[t] =>
               /\ pc'[t] \in Claiming => pc[s] \notin Claiming
               /\ pc'[t] = "clone" => pc[s] # "clone"
               /\ pc'[t] = "free" => pc[s] # "free"
    PROVE  OwnerInv'
  <1> SUFFICES ASSUME NEW r \in Thread, NEW s \in Thread, r # s, obj'[r] = obj'[s]
               PROVE  /\ pc'[r] \in Claiming => pc'[s] \notin Claiming
                      /\ pc'[r] = "clone" => pc'[s] # "clone"
                      /\ pc'[r] = "free" => pc'[s] # "free"
    BY Zenon DEF OwnerInv
  <1>1. CASE r = t
    BY <1>1, Zenon
  <1>2. CASE s = t
    BY <1>2, Zenon
  <1>3. CASE r # t /\ s # t
    BY <1>3, Zenon DEF OwnerInv
  <1> QED BY <1>1, <1>2, <1>3, Zenon

----------------------------------------------------------------------------
(***************************************************************************)
(* pthread_create, pthread_exit and fork.                                  *)
(***************************************************************************)
\* IInv is kept: pthread_create lists a new object, first.
LEMMA CreateListStep ==
    ASSUME IInv, Counting, ~ReclaimRoot, NEW t \in Thread, NEW u \in Thread, NEW d \in {Joinable, Detached}, CreateList(t, u, d)
    PROVE  IInv'
  <1> USE DEF Joinable, Detached, Terminated, Zombie
  <1>card. \A X \in SUBSET Thread :
              /\ Cardinality(X) \in Nat
              /\ Cardinality(X) = 0 <=> X = {}
              /\ \A x \in Thread \ X : Cardinality(X \cup {x}) = Cardinality(X) + 1
              /\ \A x \in X : Cardinality(X \ {x}) = Cardinality(X) - 1
    BY Zenon DEF Counting
  <1>u. /\ mem[u] = "none" /\ pc[u] = "unborn" /\ refs[u] = 0 /\ u \notin Listed /\ u # t
        /\ Holders(u) = {} /\ pc[t] = "create"
    <2>1. mem[u] = "none" /\ pc[t] = "create"
      BY Zenon DEF CreateList, At
    <2>2. pc[u] = "unborn" /\ refs[u] = 0
      BY <2>1, Zenon DEF IInv, AliveInv
    <2>3. u \notin Listed /\ Holders(u) = {}
      BY <2>1, Zenon DEF IInv, ListInv, RefInv, Allocated
    <2> QED BY <2>1, <2>2, <2>3, Zenon
  <1>list. /\ list' \in Seq(Thread) /\ NoDuplicates(list') /\ Listed' = Listed \cup {u}
           /\ Len(list') # 1
           /\ \A x, y : Before(list', x, y) <=> (Before(list, x, y) \/ (x = u /\ y \in Listed))
           /\ \A x : ~Before(list, x, u)
    <2>1. list \in Seq(Thread) /\ NoDuplicates(list) /\ list' = dll_make_first(list, u)
      BY Zenon DEF IInv, TypeOK, ListInv, CreateList
    <2>2. Listed = Elements(list) /\ Listed' = Elements(list')
      BY Zenon DEF Listed, Elements
    <2>3. /\ dll_make_first(list, u) \in Seq(Thread) /\ NoDuplicates(dll_make_first(list, u))
          /\ Elements(dll_make_first(list, u)) = Elements(list) \cup {u}
          /\ Len(dll_make_first(list, u)) = Len(list) + 1
          /\ \A x, y : Before(dll_make_first(list, u), x, y)
                         <=> (Before(list, x, y) \/ (x = u /\ y \in Elements(list)))
      BY <1>u, <2>1, <2>2, FirstLemma, ZenonT(60)
    <2>4. Len(list) \in Nat \ {0}
      BY DEF IInv, RootInv, Listed
    <2>5. \A x : ~Before(list, x, u)
      BY <1>u, <2>1, <2>2, OrderLemma, Zenon
    <2> QED BY <2>1, <2>2, <2>3, <2>4, <2>5
  <1>frame. /\ \A s \in Thread \ {t} : pc'[s] = pc[s] /\ obj'[s] = obj[s]
            /\ \A x \in Thread \ {u} : mem'[x] = mem[x] /\ status'[x] = status[x]
            /\ pc'[t] = "clone" /\ obj'[t] = u /\ lock = NoThread
            /\ mem'[u] = "live" /\ status'[u] = d /\ ~exited
            /\ claimed \subseteq claimed' /\ claimed' \subseteq claimed \cup {u} /\ (d = Detached => u \in claimed')
            /\ UNCHANGED <<tid, refs, lock, cursor, ret, depth, root, finalized, exited>>
    BY Zenon DEF IInv, TypeOK, CreateList, At, Goto
  <1>holders. \A x \in Thread : Holders(x)' = Holders(x)
    BY <1>u, <1>frame, Zenon DEF Holders
  <1>TypeOK. TypeOK'
    <2>1. /\ pc' \in [Thread -> PC] /\ obj' \in [Thread -> Thread \cup {NoThread}]
          /\ mem' \in [Thread -> {"static", "none", "live", "freed"}]
      BY Zenon DEF IInv, TypeOK, PC, CreateList, Goto
    <2>2. status' \in [Thread -> Status] /\ claimed' \in SUBSET Thread
      BY Zenon DEF IInv, TypeOK, Status, CreateList, At
    <2>3. signals' \in Nat /\ forks' \in Nat
      BY Zenon DEF IInv, TypeOK, CreateList
    <2> QED BY <1>list, <1>frame, <2>1, <2>2, <2>3, Zenon DEF IInv, TypeOK
  <1>ListInv. ListInv'
    <2>1. \A x \in Listed : x \in Thread
      BY DEF IInv, TypeOK, Listed, heap, local, At, Goto
    <2> QED BY <1>list, <1>frame, <2>1, ZenonT(60) DEF IInv, ListInv, Allocated
  <1>LockInv. LockInv'
    BY <1>frame, Zenon DEF IInv, LockInv
  <1>ScanInv. ScanInv'
    BY <1>frame, ThreadAssumption, ZenonT(60) DEF IInv, ScanInv, LockInv
  <1>AliveInv. AliveInv'
    <2> SUFFICES ASSUME NEW s \in Thread
                 PROVE  /\ pc'[s] \notin Gone => s \in Listed' /\ tid[s] = 1
                        /\ pc'[s] = "unborn" => tid[s] = -1
                        /\ mem'[s] = "none" => pc'[s] = "unborn" /\ refs[s] = 0
                        /\ mem'[s] = "freed" => pc'[s] = "unborn" \/ s \in claimed'
      BY <1>frame, Zenon DEF AliveInv, process, At
    <2>1. CASE s = u
      BY <2>1, <1>frame, <1>u, ThreadAssumption, ZenonT(60) DEF IInv, AliveInv
    <2>2. CASE s = t
      BY <1>list, <1>frame, <1>u DEF IInv, AliveInv, Gone
    <2>3. CASE s # u /\ s # t
      BY <2>3, <1>list, <1>frame DEF IInv, AliveInv
    <2> QED BY <2>1, <2>2, <2>3, Zenon
  <1>StatusInv. StatusInv'
    BY <1>frame, <1>u DEF IInv, StatusInv, Past
  <1>RootInv. RootInv'
    <2>1. \A x \in Listed : x \in Thread
      BY DEF IInv, TypeOK, Listed
    <2>2. root \in Listed /\ root # u /\ root \in Thread /\ root # u
      BY <1>u, Zenon DEF IInv, TypeOK, RootInv
    <2>3. pc'[root] # "unborn" /\ root \notin claimed'
      BY <1>frame, <2>2, Zenon DEF IInv, RootInv
    <2> QED BY <1>list, <1>frame, <2>1, <2>2 DEF IInv, RootInv
  <1>ClaimInv. ClaimInv'
    BY <1>list, <1>frame, ZenonT(60) DEF IInv, ClaimInv, Allocated
  <1>JoinInv. JoinInv'
    BY <1>list, <1>frame, <1>u, ThreadAssumption DEF IInv, JoinInv, Claiming, Past, UnbornInv,
       Touching, At, Goto
  <1>CloneInv. CloneInv'
    <2> SUFFICES ASSUME NEW s \in Thread, pc'[s] = "clone"
                 PROVE  obj'[s] \in Listed' /\ pc'[obj'[s]] = "unborn" /\ mem'[obj'[s]] = "live"
      BY Zenon DEF CloneInv
    <2>1. CASE s = t
      BY <2>1, <1>list, <1>frame, <1>u, ZenonT(60) DEF heap
    <2>2. CASE s # t
      <3>1. /\ pc[s] = "clone" /\ obj'[s] = obj[s] /\ obj[s] \in Thread
        BY <2>2, <1>frame, ZenonT(60) DEF IInv, UnbornInv, Touching, At
      <3>2. obj[s] \in Listed /\ pc[obj[s]] = "unborn" /\ mem[obj[s]] = "live"
        BY <3>1, ZenonT(60) DEF IInv, CloneInv
      <3> QED BY <3>1, <3>2, <1>list, <1>frame, <1>u
    <2> QED BY <2>1, <2>2, Zenon
  <1>OwnerInv. OwnerInv'
    <2>1. \A s \in Thread \ {t} : pc[s] = "clone" => obj[s] # u
      BY <1>u, Zenon DEF IInv, CloneInv, At
    <2>2. \A s \in Thread \ {t} : pc'[s] = pc[s] /\ obj'[s] = obj[s]
      BY <1>frame, ZenonT(60)
    <2> QED BY <1>frame, <2>1 DEF IInv, OwnerInv, Claiming
  <1>UnbornInv. UnbornInv'
    BY <1>frame DEF IInv, UnbornInv, Touching, Dropping
  <1>RetInv. RetInv'
    BY <1>list, <1>frame, <1>u, ZenonT(60) DEF IInv, RetInv
  <1>RefInv. RefInv'
    <2> SUFFICES ASSUME NEW x \in Thread
                 PROVE  /\ x \in Listed' => refs[x] >= Cardinality(Holders(x)')
                        /\ Holders(x)' # {} => Allocated(x)' /\ refs[x] >= Cardinality(Holders(x)') - 1
      BY <1>frame, Zenon DEF RefInv
    <2>1. CASE x # u
      BY <2>1, <1>list, <1>frame, <1>holders, ThreadAssumption, ZenonT(60) DEF IInv, RefInv,
         Allocated
    <2>2. CASE x = u
      <3>1. Holders(x)' = {}
        BY <2>2, <1>u, <1>holders, Zenon
      <3>2. Cardinality(Holders(x)') = 0
        BY <3>1, <1>card, ZenonT(60)
      <3> QED BY <2>2, <3>1, <3>2, <1>u
    <2> QED BY <2>1, <2>2, Zenon
  <1>FreeInv. FreeInv'
    <2>1. \A s \in Thread : pc'[s] = "free" => pc[s] = "free" /\ obj'[s] = obj[s]
      BY <1>frame, Zenon
    <2>2. \A x \in Thread : x \notin Listed /\ Allocated(x) => x # u /\ x \notin Listed' /\ Allocated(x)'
      BY <1>list, <1>frame, <1>u, Zenon DEF Allocated
    <2> QED BY <1>holders, <2>1, <2>2, Zenon DEF IInv, FreeInv
  <1>SurvivorInv. SurvivorInv'
    BY <1>list, <1>frame, Zenon DEF SurvivorInv
  <1> QED BY <1>TypeOK, <1>ListInv, <1>LockInv, <1>ScanInv, <1>AliveInv, <1>StatusInv,
             <1>RootInv, <1>ClaimInv, <1>JoinInv, <1>CloneInv, <1>OwnerInv, <1>UnbornInv,
             <1>RetInv, <1>RefInv, <1>FreeInv, <1>SurvivorInv, ZenonT(60) DEF IInv

\* IInv is kept: pthread_create gives _pthread_free an object that is in no list.
LEMMA CreateRefusedStep ==
    ASSUME IInv, NEW t \in Thread, NEW u \in Thread, CreateRefused(t, u)
    PROVE  IInv'
  <1>frame. /\ \A s \in Thread \ {t} : pc'[s] = pc[s] /\ obj'[s] = obj[s]
            /\ pc[t] = "create" /\ pc'[t] = "abort" /\ ~exited /\ obj' \in [Thread -> Thread \cup {NoThread}]
            /\ pc' \in [Thread -> PC]
    BY Zenon DEF IInv, TypeOK, PC, CreateRefused, At, Goto
  <1>same. UNCHANGED <<list, mem, status, tid, refs, lock, cursor, ret, depth, claimed, root,
                       finalized, exited, signals, forks>>
    BY Zenon DEF CreateRefused, heap, process
  <1>list. Listed' = Listed /\ \A x \in Thread : Allocated(x)' = Allocated(x)
    BY <1>same, Zenon DEF Listed, Allocated
  <1>holders. \A x \in Thread : Holders(x)' = Holders(x)
    BY <1>frame, Zenon DEF Holders
  <1>TypeOK. TypeOK'
    BY <1>frame, <1>same, Zenon DEF IInv, TypeOK
  <1>ListInv. ListInv'
    BY <1>list, <1>same, Zenon DEF IInv, ListInv, Allocated
  <1>LockInv. LockInv'
    BY <1>frame, <1>same, Zenon DEF IInv, LockInv
  <1>ScanInv. ScanInv'
    BY <1>frame, <1>same, Zenon DEF IInv, ScanInv
  <1>AliveInv. AliveInv'
    BY <1>list, <1>frame, <1>same, Zenon DEF IInv, AliveInv, Gone
  <1>StatusInv. StatusInv'
    BY <1>frame, <1>same, Zenon DEF IInv, StatusInv, Past
  <1>RootInv. RootInv'
    <2>1. root \in Thread
      BY Zenon DEF IInv, TypeOK
    <2> QED BY <1>list, <1>frame, <1>same, <2>1, Zenon DEF IInv, RootInv
  <1>ClaimInv. ClaimInv'
    BY <1>list, <1>same, Zenon DEF IInv, ClaimInv
  <1>moved. \A s \in Thread \ {t} : /\ pc[s] \in Touching => obj[s] \in Thread
                                    /\ \A x \in Thread : /\ pc[x] # "unborn" => pc'[x] # "unborn"
                                                         /\ pc[x] = "unborn" <=> pc'[x] = "unborn"
                                                         /\ pc[x] \in Past => pc'[x] \in Past
    BY <1>frame, Zenon DEF IInv, UnbornInv, Past
  <1>stay. \A x \in Thread : /\ pc[x] # "unborn" => pc'[x] # "unborn"
                             /\ pc[x] \in Past => pc'[x] \in Past
    BY <1>frame, Zenon DEF Past
  <1>other. \A s \in Thread : pc'[s] \in Touching =>
               s # t /\ pc[s] = pc'[s] /\ obj[s] = obj'[s] /\ obj[s] \in Thread
    BY <1>frame, <1>moved, Zenon DEF Touching
  <1>JoinInv. JoinInv'
    <2> SUFFICES ASSUME NEW s \in Thread, pc'[s] \in Claiming
                 PROVE  /\ obj'[s] \in Listed /\ obj'[s] \in claimed /\ pc'[obj'[s]] # "unborn"
                        /\ pc'[s] \in {"wait", "remove"} => status[obj'[s]] \in {Joinable, Terminated}
                        /\ pc'[s] = "remove" => tid[obj'[s]] = 0
                        /\ pc'[s] = "detach" => /\ Before(list, obj'[s], root)
                                                /\ status[obj'[s]] = Zombie
                                                /\ pc'[obj'[s]] \in Past
      BY <1>list, <1>same, Zenon DEF JoinInv
    <2>1. s # t /\ pc[s] = pc'[s] /\ obj[s] = obj'[s] /\ obj[s] \in Thread
      BY <1>other, Zenon DEF Claiming, Touching
    <2>2. /\ obj[s] \in Listed /\ obj[s] \in claimed /\ pc[obj[s]] # "unborn"
          /\ pc[s] \in {"wait", "remove"} => status[obj[s]] \in {Joinable, Terminated}
          /\ pc[s] = "remove" => tid[obj[s]] = 0
          /\ pc[s] = "detach" => /\ Before(list, obj[s], root)
                                 /\ status[obj[s]] = Zombie
                                 /\ pc[obj[s]] \in Past
      BY <2>1, Zenon DEF IInv, JoinInv
    <2>3. pc'[obj[s]] # "unborn" /\ (pc[obj[s]] \in Past => pc'[obj[s]] \in Past)
      BY <1>stay, <2>1, <2>2, Zenon
    <2> QED BY <2>1, <2>2, <2>3, Zenon
  <1>CloneInv. CloneInv'
    <2> SUFFICES ASSUME NEW s \in Thread, pc'[s] = "clone"
                 PROVE  obj'[s] \in Listed /\ pc'[obj'[s]] = "unborn" /\ mem[obj'[s]] = "live"
      BY <1>list, <1>same, Zenon DEF CloneInv
    <2>1. s # t /\ pc[s] = pc'[s] /\ obj[s] = obj'[s] /\ obj[s] \in Thread
      BY <1>other, Zenon DEF Touching
    <2> QED BY <1>moved, <2>1, Zenon DEF IInv, CloneInv
  <1>OwnerInv. OwnerInv'
    BY <1>frame, ZenonT(60) DEF IInv, OwnerInv, Claiming
  <1>UnbornInv. UnbornInv'
    BY <1>frame, <1>same, <1>moved, ZenonT(60) DEF IInv, UnbornInv, Touching, Dropping
  <1>RetInv. RetInv'
    BY <1>list, <1>frame, <1>same, ZenonT(60) DEF IInv, RetInv
  <1>RefInv. RefInv'
    BY <1>list, <1>same, <1>holders, Zenon DEF IInv, RefInv
  <1>FreeInv. FreeInv'
    BY <1>list, <1>frame, <1>holders, Zenon DEF IInv, FreeInv
  <1>SurvivorInv. SurvivorInv'
    BY <1>frame, <1>same, Zenon DEF IInv, SurvivorInv
  <1> QED BY <1>TypeOK, <1>ListInv, <1>LockInv, <1>ScanInv, <1>AliveInv, <1>StatusInv,
             <1>RootInv, <1>ClaimInv, <1>JoinInv, <1>CloneInv, <1>OwnerInv, <1>UnbornInv,
             <1>RetInv, <1>RefInv, <1>FreeInv, <1>SurvivorInv, ZenonT(60) DEF IInv

\* IInv is kept: the new thread starts.
LEMMA CloneStep ==
    ASSUME IInv, ~ReclaimRoot, NEW t \in Thread, Clone(t)
    PROVE  IInv'
  <1> USE DEF Joinable, Detached, Terminated, Zombie
  <1>list. list' = list /\ Listed' = Listed
    BY Zenon DEF Listed, Clone
  <1>u. PICK u \in Thread : /\ u = obj[t] /\ u # t /\ u \in Listed /\ pc[u] = "unborn" /\ mem[u] = "live"
                            /\ pc[t] = "clone"
    BY Zenon DEF IInv, UnbornInv, CloneInv, Touching, Clone, At
  <1>frame. /\ \A s \in Thread \ {t, u} : pc'[s] = pc[s]
            /\ \A s \in Thread \ {t} : obj'[s] = obj[s]
            /\ \A s \in Thread \ {u} : tid'[s] = tid[s]
            /\ pc'[t] = "run" /\ pc'[u] = "run" /\ tid'[u] = 1 /\ ~exited
            /\ UNCHANGED <<list, mem, status, refs, lock, cursor, ret, depth, process>>
    BY <1>u, Zenon DEF IInv, TypeOK, Clone, Forget, At
  <1>holders. \A x \in Thread : Holders(x)' = Holders(x)
    BY <1>u, <1>frame, ZenonT(60) DEF Holders
  <1>TypeOK. TypeOK'
    BY Zenon DEF IInv, TypeOK, PC, Clone, Forget, process
  <1>ListInv. ListInv'
    BY <1>list, <1>frame, Zenon DEF IInv, ListInv, Allocated
  <1>LockInv. LockInv'
    BY <1>list, <1>frame, Zenon DEF IInv, LockInv
  <1>ScanInv. ScanInv'
    BY <1>frame, ZenonT(60) DEF IInv, ScanInv, local
  <1>AliveInv. AliveInv'
    BY <1>u, <1>list, <1>frame DEF IInv, AliveInv, Gone, process
  <1>StatusInv. StatusInv'
    BY <1>u, <1>frame DEF IInv, StatusInv, Past
  <1>RootInv. RootInv'
    BY <1>list, <1>frame, ZenonT(60) DEF IInv, TypeOK, RootInv, process
  <1>ClaimInv. ClaimInv'
    BY <1>list, <1>frame, Zenon DEF IInv, ClaimInv, Allocated, process
  <1>JoinInv. JoinInv'
    BY <1>u, <1>list, <1>frame DEF IInv, JoinInv, Claiming, Past, UnbornInv, Touching, process
  <1>CloneInv. CloneInv'
    BY <1>u, <1>list, <1>frame DEF IInv, CloneInv, UnbornInv, Touching, OwnerInv
  <1>OwnerInv. OwnerInv'
    BY <1>frame DEF IInv, OwnerInv, Claiming, process, At
  <1>UnbornInv. UnbornInv'
    BY <1>frame DEF IInv, UnbornInv, Touching, Dropping
  <1>RetInv. RetInv'
    BY <1>u, <1>list, <1>frame, ZenonT(60) DEF IInv, RetInv
  <1>RefInv. RefInv'
    BY <1>list, <1>frame, <1>holders, Zenon DEF IInv, RefInv, Allocated
  <1>FreeInv. FreeInv'
    BY <1>list, <1>frame, <1>holders DEF IInv, FreeInv, Allocated
  <1>SurvivorInv. SurvivorInv'
    BY <1>frame, ZenonT(60) DEF IInv, SurvivorInv, process
  <1> QED BY <1>TypeOK, <1>ListInv, <1>LockInv, <1>ScanInv, <1>AliveInv, <1>StatusInv,
             <1>RootInv, <1>ClaimInv, <1>JoinInv, <1>CloneInv, <1>OwnerInv, <1>UnbornInv,
             <1>RetInv, <1>RefInv, <1>FreeInv, <1>SurvivorInv, ZenonT(60) DEF IInv, heap

\* IInv is kept: clone() failed: nobody can hold a reference to the object that is freed, as
\* its signals are masked and the lock is free.
LEMMA CloneFailStep ==
    ASSUME IInv, ~ReclaimRoot, NEW t \in Thread, CloneFail(t)
    PROVE  IInv'
  <1> USE DEF Joinable, Detached, Terminated, Zombie
  <1>u. PICK u \in Thread : /\ u = obj[t] /\ u \in Listed /\ u # root /\ pc[u] = "unborn" /\ u # t
                            /\ mem[u] = "live" /\ Holders(u) = {} /\ list' = dll_remove(list, u)
                            /\ \A s \in Thread : pc[s] \in Claiming => obj[s] # u
                            /\ \A s \in Thread \ {t} : pc[s] = "clone" => obj[s] # u
    <2>1. /\ obj[t] \in Thread /\ pc[t] = "clone" /\ list' = dll_remove(list, obj[t])
          /\ lock = NoThread
      BY Zenon DEF IInv, UnbornInv, Touching, CloneFail, At
    <2>2. obj[t] \in Listed /\ pc[obj[t]] = "unborn" /\ mem[obj[t]] = "live"
      BY <2>1, Zenon DEF IInv, CloneInv
    <2>3. obj[t] # root /\ obj[t] # t
      BY <2>1, <2>2, Zenon DEF IInv, RootInv
    <2>4. \A x \in Thread : x = obj[t] => Holders(x) = {}
      BY <2>1, <2>2, ThreadAssumption, ZenonT(60) DEF IInv, UnbornInv, Dropping, Holders
    <2>5. \A s \in Thread : pc[s] \in Claiming => obj[s] # obj[t]
      BY <2>2, Zenon DEF IInv, JoinInv, process, Goto
    <2>6. \A s \in Thread \ {t} : pc[s] = "clone" => obj[s] # obj[t]
      BY <2>1, Zenon DEF IInv, OwnerInv
    <2> QED BY <2>1, <2>2, <2>3, <2>4, <2>5, <2>6, ZenonT(60)
  <1>list. /\ list' \in Seq(Thread) /\ NoDuplicates(list') /\ Listed' = Listed \ {u}
           /\ \A x, y : Before(list', x, y) <=> (Before(list, x, y) /\ x # u /\ y # u)
    <2>1. list \in Seq(Thread) /\ NoDuplicates(list) /\ list' = dll_remove(list, u)
      BY <1>u, Zenon DEF IInv, TypeOK, ListInv
    <2>2. Listed = Elements(list) /\ Listed' = Elements(list')
      BY Zenon DEF Listed, Elements
    <2>3. /\ dll_remove(list, u) \in Seq(Thread) /\ NoDuplicates(dll_remove(list, u))
          /\ Elements(dll_remove(list, u)) = Elements(list) \ {u}
          /\ \A x, y : Before(dll_remove(list, u), x, y) <=> (Before(list, x, y) /\ x # u /\ y # u)
      BY <2>1, RemoveLemma, Zenon
    <2> QED BY <2>1, <2>2, <2>3, Zenon
  <1>frame. /\ \A s \in Thread \ {t} : pc'[s] = pc[s] /\ obj'[s] = obj[s]
            /\ \A x \in Thread \ {u} : mem'[x] = mem[x]
            /\ pc[t] = "clone" /\ pc'[t] = "run" /\ obj'[t] = NoThread /\ lock = NoThread
            /\ mem'[u] = "freed" /\ ~exited
            /\ UNCHANGED <<status, tid, refs, lock, cursor, ret, depth, process>>
    BY <1>u, Zenon DEF IInv, TypeOK, CloneFail, Forget, At, Goto
  <1>holders. \A x \in Thread : Holders(x)' = Holders(x)
    BY <1>frame, ZenonT(60) DEF Holders
  <1>TypeOK. TypeOK'
    <2>1. /\ pc' \in [Thread -> PC] /\ obj' \in [Thread -> Thread \cup {NoThread}]
          /\ mem' \in [Thread -> {"static", "none", "live", "freed"}]
      BY <1>u, Zenon DEF IInv, TypeOK, PC, CloneFail, Forget, Goto
    <2> QED BY <1>list, <1>frame, <2>1, ZenonT(60) DEF IInv, TypeOK, process
  <1>ListInv. ListInv'
    <2>1. \A x \in Listed : x \in Thread
      <3>1. list \in Seq(Thread)
        BY Zenon DEF IInv, TypeOK
      <3> QED BY <3>1 DEF Listed
    <2> QED BY <1>list, <1>frame, <2>1, ZenonT(60) DEF IInv, ListInv, Allocated
  <1>LockInv. LockInv'
    BY <1>frame, Zenon DEF IInv, LockInv
  <1>ScanInv. ScanInv'
    <2>1. \A s \in Thread : pc'[s] # "scan"
      BY <1>frame, ThreadAssumption, ZenonT(60) DEF IInv, LockInv
    <2> QED BY <2>1, Zenon DEF ScanInv
  <1>AliveInv. AliveInv'
    BY <1>list, <1>frame, <1>u DEF IInv, AliveInv, Gone, process
  <1>StatusInv. StatusInv'
    BY <1>frame, ZenonT(60) DEF IInv, StatusInv, Past
  <1>RootInv. RootInv'
    BY <1>list, <1>frame, <1>u, ZenonT(60) DEF IInv, TypeOK, RootInv, process
  <1>ClaimInv. ClaimInv'
    BY <1>list, <1>frame, Zenon DEF IInv, ClaimInv, Allocated, process
  <1>JoinInv. JoinInv'
    <2> SUFFICES ASSUME NEW s \in Thread, pc'[s] \in Claiming
                 PROVE  /\ obj'[s] \in Listed' /\ obj'[s] \in claimed' /\ pc'[obj'[s]] # "unborn"
                        /\ pc'[s] \in {"wait", "remove"} => status'[obj'[s]] \in {Joinable, Terminated}
                        /\ pc'[s] = "remove" => tid'[obj'[s]] = 0
                        /\ pc'[s] = "detach" => /\ Before(list', obj'[s], root')
                                                /\ status'[obj'[s]] = Zombie
                                                /\ pc'[obj'[s]] \in Past
      BY Zenon DEF JoinInv
    <2>1. pc'[s] = pc[s] /\ obj'[s] = obj[s]
      BY <1>frame, Zenon DEF Claiming
    <2>2. obj[s] \in Thread
      BY <2>1, Zenon DEF IInv, UnbornInv, Claiming, Touching
    <2>3. /\ pc[obj[s]] # "unborn" => pc'[obj[s]] # "unborn"
          /\ pc[obj[s]] \in Past => pc'[obj[s]] \in Past
      BY <1>frame, <2>2, Zenon DEF Past
    <2>4. Listed \ {u} \subseteq Listed' /\ UNCHANGED <<status, tid, claimed, root>>
      BY <1>list, <1>frame, Zenon DEF process
    <2>5. obj[s] # u
      BY <1>frame, <1>u, <2>1, Zenon DEF Claiming
    <2>6. Before(list, obj[s], root) => Before(list', obj[s], root)
      BY <1>list, <1>u, <2>5, Zenon
    <2> QED BY <2>1, <2>2, <2>3, <2>4, <2>5, <2>6, Zenon DEF IInv, JoinInv
  <1>CloneInv. CloneInv'
    <2> SUFFICES ASSUME NEW s \in Thread, pc'[s] = "clone"
                 PROVE  obj'[s] \in Listed' /\ pc'[obj'[s]] = "unborn" /\ mem'[obj'[s]] = "live"
      BY Zenon DEF CloneInv
    <2>1. s # t /\ pc[s] = "clone" /\ obj'[s] = obj[s]
      BY <1>frame, Zenon
    <2>2. obj[s] \in Thread /\ obj[s] \in Listed /\ pc[obj[s]] = "unborn" /\ mem[obj[s]] = "live"
      BY <2>1, Zenon DEF IInv, CloneInv, UnbornInv, Touching
    <2>3. pc'[obj[s]] = "unborn"
      BY <1>frame, <2>2, Zenon
    <2>4. obj[s] \in Listed' /\ mem'[obj[s]] = "live"
      BY <1>list, <1>frame, <1>u, <2>1, <2>2, Zenon
    <2> QED BY <2>1, <2>3, <2>4, Zenon
  <1>OwnerInv. OwnerInv'
    <2>1. \A s \in Thread : pc'[s] \in Claiming \cup {"clone", "free"} =>
                                   pc'[s] = pc[s] /\ obj'[s] = obj[s]
      BY <1>frame, Zenon DEF Claiming
    <2> QED BY <2>1, ZenonT(60) DEF IInv, OwnerInv
  <1>UnbornInv. UnbornInv'
    BY <1>frame DEF IInv, UnbornInv, Touching, Dropping
  <1>RetInv. RetInv'
    BY <1>frame, ThreadAssumption, ZenonT(60) DEF IInv, RetInv
  <1>RefInv. RefInv'
    BY <1>list, <1>frame, <1>holders, <1>u, ZenonT(60) DEF IInv, RefInv, Allocated
  <1>FreeInv. FreeInv'
    <2>1. \A s \in Thread : pc'[s] = "free" => pc[s] = "free" /\ obj'[s] = obj[s]
      BY <1>frame, Zenon
    <2>2. \A x \in Thread : x \notin Listed /\ Allocated(x) => x # u /\ x \notin Listed' /\ Allocated(x)'
      BY <1>list, <1>frame, <1>u, Zenon DEF Allocated
    <2> QED BY <1>holders, <2>1, <2>2, Zenon DEF IInv, FreeInv
  <1>SurvivorInv. SurvivorInv'
    <2> SUFFICES ASSUME NEW s \in Thread, pc[s] \in {"transition", "zombify", "orphan2"}, s # t,
                        Len(list') = 1
                 PROVE  FALSE
      BY <1>frame, Zenon DEF SurvivorInv, process
    <2>1. s \in Listed' /\ t \in Listed'
      BY <1>list, <1>frame, <1>u, ZenonT(60) DEF IInv, AliveInv, Gone
    <2>2. s \in Elements(list') /\ t \in Elements(list')
      BY <2>1 DEF Listed
    <2>3. s = t
      BY <1>list, <2>2, SingletonLemma, Zenon
    <2> QED BY <2>3, Zenon
  <1> QED BY <1>TypeOK, <1>ListInv, <1>LockInv, <1>ScanInv, <1>AliveInv, <1>StatusInv,
             <1>RootInv, <1>ClaimInv, <1>JoinInv, <1>CloneInv, <1>OwnerInv, <1>UnbornInv,
             <1>RetInv, <1>RefInv, <1>FreeInv, <1>SurvivorInv, Zenon DEF IInv

\* IInv is kept: pthread_exit moves pt_status to Terminated or Zombie.
LEMMA ExitTransitionStep ==
    ASSUME IInv, ~ReclaimRoot, NEW t \in Thread, ExitTransition(t)
    PROVE  IInv'
  <1> USE DEF Joinable, Detached, Terminated, Zombie
  <1>list. list' = list /\ Listed' = Listed
    BY Zenon DEF Listed, ExitTransition
  <1>frame. /\ \A s \in Thread \ {t} : pc'[s] = pc[s] /\ status'[s] = status[s]
            /\ \/ status[t] = Joinable /\ status'[t] = Terminated /\ pc'[t] = "orphan2"
               \/ status[t] = Detached /\ status'[t] = Zombie /\ pc'[t] = "zombify"
            /\ pc[t] = "transition" /\ UNCHANGED <<list, mem, tid, refs, lock, local, process>>
    BY ZenonT(60) DEF IInv, TypeOK, ExitTransition, At, Goto
  <1>self. t \in Listed /\ Allocated(t)
    BY <1>frame, Zenon DEF IInv, AliveInv, ListInv, Gone, Goto
  <1>holders. \A x \in Thread : Holders(x)' = Holders(x)
    BY <1>frame, Zenon DEF Holders, local
  <1>TypeOK. TypeOK'
    BY <1>list, ThreadAssumption, ZenonT(30) DEF IInv, TypeOK, PC, Return, Status,
       ExitTransition, heap,
       local, process, At, Goto
  <1>ListInv. ListInv'
    BY <1>list, <1>frame, Zenon DEF IInv, ListInv, Allocated
  <1>LockInv. LockInv'
    BY <1>frame, Zenon DEF IInv, LockInv
  <1>ScanInv. ScanInv'
    <2> SUFFICES ASSUME NEW s \in Thread, pc'[s] = "scan"
                 PROVE  /\ cursor[s] \in 0..Len(list)
                        /\ \A j \in (cursor[s] + 1)..Len(list) : status'[list[j]] = Zombie
      BY <1>frame, Zenon DEF ScanInv, local
    <2>1. /\ cursor[s] \in 0..Len(list)
          /\ \A j \in (cursor[s] + 1)..Len(list) : status[list[j]] = Zombie
      BY <1>frame, Zenon DEF IInv, ScanInv
    <2>2. \A j \in (cursor[s] + 1)..Len(list) : list[j] \in Thread
      BY DEF IInv, TypeOK
    <2> QED BY <2>1, <2>2, <1>frame, Zenon
  <1>AliveInv. AliveInv'
    BY <1>list, <1>frame, Zenon DEF IInv, AliveInv, Gone, process
  <1>StatusInv. StatusInv'
    BY <1>frame, Zenon DEF IInv, StatusInv, Past
  <1>RootInv. RootInv'
    <2>1. root \in Thread /\ (root = t => status[t] = Joinable)
      BY <1>frame, Zenon DEF IInv, TypeOK, RootInv
    <2>2. \A x \in Listed : x \in Thread
      BY DEF IInv, TypeOK, Listed
    <2> QED BY <1>list, <1>frame, <2>2, ThreadAssumption, Zenon DEF IInv, RootInv, process, Goto
  <1>ClaimInv. ClaimInv'
    BY <1>list, <1>frame, ZenonT(60) DEF IInv, ClaimInv, Allocated, process
  <1>JoinInv. JoinInv'
    BY <1>list, <1>frame DEF IInv, JoinInv, Claiming, UnbornInv, Touching, local, process
  <1>CloneInv. CloneInv'
    BY <1>list, <1>frame, ZenonT(60) DEF IInv, CloneInv, UnbornInv, Touching, local
  <1>OwnerInv. OwnerInv'
    BY <1>frame DEF IInv, OwnerInv, Claiming, local
  <1>UnbornInv. UnbornInv'
    BY <1>frame, ZenonT(60) DEF IInv, UnbornInv, Touching, Dropping, LockInv, local
  <1>RetInv. RetInv'
    BY <1>list, <1>frame, Zenon DEF IInv, RetInv, local
  <1>RefInv. RefInv'
    BY <1>list, <1>frame, <1>holders, ZenonT(60) DEF IInv, RefInv, Allocated
  <1>FreeInv. FreeInv'
    BY <1>list, <1>frame, <1>holders, ZenonT(60) DEF IInv, FreeInv, Allocated, local
  <1>SurvivorInv. SurvivorInv'
    BY <1>frame, ZenonT(60) DEF IInv, SurvivorInv, Gone, process
  <1> QED BY <1>TypeOK, <1>ListInv, <1>LockInv, <1>ScanInv, <1>AliveInv, <1>StatusInv,
             <1>RootInv, <1>ClaimInv, <1>JoinInv, <1>CloneInv, <1>OwnerInv, <1>UnbornInv,
             <1>RetInv, <1>RefInv, <1>FreeInv, <1>SurvivorInv, ZenonT(60) DEF IInv, heap, process

\* IInv is kept: a detached thread moves itself to the end of the list.
LEMMA ExitZombifyStep ==
    ASSUME IInv, ~ReclaimRoot, NEW t \in Thread, ExitZombify(t)
    PROVE  IInv'
  <1> USE DEF Joinable, Detached, Terminated, Zombie
  <1>u. PICK u \in Thread : /\ u = t /\ u \in Listed /\ status[u] = Zombie /\ u # root
                            /\ list' = dll_make_last(dll_remove(list, u), u)
                            /\ \A s \in Thread : pc[s] = "detach" => obj[s] # u
    <2>1. pc[t] = "zombify" /\ list' = dll_make_last(dll_remove(list, t), t)
      BY Zenon DEF ExitZombify, _pthread_zombify, At
    <2>2. t \in Listed /\ status[t] = Zombie
      BY <2>1, Zenon DEF IInv, AliveInv, StatusInv, Gone
    <2>3. t # root
      BY <2>2, Zenon DEF IInv, RootInv
    <2>4. \A s \in Thread : pc[s] = "detach" => obj[s] # t
      BY <2>1, Zenon DEF IInv, JoinInv, Claiming, Past
    <2> QED BY <2>1, <2>2, <2>3, <2>4, ZenonT(60)
  <1>list. /\ list' \in Seq(Thread) /\ NoDuplicates(list') /\ Listed' = Listed /\ Len(list') = Len(list)
           /\ \A x, y : Before(list', x, y) <=> \/ Before(list, x, y) /\ x # u /\ y # u
                                                \/ y = u /\ x \in Listed /\ x # u
    <2> DEFINE r == dll_make_last(dll_remove(list, u), u)
    <2>1. list \in Seq(Thread) /\ NoDuplicates(list) /\ list' = r
      BY <1>u, ZenonT(60) DEF IInv, TypeOK, ListInv
    <2>2. Listed = Elements(list) /\ Listed' = Elements(list')
      BY Zenon DEF Listed, Elements
    <2>3. /\ r \in Seq(Thread) /\ NoDuplicates(r) /\ Elements(r) = Elements(list) /\ Len(r) = Len(list)
          /\ \A x, y : Before(r, x, y) <=> \/ Before(list, x, y) /\ x # u /\ y # u
                                           \/ y = u /\ x \in Elements(list) /\ x # u
      BY <1>u, <2>1, <2>2, MoveLastLemma
    <2> HIDE DEF r
    <2> QED BY <2>1, <2>2, <2>3, Zenon
  <1>frame. /\ \A s \in Thread \ {t} : pc'[s] = pc[s]
            /\ pc[t] = "zombify" /\ pc'[t] = "orphan2" /\ lock = NoThread /\ ~exited
            /\ UNCHANGED <<mem, status, tid, refs, lock, local, process>>
    BY Zenon DEF IInv, TypeOK, ExitZombify, _pthread_zombify, At, Goto
  <1>holders. \A x \in Thread : Holders(x)' = Holders(x)
    BY <1>frame, Zenon DEF Holders, local
  <1>TypeOK. TypeOK'
    <2>1. pc' \in [Thread -> PC]
      BY Zenon DEF IInv, TypeOK, PC, ExitZombify, Goto
    <2> QED BY <1>list, <1>frame, <2>1, Zenon DEF IInv, TypeOK, local, process
  <1>ListInv. ListInv'
    BY <1>list, <1>frame, Zenon DEF IInv, ListInv, Allocated
  <1>LockInv. LockInv'
    BY <1>list, <1>frame, Zenon DEF IInv, LockInv
  <1>ScanInv. ScanInv'
    BY <1>frame, ThreadAssumption, ZenonT(60) DEF IInv, ScanInv, LockInv, Goto
  <1>AliveInv. AliveInv'
    BY <1>list, <1>frame, ZenonT(60) DEF IInv, AliveInv, Gone, process
  <1>StatusInv. StatusInv'
    BY <1>frame, Zenon DEF IInv, StatusInv
  <1>RootInv. RootInv'
    BY <1>list, <1>frame, <1>u, ZenonT(60) DEF IInv, TypeOK, RootInv, process
  <1>ClaimInv. ClaimInv'
    BY <1>list, <1>frame, ZenonT(60) DEF IInv, ClaimInv, Allocated, process, Goto
  <1>JoinInv. JoinInv'
    BY <1>list, <1>frame, <1>u DEF IInv, JoinInv, Claiming, UnbornInv, Touching, local, process
  <1>CloneInv. CloneInv'
    BY <1>list, <1>frame, ZenonT(60) DEF IInv, CloneInv, UnbornInv, Touching, local
  <1>OwnerInv. OwnerInv'
    BY <1>frame, ThreadAssumption DEF IInv, OwnerInv, Claiming, local, At
  <1>UnbornInv. UnbornInv'
    BY <1>frame, Zenon DEF IInv, UnbornInv, Touching, Dropping, local
  <1>RetInv. RetInv'
    BY <1>list, <1>frame, ZenonT(60) DEF IInv, RetInv, local
  <1>RefInv. RefInv'
    BY <1>list, <1>frame, <1>holders, ZenonT(60) DEF IInv, RefInv, Allocated
  <1>FreeInv. FreeInv'
    BY <1>list, <1>frame, <1>holders, ZenonT(60) DEF IInv, FreeInv, Allocated, local
  <1>SurvivorInv. SurvivorInv'
    BY <1>list, <1>frame, Zenon DEF IInv, SurvivorInv, process
  <1> QED BY <1>TypeOK, <1>ListInv, <1>LockInv, <1>ScanInv, <1>AliveInv, <1>StatusInv,
             <1>RootInv, <1>ClaimInv, <1>JoinInv, <1>CloneInv, <1>OwnerInv, <1>UnbornInv,
             <1>RetInv, <1>RefInv, <1>FreeInv, <1>SurvivorInv, Zenon DEF IInv

\* IInv is kept: pthread_exit calls _Exit(0) when it is alone in the list: a list of one
\* element has no room for another live thread.
LEMMA ExitSurvivorStep ==
    ASSUME IInv, ~ReclaimRoot, NEW t \in Thread, ExitSurvivor(t)
    PROVE  IInv'
  <1> USE DEF Joinable, Detached, Terminated, Zombie
  <1>list. list' = list /\ Listed' = Listed
    BY Zenon DEF Listed, ExitSurvivor, heap
  <1>frame. /\ \A s \in Thread \ {t} : pc'[s] = pc[s]
            /\ pc[t] = "orphan2" /\ ~exited
            /\ \/ Len(list) = 1 /\ exited' = TRUE /\ pc'[t] = "dead"
               \/ Len(list) # 1 /\ exited' = FALSE /\ pc'[t] = "leave"
            /\ UNCHANGED <<heap, lock, local, claimed, root, finalized>>
    BY Zenon DEF IInv, TypeOK, ExitSurvivor, pthread_orphan_np, process, At, Goto
  <1>holders. \A x \in Thread : Holders(x)' = Holders(x)
    BY <1>frame, ZenonT(60) DEF Holders, local
  <1>TypeOK. TypeOK'
    BY <1>list, ThreadAssumption, ZenonT(30) DEF IInv, TypeOK, PC, Return, Status,
       pthread_orphan_np,
       ExitSurvivor, heap, local, process, At, Goto
  <1>ListInv. ListInv'
    BY <1>list, <1>frame, Zenon DEF IInv, ListInv, Allocated, heap
  <1>LockInv. LockInv'
    BY <1>frame, Zenon DEF IInv, LockInv
  <1>ScanInv. ScanInv'
    BY <1>frame, Zenon DEF IInv, ScanInv, heap, local
  <1>AliveInv. AliveInv'
    BY <1>list, <1>frame, Zenon DEF IInv, AliveInv, Gone, heap
  <1>StatusInv. StatusInv'
    BY <1>frame, ZenonT(60) DEF IInv, StatusInv, Past, heap
  <1>RootInv. RootInv'
    BY <1>list, <1>frame, ZenonT(60) DEF IInv, TypeOK, RootInv, heap
  <1>ClaimInv. ClaimInv'
    BY <1>list, <1>frame, ZenonT(60) DEF IInv, ClaimInv, Allocated, heap
  <1>JoinInv. JoinInv'
    BY <1>list, <1>frame DEF IInv, JoinInv, Claiming, Past, UnbornInv, Touching, heap, local
  <1>CloneInv. CloneInv'
    BY <1>list, <1>frame, ZenonT(60) DEF IInv, CloneInv, UnbornInv, Touching, heap, local
  <1>OwnerInv. OwnerInv'
    BY <1>frame DEF IInv, OwnerInv, Claiming, local
  <1>UnbornInv. UnbornInv'
    BY <1>frame, ZenonT(60) DEF IInv, UnbornInv, Touching, Dropping, local
  <1>RetInv. RetInv'
    BY <1>list, <1>frame, ZenonT(60) DEF IInv, RetInv, local
  <1>RefInv. RefInv'
    BY <1>list, <1>frame, <1>holders, Zenon DEF IInv, RefInv, Allocated, heap
  <1>FreeInv. FreeInv'
    BY <1>list, <1>frame, <1>holders, ZenonT(60) DEF IInv, FreeInv, Allocated, heap, local, At, Goto
  <1>SurvivorInv. SurvivorInv'
    <2>1. CASE Len(list) = 1
      <3>1. \A s \in Thread : pc[s] \notin Gone => s \in Listed
        BY Zenon DEF IInv, AliveInv
      <3>2. \A s \in Thread : pc[s] \notin Gone => s \in Elements(list)
        BY <3>1, Zenon DEF Listed, Elements
      <3>3. list \in Seq(Thread) /\ t \in Elements(list)
        BY <1>frame, <3>2, Zenon DEF IInv, TypeOK, Gone
      <3>4. \A s \in Elements(list) : s = t
        BY <2>1, <3>3, SingletonLemma, Zenon
      <3> QED BY <3>2, <3>4, <1>frame, ZenonT(60) DEF IInv, SurvivorInv, Gone
    <2>2. CASE Len(list) # 1
      BY <2>2, <1>list, <1>frame, Zenon DEF SurvivorInv
    <2> QED BY <2>1, <2>2, Zenon
  <1> QED BY <1>TypeOK, <1>ListInv, <1>LockInv, <1>ScanInv, <1>AliveInv, <1>StatusInv,
             <1>RootInv, <1>ClaimInv, <1>JoinInv, <1>CloneInv, <1>OwnerInv, <1>UnbornInv,
             <1>RetInv, <1>RefInv, <1>FreeInv, <1>SurvivorInv, ZenonT(60) DEF IInv

\* IInv is kept: in the child of fork() the forker is alone, first in the list, and the others
\* are zombies.
LEMMA ForkChildStep ==
    ASSUME IInv, Counting, ~ReclaimRoot, NEW t \in Thread, ForkChild(t)
    PROVE  IInv'
  <1> USE DEF Joinable, Detached, Terminated, Zombie
  <1>card. \A X \in SUBSET Thread :
              /\ Cardinality(X) \in Nat
              /\ Cardinality(X) = 0 <=> X = {}
              /\ \A x \in Thread \ X : Cardinality(X \cup {x}) = Cardinality(X) + 1
              /\ \A x \in X : Cardinality(X \ {x}) = Cardinality(X) - 1
    BY Zenon DEF Counting
  <1>act. /\ pc[t] = "fork" /\ ~exited /\ status[t] = Joinable
          /\ list' = dll_make_first(dll_remove(list, t), t)
          /\ lock' = NoThread /\ obj' = [x \in Thread |-> NoThread] /\ root' = t
          /\ pc' = [x \in Thread |-> IF x = t THEN "run"
                                     ELSE IF pc[x] \in {"unborn", "dead"} THEN pc[x]
                                     ELSE "vanished"]
          /\ status' = [x \in Thread |-> IF x \in Listed \ {t} THEN Zombie ELSE status[x]]
          /\ claimed' = {x \in Thread : IF x = t THEN status[t] = Detached ELSE mem[x] # "none"}
          /\ UNCHANGED <<mem, tid, refs, cursor, ret, depth, finalized, exited, signals, forks>>
    BY Zenon DEF ForkChild, At
  <1>self. t \in Listed /\ tid[t] = 1 /\ lock = t /\ Allocated(t)
    <2>1. t \in Listed /\ tid[t] = 1 /\ lock = t
      BY <1>act, Zenon DEF IInv, AliveInv, LockInv, Gone
    <2> QED BY <2>1, ZenonT(60) DEF IInv, ListInv
  <1>list. /\ list' \in Seq(Thread) /\ NoDuplicates(list') /\ Listed' = Listed
           /\ ~Before(list', t, t)
    <2> DEFINE r == dll_make_first(dll_remove(list, t), t)
    <2>1. list \in Seq(Thread) /\ NoDuplicates(list) /\ list' = r
      BY <1>act, Zenon DEF IInv, TypeOK, ListInv
    <2>2. Listed = Elements(list) /\ Listed' = Elements(list')
      BY Zenon DEF Listed, Elements
    <2>3. /\ r \in Seq(Thread) /\ NoDuplicates(r) /\ Elements(r) = Elements(list)
      BY <1>self, <2>1, <2>2, MoveFirstLemma, Zenon
    <2> HIDE DEF r
    <2>4. ~Before(r, t, t)
      BY <2>3, OrderLemma, Zenon
    <2> QED BY <2>1, <2>2, <2>3, <2>4, ZenonT(60)
  <1>frame. /\ pc'[t] = "run" /\ status'[t] = Joinable /\ t \notin claimed'
            /\ \A x \in Thread \ {t} : /\ pc'[x] \in {"unborn", "dead", "vanished"}
                                       /\ (pc'[x] = "unborn" <=> pc[x] = "unborn")
                                       /\ (pc'[x] = "dead" <=> pc[x] = "dead")
                                       /\ status'[x] = IF x \in Listed THEN Zombie ELSE status[x]
                                       /\ (x \in claimed' <=> mem[x] # "none")
    <2>1. t \notin Listed \ {t} /\ status[t] # Detached
      BY <1>act, Zenon
    <2>2. pc'[t] = "run" /\ status'[t] = Joinable /\ t \notin claimed'
      BY <1>act, Zenon
    <2>3. \A x \in Thread \ {t} : /\ pc'[x] \in {"unborn", "dead", "vanished"}
                                   /\ (pc'[x] = "unborn" <=> pc[x] = "unborn")
                                   /\ (pc'[x] = "dead" <=> pc[x] = "dead")
      BY <1>act, ThreadAssumption, Zenon
    <2>4. \A x \in Thread \ {t} : status'[x] = IF x \in Listed THEN Zombie ELSE status[x]
      BY <1>act, Zenon
    <2>5. \A x \in Thread \ {t} : (x \in claimed' <=> mem[x] # "none")
      BY <1>act, Zenon
    <2> QED BY <2>2, <2>3, <2>4, <2>5, Zenon
  <1>holders. \A x \in Thread : Holders(x)' = {}
    BY <1>frame, Zenon DEF Holders
  <1>quiet. \A s \in Thread : ret[s] # "everyone" /\ (pc'[s] = "vanished" \/ depth[s] = 0)
    <2>1. \A s \in Thread : ret[s] # "everyone"
      BY <1>act, <1>self, Zenon DEF IInv, RetInv
    <2>2. \A s \in Thread : pc'[s] = "vanished" \/ depth[s] = 0
      BY <1>act, Zenon DEF IInv, RetInv
    <2> QED BY <2>1, <2>2, Zenon
  <1>TypeOK. TypeOK'
    <2>1. pc' \in [Thread -> PC]
      BY <1>act, ZenonT(60) DEF PC, local
    <2>2. status' \in [Thread -> Status]
      BY <1>act, Zenon DEF IInv, TypeOK, Status
    <2>3. claimed' \in SUBSET Thread /\ obj' \in [Thread -> Thread \cup {NoThread}]
      BY <1>act, Zenon DEF At
    <2> QED BY <1>act, <1>list, <2>1, <2>2, Zenon DEF IInv, TypeOK
  <1>ListInv. ListInv'
    BY <1>act, <1>list, ZenonT(60) DEF IInv, ListInv, Allocated
  <1>LockInv. LockInv'
    BY <1>frame, Zenon DEF LockInv
  <1>ScanInv. ScanInv'
    BY <1>frame, Zenon DEF ScanInv, At
  <1>AliveInv. AliveInv'
    BY <1>act, <1>self, <1>list, ZenonT(60) DEF IInv, AliveInv, Gone, Allocated
  <1>StatusInv. StatusInv'
    <2> SUFFICES ASSUME NEW x \in Thread
                 PROVE  /\ pc'[x] \in {"orphan2", "leave", "dead"} => status'[x] \in {Terminated, Zombie}
                        /\ pc'[x] = "zombify" => status'[x] = Zombie
                        /\ status'[x] = Terminated => pc'[x] \in Past
      BY Zenon DEF StatusInv
    <2>1. CASE x = t
      BY <1>frame, <2>1, Zenon
    <2>2. CASE x # t
      <3>1. pc[x] = "dead" => status[x] \in {Terminated, Zombie}
        BY Zenon DEF IInv, StatusInv
      <3>2. status[x] = Terminated => pc[x] # "unborn"
        BY Zenon DEF IInv, StatusInv, Past
      <3> QED BY <1>frame, <3>1, <3>2, Zenon DEF Past
    <2> QED BY <2>1, <2>2, Zenon
  <1>RootInv. RootInv'
    <2>1. \A x \in Listed : x \in Thread
      BY DEF IInv, TypeOK, Listed, local, process
    <2>2. \A x \in Listed : Before(list', t, x) => x # t
      BY <1>list, Zenon
    <2> QED BY <1>act, <1>self, <1>list, <2>1, ZenonT(60) DEF RootInv
  <1>ClaimInv. ClaimInv'
    BY <1>act, <1>self, <1>list, Zenon DEF ClaimInv, Allocated
  <1>JoinInv. JoinInv'
    BY <1>frame, Zenon DEF JoinInv, Claiming
  <1>CloneInv. CloneInv'
    BY <1>frame, Zenon DEF CloneInv
  <1>OwnerInv. OwnerInv'
    BY <1>frame, ZenonT(60) DEF OwnerInv, Claiming
  <1>UnbornInv. UnbornInv'
    BY <1>frame, Zenon DEF UnbornInv, Touching, Dropping
  <1>RetInv. RetInv'
    BY <1>act, <1>quiet, ZenonT(60) DEF RetInv
  <1>RefInv. RefInv'
    <2>1. \A x \in Thread : Cardinality(Holders(x)') = 0
      BY <1>holders, <1>card, ZenonT(60)
    <2>2. \A x \in Thread : x \in Listed => refs[x] >= 0
      <3> SUFFICES ASSUME NEW x \in Thread, x \in Listed PROVE refs[x] >= 0
        BY Zenon
      <3>1. refs[x] >= Cardinality(Holders(x)) /\ refs[x] \in Int
        BY Zenon DEF IInv, TypeOK, RefInv
      <3>2. Cardinality(Holders(x)) \in Nat
        BY <1>card, Zenon DEF Holders
      <3> QED BY <3>1, <3>2
    <2> QED BY <1>act, <1>list, <1>holders, <2>1, <2>2, ZenonT(60) DEF RefInv
  <1>FreeInv. FreeInv'
    BY <1>frame, Zenon DEF FreeInv
  <1>SurvivorInv. SurvivorInv'
    BY <1>act, Zenon DEF SurvivorInv
  <1> QED BY <1>TypeOK, <1>ListInv, <1>LockInv, <1>ScanInv, <1>AliveInv, <1>StatusInv,
             <1>RootInv, <1>ClaimInv, <1>JoinInv, <1>CloneInv, <1>OwnerInv, <1>UnbornInv,
             <1>RetInv, <1>RefInv, <1>FreeInv, <1>SurvivorInv, ZenonT(60) DEF IInv

----------------------------------------------------------------------------
(***************************************************************************)
(* _pthread_decimate, _pthread_unref and _pthread_free.                    *)
(***************************************************************************)
\* IInv is kept: _pthread_decimate takes the lock and starts at the end of the list.
LEMMA DecimateLockStep ==
    ASSUME IInv, ~ReclaimRoot, NEW t \in Thread, DecimateLock(t)
    PROVE  IInv'
  <1> USE DEF Joinable, Detached, Terminated, Zombie
  <1>list. list' = list /\ Listed' = Listed
    BY Zenon DEF Listed, DecimateLock, heap
  <1>holders. \A x \in Thread : Holders(x)' = Holders(x)
    BY DEF Holders, DecimateLock, At, Goto
  <1>TypeOK. TypeOK'
    BY <1>list DEF IInv, TypeOK, PC, Return, Status, DecimateLock, heap, process, Goto
  <1>ListInv. ListInv'
    BY <1>list, Zenon DEF IInv, ListInv, Allocated, DecimateLock, heap
  <1>LockInv. LockInv'
    BY ThreadAssumption DEF IInv, LockInv, DecimateLock, At, Goto
  <1>ScanInv. ScanInv'
    <2>1. /\ pc \in [Thread -> PC] /\ cursor \in [Thread -> Nat] /\ lock = NoThread
          /\ pc' = [pc EXCEPT ![t] = "scan"] /\ cursor' = [cursor EXCEPT ![t] = Len(list)]
      BY Zenon DEF IInv, TypeOK, DecimateLock, Goto
    <2>2. \A s \in Thread : pc'[s] = "scan" => s = t
      BY <2>1, ThreadAssumption, Zenon DEF IInv, LockInv
    <2>3. cursor'[t] = Len(list)
      BY <2>1, Zenon
    <2>4. Len(list) \in Nat
      <3>1. list \in Seq(Thread)
        BY Zenon DEF IInv, TypeOK
      <3> QED BY <3>1
    <2>5. Len(list) \in 0..Len(list) /\ (Len(list) + 1)..Len(list) = {}
      BY <2>4
    <2> QED BY <1>list, <2>2, <2>3, <2>5, Zenon DEF ScanInv
  <1>AliveInv. AliveInv'
    BY <1>list, Zenon DEF IInv, TypeOK, AliveInv, Gone, DecimateLock, heap, process, At, Goto
  <1>StatusInv. StatusInv'
    BY DEF IInv, StatusInv, Past, DecimateLock, heap, At, Goto
  <1>RootInv. RootInv'
    BY <1>list DEF IInv, RootInv, DecimateLock, heap, process, Goto
  <1>ClaimInv. ClaimInv'
    BY <1>list, Zenon DEF IInv, ClaimInv, Allocated, DecimateLock, heap, process, Goto
  <1>JoinInv. JoinInv'
    BY <1>list, ThreadAssumption, ZenonT(60) DEF IInv, TypeOK, JoinInv, Claiming, Past, UnbornInv,
       Touching, DecimateLock, heap, local, process, At, Goto
  <1>CloneInv. CloneInv'
    BY <1>list DEF IInv, CloneInv, DecimateLock, heap, At, Goto
  <1>OwnerInv. OwnerInv'
    BY DEF IInv, OwnerInv, Claiming, DecimateLock, Goto
  <1>UnbornInv. UnbornInv'
    BY ThreadAssumption DEF IInv, UnbornInv, Touching, DecimateLock, Goto
  <1>RetInv. RetInv'
    BY ThreadAssumption DEF IInv, RetInv, DecimateLock, Goto
  <1>RefInv. RefInv'
    BY <1>list, <1>holders, ZenonT(60) DEF IInv, RefInv, Allocated, DecimateLock, heap
  <1>FreeInv. FreeInv'
    <2>1. obj' = obj /\ mem' = mem /\ \A s \in Thread : pc'[s] = "free" => pc[s] = "free"
      BY Zenon DEF IInv, TypeOK, DecimateLock, heap, Goto
    <2> QED BY <1>list, <1>holders, <2>1, Zenon DEF IInv, FreeInv, Allocated
  <1>SurvivorInv. SurvivorInv'
    BY <1>list, Zenon DEF IInv, TypeOK, SurvivorInv, DecimateLock, process, At, Goto
  <1> QED BY <1>TypeOK, <1>ListInv, <1>LockInv, <1>ScanInv, <1>AliveInv, <1>StatusInv,
             <1>RootInv, <1>ClaimInv, <1>JoinInv, <1>CloneInv, <1>OwnerInv, <1>UnbornInv,
             <1>RetInv, <1>RefInv, <1>FreeInv, <1>SurvivorInv DEF IInv

\* IInv is kept: _pthread_decimate meets a live thread, unlocks and returns.
LEMMA DecimateStopStep ==
    ASSUME IInv, ~ReclaimRoot, NEW t \in Thread, DecimateStop(t)
    PROVE  IInv'
  <1> USE DEF Joinable, Detached, Terminated, Zombie
  <1>list. list' = list /\ Listed' = Listed
    BY Zenon DEF Listed, DecimateStop, heap
  <1>return. PICK l \in {"decimate", "run", "create", "orphan1"} :
                /\ pc' = [pc EXCEPT ![t] = l]
                /\ ret' \in [Thread -> Return] /\ depth' \in [Thread -> Nat]
                /\ ret'[t] # "everyone" /\ (depth'[t] = 0 \/ l = "decimate")
                /\ \A s \in Thread \ {t} : ret'[s] = ret[s] /\ depth'[s] = depth[s]
    <2>0. /\ ret \in [Thread -> Return] /\ depth \in [Thread -> Nat] /\ ReturnFrom(t)
          /\ ret[t] # "everyone"
      BY Zenon DEF IInv, TypeOK, RetInv, DecimateStop, At
    <2>1. CASE depth[t] > 0
      <3>1. pc' = [pc EXCEPT ![t] = "decimate"] /\ depth' = [depth EXCEPT ![t] = @ - 1] /\ ret' = ret
        BY <2>0, <2>1, Zenon DEF ReturnFrom, Goto
      <3>2. depth' \in [Thread -> Nat]
        BY <2>0, <2>1, <3>1
      <3>3. ret[t] # "everyone"
        BY <2>0, Zenon
      <3> QED BY <2>0, <3>1, <3>2, Zenon
    <2>2. CASE ~(depth[t] > 0)
      <3>1. pc' = [pc EXCEPT ![t] = ret[t]] /\ ret' = [ret EXCEPT ![t] = "run"] /\ depth' = depth
        BY <2>0, <2>2, Zenon DEF ReturnFrom, Goto
      <3>2. depth[t] = 0
        BY <2>0, <2>2
      <3> QED BY <2>0, <3>1, <3>2, Zenon DEF Return
    <2> QED BY <2>1, <2>2, Zenon
  <1>frame. /\ \A s \in Thread \ {t} : /\ pc'[s] = pc[s] /\ cursor'[s] = cursor[s]
                                        /\ ret'[s] = ret[s] /\ depth'[s] = depth[s]
            /\ pc'[t] \in {"decimate", "run", "create", "orphan1"}
            /\ ret'[t] # "everyone" /\ (depth'[t] = 0 \/ pc'[t] = "decimate")
            /\ pc[t] = "scan" /\ lock = t /\ lock' = NoThread /\ UNCHANGED <<heap, obj, process>>
    BY <1>return, ZenonT(60) DEF IInv, TypeOK, LockInv, DecimateStop, At
  <1>holders. \A x \in Thread : Holders(x)' = Holders(x)
    BY <1>frame, Zenon DEF Holders
  <1>TypeOK. TypeOK'
    BY <1>return, Zenon DEF IInv, TypeOK, PC, DecimateStop, heap, process
  <1>ListInv. ListInv'
    BY <1>list, <1>frame, Zenon DEF IInv, ListInv, Allocated, heap
  <1>LockInv. LockInv'
    BY <1>frame, Zenon DEF IInv, LockInv
  <1>ScanInv. ScanInv'
    BY <1>frame, ZenonT(60) DEF IInv, ScanInv, heap
  <1>AliveInv. AliveInv'
    BY <1>list, <1>frame, ZenonT(60) DEF IInv, AliveInv, Gone, heap, process, Goto
  <1>StatusInv. StatusInv'
    BY <1>frame, Zenon DEF IInv, StatusInv, Past, heap
  <1>RootInv. RootInv'
    BY <1>list, <1>frame, ZenonT(60) DEF IInv, TypeOK, RootInv, heap, local, process, At, Goto
  <1>ClaimInv. ClaimInv'
    BY <1>list, <1>frame, ZenonT(60) DEF IInv, ClaimInv, Allocated, heap, process
  <1>JoinInv. JoinInv'
    BY <1>list, <1>frame DEF IInv, JoinInv, Claiming, Past, UnbornInv, Touching, heap, process
  <1>CloneInv. CloneInv'
    BY <1>list, <1>frame, ZenonT(60) DEF IInv, CloneInv, UnbornInv, Touching, heap
  <1>OwnerInv. OwnerInv'
    BY <1>frame DEF IInv, OwnerInv, Claiming
  <1>UnbornInv. UnbornInv'
    BY <1>frame, Zenon DEF IInv, UnbornInv, Touching, Dropping
  <1>RetInv. RetInv'
    BY <1>frame, ZenonT(60) DEF IInv, RetInv
  <1>RefInv. RefInv'
    BY <1>list, <1>frame, <1>holders, ZenonT(60) DEF IInv, RefInv, Allocated, heap
  <1>FreeInv. FreeInv'
    BY <1>list, <1>frame, <1>holders DEF IInv, FreeInv, Allocated, heap
  <1>SurvivorInv. SurvivorInv'
    BY <1>list, <1>frame, Zenon DEF IInv, SurvivorInv, Gone, process
  <1> QED BY <1>TypeOK, <1>ListInv, <1>LockInv, <1>ScanInv, <1>AliveInv, <1>StatusInv,
             <1>RootInv, <1>ClaimInv, <1>JoinInv, <1>CloneInv, <1>OwnerInv, <1>UnbornInv,
             <1>RetInv, <1>RefInv, <1>FreeInv, <1>SurvivorInv, Zenon DEF IInv, Goto

\* IInv is kept: _pthread_decimate passes a zombie that is still on its stack.
LEMMA DecimateSkipStep ==
    ASSUME IInv, ~ReclaimRoot, NEW t \in Thread, DecimateSkip(t)
    PROVE  IInv'
  <1> USE DEF Joinable, Detached, Terminated, Zombie
  <1>list. list' = list /\ Listed' = Listed
    BY Zenon DEF Listed, DecimateSkip, heap
  <1>cursor. cursor' \in [Thread -> Nat] /\ cursor'[t] = cursor[t] - 1 /\ cursor[t] \in Nat \ {0}
    <2>1. cursor \in [Thread -> Nat] /\ cursor[t] # 0 /\ cursor' = [cursor EXCEPT ![t] = cursor[t] - 1]
      BY Zenon DEF IInv, TypeOK, DecimateSkip
    <2>2. cursor[t] - 1 \in Nat /\ cursor[t] \in Nat \ {0}
      BY <2>1
    <2> QED BY <2>1
  <1>holders. \A x \in Thread : Holders(x)' = Holders(x)
    BY Zenon DEF Holders, DecimateSkip
  <1>TypeOK. TypeOK'
    BY <1>cursor, Zenon DEF IInv, TypeOK, DecimateSkip, heap, process, At
  <1>ListInv. ListInv'
    BY <1>list, Zenon DEF IInv, ListInv, Allocated, DecimateSkip, heap
  <1>LockInv. LockInv'
    BY Zenon DEF IInv, LockInv, DecimateSkip
  <1>ScanInv. ScanInv'
    <2> SUFFICES ASSUME NEW s \in Thread, pc'[s] = "scan"
                 PROVE  /\ cursor'[s] \in 0..Len(list)
                        /\ \A j \in (cursor'[s] + 1)..Len(list) : status[list[j]] = Zombie
      BY Zenon DEF ScanInv, DecimateSkip, heap
    <2>1. Len(list) \in Nat /\ pc[s] = "scan"
      BY DEF DecimateSkip
    <2>2. /\ cursor[s] \in 0..Len(list)
          /\ \A j \in (cursor[s] + 1)..Len(list) : status[list[j]] = Zombie
      BY <2>1, Zenon DEF IInv, ScanInv
    <2>3. CASE s = t
      BY <2>2 DEF DecimateSkip
    <2>4. CASE s # t
      BY <2>2 DEF DecimateSkip
    <2> QED BY <2>3, <2>4, Zenon DEF process
  <1>AliveInv. AliveInv'
    BY <1>list, Zenon DEF IInv, AliveInv, DecimateSkip, heap, process
  <1>StatusInv. StatusInv'
    BY Zenon DEF IInv, StatusInv, DecimateSkip, heap
  <1>RootInv. RootInv'
    BY <1>list, Zenon DEF IInv, RootInv, DecimateSkip, heap, process
  <1>ClaimInv. ClaimInv'
    BY <1>list, Zenon DEF IInv, ClaimInv, Allocated, DecimateSkip, heap, process
  <1>JoinInv. JoinInv'
    BY <1>list, ZenonT(60) DEF IInv, JoinInv, Claiming, DecimateSkip, heap, process
  <1>CloneInv. CloneInv'
    BY <1>list, Zenon DEF IInv, CloneInv, DecimateSkip, heap
  <1>OwnerInv. OwnerInv'
    BY Zenon DEF IInv, OwnerInv, DecimateSkip
  <1>UnbornInv. UnbornInv'
    BY Zenon DEF IInv, UnbornInv, DecimateSkip
  <1>RetInv. RetInv'
    BY <1>list, Zenon DEF IInv, RetInv, DecimateSkip, process, At, Goto
  <1>RefInv. RefInv'
    BY <1>list, <1>holders, Zenon DEF IInv, RefInv, Allocated, DecimateSkip, heap
  <1>FreeInv. FreeInv'
    BY <1>list, <1>holders, Zenon DEF IInv, FreeInv, Allocated, DecimateSkip, heap
  <1>SurvivorInv. SurvivorInv'
    BY <1>list, Zenon DEF IInv, SurvivorInv, DecimateSkip, process, At
  <1> QED BY <1>TypeOK, <1>ListInv, <1>LockInv, <1>ScanInv, <1>AliveInv, <1>StatusInv,
             <1>RootInv, <1>ClaimInv, <1>JoinInv, <1>CloneInv, <1>OwnerInv, <1>UnbornInv,
             <1>RetInv, <1>RefInv, <1>FreeInv, <1>SurvivorInv, ZenonT(60) DEF IInv

\* IInv is kept: _pthread_decimate unlists a dead zombie.  The root is not a zombie, so it
\* comes before the cursor, and a thread that somebody detaches comes before the
\* root: nobody else is working on the zombie.
LEMMA DecimateRemoveStep ==
    ASSUME IInv, Counting, ~ReclaimRoot, NEW t \in Thread, DecimateRemove(t)
    PROVE  IInv'
  <1> USE DEF Joinable, Detached, Terminated, Zombie
  <1>card. \A X \in SUBSET Thread :
              /\ Cardinality(X) \in Nat
              /\ Cardinality(X) = 0 <=> X = {}
              /\ \A x \in Thread \ X : Cardinality(X \cup {x}) = Cardinality(X) + 1
              /\ \A x \in X : Cardinality(X \ {x}) = Cardinality(X) - 1
    BY Zenon DEF Counting
  <1>step. PICK u \in Thread : /\ cursor[t] \in DOMAIN list /\ u = list[cursor[t]]
                               /\ status[u] = Zombie /\ tid[u] = 0 /\ list' = dll_remove(list, u)
                               /\ obj' = [obj EXCEPT ![t] = u]
    <2>1. cursor[t] \in 1..Len(list) /\ list \in Seq(Thread)
      BY DEF IInv, TypeOK, ScanInv, DecimateRemove, At
    <2>2. /\ status[list[cursor[t]]] = Zombie /\ tid[list[cursor[t]]] = 0
          /\ list' = dll_remove(list, list[cursor[t]])
          /\ obj' = [obj EXCEPT ![t] = list[cursor[t]]]
      BY Zenon DEF DecimateRemove
    <2>3. list[cursor[t]] \in Thread /\ cursor[t] \in DOMAIN list
      BY <2>1
    <2> QED BY <2>2, <2>3, ZenonT(60)
  <1>act. /\ pc[t] = "scan" /\ pc' = [pc EXCEPT ![t] = "unref"] /\ ~exited
          /\ lock' = NoThread /\ cursor' = [cursor EXCEPT ![t] = 0] /\ depth' = [depth EXCEPT ![t] = @ + 1]
          /\ UNCHANGED <<mem, status, tid, refs, ret, process>>
    BY Zenon DEF DecimateRemove, At, Goto
  <1>u. /\ u \in Listed /\ u # root /\ ~Before(list, u, root) /\ Allocated(u) /\ u \in claimed
        /\ pc[u] \in Gone /\ pc[u] # "unborn" /\ u # t
        /\ list' = dll_remove(list, u)
        /\ \A s \in Thread : pc[s] \in Claiming => obj[s] # u
    <2>1. u \in Listed
      BY <1>step, Zenon DEF Listed
    <2>2. PICK i \in DOMAIN list : list[i] = root
      BY Zenon DEF IInv, RootInv, Listed
    <2>3. /\ list \in Seq(Thread) /\ NoDuplicates(list) /\ pc[t] = "scan"
          /\ status[root] # Zombie
      BY Zenon DEF IInv, TypeOK, ListInv, RootInv, DecimateRemove, At
    <2>4. i < cursor[t]
      <3>1. \A j \in (cursor[t] + 1)..Len(list) : status[list[j]] = Zombie
        BY <2>3, Zenon DEF IInv, ScanInv
      <3> QED BY <1>step, <2>2, <2>3, <3>1
    <2>5. Before(list, root, u)
      BY <1>step, <2>2, <2>3, <2>4, OrderLemma, Zenon
    <2>6. ~Before(list, u, root) /\ u # root
      BY <2>3, <2>5, OrderLemma, Zenon
    <2>7. Allocated(u) /\ u \in claimed
      BY <1>step, <2>1, ZenonT(60) DEF IInv, ListInv, ClaimInv
    <2>8. pc[u] \in Gone /\ pc[u] # "unborn" /\ u # t
      BY <1>step, <2>3 DEF IInv, AliveInv, Gone
    <2>9. \A s \in Thread : pc[s] \in Claiming => obj[s] # u
      BY <1>step, <2>6, Zenon DEF IInv, JoinInv, Claiming
    <2> QED BY <1>step, <2>1, <2>6, <2>7, <2>8, <2>9, ZenonT(60) DEF local, process
  <1>list. /\ list' \in Seq(Thread) /\ NoDuplicates(list') /\ Listed' = Listed \ {u}
           /\ \A x, y : Before(list', x, y) <=> (Before(list, x, y) /\ x # u /\ y # u)
    <2>1. list \in Seq(Thread) /\ NoDuplicates(list) /\ list' = dll_remove(list, u)
      BY <1>u, Zenon DEF IInv, TypeOK, ListInv
    <2>2. Listed = Elements(list) /\ Listed' = Elements(list')
      BY Zenon DEF Listed, Elements, Goto
    <2>3. /\ dll_remove(list, u) \in Seq(Thread) /\ NoDuplicates(dll_remove(list, u))
          /\ Elements(dll_remove(list, u)) = Elements(list) \ {u}
          /\ \A x, y : Before(dll_remove(list, u), x, y) <=> (Before(list, x, y) /\ x # u /\ y # u)
      BY <2>1, RemoveLemma, Zenon
    <2> QED BY <2>1, <2>2, <2>3, Zenon
  <1>frame. /\ \A s \in Thread \ {t} : pc'[s] = pc[s] /\ obj'[s] = obj[s] /\ depth'[s] = depth[s]
            /\ pc[t] = "scan" /\ pc'[t] = "unref" /\ obj'[t] = u /\ lock = t /\ lock' = NoThread
            /\ ret[t] # "everyone" /\ ~exited
            /\ UNCHANGED <<mem, status, tid, refs, ret, process>>
    BY <1>step, <1>act, ThreadAssumption, ZenonT(30) DEF IInv, TypeOK, LockInv, RetInv, heap,
       local,
       process, At, Goto
  <1>holders. /\ \A x \in Thread : Holders(x)' = IF x = u THEN Holders(x) \cup {t} ELSE Holders(x)
              /\ \A x \in Thread : t \notin Holders(x)
    BY <1>frame, Zenon DEF Holders
  <1>TypeOK. TypeOK'
    <2>1. pc' \in [Thread -> PC] /\ obj' \in [Thread -> Thread \cup {NoThread}]
      BY <1>step, <1>act, Zenon DEF IInv, TypeOK, PC
    <2>2. cursor' \in [Thread -> Nat] /\ depth' \in [Thread -> Nat]
      <3>1. cursor \in [Thread -> Nat] /\ depth \in [Thread -> Nat]
        BY Zenon DEF IInv, TypeOK
      <3>2. depth[t] + 1 \in Nat /\ depth' = [depth EXCEPT ![t] = depth[t] + 1]
        BY <1>act, <3>1
      <3>3. cursor' = [cursor EXCEPT ![t] = 0]
        BY <1>act, Zenon
      <3> QED BY <3>1, <3>2, <3>3, Zenon
    <2> QED BY <1>list, <1>frame, <2>1, <2>2, Zenon DEF IInv, TypeOK, process
  <1>ListInv. ListInv'
    BY <1>list, <1>frame, Zenon DEF IInv, ListInv, Allocated
  <1>LockInv. LockInv'
    BY <1>frame, ZenonT(60) DEF IInv, LockInv
  <1>ScanInv. ScanInv'
    <2>1. \A s \in Thread : pc'[s] # "scan"
      BY <1>frame, ThreadAssumption, ZenonT(60) DEF IInv, LockInv
    <2> QED BY <2>1, Zenon DEF ScanInv
  <1>AliveInv. AliveInv'
    BY <1>list, <1>frame, <1>u DEF IInv, AliveInv, Gone, process
  <1>StatusInv. StatusInv'
    BY <1>frame, Zenon DEF IInv, StatusInv, Past
  <1>RootInv. RootInv'
    BY <1>list, <1>frame, <1>u, Zenon DEF IInv, TypeOK, RootInv, process
  <1>ClaimInv. ClaimInv'
    BY <1>list, <1>frame, <1>u, ZenonT(60) DEF IInv, ClaimInv, Allocated, process
  <1>JoinInv. JoinInv'
    <2> SUFFICES ASSUME NEW s \in Thread, pc'[s] \in Claiming
                 PROVE  /\ obj'[s] \in Listed' /\ obj'[s] \in claimed' /\ pc'[obj'[s]] # "unborn"
                        /\ pc'[s] \in {"wait", "remove"} => status'[obj'[s]] \in {Joinable, Terminated}
                        /\ pc'[s] = "remove" => tid'[obj'[s]] = 0
                        /\ pc'[s] = "detach" => /\ Before(list', obj'[s], root')
                                                /\ status'[obj'[s]] = Zombie
                                                /\ pc'[obj'[s]] \in Past
      BY Zenon DEF JoinInv
    <2>1. pc'[s] = pc[s] /\ obj'[s] = obj[s]
      BY <1>frame, Zenon DEF Claiming
    <2>2. obj[s] \in Thread
      BY <2>1, Zenon DEF IInv, UnbornInv, Claiming, Touching
    <2>3. /\ pc[obj[s]] # "unborn" => pc'[obj[s]] # "unborn"
          /\ pc[obj[s]] \in Past => pc'[obj[s]] \in Past
      BY <1>frame, <2>2, Zenon DEF Past
    <2>4. Listed \ {u} \subseteq Listed' /\ UNCHANGED <<status, tid, claimed, root>>
      BY <1>list, <1>frame, Zenon DEF process
    <2>5. obj[s] # u
      BY <1>frame, <1>u, <2>1, Zenon DEF Claiming
    <2>6. Before(list, obj[s], root) => Before(list', obj[s], root)
      BY <1>list, <1>u, <2>5, Zenon
    <2> QED BY <2>1, <2>2, <2>3, <2>4, <2>5, <2>6, Zenon DEF IInv, JoinInv
  <1>CloneInv. CloneInv'
    <2> SUFFICES ASSUME NEW s \in Thread, pc'[s] = "clone"
                 PROVE  obj'[s] \in Listed' /\ pc'[obj'[s]] = "unborn" /\ mem'[obj'[s]] = "live"
      BY Zenon DEF CloneInv
    <2>1. s # t /\ pc[s] = "clone" /\ obj'[s] = obj[s]
      BY <1>frame, Zenon
    <2>2. obj[s] \in Thread /\ obj[s] \in Listed /\ pc[obj[s]] = "unborn" /\ mem[obj[s]] = "live"
      BY <2>1, Zenon DEF IInv, CloneInv, UnbornInv, Touching
    <2>3. pc'[obj[s]] = "unborn"
      BY <1>frame, <2>2, Zenon
    <2>4. obj[s] \in Listed' /\ mem'[obj[s]] = "live"
      BY <1>list, <1>frame, <1>u, <2>1, <2>2, Zenon
    <2> QED BY <2>1, <2>3, <2>4, Zenon
  <1>OwnerInv. OwnerInv'
    <2>1. pc'[t] = "unref" /\ OwnerInv
      BY <1>frame, Zenon DEF IInv
    <2>2. pc'[t] \notin Claiming /\ pc'[t] # "clone" /\ pc'[t] # "free"
      BY <2>1, Zenon DEF Claiming
    <2> QED BY <1>frame, <2>1, <2>2, OwnerMoved, Zenon
  <1>UnbornInv. UnbornInv'
    <2> SUFFICES ASSUME NEW s \in Thread
                 PROVE  /\ pc'[s] \in Touching => obj'[s] \in Thread
                        /\ (pc'[s] \in Dropping \cup {"kill"} /\ pc'[obj'[s]] = "unborn") => lock' = s
      BY Zenon DEF UnbornInv
    <2>1. CASE s = t
      BY <1>frame, <1>u, <2>1, Zenon
    <2>2. CASE s # t
      <3>1. pc'[s] = pc[s] /\ obj'[s] = obj[s] /\ lock # s
        BY <1>frame, <2>2, Zenon
      <3>2. /\ pc[s] \in Touching => obj[s] \in Thread
            /\ (pc[s] \in Dropping \cup {"kill"} /\ pc[obj[s]] = "unborn") => lock = s
        BY Zenon DEF IInv, UnbornInv
      <3>3. pc[s] \in Dropping \cup {"kill"} => pc[s] \in Touching
        BY Zenon DEF Touching, Dropping
      <3>4. obj[s] \in Thread => (pc'[obj[s]] = "unborn" => pc[obj[s]] = "unborn")
        BY <1>frame, Zenon
      <3> QED BY <3>1, <3>2, <3>3, <3>4, Zenon
    <2> QED BY <2>1, <2>2, Zenon
  <1>RetInv. RetInv'
    BY <1>frame, Zenon DEF IInv, RetInv
  <1>RefInv. RefInv'
    <2> SUFFICES ASSUME NEW x \in Thread
                 PROVE  /\ x \in Listed' => refs[x] >= Cardinality(Holders(x)')
                        /\ Holders(x)' # {} => Allocated(x) /\ refs[x] >= Cardinality(Holders(x)') - 1
      BY <1>frame, Zenon DEF RefInv, Allocated
    <2>1. CASE x # u
      <3>1. Holders(x)' = Holders(x) /\ (x \in Listed' => x \in Listed)
        BY <1>holders, <1>list, <2>1, Zenon
      <3> QED BY <3>1, Zenon DEF IInv, RefInv
    <2>2. CASE x = u
      <3>1. /\ Holders(x)' = Holders(x) \cup {t} /\ t \in Thread \ Holders(x)
            /\ Holders(x) \in SUBSET Thread
        BY <1>holders, <2>2, Zenon DEF Holders
      <3>2. Cardinality(Holders(x)') = Cardinality(Holders(x)) + 1 /\ Cardinality(Holders(x)) \in Nat
        BY <3>1, <1>card, ZenonT(60)
      <3>3. Allocated(x) /\ refs[x] \in Int /\ refs[x] >= Cardinality(Holders(x))
        BY <1>u, <2>2, Zenon DEF IInv, TypeOK, RefInv
      <3> QED BY <1>list, <2>2, <3>2, <3>3
    <2> QED BY <2>1, <2>2, ThreadAssumption, Zenon DEF process
  <1>FreeInv. FreeInv'
    <2> SUFFICES ASSUME NEW s \in Thread, NEW x \in Thread, pc'[s] = "free", obj'[s] = x
                 PROVE  x \notin Listed' /\ Allocated(x)' /\ Holders(x)' = {}
      BY Zenon DEF FreeInv
    <2>1. pc[s] = "free" /\ obj[s] = x
      BY <1>frame, Zenon
    <2>2. x \notin Listed /\ Allocated(x) /\ Holders(x) = {}
      BY <2>1, Zenon DEF IInv, FreeInv
    <2>3. x # u /\ x \notin Listed' /\ mem' = mem
      BY <1>list, <1>frame, <1>u, <2>2, Zenon
    <2> QED BY <1>holders, <2>2, <2>3, Zenon DEF Allocated
  <1>SurvivorInv. SurvivorInv'
    <2> SUFFICES ASSUME NEW s \in Thread, pc[s] \in {"transition", "zombify", "orphan2"}, s # t,
                        Len(list') = 1
                 PROVE  FALSE
      BY <1>frame, Zenon DEF SurvivorInv, process
    <2>1. s \in Listed' /\ t \in Listed'
      BY <1>list, <1>frame, <1>u, ZenonT(60) DEF IInv, AliveInv, Gone
    <2>2. s \in Elements(list') /\ t \in Elements(list')
      BY <2>1 DEF Listed
    <2>3. s = t
      BY <1>list, <2>2, SingletonLemma, Zenon
    <2> QED BY <2>3, Zenon
  <1> QED BY <1>TypeOK, <1>ListInv, <1>LockInv, <1>ScanInv, <1>AliveInv, <1>StatusInv,
             <1>RootInv, <1>ClaimInv, <1>JoinInv, <1>CloneInv, <1>OwnerInv, <1>UnbornInv,
             <1>RetInv, <1>RefInv, <1>FreeInv, <1>SurvivorInv, ThreadAssumption, ZenonT(60)
                 DEF IInv, local

\* IInv is kept: the load in _pthread_unref finds zero only when the object left the list
\* and nobody else holds a reference.
LEMMA DerefLoadStep ==
    ASSUME IInv, Counting, ~ReclaimRoot, NEW t \in Thread, DerefLoad(t)
    PROVE  IInv'
  <1> USE DEF Joinable, Detached, Terminated, Zombie
  <1>card. \A X \in SUBSET Thread :
              /\ Cardinality(X) \in Nat
              /\ Cardinality(X) = 0 <=> X = {}
              /\ \A x \in Thread \ X : Cardinality(X \cup {x}) = Cardinality(X) + 1
              /\ \A x \in X : Cardinality(X \ {x}) = Cardinality(X) - 1
    BY DEF Counting
  <1>list. list' = list /\ Listed' = Listed
    BY Zenon DEF Listed, DerefLoad, heap
  <1>obj. /\ obj[t] \in Thread /\ t \in Holders(obj[t]) /\ Holders(obj[t]) \in SUBSET Thread
          /\ Allocated(obj[t]) /\ refs[obj[t]] \in Int /\ refs[obj[t]] >= Cardinality(Holders(obj[t])) - 1
    BY Zenon DEF IInv, TypeOK, UnbornInv, RefInv, Touching, Holders, DerefLoad, At
  <1>zero. refs[obj[t]] = 0 => /\ obj[t] \notin Listed /\ ret[t] # "everyone"
                                /\ Holders(obj[t]) = {t}
    <2> SUFFICES ASSUME refs[obj[t]] = 0
                 PROVE  obj[t] \notin Listed /\ Holders(obj[t]) = {t}
      BY Zenon DEF IInv, RetInv
    <2>1. Cardinality(Holders(obj[t])) = 1
      BY <1>obj, <1>card
    <2>2. Holders(obj[t]) \ {t} = {}
      <3>1. Holders(obj[t]) \ {t} \in SUBSET Thread
        BY <1>obj, Zenon
      <3>2. Cardinality(Holders(obj[t]) \ {t}) = 0
        BY <1>obj, <1>card
      <3> QED BY <3>1, <3>2, <1>card, Zenon DEF At
    <2>3. obj[t] \notin Listed
      BY <1>obj, <2>1 DEF IInv, RefInv
    <2> QED BY <1>obj, <2>2, <2>3, Zenon
  <1>holders. \A x \in Thread : Holders(x)' = IF refs[obj[t]] = 0 THEN Holders(x) \ {t} ELSE Holders(x)
    BY <1>obj, ThreadAssumption, ZenonT(60) DEF IInv, TypeOK, Holders, DerefLoad, local, Goto
  <1>TypeOK. TypeOK'
    BY Zenon DEF IInv, TypeOK, PC, DerefLoad, heap, local, process, Goto
  <1>ListInv. ListInv'
    BY <1>list, Zenon DEF IInv, ListInv, Allocated, DerefLoad, heap
  <1>LockInv. LockInv'
    BY DEF IInv, LockInv, DerefLoad, Goto
  <1>ScanInv. ScanInv'
    BY Zenon DEF IInv, TypeOK, ScanInv, DerefLoad, heap, local, Goto
  <1>AliveInv. AliveInv'
    BY <1>list, ZenonT(60) DEF IInv, TypeOK, AliveInv, Gone, DerefLoad, heap, process, At, Goto
  <1>StatusInv. StatusInv'
    BY <1>list, ZenonT(60) DEF IInv, TypeOK, StatusInv, Past, DerefLoad, heap, At, Goto
  <1>RootInv. RootInv'
    BY <1>list DEF IInv, RootInv, DerefLoad, heap, process, Goto
  <1>ClaimInv. ClaimInv'
    BY <1>list, Zenon DEF IInv, ClaimInv, Allocated, DerefLoad, heap, local, process, At
  <1>JoinInv. JoinInv'
    BY <1>list, ThreadAssumption, ZenonT(30) DEF IInv, TypeOK, JoinInv, Claiming, Past,
       UnbornInv,
       Touching, DerefLoad, heap, local, process, At, Goto
  <1>CloneInv. CloneInv'
    BY <1>list DEF IInv, CloneInv, DerefLoad, heap, local, At, Goto
  <1>OwnerInv. OwnerInv'
    BY <1>zero, <1>obj, ThreadAssumption, ZenonT(30) DEF IInv, TypeOK, OwnerInv, Claiming,
       FreeInv,
       DerefLoad, heap, local, process, At, Goto
  <1>UnbornInv. UnbornInv'
    BY Zenon DEF IInv, TypeOK, UnbornInv, Touching, Dropping, DerefLoad, local, At, Goto
  <1>RetInv. RetInv'
    BY <1>list, <1>zero, Zenon DEF IInv, TypeOK, RetInv, DerefLoad, local, At, Goto
  <1>RefInv. RefInv'
    <2> SUFFICES ASSUME NEW x \in Thread
                 PROVE  /\ x \in Listed => refs[x] >= Cardinality(Holders(x)')
                        /\ Holders(x)' # {} => Allocated(x) /\ refs[x] >= Cardinality(Holders(x)') - 1
      BY <1>list, Zenon DEF RefInv, Allocated, DerefLoad, heap, Goto
    <2>1. CASE refs[obj[t]] # 0 \/ x # obj[t]
      <3>1. Holders(x)' = Holders(x)
        BY <1>holders, <2>1, ZenonT(60) DEF Holders
      <3> QED BY <3>1, Zenon DEF IInv, RefInv
    <2>2. CASE refs[obj[t]] = 0 /\ x = obj[t]
      BY <1>zero, <1>holders, <2>2, Zenon
    <2> QED BY <2>1, <2>2, Zenon
  <1>FreeInv. FreeInv'
    <2> SUFFICES ASSUME NEW s \in Thread, NEW x \in Thread, pc'[s] = "free", obj[s] = x
                 PROVE  x \notin Listed /\ Allocated(x) /\ Holders(x)' = {}
      BY <1>list, Zenon DEF FreeInv, Allocated, DerefLoad, heap, local
    <2>1. CASE s = t
      <3>1. refs[obj[t]] = 0
        BY <2>1, Zenon DEF IInv, TypeOK, DerefLoad, Goto
      <3> QED BY <2>1, <3>1, <1>obj, <1>zero, <1>holders, ZenonT(60)
    <2>2. CASE s # t
      <3>1. pc[s] = "free"
        BY <2>2 DEF DerefLoad, Goto
      <3> QED BY <3>1, <1>holders, ZenonT(60) DEF IInv, FreeInv
    <2> QED BY <2>1, <2>2, Zenon
  <1>SurvivorInv. SurvivorInv'
    BY <1>list DEF IInv, SurvivorInv, DerefLoad, process, At, Goto
  <1> QED BY <1>TypeOK, <1>ListInv, <1>LockInv, <1>ScanInv, <1>AliveInv, <1>StatusInv,
             <1>RootInv, <1>ClaimInv, <1>JoinInv, <1>CloneInv, <1>OwnerInv, <1>UnbornInv,
             <1>RetInv, <1>RefInv, <1>FreeInv, <1>SurvivorInv, ZenonT(60) DEF IInv

\* IInv is kept: the decrement in _pthread_unref finds zero only when the object left the
\* list and nobody else holds a reference.
LEMMA DerefSubStep ==
    ASSUME IInv, Counting, ~ReclaimRoot, NEW t \in Thread, DerefSub(t)
    PROVE  IInv'
  <1> USE DEF Joinable, Detached, Terminated, Zombie
  <1>card. \A X \in SUBSET Thread :
              /\ Cardinality(X) \in Nat
              /\ Cardinality(X) = 0 <=> X = {}
              /\ \A x \in Thread \ X : Cardinality(X \cup {x}) = Cardinality(X) + 1
              /\ \A x \in X : Cardinality(X \ {x}) = Cardinality(X) - 1
    BY Zenon DEF Counting
  <1>list. list' = list /\ Listed' = Listed
    BY Zenon DEF Listed, DerefSub
  <1>obj. /\ obj[t] \in Thread /\ t \in Holders(obj[t]) /\ Holders(obj[t]) \in SUBSET Thread
          /\ Allocated(obj[t]) /\ refs[obj[t]] \in Int /\ refs[obj[t]] >= Cardinality(Holders(obj[t])) - 1
    BY Zenon DEF IInv, TypeOK, UnbornInv, RefInv, Touching, Holders, DerefSub, At
  <1>zero. refs[obj[t]] = 0 => /\ obj[t] \notin Listed /\ ret[t] # "everyone"
                                /\ Holders(obj[t]) = {t}
    <2> SUFFICES ASSUME refs[obj[t]] = 0
                 PROVE  obj[t] \notin Listed /\ Holders(obj[t]) = {t}
      BY Zenon DEF IInv, RetInv
    <2>1. Cardinality(Holders(obj[t])) = 1
      BY <1>obj, <1>card
    <2>2. Holders(obj[t]) \ {t} = {}
      <3>1. Holders(obj[t]) \ {t} \in SUBSET Thread
        BY <1>obj, Zenon
      <3>2. Cardinality(Holders(obj[t]) \ {t}) = 0
        BY <1>obj, <1>card
      <3> QED BY <3>1, <3>2, <1>card, Zenon
    <2>3. obj[t] \notin Listed
      BY <1>obj, <2>1 DEF IInv, RefInv
    <2> QED BY <1>obj, <2>2, <2>3, Zenon
  <1>next. PICK l \in {"free", "decimate", "run", "create", "orphan1", "everyone"} :
              /\ pc' = [pc EXCEPT ![t] = l]
              /\ l = "free" <=> refs[obj[t]] = 0
              /\ l = "everyone" => ret[t] = "everyone"
              /\ l = "free" => obj' = obj /\ ret' = ret /\ depth' = depth
              /\ l # "free" => obj' = [obj EXCEPT ![t] = NoThread] /\ ret'[t] # "everyone"
              /\ ret' \in [Thread -> Return] /\ depth' \in [Thread -> Nat]
              /\ depth'[t] = 0 \/ l \in {"decimate", "free"}
              /\ \A s \in Thread \ {t} : ret'[s] = ret[s] /\ depth'[s] = depth[s]
    <2>0. ret \in [Thread -> Return] /\ depth \in [Thread -> Nat] /\ (ret[t] = "everyone" => depth[t] = 0)
      BY Zenon DEF IInv, TypeOK, RetInv, local
    <2>1. CASE refs[obj[t]] = 0
      BY <2>0, <2>1, ZenonT(60) DEF DerefSub, Goto
    <2>2. CASE refs[obj[t]] # 0 /\ depth[t] > 0
      <3>1. /\ pc' = [pc EXCEPT ![t] = "decimate"] /\ depth' = [depth EXCEPT ![t] = @ - 1] /\ ret' = ret
            /\ obj' = [obj EXCEPT ![t] = NoThread]
        BY <2>2, ZenonT(60) DEF DerefSub, ReturnFrom, Forget, Goto
      <3>2. depth' \in [Thread -> Nat] /\ ret[t] # "everyone"
        BY <2>0, <2>2, <3>1
      <3> QED BY <2>0, <2>2, <3>1
    <2>3. CASE refs[obj[t]] # 0 /\ ~(depth[t] > 0)
      <3>1. /\ pc' = [pc EXCEPT ![t] = ret[t]] /\ ret' = [ret EXCEPT ![t] = "run"] /\ depth' = depth
            /\ obj' = [obj EXCEPT ![t] = NoThread]
        BY <2>3, Zenon DEF DerefSub, ReturnFrom, Forget, Goto
      <3>2. depth[t] = 0
        BY <2>0, <2>3
      <3> QED BY <2>0, <2>3, <3>1, <3>2, Zenon DEF Return
    <2> QED BY <2>1, <2>2, <2>3, Zenon
  <1>frame. /\ \A s \in Thread \ {t} : pc'[s] = pc[s] /\ obj'[s] = obj[s]
            /\ pc'[t] \in {"free", "decimate", "run", "create", "orphan1", "everyone"}
            /\ pc'[t] = "free" => obj'[t] = obj[t] /\ refs[obj[t]] = 0
            /\ pc' \in [Thread -> PC] /\ obj' \in [Thread -> Thread \cup {NoThread}]
            /\ ret'[t] = "everyone" => pc'[t] = "free" /\ ret[t] = "everyone"
            /\ pc'[t] = "everyone" => ret[t] = "everyone"
            /\ depth'[t] = 0 \/ pc'[t] \in {"decimate", "free"}
            /\ \A s \in Thread \ {t} : ret'[s] = ret[s] /\ depth'[s] = depth[s]
            /\ pc[t] = "sub" /\ UNCHANGED <<list, mem, status, tid, lock, cursor, process>>
    BY <1>next, ThreadAssumption, ZenonT(30) DEF IInv, TypeOK, PC, DerefSub, heap, local,
       process, At, Goto
  <1>refs. /\ refs' \in [Thread -> Int]
           /\ \A x \in Thread : mem[x] = "none" => refs'[x] = refs[x]
    <2>1. refs \in [Thread -> Int] /\ refs' = [refs EXCEPT ![obj[t]] = @ - 1]
      BY Zenon DEF IInv, TypeOK, DerefSub
    <2>2. obj[t] \in Thread /\ mem[obj[t]] # "none"
      BY <1>obj, Zenon DEF Allocated
    <2> QED BY <2>1, <2>2
  <1>holders. \A x \in Thread : Holders(x)' = Holders(x) \ {t}
    BY <1>frame, ZenonT(60) DEF Holders
  <1>TypeOK. TypeOK'
    BY <1>refs, <1>next, <1>frame, Zenon DEF IInv, TypeOK, process
  <1>ListInv. ListInv'
    BY <1>list, Zenon DEF IInv, ListInv, Allocated, DerefSub, heap
  <1>LockInv. LockInv'
    BY <1>frame, Zenon DEF IInv, LockInv, RetInv, Goto
  <1>ScanInv. ScanInv'
    BY <1>frame, ZenonT(60) DEF IInv, ScanInv
  <1>AliveInv. AliveInv'
    BY <1>list, <1>frame, <1>refs, ThreadAssumption DEF IInv, AliveInv, Gone, process, At, Goto
  <1>StatusInv. StatusInv'
    BY <1>frame, Zenon DEF IInv, StatusInv, Past
  <1>RootInv. RootInv'
    BY <1>list, <1>frame, ZenonT(60) DEF IInv, TypeOK, RootInv, process
  <1>ClaimInv. ClaimInv'
    BY <1>list, <1>frame, ZenonT(60) DEF IInv, ClaimInv, Allocated, process
  <1>JoinInv. JoinInv'
    <2> SUFFICES ASSUME NEW s \in Thread, pc'[s] \in Claiming
                 PROVE  /\ obj'[s] \in Listed' /\ obj'[s] \in claimed' /\ pc'[obj'[s]] # "unborn"
                        /\ pc'[s] \in {"wait", "remove"} => status'[obj'[s]] \in {Joinable, Terminated}
                        /\ pc'[s] = "remove" => tid'[obj'[s]] = 0
                        /\ pc'[s] = "detach" => /\ Before(list', obj'[s], root')
                                                /\ status'[obj'[s]] = Zombie
                                                /\ pc'[obj'[s]] \in Past
      BY Zenon DEF JoinInv
    <2>1. pc'[s] = pc[s] /\ obj'[s] = obj[s]
      BY <1>frame, Zenon DEF Claiming
    <2>2. obj[s] \in Thread
      BY <2>1, Zenon DEF IInv, UnbornInv, Claiming, Touching
    <2>3. /\ pc[obj[s]] # "unborn" => pc'[obj[s]] # "unborn"
          /\ pc[obj[s]] \in Past => pc'[obj[s]] \in Past
      BY <1>frame, <2>2, Zenon DEF Past
    <2>4. Listed' = Listed /\ UNCHANGED <<list, status, tid, claimed, root>>
      BY <1>list, <1>frame, Zenon DEF process
    <2> QED BY <2>1, <2>2, <2>3, <2>4, Zenon DEF IInv, JoinInv
  <1>CloneInv. CloneInv'
    <2> SUFFICES ASSUME NEW s \in Thread, pc'[s] = "clone"
                 PROVE  obj'[s] \in Listed' /\ pc'[obj'[s]] = "unborn" /\ mem'[obj'[s]] = "live"
      BY Zenon DEF CloneInv
    <2>1. s # t /\ pc[s] = "clone" /\ obj'[s] = obj[s]
      BY <1>frame, Zenon
    <2>2. obj[s] \in Thread /\ obj[s] \in Listed /\ pc[obj[s]] = "unborn" /\ mem[obj[s]] = "live"
      BY <2>1, Zenon DEF IInv, CloneInv, UnbornInv, Touching
    <2>3. pc'[obj[s]] = "unborn"
      BY <1>frame, <2>2, Zenon
    <2>4. obj[s] \in Listed' /\ mem'[obj[s]] = "live"
      BY <1>list, <1>frame, <2>1, <2>2, Zenon
    <2> QED BY <2>1, <2>3, <2>4, Zenon
  <1>OwnerInv. OwnerInv'
    <2>1. \A s \in Thread \ {t} : pc[s] = "free" => obj[s] # obj[t]
      BY <1>obj, Zenon DEF IInv, FreeInv
    <2>2. \A s \in Thread : /\ pc'[s] \in Claiming \cup {"clone"} => s # t
                            /\ s # t => pc'[s] = pc[s] /\ obj'[s] = obj[s]
      BY <1>frame, Zenon DEF Claiming
    <2>3. pc'[t] = "free" => obj'[t] = obj[t]
      BY <1>frame, Zenon
    <2>4. ASSUME NEW r \in Thread, NEW s \in Thread, r # s, obj'[r] = obj'[s],
                 pc'[r] = "free", pc'[s] = "free"
          PROVE  FALSE
      <3>1. CASE r = t
        BY <2>1, <2>2, <2>3, <2>4, <3>1, Zenon
      <3>2. CASE s = t
        BY <2>1, <2>2, <2>3, <2>4, <3>2, Zenon
      <3>3. CASE r # t /\ s # t
        BY <2>2, <2>4, <3>3, Zenon DEF IInv, OwnerInv
      <3> QED BY <3>1, <3>2, <3>3, Zenon
    <2>5. \A r, s \in Thread : (r # s /\ obj'[r] = obj'[s]) =>
              /\ pc'[r] \in Claiming => pc'[s] \notin Claiming
              /\ pc'[r] = "clone" => pc'[s] # "clone"
      BY <2>2, ZenonT(60) DEF IInv, OwnerInv
    <2> QED BY <2>4, <2>5, Zenon DEF OwnerInv
  <1>UnbornInv. UnbornInv'
    BY <1>frame DEF IInv, UnbornInv, Touching, Dropping
  <1>RetInv. RetInv'
    BY <1>list, <1>frame, <1>zero, ZenonT(60) DEF IInv, RetInv
  <1>RefInv. RefInv'
    <2> SUFFICES ASSUME NEW x \in Thread
                 PROVE  /\ x \in Listed => refs'[x] >= Cardinality(Holders(x)')
                        /\ Holders(x)' # {} => Allocated(x) /\ refs'[x] >= Cardinality(Holders(x)') - 1
      BY <1>list, Zenon DEF RefInv, Allocated, DerefSub
    <2>1. CASE x # obj[t]
      <3>1. Holders(x)' = Holders(x) /\ refs'[x] = refs[x]
        BY <1>holders, <2>1, ZenonT(60) DEF IInv, TypeOK, Holders, DerefSub, At
      <3> QED BY <3>1, Zenon DEF IInv, RefInv
    <2>2. CASE x = obj[t]
      <3>1. Holders(x)' = Holders(x) \ {t} /\ refs'[x] = refs[x] - 1 /\ Holders(x) # {}
        BY <1>holders, <1>obj, <2>2, ZenonT(60) DEF IInv, TypeOK, DerefSub, Goto
      <3>2. /\ x \in Listed => refs[x] >= Cardinality(Holders(x))
            /\ Allocated(x) /\ refs[x] >= Cardinality(Holders(x)) - 1
        BY <3>1, ZenonT(60) DEF IInv, RefInv
      <3>3. Cardinality(Holders(x)') = Cardinality(Holders(x)) - 1 /\ Cardinality(Holders(x)) \in Nat
        BY <1>obj, <2>2, <3>1, <1>card
      <3> QED BY <1>obj, <2>2, <3>1, <3>2, <3>3
    <2> QED BY <2>1, <2>2, Zenon
  <1>FreeInv. FreeInv'
    <2> SUFFICES ASSUME NEW s \in Thread, NEW x \in Thread, pc'[s] = "free", obj'[s] = x
                 PROVE  x \notin Listed /\ Allocated(x) /\ Holders(x)' = {}
      BY <1>list, Zenon DEF FreeInv, Allocated, DerefSub
    <2>1. CASE s = t
      <3>1. refs[obj[t]] = 0 /\ obj[t] = x
        BY <1>next, <2>1, Zenon DEF IInv, TypeOK
      <3> QED BY <3>1, <1>obj, <1>zero, <1>holders, ZenonT(60)
    <2>2. CASE s # t
      <3>1. pc[s] = "free" /\ obj[s] = x
        BY <1>next, <2>2, Zenon DEF IInv, TypeOK, heap
      <3> QED BY <3>1, <1>holders, Zenon DEF IInv, FreeInv
    <2> QED BY <2>1, <2>2, Zenon DEF local
  <1>SurvivorInv. SurvivorInv'
    BY <1>frame, ThreadAssumption, ZenonT(60) DEF IInv, SurvivorInv, Gone, process, Goto
  <1> QED BY <1>TypeOK, <1>ListInv, <1>LockInv, <1>ScanInv, <1>AliveInv, <1>StatusInv,
             <1>RootInv, <1>ClaimInv, <1>JoinInv, <1>CloneInv, <1>OwnerInv, <1>UnbornInv,
             <1>RetInv, <1>RefInv, <1>FreeInv, <1>SurvivorInv, ZenonT(60) DEF IInv, local

\* _pthread_free passes its assertion.
Freeing(t) ==
    /\ At(t, "free")
    /\ mem' = IF mem[obj[t]] = "static" THEN mem
              ELSE [mem EXCEPT ![obj[t]] = "freed"]
    /\ Forget(t)
    /\ Goto(t, "decimate")
    /\ UNCHANGED <<list, status, tid, refs, lock, cursor, ret, depth, process>>

\* The object of _pthread_free is in no list.
LEMMA FreePasses ==
    ASSUME IInv, NEW t \in Thread, Free(t)
    PROVE  Freeing(t)
  <1>1. obj[t] \in Thread
    BY Zenon DEF IInv, UnbornInv, Touching, Free, At
  <1>2. obj[t] \notin Listed
    BY <1>1, Zenon DEF IInv, FreeInv, Free, At
  <1> QED BY <1>2, Zenon DEF Free, Freeing

\* IInv is kept: _pthread_free gives back an object nobody holds.
LEMMA FreeingStep ==
    ASSUME IInv, ~ReclaimRoot, NEW t \in Thread, Freeing(t)
    PROVE  IInv'
  <1> USE DEF Joinable, Detached, Terminated, Zombie
  <1>list. list' = list /\ Listed' = Listed
    BY Zenon DEF Listed, Freeing
  <1>obj. /\ obj[t] \in Thread /\ obj[t] \notin Listed /\ Allocated(obj[t])
          /\ Holders(obj[t]) = {} /\ obj[t] \in claimed
    <2>1. obj[t] \in Thread
      BY Zenon DEF IInv, UnbornInv, Touching, Freeing, At
    <2>2. obj[t] \notin Listed /\ Allocated(obj[t]) /\ Holders(obj[t]) = {}
      BY <2>1, Zenon DEF IInv, FreeInv, Freeing, At
    <2> QED BY <2>1, <2>2, Zenon DEF IInv, ClaimInv
  <1>frame. /\ \A s \in Thread \ {t} : pc'[s] = pc[s] /\ obj'[s] = obj[s]
            /\ pc'[t] = "decimate" /\ pc[t] = "free"
            /\ UNCHANGED <<list, status, tid, refs, lock, cursor, ret, depth, process>>
    BY Zenon DEF IInv, TypeOK, Freeing, Forget, At, Goto
  <1>mem. /\ mem' \in [Thread -> {"static", "none", "live", "freed"}]
          /\ \A x \in Thread : x # obj[t] => mem'[x] = mem[x]
          /\ mem'[obj[t]] \in {"static", "freed"}
          /\ \A x \in Thread : mem'[x] = "none" => mem[x] = "none"
    BY <1>obj, Zenon DEF IInv, TypeOK, Freeing, local, process
  <1>holders. \A x \in Thread : Holders(x)' = Holders(x)
    BY Zenon DEF IInv, TypeOK, Holders, Freeing, Forget, At, Goto
  <1>TypeOK. TypeOK'
    BY <1>mem, ZenonT(60) DEF IInv, TypeOK, PC, Freeing, Forget, local, process, At, Goto
  <1>ListInv. ListInv'
    <2>1. \A x \in Listed : x \in Thread
      <3>1. list \in Seq(Thread)
        BY Zenon DEF IInv, TypeOK
      <3> QED BY <3>1 DEF Listed
    <2>2. \A x \in Listed : mem'[x] = mem[x]
      BY <1>obj, <1>mem, <2>1, ZenonT(60)
    <2> QED BY <1>list, <2>2, Zenon DEF IInv, ListInv, Allocated
  <1>LockInv. LockInv'
    BY <1>list DEF IInv, LockInv, Freeing, Forget, Goto
  <1>ScanInv. ScanInv'
    BY ZenonT(60) DEF IInv, TypeOK, ScanInv, Freeing, Goto
  <1>AliveInv. AliveInv'
    BY <1>list, <1>obj, <1>mem, <1>frame DEF IInv, AliveInv, Gone, process
  <1>StatusInv. StatusInv'
    BY ZenonT(60) DEF IInv, TypeOK, StatusInv, Past, Freeing, At, Goto
  <1>RootInv. RootInv'
    BY <1>list DEF IInv, RootInv, Freeing, process, Goto
  <1>ClaimInv. ClaimInv'
    BY <1>list, <1>mem, <1>obj, Zenon DEF IInv, ClaimInv, Allocated, Freeing, process
  <1>JoinInv. JoinInv'
    BY <1>list, ZenonT(60) DEF IInv, TypeOK, JoinInv, Claiming, Past, Freeing, Forget, process, At, Goto
  <1>CloneInv. CloneInv'
    BY <1>list, <1>frame, <1>obj, <1>mem DEF IInv, CloneInv, UnbornInv, Touching
  <1>OwnerInv. OwnerInv'
    BY ZenonT(60) DEF IInv, TypeOK, OwnerInv, Claiming, Freeing, Forget, Goto
  <1>UnbornInv. UnbornInv'
    BY Zenon DEF IInv, TypeOK, UnbornInv, Touching, Dropping, Freeing, Forget, Goto
  <1>RetInv. RetInv'
    BY <1>list, ZenonT(60) DEF IInv, TypeOK, RetInv, Freeing, Forget, At, Goto
  <1>RefInv. RefInv'
    <2> SUFFICES ASSUME NEW x \in Thread
                 PROVE  /\ x \in Listed => refs[x] >= Cardinality(Holders(x))
                        /\ Holders(x) # {} => Allocated(x)' /\ refs[x] >= Cardinality(Holders(x)) - 1
      BY <1>list, <1>holders, Zenon DEF RefInv, Freeing
    <2>1. Holders(x) # {} => mem'[x] = mem[x]
      BY <1>obj, <1>mem, ZenonT(60)
    <2> QED BY <2>1, Zenon DEF IInv, RefInv, Allocated
  <1>FreeInv. FreeInv'
    <2> SUFFICES ASSUME NEW s \in Thread, NEW x \in Thread, pc'[s] = "free", obj'[s] = x
                 PROVE  x \notin Listed /\ Allocated(x)' /\ Holders(x) = {}
      BY <1>list, <1>holders, Zenon DEF FreeInv
    <2>1. pc[s] = "free" /\ obj[s] = x /\ s # t
      BY Zenon DEF IInv, TypeOK, Freeing, Forget, Goto
    <2>2. x # obj[t]
      BY <2>1, Zenon DEF IInv, OwnerInv, Freeing, At
    <2>3. mem'[x] = mem[x]
      BY <1>mem, <2>2, ZenonT(60) DEF At, Goto
    <2> QED BY <2>1, <2>3, Zenon DEF IInv, FreeInv, Allocated
  <1>SurvivorInv. SurvivorInv'
    BY <1>frame, Zenon DEF IInv, SurvivorInv, Gone, process
  <1> QED BY <1>TypeOK, <1>ListInv, <1>LockInv, <1>ScanInv, <1>AliveInv, <1>StatusInv,
             <1>RootInv, <1>ClaimInv, <1>JoinInv, <1>CloneInv, <1>OwnerInv, <1>UnbornInv,
             <1>RetInv, <1>RefInv, <1>FreeInv, <1>SurvivorInv, Zenon DEF IInv

LEMMA FreeStep ==
    ASSUME IInv, ~ReclaimRoot, NEW t \in Thread, Free(t)
    PROVE  IInv'
  BY FreePasses, FreeingStep, Zenon

----------------------------------------------------------------------------
(***************************************************************************)
(* pthread_join and pthread_detach.                                        *)
(***************************************************************************)
\* IInv is kept: pthread_join is given a handle nobody else owns.
LEMMA JoinCallStep ==
    ASSUME IInv, ~ReclaimRoot, NEW t \in Thread, NEW u \in Thread, JoinCall(t, u)
    PROVE  IInv'
  <1> USE DEF Joinable, Detached, Terminated, Zombie
  <1>list. list' = list /\ Listed' = Listed
    BY Zenon DEF Listed, JoinCall, heap, At, Goto
  <1>u. /\ u \in Listed /\ u \notin claimed /\ u # root /\ pc[u] # "unborn" /\ Allocated(u)
        /\ status[u] \in {Joinable, Terminated}
        /\ \A s \in Thread : pc[s] \in Claiming => obj[s] # u
    <2>1. pc[u] # "unborn" /\ u \notin claimed /\ u # root
      BY Zenon DEF Handle, JoinCall, process
    <2>2. Allocated(u)
      BY <2>1, Zenon DEF IInv, TypeOK, AliveInv, Allocated
    <2> QED BY <2>1, <2>2, Zenon DEF IInv, ClaimInv, JoinInv
  <1>frame. /\ \A s \in Thread \ {t} : pc'[s] = pc[s] /\ obj'[s] = obj[s]
            /\ pc[t] = "run" /\ pc'[t] = "wait" /\ obj'[t] = u /\ claimed' = claimed \cup {u}
            /\ UNCHANGED <<heap, lock, cursor, ret, depth, root, finalized, exited>>
    BY Zenon DEF IInv, TypeOK, JoinCall, At, Goto
  <1>holders. \A x \in Thread : Holders(x)' = Holders(x)
    BY <1>frame, Zenon DEF Holders
  <1>TypeOK. TypeOK'
    BY Zenon DEF IInv, TypeOK, PC, JoinCall, heap, Goto
  <1>ListInv. ListInv'
    BY <1>list, <1>frame, Zenon DEF IInv, ListInv, Allocated, heap
  <1>LockInv. LockInv'
    BY <1>frame, Zenon DEF IInv, LockInv, At, Goto
  <1>ScanInv. ScanInv'
    BY <1>frame, ZenonT(60) DEF IInv, ScanInv, heap
  <1>AliveInv. AliveInv'
    BY <1>list, <1>frame, ZenonT(60) DEF IInv, AliveInv, Gone, heap
  <1>StatusInv. StatusInv'
    BY <1>frame, Zenon DEF IInv, StatusInv, Past, heap
  <1>RootInv. RootInv'
    BY <1>list, <1>frame, <1>u, ThreadAssumption, ZenonT(60) DEF IInv, TypeOK, RootInv, heap, local,
       process, At, Goto
  <1>ClaimInv. ClaimInv'
    BY <1>list, <1>frame, Zenon DEF IInv, ClaimInv, Allocated, heap
  <1>JoinInv. JoinInv'
    <2> SUFFICES ASSUME NEW s \in Thread, pc'[s] \in Claiming
                 PROVE  /\ obj'[s] \in Listed /\ obj'[s] \in claimed' /\ pc'[obj'[s]] # "unborn"
                        /\ pc'[s] \in {"wait", "remove"} => status[obj'[s]] \in {Joinable, Terminated}
                        /\ pc'[s] = "remove" => tid[obj'[s]] = 0
                        /\ pc'[s] = "detach" => /\ Before(list, obj'[s], root)
                                                /\ status[obj'[s]] = Zombie
                                                /\ pc'[obj'[s]] \in Past
      BY <1>list, <1>frame, Zenon DEF JoinInv, heap
    <2>1. \A x \in Thread : /\ pc[x] # "unborn" => pc'[x] # "unborn"
                            /\ pc[x] \in Past => pc'[x] \in Past
      BY <1>frame, Zenon DEF Past
    <2>2. CASE s = t
      BY <1>frame, <1>u, <2>1, <2>2, Zenon
    <2>3. CASE s # t
      <3>1. pc'[s] = pc[s] /\ obj'[s] = obj[s] /\ pc[s] \in Claiming
        BY <1>frame, <2>3, Zenon
      <3>2. /\ obj[s] \in Listed /\ obj[s] \in claimed /\ pc[obj[s]] # "unborn"
            /\ pc[s] \in {"wait", "remove"} => status[obj[s]] \in {Joinable, Terminated}
            /\ pc[s] = "remove" => tid[obj[s]] = 0
            /\ pc[s] = "detach" => /\ Before(list, obj[s], root) /\ status[obj[s]] = Zombie
                                   /\ pc[obj[s]] \in Past
        BY <3>1, Zenon DEF IInv, JoinInv
      <3>3. obj[s] \in Thread /\ obj[s] \in claimed'
        BY <1>frame, <3>1, <3>2, Zenon DEF IInv, UnbornInv, Claiming, Touching
      <3> QED BY <2>1, <3>1, <3>2, <3>3, Zenon
    <2> QED BY <2>2, <2>3, Zenon
  <1>CloneInv. CloneInv'
    <2> SUFFICES ASSUME NEW s \in Thread, pc'[s] = "clone"
                 PROVE  obj'[s] \in Listed /\ pc'[obj'[s]] = "unborn" /\ mem[obj'[s]] = "live"
      BY <1>list, <1>frame, Zenon DEF CloneInv, heap
    <2>1. s # t /\ pc[s] = "clone" /\ obj'[s] = obj[s]
      BY <1>frame, Zenon
    <2>2. obj[s] \in Listed /\ pc[obj[s]] = "unborn" /\ mem[obj[s]] = "live"
      BY <2>1, Zenon DEF IInv, CloneInv
    <2>3. obj[s] \in Thread
      BY <2>1, Zenon DEF IInv, UnbornInv, Touching
    <2>4. obj[s] # t
      BY <1>frame, <2>2, Zenon
    <2> QED BY <1>frame, <2>1, <2>2, <2>3, <2>4, Zenon
  <1>OwnerInv. OwnerInv'
    <2>1. pc'[t] = "wait" /\ obj'[t] = u /\ OwnerInv
      BY <1>frame, Zenon DEF IInv
    <2>2. pc'[t] # "clone" /\ pc'[t] # "free"
      BY <2>1, Zenon
    <2>3. \A s \in Thread \ {t} : pc'[s] = pc[s] /\ obj'[s] = obj[s]
      BY <1>frame, Zenon
    <2>4. \A s \in Thread : pc[s] \in Claiming => obj[s] # u
      BY <1>u, Zenon
    <2> QED BY <2>1, <2>2, <2>3, <2>4, OwnerMoved, Zenon
  <1>UnbornInv. UnbornInv'
    BY <1>frame, ZenonT(60) DEF IInv, UnbornInv, Touching, Dropping
  <1>RetInv. RetInv'
    BY <1>list, <1>frame, ThreadAssumption, ZenonT(60) DEF IInv, RetInv, Goto
  <1>RefInv. RefInv'
    BY <1>list, <1>frame, <1>holders, Zenon DEF IInv, RefInv, Allocated, heap
  <1>FreeInv. FreeInv'
    BY <1>list, <1>frame, <1>holders, Zenon DEF IInv, FreeInv, Allocated, heap
  <1>SurvivorInv. SurvivorInv'
    BY <1>list, <1>frame, Zenon DEF IInv, SurvivorInv, Gone
  <1> QED BY <1>TypeOK, <1>ListInv, <1>LockInv, <1>ScanInv, <1>AliveInv, <1>StatusInv,
             <1>RootInv, <1>ClaimInv, <1>JoinInv, <1>CloneInv, <1>OwnerInv, <1>UnbornInv,
             <1>RetInv, <1>RefInv, <1>FreeInv, <1>SurvivorInv, ZenonT(60) DEF IInv

\* IInv is kept: pthread_timedjoin_np times out and gives the handle back.
LEMMA JoinGiveUpStep ==
    ASSUME IInv, ~ReclaimRoot, NEW t \in Thread, JoinGiveUp(t)
    PROVE  IInv'
  <1> USE DEF Joinable, Detached, Terminated, Zombie
  <1>list. list' = list /\ Listed' = Listed
    BY Zenon DEF Listed, JoinGiveUp, heap
  <1>obj. /\ obj[t] \in Thread /\ obj[t] \in Listed /\ status[obj[t]] \in {Joinable, Terminated}
          /\ Allocated(obj[t])
    BY Zenon DEF IInv, JoinInv, UnbornInv, ListInv, Claiming, Touching, JoinGiveUp, At
  <1>frame. /\ \A s \in Thread \ {t} : pc'[s] = pc[s] /\ obj'[s] = obj[s]
            /\ pc[t] = "wait" /\ pc'[t] = "run" /\ claimed' = claimed \ {obj[t]}
            /\ UNCHANGED <<heap, lock, cursor, ret, depth, root, finalized, exited>>
    BY Zenon DEF IInv, TypeOK, JoinGiveUp, Forget, At, Goto
  <1>holders. \A x \in Thread : Holders(x)' = Holders(x)
    BY <1>frame, Zenon DEF Holders
  <1>TypeOK. TypeOK'
    BY Zenon DEF IInv, TypeOK, PC, JoinGiveUp, Forget, heap, Goto
  <1>ListInv. ListInv'
    BY <1>list, <1>frame, Zenon DEF IInv, ListInv, Allocated, heap, Goto
  <1>LockInv. LockInv'
    BY <1>frame, Zenon DEF IInv, LockInv
  <1>ScanInv. ScanInv'
    BY <1>frame, ZenonT(60) DEF IInv, ScanInv, heap
  <1>AliveInv. AliveInv'
    BY <1>list, <1>frame, <1>obj, Zenon DEF IInv, AliveInv, Gone, Allocated, heap
  <1>StatusInv. StatusInv'
    BY <1>frame, Zenon DEF IInv, StatusInv, Past, heap
  <1>RootInv. RootInv'
    BY <1>list, <1>frame, Zenon DEF IInv, TypeOK, RootInv, heap
  <1>ClaimInv. ClaimInv'
    BY <1>list, <1>frame, <1>obj, ZenonT(60) DEF IInv, ClaimInv, Allocated, heap
  <1>JoinInv. JoinInv'
    <2> SUFFICES ASSUME NEW s \in Thread, pc'[s] \in Claiming
                 PROVE  /\ obj'[s] \in Listed /\ obj'[s] \in claimed' /\ pc'[obj'[s]] # "unborn"
                        /\ pc'[s] \in {"wait", "remove"} => status[obj'[s]] \in {Joinable, Terminated}
                        /\ pc'[s] = "remove" => tid[obj'[s]] = 0
                        /\ pc'[s] = "detach" => /\ Before(list, obj'[s], root)
                                                /\ status[obj'[s]] = Zombie
                                                /\ pc'[obj'[s]] \in Past
      BY <1>list, <1>frame, Zenon DEF JoinInv, heap
    <2>1. \A x \in Thread : /\ pc[x] # "unborn" => pc'[x] # "unborn"
                            /\ pc[x] \in Past => pc'[x] \in Past
      BY <1>frame, Zenon DEF Past
    <2>2. s # t
      BY <1>frame, Zenon DEF Claiming
    <2>3. pc'[s] = pc[s] /\ obj'[s] = obj[s] /\ pc[s] \in Claiming
      BY <1>frame, <2>2, Zenon
    <2>4. /\ obj[s] \in Listed /\ obj[s] \in claimed /\ pc[obj[s]] # "unborn"
          /\ pc[s] \in {"wait", "remove"} => status[obj[s]] \in {Joinable, Terminated}
          /\ pc[s] = "remove" => tid[obj[s]] = 0
          /\ pc[s] = "detach" => /\ Before(list, obj[s], root) /\ status[obj[s]] = Zombie
                                 /\ pc[obj[s]] \in Past
      BY <2>3, Zenon DEF IInv, JoinInv
    <2>5. obj[s] \in Thread /\ obj[s] # obj[t]
      BY <1>frame, <2>2, <2>3, Zenon DEF IInv, UnbornInv, OwnerInv, Claiming, Touching
    <2>6. obj[s] \in claimed'
      BY <1>frame, <2>4, <2>5, Zenon
    <2> QED BY <2>1, <2>3, <2>4, <2>5, <2>6, Zenon
  <1>CloneInv. CloneInv'
    <2> SUFFICES ASSUME NEW s \in Thread, pc'[s] = "clone"
                 PROVE  obj'[s] \in Listed /\ pc'[obj'[s]] = "unborn" /\ mem[obj'[s]] = "live"
      BY <1>list, <1>frame, Zenon DEF CloneInv, heap
    <2>1. s # t /\ pc[s] = "clone" /\ obj'[s] = obj[s]
      BY <1>frame, Zenon
    <2>2. obj[s] \in Listed /\ pc[obj[s]] = "unborn" /\ mem[obj[s]] = "live"
      BY <2>1, Zenon DEF IInv, CloneInv
    <2>3. obj[s] \in Thread
      BY <2>1, Zenon DEF IInv, UnbornInv, Touching
    <2>4. obj[s] # t
      BY <1>frame, <2>2, Zenon
    <2> QED BY <1>frame, <2>1, <2>2, <2>3, <2>4, Zenon
  <1>OwnerInv. OwnerInv'
    BY <1>frame, ThreadAssumption DEF IInv, OwnerInv, Claiming
  <1>UnbornInv. UnbornInv'
    BY <1>frame, ZenonT(60) DEF IInv, UnbornInv, Touching, Dropping, At, Goto
  <1>RetInv. RetInv'
    BY <1>list, <1>frame, Zenon DEF IInv, RetInv
  <1>RefInv. RefInv'
    BY <1>list, <1>frame, <1>holders, Zenon DEF IInv, RefInv, Allocated, heap
  <1>FreeInv. FreeInv'
    BY <1>list, <1>frame, <1>holders, ZenonT(60) DEF IInv, FreeInv, Allocated, heap, At
  <1>SurvivorInv. SurvivorInv'
    BY <1>list, <1>frame, Zenon DEF IInv, SurvivorInv, Gone
  <1> QED BY <1>TypeOK, <1>ListInv, <1>LockInv, <1>ScanInv, <1>AliveInv, <1>StatusInv,
             <1>RootInv, <1>ClaimInv, <1>JoinInv, <1>CloneInv, <1>OwnerInv, <1>UnbornInv,
             <1>RetInv, <1>RefInv, <1>FreeInv, <1>SurvivorInv, ZenonT(60) DEF IInv

\* IInv is kept: pthread_join unlists the dead thread and keeps the list's reference.
LEMMA JoinRemoveStep ==
    ASSUME IInv, Counting, ~ReclaimRoot, NEW t \in Thread, JoinRemove(t)
    PROVE  IInv'
  <1> USE DEF Joinable, Detached, Terminated, Zombie
  <1>card. \A X \in SUBSET Thread :
              /\ Cardinality(X) \in Nat
              /\ Cardinality(X) = 0 <=> X = {}
              /\ \A x \in Thread \ X : Cardinality(X \cup {x}) = Cardinality(X) + 1
              /\ \A x \in X : Cardinality(X \ {x}) = Cardinality(X) - 1
    BY Zenon DEF Counting
  <1>u. PICK u \in Thread : /\ u = obj[t] /\ u \in Listed /\ u # root /\ Allocated(u) /\ u \in claimed
                            /\ pc[u] \in Gone /\ pc[u] # "unborn" /\ u # t
                            /\ list' = dll_remove(list, u)
                            /\ \A s \in Thread \ {t} : pc[s] \in Claiming => obj[s] # u
    <2>1. /\ obj[t] \in Thread /\ pc[t] = "remove" /\ list' = dll_remove(list, obj[t])
      BY Zenon DEF IInv, UnbornInv, Touching, JoinRemove, At
    <2>2. obj[t] \in Listed /\ obj[t] \in claimed /\ pc[obj[t]] # "unborn" /\ tid[obj[t]] = 0
      BY <2>1, Zenon DEF IInv, JoinInv, Claiming
    <2>3. obj[t] # root /\ Allocated(obj[t])
      BY <2>2, Zenon DEF IInv, RootInv, ListInv
    <2>4. obj[t] # t /\ pc[obj[t]] \in Gone
      BY <2>1, <2>2 DEF IInv, AliveInv, Gone
    <2>5. \A s \in Thread \ {t} : pc[s] \in Claiming => obj[s] # obj[t]
      BY <2>1, Zenon DEF IInv, OwnerInv, Claiming
    <2> QED BY <2>1, <2>2, <2>3, <2>4, <2>5, Zenon
  <1>list. /\ list' \in Seq(Thread) /\ NoDuplicates(list') /\ Listed' = Listed \ {u}
           /\ \A x, y : Before(list', x, y) <=> (Before(list, x, y) /\ x # u /\ y # u)
    <2>1. list \in Seq(Thread) /\ NoDuplicates(list) /\ list' = dll_remove(list, u)
      BY <1>u, Zenon DEF IInv, TypeOK, ListInv
    <2>2. Listed = Elements(list) /\ Listed' = Elements(list')
      BY Zenon DEF Listed, Elements
    <2>3. /\ dll_remove(list, u) \in Seq(Thread) /\ NoDuplicates(dll_remove(list, u))
          /\ Elements(dll_remove(list, u)) = Elements(list) \ {u}
          /\ \A x, y : Before(dll_remove(list, u), x, y) <=> (Before(list, x, y) /\ x # u /\ y # u)
      BY <2>1, RemoveLemma, Zenon
    <2> QED BY <2>1, <2>2, <2>3, Zenon
  <1>frame. /\ \A s \in Thread \ {t} : pc'[s] = pc[s] /\ ret'[s] = ret[s]
            /\ pc[t] = "remove" /\ pc'[t] = "unref" /\ obj[t] = u /\ lock = NoThread
            /\ ret'[t] # "everyone" /\ ~exited
            /\ UNCHANGED <<mem, status, tid, refs, lock, obj, cursor, depth, process>>
    BY <1>u, Zenon DEF IInv, TypeOK, JoinRemove, At, Goto
  <1>holders. /\ \A x \in Thread : Holders(x)' = IF x = u THEN Holders(x) \cup {t} ELSE Holders(x)
              /\ \A x \in Thread : t \notin Holders(x)
    BY <1>frame, ZenonT(60) DEF Holders
  <1>TypeOK. TypeOK'
    <2>1. pc' \in [Thread -> PC] /\ ret' \in [Thread -> Return]
      BY Zenon DEF IInv, TypeOK, PC, Return, JoinRemove, Goto
    <2> QED BY <1>list, <1>frame, <2>1, Zenon DEF IInv, TypeOK, process
  <1>ListInv. ListInv'
    BY <1>list, <1>frame, Zenon DEF IInv, ListInv, Allocated
  <1>LockInv. LockInv'
    BY <1>frame, ZenonT(60) DEF IInv, LockInv
  <1>ScanInv. ScanInv'
    BY <1>frame, ThreadAssumption DEF IInv, ScanInv, LockInv
  <1>AliveInv. AliveInv'
    BY <1>list, <1>frame, <1>u, ZenonT(60) DEF IInv, AliveInv, Gone, process
  <1>StatusInv. StatusInv'
    BY <1>frame, Zenon DEF IInv, StatusInv, Past
  <1>RootInv. RootInv'
    BY <1>list, <1>frame, <1>u, Zenon DEF IInv, TypeOK, RootInv, process
  <1>ClaimInv. ClaimInv'
    BY <1>list, <1>frame, <1>u, ZenonT(60) DEF IInv, ClaimInv, Allocated, process
  <1>JoinInv. JoinInv'
    <2> SUFFICES ASSUME NEW s \in Thread, pc'[s] \in Claiming
                 PROVE  /\ obj[s] \in Listed' /\ obj[s] \in claimed /\ pc'[obj[s]] # "unborn"
                        /\ pc'[s] \in {"wait", "remove"} => status[obj[s]] \in {Joinable, Terminated}
                        /\ pc'[s] = "remove" => tid[obj[s]] = 0
                        /\ pc'[s] = "detach" => /\ Before(list', obj[s], root)
                                                /\ status[obj[s]] = Zombie
                                                /\ pc'[obj[s]] \in Past
      BY <1>frame, Zenon DEF JoinInv, process
    <2>1. s # t
      BY <1>frame, Zenon DEF Claiming
    <2>2. pc'[s] = pc[s] /\ pc[s] \in Claiming /\ obj[s] # u /\ u # root
      BY <1>frame, <1>u, <2>1, Zenon
    <2>3. /\ obj[s] \in Listed /\ obj[s] \in claimed /\ pc[obj[s]] # "unborn"
          /\ pc[s] \in {"wait", "remove"} => status[obj[s]] \in {Joinable, Terminated}
          /\ pc[s] = "remove" => tid[obj[s]] = 0
          /\ pc[s] = "detach" => /\ Before(list, obj[s], root)
                                 /\ status[obj[s]] = Zombie
                                 /\ pc[obj[s]] \in Past
      BY <2>2, Zenon DEF IInv, JoinInv
    <2>4. obj[s] \in Thread /\ pc[t] \notin Past /\ pc'[t] # "unborn"
      <3>1. pc[s] \in Touching
        BY <2>2, Zenon DEF Claiming, Touching
      <3>2. obj[s] \in Thread
        BY <3>1, Zenon DEF IInv, UnbornInv
      <3> QED BY <1>frame, <3>2, Zenon DEF Past
    <2>5. pc'[obj[s]] # "unborn" /\ (pc[obj[s]] \in Past => pc'[obj[s]] \in Past)
      BY <1>frame, <2>3, <2>4, Zenon
    <2> QED BY <1>list, <2>2, <2>3, <2>5, Zenon
  <1>CloneInv. CloneInv'
    <2> SUFFICES ASSUME NEW s \in Thread, pc'[s] = "clone"
                 PROVE  obj'[s] \in Listed' /\ pc'[obj'[s]] = "unborn" /\ mem'[obj'[s]] = "live"
      BY Zenon DEF CloneInv
    <2>1. s # t /\ pc[s] = "clone" /\ obj' = obj
      BY <1>frame, Zenon
    <2>2. obj[s] \in Listed /\ pc[obj[s]] = "unborn" /\ mem[obj[s]] = "live"
      BY <2>1, Zenon DEF IInv, CloneInv
    <2>3. obj[s] \in Thread
      <3>1. pc[s] \in Touching
        BY <2>1, Zenon DEF Touching
      <3> QED BY <3>1, Zenon DEF IInv, UnbornInv
    <2>4. obj[s] # u /\ obj[s] # t
      BY <1>u, <1>frame, <2>2, Zenon DEF Gone
    <2> QED BY <1>list, <1>frame, <2>1, <2>2, <2>3, <2>4, Zenon
  <1>OwnerInv. OwnerInv'
    <2>1. OwnerInv /\ pc'[t] \notin Claiming /\ pc'[t] # "clone" /\ pc'[t] # "free"
      BY <1>frame, Zenon DEF IInv, Claiming
    <2>2. \A s \in Thread \ {t} : pc'[s] = pc[s] /\ obj'[s] = obj[s]
      BY <1>frame, Zenon
    <2> QED BY <2>1, <2>2, OwnerMoved, Zenon
  <1>UnbornInv. UnbornInv'
    <2> SUFFICES ASSUME NEW s \in Thread
                 PROVE  /\ pc'[s] \in Touching => obj'[s] \in Thread
                        /\ (pc'[s] \in Dropping \cup {"kill"} /\ pc'[obj'[s]] = "unborn") => lock' = s
      BY Zenon DEF UnbornInv
    <2>1. CASE s = t
      BY <1>frame, <1>u, <2>1, Zenon
    <2>2. CASE s # t
      <3>1. pc'[s] = pc[s] /\ obj'[s] = obj[s] /\ lock' = lock
        BY <1>frame, <2>2, Zenon
      <3>2. /\ pc[s] \in Touching => obj[s] \in Thread
            /\ (pc[s] \in Dropping \cup {"kill"} /\ pc[obj[s]] = "unborn") => lock = s
        BY Zenon DEF IInv, UnbornInv
      <3>3. pc[s] \in Dropping \cup {"kill"} => pc[s] \in Touching
        BY Zenon DEF Touching, Dropping
      <3>4. obj[s] \in Thread => (pc'[obj[s]] = "unborn" => pc[obj[s]] = "unborn")
        BY <1>frame, Zenon
      <3> QED BY <3>1, <3>2, <3>3, <3>4, Zenon
    <2> QED BY <2>1, <2>2, Zenon
  <1>RetInv. RetInv'
    BY <1>frame, ThreadAssumption, Zenon DEF IInv, RetInv
  <1>RefInv. RefInv'
    <2> SUFFICES ASSUME NEW x \in Thread
                 PROVE  /\ x \in Listed' => refs[x] >= Cardinality(Holders(x)')
                        /\ Holders(x)' # {} => Allocated(x) /\ refs[x] >= Cardinality(Holders(x)') - 1
      BY <1>frame, Zenon DEF RefInv, Allocated
    <2>1. CASE x # u
      <3>1. Holders(x)' = Holders(x) /\ (x \in Listed' => x \in Listed)
        BY <1>holders, <1>list, <2>1, Zenon
      <3> QED BY <3>1, Zenon DEF IInv, RefInv
    <2>2. CASE x = u
      <3>1. /\ Holders(x)' = Holders(x) \cup {t} /\ t \in Thread \ Holders(x)
            /\ Holders(x) \in SUBSET Thread
        BY <1>holders, <2>2, Zenon DEF Holders, At, Goto
      <3>2. Cardinality(Holders(x)') = Cardinality(Holders(x)) + 1 /\ Cardinality(Holders(x)) \in Nat
        BY <3>1, <1>card, ZenonT(60)
      <3>3. Allocated(x) /\ refs[x] \in Int /\ refs[x] >= Cardinality(Holders(x))
        BY <1>u, <2>2, Zenon DEF IInv, TypeOK, RefInv
      <3> QED BY <1>list, <2>2, <3>2, <3>3
    <2> QED BY <2>1, <2>2, Zenon
  <1>FreeInv. FreeInv'
    <2> SUFFICES ASSUME NEW s \in Thread, NEW x \in Thread, pc'[s] = "free", obj'[s] = x
                 PROVE  x \notin Listed' /\ Allocated(x)' /\ Holders(x)' = {}
      BY Zenon DEF FreeInv
    <2>1. pc[s] = "free" /\ obj[s] = x
      BY <1>frame, Zenon
    <2>2. x \notin Listed /\ Allocated(x) /\ Holders(x) = {}
      BY <2>1, Zenon DEF IInv, FreeInv
    <2>3. x # u /\ x \notin Listed' /\ mem' = mem
      BY <1>list, <1>frame, <1>u, <2>2, Zenon
    <2> QED BY <1>holders, <2>2, <2>3, Zenon DEF Allocated
  <1>SurvivorInv. SurvivorInv'
    <2> SUFFICES ASSUME NEW s \in Thread, pc[s] \in {"transition", "zombify", "orphan2"}, s # t,
                        Len(list') = 1
                 PROVE  FALSE
      BY <1>frame, Zenon DEF SurvivorInv, process
    <2>1. s \in Listed' /\ t \in Listed'
      BY <1>list, <1>frame, <1>u, Zenon DEF IInv, AliveInv, Gone, At
    <2>2. s \in Elements(list') /\ t \in Elements(list')
      BY <2>1, Zenon DEF Listed, Elements, At, Goto
    <2>3. s = t
      BY <1>list, <2>2, SingletonLemma, ZenonT(60)
    <2> QED BY <2>3, Zenon DEF process, At
  <1> QED BY <1>TypeOK, <1>ListInv, <1>LockInv, <1>ScanInv, <1>AliveInv, <1>StatusInv,
             <1>RootInv, <1>ClaimInv, <1>JoinInv, <1>CloneInv, <1>OwnerInv, <1>UnbornInv,
             <1>RetInv, <1>RefInv, <1>FreeInv, <1>SurvivorInv, ThreadAssumption, Zenon DEF IInv,
             process, Goto

\* IInv is kept: pthread_detach moves pt_status.  A thread that is Terminated comes before the
\* root, since only zombies follow the root.
LEMMA DetachCallStep ==
    ASSUME IInv, ~ReclaimRoot, NEW t \in Thread, NEW u \in Thread, DetachCall(t, u)
    PROVE  IInv'
  <1> USE DEF Joinable, Detached, Terminated, Zombie
  <1>list. list' = list /\ Listed' = Listed
    BY Zenon DEF Listed, DetachCall
  <1>u. /\ u \in Listed /\ u \notin claimed /\ u # root /\ pc[u] # "unborn" /\ Allocated(u)
        /\ status[u] \in {Joinable, Terminated}
        /\ \A s \in Thread : pc[s] \in Claiming => obj[s] # u
    <2>1. pc[u] # "unborn" /\ u \notin claimed /\ u # root
      BY Zenon DEF Handle, DetachCall
    <2>2. Allocated(u)
      BY <2>1, ZenonT(60) DEF IInv, TypeOK, AliveInv, Allocated
    <2> QED BY <2>1, <2>2, Zenon DEF IInv, ClaimInv, JoinInv
  <1>frame. /\ \A s \in Thread \ {t} : pc'[s] = pc[s] /\ obj'[s] = obj[s] /\ ret'[s] = ret[s]
            /\ \A x \in Thread \ {u} : status'[x] = status[x]
            /\ pc[t] = "run" /\ claimed' = claimed \cup {u} /\ ret'[t] # "everyone" /\ t # NoThread
            /\ \/ status[u] = Joinable /\ status'[u] = Detached /\ pc'[t] = "decimate" /\ obj' = obj
               \/ status[u] = Terminated /\ status'[u] = Zombie /\ pc'[t] = "detach" /\ obj'[t] = u
            /\ UNCHANGED <<list, mem, tid, refs, lock, cursor, depth, root, finalized, exited>>
    <2>1. /\ pc \in [Thread -> PC] /\ obj \in [Thread -> Thread \cup {NoThread}]
          /\ ret \in [Thread -> Return] /\ status \in [Thread -> Status]
      BY Zenon DEF IInv, TypeOK
    <2>2. ret[t] # "everyone" /\ t # NoThread
      BY ThreadAssumption, Zenon DEF IInv, RetInv, DetachCall, At
    <2>3. CASE status[u] = Joinable
      BY <2>1, <2>2, <2>3, ZenonT(60) DEF CallDecimate, DetachCall, At, Goto
    <2>4. CASE status[u] # Joinable
      BY <2>1, <2>2, <2>4, <1>u, Zenon DEF DetachCall, At, Goto
    <2> QED BY <2>3, <2>4, Zenon
  <1>order. status[u] = Terminated => Before(list, u, root) /\ pc[u] \in Past
    <2>1. list \in Seq(Thread) /\ u \in Elements(list) /\ root \in Elements(list) /\ NoDuplicates(list)
      BY <1>u, Zenon DEF IInv, TypeOK, RootInv, ListInv, Listed, Elements, process, At
    <2>2. Before(list, u, root) \/ Before(list, root, u)
      BY <1>u, <2>1, OrderLemma, Zenon DEF At
    <2> QED BY <1>u, <2>2, Zenon DEF IInv, RootInv, StatusInv
  <1>zombies. \A x \in Thread : status[x] = Zombie => status'[x] = Zombie
    BY <1>frame, Zenon
  <1>holders. \A x \in Thread : Holders(x)' = Holders(x)
    BY <1>frame, ZenonT(60) DEF Holders
  <1>TypeOK. TypeOK'
    <2>1. pc' \in [Thread -> PC]
      BY Zenon DEF IInv, TypeOK, PC, DetachCall, CallDecimate, Goto
    <2>2. obj' \in [Thread -> Thread \cup {NoThread}]
      <3>1. obj' = obj \/ obj' = [obj EXCEPT ![t] = u]
        BY Zenon DEF DetachCall
      <3> QED BY <3>1, ThreadAssumption, ZenonT(30) DEF IInv, TypeOK, heap, local, process, At,
                 Goto
    <2>3. ret' \in [Thread -> Return]
      BY Zenon DEF IInv, TypeOK, Return, DetachCall, CallDecimate
    <2>4. status' \in [Thread -> Status]
      <3>1. status' = [status EXCEPT ![u] = Detached] \/ status' = [status EXCEPT ![u] = Zombie]
        BY Zenon DEF DetachCall
      <3> QED BY <3>1, Zenon DEF IInv, TypeOK, Status
    <2>5. claimed' \in SUBSET Thread /\ signals' \in Nat /\ forks' \in Nat
      BY Zenon DEF IInv, TypeOK, DetachCall
    <2> QED BY <1>frame, <2>1, <2>2, <2>3, <2>4, <2>5, Zenon DEF IInv, TypeOK
  <1>ListInv. ListInv'
    BY <1>list, <1>frame, Zenon DEF IInv, ListInv, Allocated
  <1>LockInv. LockInv'
    BY <1>frame, Zenon DEF IInv, LockInv
  <1>ScanInv. ScanInv'
    <2> SUFFICES ASSUME NEW s \in Thread, pc'[s] = "scan"
                 PROVE  /\ cursor[s] \in 0..Len(list)
                        /\ \A j \in (cursor[s] + 1)..Len(list) : status'[list[j]] = Zombie
      BY <1>frame, Zenon DEF ScanInv
    <2>1. /\ cursor[s] \in 0..Len(list)
          /\ \A j \in (cursor[s] + 1)..Len(list) : status[list[j]] = Zombie
      BY <1>frame, Zenon DEF IInv, ScanInv
    <2>2. \A j \in (cursor[s] + 1)..Len(list) : list[j] \in Thread
      <3>1. list \in Seq(Thread)
        BY Zenon DEF IInv, TypeOK
      <3> QED BY <2>1, <3>1
    <2> QED BY <2>1, <2>2, <1>zombies, Zenon
  <1>AliveInv. AliveInv'
    BY <1>list, <1>frame, ZenonT(60) DEF IInv, AliveInv, Gone, At
  <1>StatusInv. StatusInv'
    BY <1>frame DEF IInv, StatusInv, Past
  <1>RootInv. RootInv'
    <2>1. root \in Thread /\ u # root
      BY <1>u, ZenonT(60) DEF IInv, TypeOK
    <2>2. \A x \in Listed : x \in Thread
      BY DEF IInv, TypeOK, Listed
    <2>3. pc'[root] # "unborn"
      BY <1>frame, <2>1, Zenon DEF IInv, RootInv
    <2> QED BY <1>list, <1>frame, <2>1, <2>2, ZenonT(60) DEF IInv, RootInv
  <1>ClaimInv. ClaimInv'
    BY <1>list, <1>frame, Zenon DEF IInv, ClaimInv, Allocated
  <1>JoinInv. JoinInv'
    <2> SUFFICES ASSUME NEW s \in Thread, pc'[s] \in Claiming
                 PROVE  /\ obj'[s] \in Listed /\ obj'[s] \in claimed'
                        /\ pc'[obj'[s]] # "unborn"
                        /\ pc'[s] \in {"wait", "remove"} => status'[obj'[s]] \in {Joinable, Terminated}
                        /\ pc'[s] = "remove" => tid[obj'[s]] = 0
                        /\ pc'[s] = "detach" => /\ Before(list, obj'[s], root)
                                                /\ status'[obj'[s]] = Zombie
                                                /\ pc'[obj'[s]] \in Past
      BY <1>list, <1>frame, ZenonT(60) DEF JoinInv
    <2>1. CASE s = t
      BY <2>1, <1>frame, <1>u, <1>order, Zenon DEF Claiming, Past
    <2>2. CASE s # t
      <3>1. /\ pc[s] = pc'[s] /\ obj'[s] = obj[s] /\ obj[s] # u /\ obj[s] \in Thread
        BY <2>2, <1>frame, <1>u, ZenonT(60) DEF IInv, UnbornInv, Touching, Claiming
      <3>2. pc'[obj[s]] = pc[obj[s]] \/ (pc[obj[s]] = "run" /\ pc'[obj[s]] # "unborn")
        BY <3>1, <1>frame, Zenon
      <3>3. /\ obj[s] \in Listed /\ obj[s] \in claimed /\ pc[obj[s]] # "unborn"
            /\ pc[s] \in {"wait", "remove"} => status[obj[s]] \in {Joinable, Terminated}
            /\ pc[s] = "remove" => tid[obj[s]] = 0
            /\ pc[s] = "detach" => /\ Before(list, obj[s], root) /\ status[obj[s]] = Zombie
                                   /\ pc[obj[s]] \in Past
        BY <3>1, Zenon DEF IInv, JoinInv
      <3>4. pc[obj[s]] \in Past => pc'[obj[s]] \in Past
        BY <3>2, Zenon DEF Past
      <3>5. status'[obj[s]] = status[obj[s]] /\ obj[s] \in claimed' /\ pc'[obj[s]] # "unborn"
        BY <1>frame, <3>1, <3>2, <3>3, Zenon
      <3> QED BY <3>1, <3>3, <3>4, <3>5, Zenon
    <2> QED BY <2>1, <2>2, Zenon
  <1>CloneInv. CloneInv'
    <2> SUFFICES ASSUME NEW s \in Thread, pc'[s] = "clone"
                 PROVE  obj'[s] \in Listed' /\ pc'[obj'[s]] = "unborn" /\ mem'[obj'[s]] = "live"
      BY Zenon DEF CloneInv
    <2>1. pc'[t] # "clone" /\ pc[t] # "unborn"
      BY <1>frame, Zenon
    <2>2. s # t /\ pc[s] = "clone" /\ obj'[s] = obj[s]
      BY <1>frame, <2>1, Zenon
    <2>3. obj[s] \in Listed /\ pc[obj[s]] = "unborn" /\ mem[obj[s]] = "live"
      BY <2>2, Zenon DEF IInv, CloneInv
    <2>4. obj[s] \in Thread
      <3>1. pc[s] \in Touching
        BY <2>2, Zenon DEF Touching
      <3> QED BY <3>1, Zenon DEF IInv, UnbornInv
    <2> QED BY <1>list, <1>frame, <2>1, <2>2, <2>3, <2>4, Zenon
  <1>OwnerInv. OwnerInv'
    <2>1. \A s \in Thread \ {t} : pc'[s] = pc[s] /\ obj'[s] = obj[s]
      BY <1>frame, ZenonT(60) DEF At
    <2>2. CASE pc'[t] = "decimate"
      BY <2>1, <2>2, ThreadAssumption DEF IInv, OwnerInv, Claiming
    <2>3. CASE pc'[t] = "detach" /\ obj'[t] = u
      <3>1. \A s \in Thread \ {t} : pc'[s] \in Claiming => obj'[s] # obj'[t]
        BY <2>1, <2>3, <1>u, Zenon
      <3>2. pc'[t] # "clone" /\ pc'[t] # "free"
        BY <2>3, Zenon
      <3> QED BY <2>1, <3>1, <3>2, ZenonT(60) DEF IInv, OwnerInv
    <2> QED BY <1>frame, <2>2, <2>3, Zenon
  <1>UnbornInv. UnbornInv'
    <2> SUFFICES ASSUME NEW s \in Thread
                 PROVE  /\ pc'[s] \in Touching => obj'[s] \in Thread
                        /\ (pc'[s] \in Dropping \cup {"kill"} /\ pc'[obj'[s]] = "unborn") => lock' = s
      BY Zenon DEF UnbornInv
    <2>1. /\ pc'[t] \notin Dropping \cup {"kill"}
          /\ pc'[t] \in Touching => obj'[t] \in Thread
      BY <1>frame, Zenon DEF Touching, Dropping
    <2>2. CASE s = t
      BY <2>1, <2>2, Zenon
    <2>3. CASE s # t
      <3>1. pc'[s] = pc[s] /\ obj'[s] = obj[s] /\ lock' = lock
        BY <1>frame, <2>3, Zenon
      <3>2. pc[s] \in Dropping \cup {"kill"} => pc[s] \in Touching
        BY Zenon DEF Dropping, Touching
      <3>3. /\ pc[s] \in Touching => obj[s] \in Thread
            /\ (pc[s] \in Dropping \cup {"kill"} /\ pc[obj[s]] = "unborn") => lock = s
        BY Zenon DEF IInv, UnbornInv
      <3>4. pc'[t] # "unborn"
        BY <1>frame, Zenon
      <3>5. obj[s] \in Thread => (pc'[obj[s]] = "unborn" => pc[obj[s]] = "unborn")
        BY <1>frame, <3>4, Zenon
      <3> QED BY <3>1, <3>2, <3>3, <3>5, Zenon
    <2> QED BY <2>2, <2>3, Zenon
  <1>RetInv. RetInv'
    BY <1>list, <1>frame, Zenon DEF IInv, RetInv
  <1>RefInv. RefInv'
    BY <1>list, <1>frame, <1>holders, ZenonT(60) DEF IInv, RefInv, Allocated
  <1>FreeInv. FreeInv'
    <2>1. pc'[t] # "free"
      BY <1>frame, Zenon
    <2>2. \A s \in Thread : pc'[s] = "free" => pc[s] = "free" /\ obj'[s] = obj[s]
      BY <1>frame, <2>1, Zenon
    <2>3. mem' = mem
      BY <1>frame, Zenon
    <2> SUFFICES ASSUME NEW s \in Thread, NEW x \in Thread, pc'[s] = "free", obj'[s] = x
                 PROVE  x \notin Listed' /\ Allocated(x)' /\ Holders(x)' = {}
      BY Zenon DEF FreeInv
    <2>4. x \notin Listed /\ Allocated(x) /\ Holders(x) = {}
      BY <2>2, Zenon DEF IInv, FreeInv
    <2> QED BY <1>list, <1>holders, <2>3, <2>4, Zenon DEF Allocated
  <1>SurvivorInv. SurvivorInv'
    BY <1>frame, Zenon DEF IInv, SurvivorInv, Gone, At, Goto
  <1> QED BY <1>TypeOK, <1>ListInv, <1>LockInv, <1>ScanInv, <1>AliveInv, <1>StatusInv,
             <1>RootInv, <1>ClaimInv, <1>JoinInv, <1>CloneInv, <1>OwnerInv, <1>UnbornInv,
             <1>RetInv, <1>RefInv, <1>FreeInv, <1>SurvivorInv, Zenon DEF IInv

\* IInv is kept: pthread_detach moves the zombie to the end of the list.
LEMMA DetachZombifyStep ==
    ASSUME IInv, ~ReclaimRoot, NEW t \in Thread, DetachZombify(t)
    PROVE  IInv'
  <1> USE DEF Joinable, Detached, Terminated, Zombie
  <1>u. PICK u \in Thread : /\ u = obj[t] /\ u \in Listed /\ status[u] = Zombie /\ u # root
                            /\ list' = dll_make_last(dll_remove(list, u), u)
                            /\ \A s \in Thread \ {t} : pc[s] \in Claiming => obj[s] # u
    <2>1. /\ obj[t] \in Thread /\ pc[t] = "detach"
          /\ list' = dll_make_last(dll_remove(list, obj[t]), obj[t])
      BY Zenon DEF IInv, UnbornInv, Touching, DetachZombify, _pthread_zombify, At
    <2>2. obj[t] \in Listed /\ status[obj[t]] = Zombie
      BY <2>1, Zenon DEF IInv, JoinInv, Claiming, local
    <2>3. obj[t] # root
      BY <2>2, Zenon DEF IInv, RootInv
    <2>4. \A s \in Thread \ {t} : pc[s] \in Claiming => obj[s] # obj[t]
      BY <2>1, Zenon DEF IInv, OwnerInv, Claiming
    <2> QED BY <2>1, <2>2, <2>3, <2>4, Zenon
  <1>list. /\ list' \in Seq(Thread) /\ NoDuplicates(list') /\ Listed' = Listed /\ Len(list') = Len(list)
           /\ \A x, y : Before(list', x, y) <=> \/ Before(list, x, y) /\ x # u /\ y # u
                                                \/ y = u /\ x \in Listed /\ x # u
    <2> DEFINE r == dll_make_last(dll_remove(list, u), u)
    <2>1. list \in Seq(Thread) /\ NoDuplicates(list) /\ list' = r
      BY <1>u, Zenon DEF IInv, TypeOK, ListInv
    <2>2. Listed = Elements(list) /\ Listed' = Elements(list')
      BY ZenonT(60) DEF Listed, Elements
    <2>3. /\ r \in Seq(Thread) /\ NoDuplicates(r) /\ Elements(r) = Elements(list) /\ Len(r) = Len(list)
          /\ \A x, y : Before(r, x, y) <=> \/ Before(list, x, y) /\ x # u /\ y # u
                                           \/ y = u /\ x \in Elements(list) /\ x # u
      <3>1. u \in Elements(list)
        BY <1>u, <2>2, Zenon
      <3> QED BY <2>1, <3>1, MoveLastLemma, Zenon
    <2> HIDE DEF r
    <2> QED BY <2>1, <2>2, <2>3, Zenon
  <1>frame. /\ \A s \in Thread \ {t} : pc'[s] = pc[s] /\ obj'[s] = obj[s] /\ ret'[s] = ret[s]
            /\ pc[t] = "detach" /\ pc'[t] = "decimate" /\ lock = NoThread /\ ~exited
            /\ obj'[t] = NoThread /\ ret'[t] # "everyone"
            /\ UNCHANGED <<mem, status, tid, refs, lock, cursor, depth, process>>
    BY ZenonT(60) DEF IInv, TypeOK, DetachZombify, _pthread_zombify, Forget, CallDecimate, At, Goto
  <1>holders. \A x \in Thread : Holders(x)' = Holders(x)
    BY <1>frame, Zenon DEF Holders
  <1>TypeOK. TypeOK'
    <2>1. /\ pc' \in [Thread -> PC] /\ ret' \in [Thread -> Return]
          /\ obj' \in [Thread -> Thread \cup {NoThread}]
      BY Zenon DEF IInv, TypeOK, PC, Return, DetachZombify, Forget, CallDecimate, local,
         process, At,
         Goto
    <2> QED BY <1>list, <1>frame, <2>1, Zenon DEF IInv, TypeOK, process
  <1>ListInv. ListInv'
    BY <1>list, <1>frame, Zenon DEF IInv, ListInv, Allocated
  <1>LockInv. LockInv'
    BY <1>frame, ZenonT(60) DEF IInv, LockInv
  <1>ScanInv. ScanInv'
    <2>1. \A s \in Thread : pc'[s] # "scan"
      BY <1>frame, ThreadAssumption, Zenon DEF IInv, LockInv
    <2> QED BY <2>1, Zenon DEF ScanInv
  <1>AliveInv. AliveInv'
    BY <1>list, <1>frame, ZenonT(60) DEF IInv, AliveInv, Gone, process
  <1>StatusInv. StatusInv'
    BY <1>frame, Zenon DEF IInv, StatusInv, Past, heap, local
  <1>RootInv. RootInv'
    <2>1. Listed' = Listed /\ UNCHANGED <<status, claimed, root>>
      BY <1>list, <1>frame, Zenon DEF process
    <2>2. \A x \in Thread : pc[x] # "unborn" => pc'[x] # "unborn"
      BY <1>frame, Zenon
    <2>3. \A y : Before(list', root, y) => Before(list, root, y) \/ y = u
      BY <1>list, Zenon
    <2>4. status[u] = Zombie /\ root \in Thread
      BY <1>u, Zenon DEF IInv, TypeOK
    <2> QED BY <2>1, <2>2, <2>3, <2>4, Zenon DEF IInv, RootInv
  <1>ClaimInv. ClaimInv'
    BY <1>list, <1>frame, Zenon DEF IInv, ClaimInv, Allocated, process
  <1>JoinInv. JoinInv'
    <2> SUFFICES ASSUME NEW s \in Thread, pc'[s] \in Claiming
                 PROVE  /\ obj'[s] \in Listed' /\ obj'[s] \in claimed' /\ pc'[obj'[s]] # "unborn"
                        /\ pc'[s] \in {"wait", "remove"} => status'[obj'[s]] \in {Joinable, Terminated}
                        /\ pc'[s] = "remove" => tid'[obj'[s]] = 0
                        /\ pc'[s] = "detach" => /\ Before(list', obj'[s], root')
                                                /\ status'[obj'[s]] = Zombie
                                                /\ pc'[obj'[s]] \in Past
      BY Zenon DEF JoinInv
    <2>1. pc'[s] = pc[s] /\ obj'[s] = obj[s]
      BY <1>frame, Zenon DEF Claiming
    <2>2. obj[s] \in Thread
      BY <2>1, Zenon DEF IInv, UnbornInv, Claiming, Touching
    <2>3. /\ pc[obj[s]] # "unborn" => pc'[obj[s]] # "unborn"
          /\ pc[obj[s]] \in Past => pc'[obj[s]] \in Past
      BY <1>frame, <2>2, Zenon DEF Past
    <2>4. Listed \ {u} \subseteq Listed' /\ UNCHANGED <<status, tid, claimed, root>>
      BY <1>list, <1>frame, Zenon DEF process
    <2>5. obj[s] # u
      BY <1>frame, <1>u, <2>1, Zenon DEF Claiming
    <2>6. Before(list, obj[s], root) => Before(list', obj[s], root)
      BY <1>list, <1>u, <2>5, Zenon
    <2> QED BY <2>1, <2>2, <2>3, <2>4, <2>5, <2>6, Zenon DEF IInv, JoinInv
  <1>CloneInv. CloneInv'
    <2> SUFFICES ASSUME NEW s \in Thread, pc'[s] = "clone"
                 PROVE  obj'[s] \in Listed' /\ pc'[obj'[s]] = "unborn" /\ mem'[obj'[s]] = "live"
      BY Zenon DEF CloneInv
    <2>1. s # t /\ pc[s] = "clone" /\ obj'[s] = obj[s]
      BY <1>frame, Zenon
    <2>2. obj[s] \in Thread /\ obj[s] \in Listed /\ pc[obj[s]] = "unborn" /\ mem[obj[s]] = "live"
      BY <2>1, Zenon DEF IInv, CloneInv, UnbornInv, Touching
    <2>3. pc'[obj[s]] = "unborn"
      BY <1>frame, <2>2, Zenon
    <2>4. obj[s] \in Listed' /\ mem'[obj[s]] = "live"
      BY <1>list, <1>frame, <2>1, <2>2, Zenon
    <2> QED BY <2>1, <2>3, <2>4, Zenon
  <1>OwnerInv. OwnerInv'
    <2>1. \A s \in Thread : pc'[s] \in Claiming \cup {"clone", "free"} =>
                                   pc'[s] = pc[s] /\ obj'[s] = obj[s]
      BY <1>frame, Zenon DEF Claiming
    <2> QED BY <2>1 DEF IInv, OwnerInv
  <1>UnbornInv. UnbornInv'
    BY <1>frame, Zenon DEF IInv, UnbornInv, Touching, Dropping
  <1>RetInv. RetInv'
    BY <1>list, <1>frame, ZenonT(60) DEF IInv, RetInv
  <1>RefInv. RefInv'
    BY <1>list, <1>frame, <1>holders, ZenonT(60) DEF IInv, RefInv, Allocated, At
  <1>FreeInv. FreeInv'
    BY <1>list, <1>frame, <1>holders, ThreadAssumption, Zenon DEF IInv, FreeInv, Allocated
  <1>SurvivorInv. SurvivorInv'
    BY <1>list, <1>frame, Zenon DEF IInv, SurvivorInv, process
  <1> QED BY <1>TypeOK, <1>ListInv, <1>LockInv, <1>ScanInv, <1>AliveInv, <1>StatusInv,
             <1>RootInv, <1>ClaimInv, <1>JoinInv, <1>CloneInv, <1>OwnerInv, <1>UnbornInv,
             <1>RetInv, <1>RefInv, <1>FreeInv, <1>SurvivorInv, ZenonT(60) DEF IInv
=============================================================================
