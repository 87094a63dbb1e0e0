----------------------- MODULE ThreadLifecycleProofs ------------------------
(***************************************************************************)
(* ThreadLifecycle is safe for any finite set of threads.  Signalling, and *)
(* the steps that only move their thread, are here; the lemmas of          *)
(* ThreadStepProofs show that each other action keeps the invariant.       *)
(***************************************************************************)
EXTENDS ThreadStepProofs, FiniteSetTheorems, TLAPS

----------------------------------------------------------------------------
(***************************************************************************)
(* Signalling threads, and the steps that only move their thread.          *)
(***************************************************************************)
\* IInv is kept by the steps that only move their thread, take or release the
\* lock, or clear tib_tid.
LEMMA LocalSteps ==
    ASSUME IInv, NEW t \in Thread,
           \/ CreateCall(t) \/ CreateFail(t) \/ ExitCall(t) \/ ExitFinalize(t) \/ ExitLeave(t)
           \/ JoinWait(t) \/ SigKiller(t) \/ CancelEveryone(t) \/ CancelDone(t)
           \/ ForkPrepare(t) \/ ForkParent(t)
    PROVE  IInv'
  <1> USE ThreadAssumption DEF Joinable, Detached, Terminated, Zombie
  <1> DEFINE p == pc[t]
             l == pc'[t]
  <1>act. /\ UNCHANGED <<list, mem, status, refs, obj, depth, claimed, root, exited>>
          /\ pc' = [pc EXCEPT ![t] = l]
          /\ \/ p = "run" /\ l \in {"decimate", "everyone", "fork"}
             \/ p \in {"create", "everyone", "fork"} /\ l = "run"
             \/ p = "orphan1" /\ l = "transition"
             \/ p = "leave" /\ l = "dead"
             \/ p = "wait" /\ l = "remove" /\ tid[obj[t]] = 0
             \/ p = "kill" /\ l = "unref"
          /\ ret' = ret \/ (p \in {"run", "kill"} /\ \E r \in {"create", "orphan1", "run"} : ret' = [ret EXCEPT ![t] = r])
          /\ tid' = IF l = "dead" THEN [tid EXCEPT ![t] = 0] ELSE tid
          /\ lock' = IF l \in {"everyone", "fork"} THEN t
                     ELSE IF p \in {"everyone", "fork"} THEN NoThread ELSE lock
          /\ l \in {"everyone", "fork"} => lock = NoThread
          /\ cursor' = cursor \/ (p \in {"run", "everyone"} /\ \E i \in {0, 1} : cursor' = [cursor EXCEPT ![t] = i])
          /\ finalized' \in BOOLEAN /\ (finalized => finalized')
          /\ l = "transition" /\ Len(list) = 1 => finalized'
          /\ signals' \in Nat /\ forks' \in Nat /\ ~exited
    <2>0. /\ pc \in [Thread -> PC] /\ signals \in Nat /\ forks \in Nat
          /\ finalized \in BOOLEAN
      BY Zenon DEF IInv, TypeOK
    <2>1. CASE CreateCall(t)
      BY <2>0, <2>1, Zenon DEF CreateCall, CallDecimate, At, Goto, heap, local, process
    <2>2. CASE CreateFail(t)
      BY <2>0, <2>2, Zenon DEF CreateFail, At, Goto, heap, local, process
    <2>3. CASE ExitCall(t)
      BY <2>0, <2>3, ZenonT(60) DEF ExitCall, CallDecimate, At, Goto, heap, local, process
    <2>4. CASE ExitFinalize(t)
      BY <2>0, <2>4, ZenonT(60) DEF ExitFinalize, pthread_orphan_np, At, Goto, heap, local, process
    <2>5. CASE ExitLeave(t)
      BY <2>0, <2>5, ZenonT(60) DEF ExitLeave, At, Goto, heap, local, process
    <2>6. CASE JoinWait(t)
      BY <2>0, <2>6, ZenonT(60) DEF JoinWait, At, Goto, heap, local, process
    <2>7. CASE SigKiller(t)
      BY <2>0, <2>7, ZenonT(60) DEF SigKiller, At, Goto, heap, local, process
    <2>8. CASE CancelEveryone(t)
      BY <2>0, <2>8 DEF CancelEveryone, At, Goto, heap, local, process
    <2>9. CASE CancelDone(t)
      BY <2>0, <2>9, ZenonT(60) DEF CancelDone, At, Goto, heap, local, process
    <2>10. CASE ForkPrepare(t)
      BY <2>0, <2>10 DEF ForkPrepare, At, Goto, heap, local, process
    <2>11. CASE ForkParent(t)
      BY <2>0, <2>11, Zenon DEF ForkParent, At, Goto, heap, local, process
    <2> QED BY <2>1, <2>2, <2>3, <2>4, <2>5, <2>6, <2>7, <2>8, <2>9, <2>10, <2>11, ZenonT(60)
  <1>frame. /\ UNCHANGED <<list, mem, status, refs, obj, depth, claimed, root, exited>>
            /\ \A s \in Thread \ {t} : /\ pc'[s] = pc[s] /\ ret'[s] = ret[s]
                                       /\ tid'[s] = tid[s] /\ cursor'[s] = cursor[s]
            /\ \/ p = "run" /\ l \in {"decimate", "everyone", "fork"}
               \/ p \in {"create", "everyone", "fork"} /\ l = "run"
               \/ p = "orphan1" /\ l = "transition"
               \/ p = "leave" /\ l = "dead"
               \/ p = "wait" /\ l = "remove" /\ tid[obj[t]] = 0
               \/ p = "kill" /\ l = "unref"
            /\ ret'[t] # "everyone"
            /\ tid'[t] = (IF l = "dead" THEN 0 ELSE tid[t])
    <2>1. /\ ret[t] # "everyone"
          /\ ret \in [Thread -> Return] /\ tid \in [Thread -> {-1, 0, 1}] /\ cursor \in [Thread -> Nat]
          /\ pc \in [Thread -> PC]
      BY <1>act, Zenon DEF IInv, TypeOK, RetInv
    <2>2. \A s \in Thread \ {t} : pc'[s] = pc[s] /\ tid'[s] = tid[s]
      BY <1>act, <2>1, Zenon
    <2>3. ret'[t] # "everyone" /\ \A s \in Thread \ {t} : ret'[s] = ret[s]
      BY <1>act, <2>1, Zenon
    <2>4. \A s \in Thread \ {t} : cursor'[s] = cursor[s]
      BY <1>act, <2>1, Zenon
    <2> QED BY <1>act, <2>1, <2>2, <2>3, <2>4, ZenonT(60)
  <1>lock. /\ p \in {"everyone", "fork"} => lock = t
           /\ l \in {"everyone", "fork"} => lock = NoThread /\ lock' = t
           /\ l \notin {"everyone", "fork"} /\ p \in {"everyone", "fork"} => lock' = NoThread
           /\ l \notin {"everyone", "fork"} /\ p \notin {"everyone", "fork"} => lock' = lock
    BY <1>act, Zenon DEF IInv, LockInv
  <1>same. /\ Listed' = Listed /\ \A x : Holders(x)' = Holders(x) /\ Allocated(x)' = Allocated(x)
    BY <1>frame, ZenonT(60) DEF Listed, Holders, Allocated
  <1>1. TypeOK'
    <2>0. l \in PC
      BY <1>act, Zenon DEF PC
    <2>1. pc' \in [Thread -> PC]
      BY <1>act, <2>0, ZenonT(60) DEF IInv, TypeOK
    <2>5. tid' \in [Thread -> {-1, 0, 1}]
      BY <1>act, Zenon DEF IInv, TypeOK
    <2>2. ret' \in [Thread -> Return]
      BY <1>act, ZenonT(60) DEF IInv, TypeOK, Return
    <2>3. cursor' \in [Thread -> Nat]
      <3>1. cursor \in [Thread -> Nat]
        BY Zenon DEF IInv, TypeOK
      <3>2. cursor' = cursor \/ \E i \in {0, 1} : cursor' = [cursor EXCEPT ![t] = i]
        BY <1>act, Zenon
      <3>3. \A i \in {0, 1} : i \in Nat
        OBVIOUS
      <3>4. ASSUME NEW i \in {0, 1}, cursor' = [cursor EXCEPT ![t] = i] PROVE cursor' \in [Thread -> Nat]
        BY <3>1, <3>3, <3>4, Zenon
      <3> QED BY <3>1, <3>2, <3>4, Zenon
    <2>4. lock' \in Thread \cup {NoThread}
      BY <1>act, Zenon DEF IInv, TypeOK
    <2> QED BY <1>act, <2>1, <2>2, <2>3, <2>4, <2>5, Zenon DEF IInv, TypeOK
  <1>2. ListInv'
    BY <1>frame, <1>same, Zenon DEF IInv, ListInv
  <1>3. LockInv'
    BY <1>frame, <1>lock, Zenon DEF IInv, LockInv
  <1>4. ScanInv'
    BY <1>frame, ZenonT(60) DEF IInv, ScanInv
  <1>5. AliveInv'
    BY <1>frame, <1>same DEF IInv, AliveInv, Gone
  <1>6. StatusInv'
    BY <1>frame, ZenonT(60) DEF IInv, StatusInv, Past
  <1>7. RootInv'
    BY <1>frame, <1>same, Zenon DEF IInv, TypeOK, RootInv
  <1>8. ClaimInv'
    BY <1>frame, <1>same, Zenon DEF IInv, ClaimInv
  <1>9. JoinInv'
    <2> SUFFICES ASSUME NEW s \in Thread, pc'[s] \in Claiming
                 PROVE  /\ obj[s] \in Listed /\ obj[s] \in claimed /\ pc'[obj[s]] # "unborn"
                        /\ pc'[s] \in {"wait", "remove"} => status[obj[s]] \in {Joinable, Terminated}
                        /\ pc'[s] = "remove" => tid'[obj[s]] = 0
                        /\ pc'[s] = "detach" => /\ Before(list, obj[s], root)
                                                /\ status[obj[s]] = Zombie
                                                /\ pc'[obj[s]] \in Past
      BY <1>frame, <1>same, ZenonT(60) DEF JoinInv
    <2>1. /\ pc[s] \in Claiming /\ obj[s] \in Thread
          /\ pc'[s] # pc[s] => s = t /\ pc[s] = "wait" /\ pc'[s] = "remove" /\ tid[obj[s]] = 0
      BY <1>frame, Zenon DEF IInv, UnbornInv, Touching, Claiming
    <2>2. \A x \in Thread : /\ pc[x] # "unborn" => pc'[x] # "unborn"
                            /\ pc[x] \in Past => pc'[x] \in Past
                            /\ tid[x] = 0 => tid'[x] = 0
      BY <1>frame, ZenonT(60) DEF Past
    <2> QED BY <2>1, <2>2, Zenon DEF IInv, JoinInv
  <1>10. CloneInv'
    BY <1>frame, <1>same DEF IInv, CloneInv, UnbornInv, Touching
  <1>11. OwnerInv'
    BY <1>frame DEF IInv, OwnerInv, Claiming
  <1>12. UnbornInv'
    BY <1>frame, <1>lock DEF IInv, UnbornInv, Touching, Dropping
  <1>13. RetInv'
    BY <1>frame, <1>lock, <1>same DEF IInv, RetInv
  <1>14. RefInv'
    BY <1>frame, <1>same, Zenon DEF IInv, RefInv
  <1>15. FreeInv'
    BY <1>frame, <1>same, ZenonT(60) DEF IInv, FreeInv
  <1>16. SurvivorInv'
    BY <1>act, <1>frame DEF IInv, SurvivorInv, Gone
  <1> QED BY <1>1, <1>2, <1>3, <1>4, <1>5, <1>6, <1>7, <1>8, <1>9, <1>10, <1>11, <1>12, <1>13,
             <1>14, <1>15, <1>16, ZenonT(60) DEF IInv

\* IInv is kept: the sender of a signal takes a reference under the lock.
LEMMA sig_generateStep ==
    ASSUME IInv, Counting, ~ReclaimRoot, NEW t \in Thread, __sig_generate(t)
    PROVE  IInv'
  <1> USE DEF Joinable, Detached, Terminated, Zombie
  <1>card. \A X \in SUBSET Thread :
              /\ Cardinality(X) \in Nat
              /\ Cardinality(X) = 0 <=> X = {}
              /\ \A x \in Thread \ X : Cardinality(X \cup {x}) = Cardinality(X) + 1
              /\ \A x \in X : Cardinality(X \ {x}) = Cardinality(X) - 1
    BY DEF Counting
  <1>list. list' = list /\ Listed' = Listed
    BY DEF Listed, __sig_generate
  <1>u. PICK u \in Thread : /\ u \in Listed /\ u # t /\ pc[u] # "unborn"
                            /\ refs' = [refs EXCEPT ![u] = @ + 1] /\ obj' = [obj EXCEPT ![t] = u]
    <2>1. PICK u \in Listed \ {t} : /\ ~Masked(u) /\ refs' = [refs EXCEPT ![u] = @ + 1]
                                    /\ obj' = [obj EXCEPT ![t] = u]
      BY Zenon DEF __sig_generate
    <2>2. u \in Thread
      BY DEF IInv, TypeOK, Listed
    <2> QED BY <2>1, <2>2, Zenon DEF Masked
  <1>frame. /\ \A s \in Thread \ {t} : pc'[s] = pc[s] /\ obj'[s] = obj[s]
            /\ pc[t] = "run" /\ pc'[t] = "kill" /\ obj'[t] = u
            /\ refs' \in [Thread -> Int] /\ refs'[u] = refs[u] + 1
            /\ \A x \in Thread : x # u => refs'[x] = refs[x]
            /\ UNCHANGED <<list, mem, status, tid, lock, cursor, ret, depth, claimed, root, finalized, exited>>
    BY <1>u DEF IInv, TypeOK, __sig_generate, At, Goto
  <1>holders. /\ \A x \in Thread : Holders(x)' = IF x = u THEN Holders(x) \cup {t} ELSE Holders(x)
              /\ \A x \in Thread : t \notin Holders(x)
    BY <1>frame, ZenonT(60) DEF Holders
  <1>TypeOK. TypeOK'
    <2>1. list' \in Seq(Thread) /\ pc' \in [Thread -> PC] /\ refs' \in [Thread -> Int]
      BY <1>list, <1>frame, ThreadAssumption, ZenonT(60) DEF IInv, TypeOK, PC, __sig_generate, heap,
         local,
         process, At, Goto
    <2>2. obj' \in [Thread -> Thread \cup {NoThread}] /\ signals' \in Nat /\ forks' \in Nat
      BY <1>u DEF IInv, TypeOK, __sig_generate
    <2> QED BY <1>frame, <2>1, <2>2, Zenon DEF IInv, TypeOK
  <1>ListInv. ListInv'
    BY <1>list, <1>frame, Zenon DEF IInv, ListInv, Allocated
  <1>LockInv. LockInv'
    BY <1>frame, Zenon DEF IInv, LockInv
  <1>ScanInv. ScanInv'
    BY <1>frame, ZenonT(60) DEF IInv, ScanInv
  <1>AliveInv. AliveInv'
    BY <1>list, <1>frame, <1>u DEF IInv, AliveInv, Gone
  <1>StatusInv. StatusInv'
    BY <1>frame, Zenon DEF IInv, StatusInv, Past
  <1>RootInv. RootInv'
    BY <1>list, <1>frame, ZenonT(60) DEF IInv, TypeOK, RootInv, heap, At, Goto
  <1>ClaimInv. ClaimInv'
    BY <1>list, <1>frame, ZenonT(60) DEF IInv, ClaimInv, Allocated
  <1>JoinInv. JoinInv'
    BY <1>list, <1>frame DEF IInv, JoinInv, Claiming, Past, UnbornInv, Touching
  <1>CloneInv. CloneInv'
    BY <1>list, <1>frame DEF IInv, CloneInv, UnbornInv, Touching
  <1>OwnerInv. OwnerInv'
    BY <1>frame DEF IInv, OwnerInv, Claiming
  <1>UnbornInv. UnbornInv'
    BY <1>frame, <1>u DEF IInv, UnbornInv, Touching, Dropping, process, Goto
  <1>RetInv. RetInv'
    BY <1>list, <1>frame, ZenonT(60) DEF IInv, RetInv, process, At, Goto
  <1>RefInv. RefInv'
    <2> SUFFICES ASSUME NEW x \in Thread
                 PROVE  /\ x \in Listed' => refs'[x] >= Cardinality(Holders(x)')
                        /\ Holders(x)' # {} => Allocated(x) /\ refs'[x] >= Cardinality(Holders(x)') - 1
      BY <1>frame, ThreadAssumption, Zenon DEF RefInv, Allocated
    <2>1. CASE x # u
      <3>1. Holders(x)' = Holders(x) /\ refs'[x] = refs[x] /\ (x \in Listed' => x \in Listed)
        BY <1>holders, <1>list, <1>frame, <2>1, ThreadAssumption, ZenonT(60)
      <3> QED BY <3>1, Zenon DEF IInv, RefInv
    <2>2. CASE x = u
      <3>1. /\ Holders(x)' = Holders(x) \cup {t} /\ t \in Thread \ Holders(x)
            /\ Holders(x) \in SUBSET Thread
        BY <1>holders, <2>2, Zenon DEF Holders
      <3>2. Cardinality(Holders(x)') = Cardinality(Holders(x)) + 1 /\ Cardinality(Holders(x)) \in Nat
        BY <3>1, <1>card, ZenonT(60)
      <3>3. Allocated(x) /\ refs[x] \in Int /\ refs[x] >= Cardinality(Holders(x))
        BY <1>u, <2>2, Zenon DEF IInv, TypeOK, ListInv, RefInv
      <3> QED BY <1>frame, <2>2, <3>2, <3>3
    <2> QED BY <2>1, <2>2, Zenon
  <1>FreeInv. FreeInv'
    BY <1>list, <1>frame, <1>holders, <1>u DEF IInv, FreeInv, Allocated
  <1>SurvivorInv. SurvivorInv'
    BY <1>frame, Zenon DEF IInv, SurvivorInv, Gone
  <1> QED BY <1>TypeOK, <1>ListInv, <1>LockInv, <1>ScanInv, <1>AliveInv, <1>StatusInv,
             <1>RootInv, <1>ClaimInv, <1>JoinInv, <1>CloneInv, <1>OwnerInv, <1>UnbornInv,
             <1>RetInv, <1>RefInv, <1>FreeInv, <1>SurvivorInv, ZenonT(60) DEF IInv

\* IInv is kept: pthread_cancel(0) takes a reference to the next thread, under the lock.
LEMMA CancelEachStep ==
    ASSUME IInv, Counting, ~ReclaimRoot, NEW t \in Thread, CancelEach(t)
    PROVE  IInv'
  <1> USE DEF Joinable, Detached, Terminated, Zombie
  <1>card. \A X \in SUBSET Thread :
              /\ Cardinality(X) \in Nat
              /\ Cardinality(X) = 0 <=> X = {}
              /\ \A x \in Thread \ X : Cardinality(X \cup {x}) = Cardinality(X) + 1
              /\ \A x \in X : Cardinality(X \ {x}) = Cardinality(X) - 1
    BY Zenon DEF Counting
  <1>list. list' = list /\ Listed' = Listed
    BY ZenonT(60) DEF Listed, CancelEach
  <1>u. PICK u \in Thread : u \in Listed /\ u = list[cursor[t]]
    <2>1. list \in Seq(Thread) /\ cursor[t] \in DOMAIN list
      BY Zenon DEF IInv, TypeOK, CancelEach
    <2> QED BY <2>1 DEF Listed
  <1>skip. CASE ~(u # t /\ Running(u))
    <2>frame. /\ cursor' = [cursor EXCEPT ![t] = @ + 1] /\ pc[t] = "everyone"
              /\ UNCHANGED <<heap, lock, pc, obj, ret, depth, process>>
      BY <1>u, <1>skip, Zenon DEF CancelEach, heap, At
    <2>cursor. cursor' \in [Thread -> Nat] /\ \A s \in Thread \ {t} : cursor'[s] = cursor[s]
      <3>1. cursor \in [Thread -> Nat]
        BY Zenon DEF IInv, TypeOK
      <3>2. cursor[t] + 1 \in Nat
        BY <3>1
      <3> QED BY <2>frame, <3>1, <3>2, Zenon
    <2>1. TypeOK'
      BY <2>frame, <2>cursor, ZenonT(60) DEF IInv, TypeOK, heap, process
    <2>2. ScanInv'
      BY <2>frame DEF IInv, ScanInv, heap
    <2>3. \A x \in Thread : Holders(x)' = Holders(x)
      BY <2>frame, Zenon DEF Holders
    <2>4. (ListInv /\ LockInv /\ AliveInv /\ StatusInv)'
      BY <1>list, <2>frame, Zenon DEF IInv, ListInv, LockInv, AliveInv, StatusInv, Allocated, heap,
         process
    <2>7. (RootInv /\ ClaimInv /\ JoinInv /\ CloneInv)'
      BY <1>list, <2>frame, ZenonT(60) DEF IInv, RootInv, ClaimInv, JoinInv, CloneInv, Allocated, heap,
         process
    <2>5. (OwnerInv /\ UnbornInv /\ RetInv /\ SurvivorInv)'
      BY <1>list, <2>frame, Zenon DEF IInv, OwnerInv, UnbornInv, RetInv, SurvivorInv, process
    <2>6. (RefInv /\ FreeInv)'
      BY <1>list, <2>frame, <2>3, Zenon DEF IInv, RefInv, FreeInv, Allocated, heap
    <2> QED BY <2>1, <2>2, <2>4, <2>5, <2>6, <2>7, Zenon DEF IInv, At
  <1> SUFFICES ASSUME u # t /\ Running(u) PROVE IInv'
    BY <1>skip, Zenon
  <1>step. /\ pc[t] = "everyone" /\ pc' = [pc EXCEPT ![t] = "unref"] /\ obj' = [obj EXCEPT ![t] = u]
           /\ ret' = [ret EXCEPT ![t] = "everyone"] /\ cursor' = [cursor EXCEPT ![t] = @ + 1]
           /\ refs' = [refs EXCEPT ![u] = @ + 1]
           /\ UNCHANGED <<list, mem, status, tid, lock, depth, process>>
    BY <1>u, ZenonT(60) DEF CancelEach, At, Goto
  <1>frame. /\ \A s \in Thread \ {t} : /\ pc'[s] = pc[s] /\ obj'[s] = obj[s] /\ cursor'[s] = cursor[s]
                                        /\ ret'[s] = ret[s]
            /\ pc[t] = "everyone" /\ pc'[t] = "unref" /\ obj'[t] = u /\ ret'[t] = "everyone"
            /\ refs' \in [Thread -> Int] /\ refs'[u] = refs[u] + 1 /\ lock = t
            /\ \A x \in Thread : x # u => refs'[x] = refs[x]
            /\ UNCHANGED <<list, mem, status, tid, lock, depth, process>>
    <2>1. /\ pc \in [Thread -> PC] /\ obj \in [Thread -> Thread \cup {NoThread}]
          /\ ret \in [Thread -> Return] /\ cursor \in [Thread -> Nat] /\ refs \in [Thread -> Int]
      BY Zenon DEF IInv, TypeOK
    <2>2. refs' \in [Thread -> Int] /\ refs'[u] = refs[u] + 1 /\ \A x \in Thread : x # u => refs'[x] = refs[x]
      BY <1>step, <2>1
    <2>3. lock = t
      BY <1>step, ZenonT(60) DEF IInv, LockInv
    <2> QED BY <1>step, <2>1, <2>2, <2>3, Zenon
  <1>holders. /\ \A x \in Thread : Holders(x)' = IF x = u THEN Holders(x) \cup {t} ELSE Holders(x)
              /\ \A x \in Thread : t \notin Holders(x)
    BY <1>frame DEF Holders, At
  <1>TypeOK. TypeOK'
    <2>1. list' \in Seq(Thread) /\ pc' \in [Thread -> PC] /\ cursor' \in [Thread -> Nat]
      <3>1. list \in Seq(Thread) /\ pc \in [Thread -> PC] /\ cursor \in [Thread -> Nat] /\ "unref" \in PC
        BY Zenon DEF IInv, TypeOK, PC
      <3>2. cursor' \in [Thread -> Nat]
        BY <1>step, <3>1
      <3> QED BY <1>step, <3>1, <3>2, Zenon
    <2>2. obj' \in [Thread -> Thread \cup {NoThread}] /\ ret' \in [Thread -> Return]
      BY <1>step, Zenon DEF IInv, TypeOK, Return
    <2> QED BY <1>frame, <2>1, <2>2, ZenonT(60) DEF IInv, TypeOK, process
  <1>ListInv. ListInv'
    BY <1>list, <1>frame, Zenon DEF IInv, ListInv, Allocated
  <1>LockInv. LockInv'
    BY <1>frame, ZenonT(60) DEF IInv, LockInv
  <1>ScanInv. ScanInv'
    BY <1>frame DEF IInv, ScanInv
  <1>AliveInv. AliveInv'
    BY <1>list, <1>frame, <1>u DEF IInv, AliveInv, Gone, ListInv, Allocated, process
  <1>StatusInv. StatusInv'
    BY <1>frame, Zenon DEF IInv, StatusInv, Past
  <1>RootInv. RootInv'
    BY <1>list, <1>frame, ZenonT(60) DEF IInv, TypeOK, RootInv, process, Goto
  <1>ClaimInv. ClaimInv'
    BY <1>list, <1>frame, ZenonT(60) DEF IInv, ClaimInv, Allocated, process
  <1>JoinInv. JoinInv'
    <2> SUFFICES ASSUME NEW s \in Thread, pc'[s] \in Claiming
                 PROVE  /\ obj'[s] \in Listed' /\ obj'[s] \in claimed' /\ pc'[obj'[s]] # "unborn"
                        /\ pc'[s] \in {"wait", "remove"} => status'[obj'[s]] \in {Joinable, Terminated}
                        /\ pc'[s] = "remove" => tid'[obj'[s]] = 0
                        /\ pc'[s] = "detach" => /\ Before(list', obj'[s], root')
                                                /\ status'[obj'[s]] = Zombie
                                                /\ pc'[obj'[s]] \in Past
      BY Zenon DEF JoinInv
    <2>1. pc'[s] = pc[s] /\ obj'[s] = obj[s]
      BY <1>frame, Zenon DEF Claiming
    <2>2. obj[s] \in Thread
      BY <2>1, Zenon DEF IInv, UnbornInv, Claiming, Touching
    <2>3. /\ pc[obj[s]] # "unborn" => pc'[obj[s]] # "unborn"
          /\ pc[obj[s]] \in Past => pc'[obj[s]] \in Past
      BY <1>frame, <2>2, Zenon DEF Past
    <2>4. Listed' = Listed /\ UNCHANGED <<list, status, tid, claimed, root>>
      BY <1>list, <1>frame, Zenon DEF process
    <2> QED BY <2>1, <2>2, <2>3, <2>4, Zenon DEF IInv, JoinInv
  <1>CloneInv. CloneInv'
    <2> SUFFICES ASSUME NEW s \in Thread, pc'[s] = "clone"
                 PROVE  obj'[s] \in Listed' /\ pc'[obj'[s]] = "unborn" /\ mem'[obj'[s]] = "live"
      BY Zenon DEF CloneInv
    <2>1. s # t /\ pc[s] = "clone" /\ obj'[s] = obj[s]
      BY <1>frame, Zenon
    <2>2. obj[s] \in Thread /\ obj[s] \in Listed /\ pc[obj[s]] = "unborn" /\ mem[obj[s]] = "live"
      BY <2>1, Zenon DEF IInv, CloneInv, UnbornInv, Touching
    <2>3. pc'[obj[s]] = "unborn"
      BY <1>frame, <2>2, Zenon
    <2>4. obj[s] \in Listed' /\ mem'[obj[s]] = "live"
      BY <1>list, <1>frame, <2>1, <2>2, ZenonT(60)
    <2> QED BY <2>1, <2>3, <2>4, Zenon
  <1>OwnerInv. OwnerInv'
    BY <1>frame DEF IInv, OwnerInv, Claiming
  <1>UnbornInv. UnbornInv'
    BY <1>frame DEF IInv, UnbornInv, Touching, Dropping, heap
  <1>RetInv. RetInv'
    BY <1>list, <1>frame, <1>u DEF IInv, RetInv
  <1>RefInv. RefInv'
    <2> SUFFICES ASSUME NEW x \in Thread
                 PROVE  /\ x \in Listed' => refs'[x] >= Cardinality(Holders(x)')
                        /\ Holders(x)' # {} => Allocated(x) /\ refs'[x] >= Cardinality(Holders(x)') - 1
      BY <1>frame, Zenon DEF RefInv, Allocated
    <2>1. CASE x # u
      <3>1. Holders(x)' = Holders(x) /\ refs'[x] = refs[x] /\ (x \in Listed' => x \in Listed)
        BY <1>holders, <1>list, <1>frame, <2>1, ZenonT(60)
      <3> QED BY <3>1, Zenon DEF IInv, RefInv
    <2>2. CASE x = u
      <3>1. /\ Holders(x)' = Holders(x) \cup {t} /\ t \in Thread \ Holders(x)
            /\ Holders(x) \in SUBSET Thread
        BY <1>holders, <2>2, Zenon DEF Holders
      <3>2. Cardinality(Holders(x)') = Cardinality(Holders(x)) + 1 /\ Cardinality(Holders(x)) \in Nat
        BY <3>1, <1>card, ZenonT(60) DEF At
      <3>3. Allocated(x) /\ refs[x] \in Int /\ refs[x] >= Cardinality(Holders(x))
        BY <1>u, <2>2, Zenon DEF IInv, TypeOK, ListInv, RefInv
      <3> QED BY <1>frame, <2>2, <3>2, <3>3
    <2> QED BY <2>1, <2>2, Zenon
  <1>FreeInv. FreeInv'
    BY <1>list, <1>frame, <1>holders, <1>u DEF IInv, FreeInv, Allocated
  <1>SurvivorInv. SurvivorInv'
    BY <1>frame, Zenon DEF IInv, SurvivorInv, Gone, process, Goto
  <1> QED BY <1>TypeOK, <1>ListInv, <1>LockInv, <1>ScanInv, <1>AliveInv, <1>StatusInv,
             <1>RootInv, <1>ClaimInv, <1>JoinInv, <1>CloneInv, <1>OwnerInv, <1>UnbornInv,
             <1>RetInv, <1>RefInv, <1>FreeInv, <1>SurvivorInv, ZenonT(60) DEF IInv

----------------------------------------------------------------------------
(***************************************************************************)
(* The invariant and the theorems.                                         *)
(***************************************************************************)
\* Adding or removing one thread changes the size of a set of threads by one.
LEMMA CardLemma == Counting
  <1> SUFFICES ASSUME NEW X \in SUBSET Thread
               PROVE  /\ Cardinality(X) \in Nat
                      /\ Cardinality(X) = 0 <=> X = {}
                      /\ \A x \in Thread \ X : Cardinality(X \cup {x}) = Cardinality(X) + 1
                      /\ \A x \in X : Cardinality(X \ {x}) = Cardinality(X) - 1
    BY DEF Counting
  <1>1. IsFiniteSet(X)
    BY ThreadAssumption, FS_Subset
  <1> QED BY <1>1, FS_CardinalityType, FS_EmptySet, FS_AddElement, FS_RemoveElement

\* The invariant holds when the process starts.
LEMMA InitLemma ==
    ASSUME Init
    PROVE  IInv
  <1> USE ThreadAssumption DEF Init, Joinable, Detached, Terminated, Zombie
  <1>list. /\ list \in Seq(Thread) /\ Listed = {Main} /\ Len(list) = 1
           /\ NoDuplicates(list) /\ \A x, y : ~Before(list, x, y)
    BY DEF Listed, NoDuplicates, Before
  <1>holders. \A x \in Thread : Holders(x) = {} /\ Cardinality(Holders(x)) = 0
    <2>1. \A x \in Thread : Holders(x) = {}
      BY DEF Holders
    <2> QED BY <2>1, CardLemma DEF Counting
  <1>1. TypeOK
    <2>1. /\ mem \in [Thread -> {"static", "none", "live", "freed"}]
          /\ status \in [Thread -> Status] /\ pc \in [Thread -> PC]
      BY DEF Status, PC
    <2>2. tid \in [Thread -> {-1, 0, 1}] /\ refs \in [Thread -> Int]
      OBVIOUS
    <2>3. /\ obj \in [Thread -> Thread \cup {NoThread}] /\ cursor \in [Thread -> Nat]
          /\ ret \in [Thread -> Return] /\ depth \in [Thread -> Nat]
      BY DEF Return
    <2> QED BY <1>list, <2>1, <2>2, <2>3, ZenonT(60) DEF TypeOK
  <1>2. ListInv /\ LockInv /\ ScanInv /\ AliveInv /\ StatusInv
    BY <1>list DEF ListInv, LockInv, ScanInv, AliveInv, StatusInv, Allocated, Gone, Past
  <1>3. RootInv /\ ClaimInv /\ JoinInv /\ CloneInv /\ OwnerInv /\ UnbornInv /\ RetInv
    BY <1>list DEF RootInv, ClaimInv, JoinInv, CloneInv, OwnerInv, UnbornInv, RetInv,
                   Allocated, Claiming, Touching, Dropping
  <1>4. RefInv /\ FreeInv /\ SurvivorInv
    BY <1>list, <1>holders DEF RefInv, FreeInv, SurvivorInv, Gone
  <1> QED BY <1>1, <1>2, <1>3, <1>4 DEF IInv

\* The invariant is kept when nothing changes.
LEMMA StutterLemma ==
    ASSUME IInv, UNCHANGED vars
    PROVE  IInv'
  <1>0. UNCHANGED <<list, lock, mem, status, tid, refs, pc, obj, cursor, ret, depth, claimed, root>>
        /\ UNCHANGED <<finalized, exited, signals, forks>>
    BY Zenon DEF vars, heap, local, process
  <1>1. Listed' = Listed /\ \A x : Holders(x)' = Holders(x) /\ Allocated(x)' = Allocated(x)
    BY <1>0, Zenon DEF Listed, Holders, Allocated
  <1>2. TypeOK' /\ ListInv' /\ LockInv'
    BY <1>0, <1>1, ZenonT(60) DEF IInv, TypeOK, ListInv, LockInv
  <1>3. ScanInv' /\ AliveInv' /\ StatusInv'
    BY <1>0, <1>1, ZenonT(60) DEF IInv, ScanInv, AliveInv, StatusInv, Gone, Past
  <1>4. RootInv' /\ ClaimInv' /\ JoinInv' /\ CloneInv'
    BY <1>0, <1>1, ZenonT(60) DEF IInv, RootInv, ClaimInv, JoinInv, CloneInv
  <1>5. OwnerInv' /\ UnbornInv' /\ RetInv'
    BY <1>0, <1>1, ZenonT(60) DEF IInv, OwnerInv, UnbornInv, RetInv
  <1>6. RefInv' /\ FreeInv' /\ SurvivorInv'
    BY <1>0, <1>1, ZenonT(60) DEF IInv, RefInv, FreeInv, SurvivorInv, Gone
  <1> QED BY <1>2, <1>3, <1>4, <1>5, <1>6, ZenonT(60) DEF IInv

\* Every step of every thread keeps the invariant.
LEMMA NextLemma ==
    ASSUME ~ReclaimRoot, IInv, [Next]_vars
    PROVE  IInv'
  <1>1. ASSUME NEW t \in Thread,
               \/ DecimateLock(t) \/ DecimateStop(t) \/ DecimateSkip(t) \/ DecimateRemove(t)
               \/ DerefLoad(t) \/ DerefSub(t) \/ Free(t)
        PROVE  IInv'
    BY <1>1, CardLemma, DecimateLockStep, DecimateStopStep, DecimateSkipStep,
       DecimateRemoveStep, DerefLoadStep, DerefSubStep, FreeStep, ZenonT(60)
  <1>2. ASSUME NEW t \in Thread, NEW u \in Thread,
               \/ CreateCall(t) \/ CreateFail(t) \/ Clone(t) \/ CloneFail(t)
               \/ CreateList(t, u, Joinable) \/ CreateList(t, u, Detached) \/ CreateRefused(t, u)
        PROVE  IInv'
    BY <1>2, CardLemma, LocalSteps, CloneStep, CloneFailStep, CreateListStep, CreateRefusedStep, ZenonT(60)
  <1>3. ASSUME NEW t \in Thread,
               \/ ExitCall(t) \/ ExitFinalize(t) \/ ExitTransition(t) \/ ExitZombify(t)
               \/ ExitSurvivor(t) \/ ExitLeave(t)
        PROVE  IInv'
    BY <1>3, LocalSteps, ExitTransitionStep, ExitZombifyStep, ExitSurvivorStep, ZenonT(60)
  <1>4. ASSUME NEW t \in Thread, NEW u \in Thread,
               \/ JoinWait(t) \/ JoinGiveUp(t) \/ JoinRemove(t) \/ DetachZombify(t)
               \/ JoinCall(t, u) \/ DetachCall(t, u)
        PROVE  IInv'
    BY <1>4, CardLemma, LocalSteps, JoinGiveUpStep, JoinRemoveStep, DetachZombifyStep,
       JoinCallStep, DetachCallStep, ZenonT(60)
  <1>5. ASSUME NEW t \in Thread,
               \/ __sig_generate(t) \/ SigKiller(t)
               \/ CancelEveryone(t) \/ CancelEach(t) \/ CancelDone(t)
               \/ ForkPrepare(t) \/ ForkParent(t) \/ ForkChild(t)
        PROVE  IInv'
    BY <1>5, CardLemma, sig_generateStep, LocalSteps, CancelEachStep, ForkChildStep, ZenonT(60)
  <1>6. ASSUME Finished PROVE IInv'
    BY <1>6, StutterLemma DEF Finished
  <1>7. ASSUME UNCHANGED vars PROVE IInv'
    BY <1>7, StutterLemma
  <1> QED BY <1>1, <1>2, <1>3, <1>4, <1>5, <1>6, <1>7, ZenonT(60) DEF Next

\* The inductive invariant holds in every reachable state, for any number of
\* threads, signals and forks, if the first thread is neither joined nor detached.
THEOREM Inductive ==
    ASSUME ~ReclaimRoot
    PROVE  Spec => []IInv
  <1>1. Init => IInv
    BY InitLemma
  <1>2. IInv /\ [Next]_vars => IInv'
    BY NextLemma
  <1> QED BY <1>1, <1>2, PTL DEF Spec

\* Every variable keeps its type.
THEOREM TypeCorrect ==
    ASSUME ~ReclaimRoot
    PROVE  Spec => []TypeOK
  <1>1. IInv => TypeOK
    BY DEF IInv
  <1> QED BY <1>1, Inductive, PTL

\* No thread object is used after _pthread_free gave it back: not through a
\* handle or a reference, not by its own thread, not through the list.
THEOREM NoUseAfterFreeHolds ==
    ASSUME ~ReclaimRoot
    PROVE  Spec => []NoUseAfterFree
  <1>1. ASSUME IInv PROVE NoUseAfterFree
    <2> USE <1>1 DEF IInv
    <2>1. \A u \in Listed : Allocated(u)
      BY DEF ListInv
    <2>2. \A t \in Thread : pc[t] \notin Gone => Allocated(t)
      BY <2>1 DEF AliveInv
    <2>3. ASSUME NEW t \in Thread, pc[t] \in {"clone", "wait", "remove", "detach"}
          PROVE  Allocated(obj[t])
      BY <2>1, <2>3 DEF CloneInv, JoinInv, Claiming
    <2>4. ASSUME NEW t \in Thread, pc[t] \in {"kill", "unref", "sub"}
          PROVE  Allocated(obj[t])
      BY <2>4, ZenonT(60) DEF UnbornInv, RefInv, Holders, Touching
    <2>5. ASSUME NEW t \in Thread, pc[t] = "free"
          PROVE  Allocated(obj[t])
      BY <2>5 DEF UnbornInv, FreeInv, Touching
    <2> QED BY <2>1, <2>2, <2>3, <2>4, <2>5 DEF NoUseAfterFree, Touching
  <1> QED BY <1>1, Inductive, PTL

\* The process has not aborted, or over an object that was never listed.
AbortInv == \A t \in Thread : pc[t] = "abort" => mem[obj[t]] = "none"

\* Where every step but one leads its thread.
LEMMA NoAbort ==
    ASSUME IInv, NEW t \in Thread, NEW u \in Thread,
           \/ DecimateLock(t) \/ DecimateStop(t) \/ DecimateSkip(t) \/ DecimateRemove(t)
           \/ DerefLoad(t) \/ DerefSub(t) \/ Free(t)
           \/ CreateCall(t) \/ CreateFail(t) \/ Clone(t) \/ CloneFail(t)
           \/ ExitCall(t) \/ ExitFinalize(t) \/ ExitTransition(t) \/ ExitZombify(t)
           \/ ExitSurvivor(t) \/ ExitLeave(t)
           \/ JoinWait(t) \/ JoinGiveUp(t) \/ JoinRemove(t) \/ DetachZombify(t)
           \/ __sig_generate(t) \/ SigKiller(t)
           \/ CancelEveryone(t) \/ CancelEach(t) \/ CancelDone(t)
           \/ ForkPrepare(t) \/ ForkParent(t) \/ ForkChild(t)
           \/ JoinCall(t, u) \/ DetachCall(t, u)
           \/ CreateList(t, u, Joinable) \/ CreateList(t, u, Detached)
    PROVE  \A s \in Thread : pc'[s] = "abort" => pc[s] = "abort"
  <1> USE DEF At, Goto
  <1> DEFINE Fine == \A s \in Thread : pc'[s] = "abort" => pc[s] = "abort"
  <1>0. pc \in [Thread -> PC] /\ ret[t] # "abort"
    BY DEF IInv, TypeOK, Return
  <1>1. CASE DecimateLock(t) \/ DecimateStop(t) \/ DecimateSkip(t) \/ DecimateRemove(t)
    BY <1>0, <1>1, Zenon DEF DecimateLock, DecimateStop, DecimateSkip, DecimateRemove, ReturnFrom
  <1>2. CASE DerefLoad(t) \/ DerefSub(t)
    BY <1>0, <1>2, Zenon DEF DerefLoad, DerefSub, ReturnFrom
  <1>3. CASE Free(t)
    <2>1. Freeing(t)
      BY <1>3, FreePasses, Zenon
    <2> QED BY <1>0, <2>1, Zenon DEF Freeing
  <1>4. CASE CreateCall(t) \/ CreateFail(t) \/ Clone(t) \/ CloneFail(t) \/ ExitCall(t)
    BY <1>0, <1>4, Zenon DEF CreateCall, CreateFail, Clone, CloneFail, ExitCall, CallDecimate
  <1>5. CASE ExitFinalize(t) \/ ExitTransition(t) \/ ExitZombify(t) \/ ExitSurvivor(t) \/ ExitLeave(t)
    BY <1>0, <1>5, Zenon DEF ExitFinalize, ExitTransition, ExitZombify, ExitSurvivor, ExitLeave
  <1>6. CASE JoinWait(t) \/ JoinGiveUp(t) \/ JoinRemove(t) \/ DetachZombify(t)
    BY <1>0, <1>6, Zenon DEF JoinWait, JoinGiveUp, JoinRemove, DetachZombify, CallDecimate
  <1>7. CASE __sig_generate(t) \/ SigKiller(t) \/ CancelEveryone(t) \/ CancelEach(t) \/ CancelDone(t)
    BY <1>0, <1>7, Zenon DEF __sig_generate, SigKiller, CancelEveryone, CancelEach, CancelDone
  <1>8. CASE ForkPrepare(t) \/ ForkParent(t) \/ ForkChild(t)
    BY <1>0, <1>8, Zenon DEF ForkPrepare, ForkParent, ForkChild
  <1>9. CASE \/ JoinCall(t, u) \/ DetachCall(t, u)
             \/ CreateList(t, u, Joinable) \/ CreateList(t, u, Detached)
    BY <1>0, <1>9, Zenon DEF JoinCall, DetachCall, CreateList, CallDecimate
  <1> QED BY <1>1, <1>2, <1>3, <1>4, <1>5, <1>6, <1>7, <1>8, <1>9, ZenonT(30)

LEMMA AbortStep ==
    ASSUME IInv, AbortInv, [Next]_vars
    PROVE  AbortInv'
  <1>1. ASSUME NEW t \in Thread, NEW u \in Thread, ~Aborted, CreateRefused(t, u) PROVE AbortInv'
    <2>1. /\ mem' = mem /\ mem[u] = "none" /\ pc' = [pc EXCEPT ![t] = "abort"]
          /\ obj' = [obj EXCEPT ![t] = u]
      BY <1>1, Zenon DEF CreateRefused, Goto, heap
    <2>2. obj'[t] = u /\ \A s \in Thread \ {t} : pc'[s] = pc[s]
      BY <2>1, Zenon DEF IInv, TypeOK
    <2> QED BY <1>1, <2>1, <2>2, Zenon DEF AbortInv, Aborted
  <1>2. ASSUME ~Aborted, \A s \in Thread : pc'[s] = "abort" => pc[s] = "abort" PROVE AbortInv'
    BY <1>2, Zenon DEF AbortInv, Aborted
  <1>3. CASE UNCHANGED vars
    BY <1>3, Zenon DEF AbortInv, vars, heap, local
  <1> QED BY <1>1, <1>2, <1>3, NoAbort, ZenonT(60) DEF Next, Finished

\* No object is freed twice or while another thread works on it, and the assertion
\* of _pthread_free fails for no object that was ever listed.
THEOREM FreeAssertionHolds ==
    ASSUME ~ReclaimRoot
    PROVE  Spec => []FreeAssertion
  <1>1. ASSUME IInv, AbortInv PROVE FreeAssertion
    <2> SUFFICES ASSUME NEW t \in Thread, pc[t] = "free"
                 PROVE  \A s \in Thread \ {t} : pc[s] \in Touching => obj[s] # obj[t]
      BY <1>1, Zenon DEF FreeAssertion, AbortInv
    <2> USE <1>1 DEF IInv
    <2>1. obj[t] \in Thread /\ obj[t] \notin Listed /\ Holders(obj[t]) = {}
      BY DEF UnbornInv, FreeInv, Touching
    <2>2. ASSUME NEW s \in Thread \ {t}, pc[s] \in Touching
          PROVE  obj[s] # obj[t]
      <3>1. CASE pc[s] \in {"clone", "wait", "remove", "detach"}
        BY <2>1, <3>1 DEF CloneInv, JoinInv, Claiming
      <3>2. CASE pc[s] \in {"kill", "unref", "sub"}
        BY <2>1, <3>2 DEF Holders
      <3>3. CASE pc[s] = "free"
        BY <3>3 DEF OwnerInv
      <3> QED BY <2>2, <3>1, <3>2, <3>3 DEF Touching
    <2> QED BY <2>2
  <1>2. Init => AbortInv
    BY Zenon DEF Init, AbortInv
  <1>3. IInv /\ AbortInv /\ [Next]_vars => AbortInv'
    BY AbortStep
  <1>4. IInv /\ AbortInv => FreeAssertion
    BY <1>1
  <1> QED BY <1>2, <1>3, <1>4, Inductive, PTL DEF Spec

\* pthread_exit calls _Exit(0) only in the last thread, after the atexit handlers.
THEOREM LastSurvivorHolds ==
    ASSUME ~ReclaimRoot
    PROVE  Spec => []LastSurvivor
  <1>1. IInv => LastSurvivor
    BY DEF IInv, SurvivorInv, LastSurvivor
  <1> QED BY <1>1, Inductive, PTL

\* However pthread_detach and pthread_exit race, no transition of pt_status is lost.
THEOREM NoLostDetachHolds ==
    ASSUME ~ReclaimRoot
    PROVE  Spec => []NoLostDetach
  <1>1. ASSUME IInv PROVE NoLostDetach
    BY <1>1 DEF IInv, StatusInv, ClaimInv, NoLostDetach, Joinable, Detached, Terminated, Zombie
  <1> QED BY <1>1, Inductive, PTL

----------------------------------------------------------------------------
(***************************************************************************)
(* The references: LeakInv is kept by every step.                          *)
(***************************************************************************)
\* What every thread but t does in a step of t: nothing, or it starts to run.
OthersStay(t) ==
    /\ pc[t] # "vanished"
    /\ \A s \in Thread \ {t} :
          /\ obj'[s] = obj[s]
          /\ pc'[s] = pc[s] \/ (pc[s] = "unborn" /\ pc'[s] = "run")

\* No thread comes back that vanished in a fork.
LEMMA StillVanished ==
    ASSUME NEW t \in Thread, OthersStay(t), \A s \in Thread : pc'[s] # "vanished"
    PROVE  \A s \in Thread : pc[s] # "vanished"
  BY Zenon DEF OthersStay

\* A thread that keeps its reference, or has none, does not change who holds one.
LEMMA HoldersStay ==
    ASSUME NEW t \in Thread, OthersStay(t),
           \/ pc[t] \in Holding /\ pc'[t] \in Holding /\ obj'[t] = obj[t]
           \/ pc[t] \notin Holding /\ pc'[t] \notin Holding
    PROVE  \A u : Holders(u)' = Holders(u)
  <1>1. ASSUME NEW s \in Thread, NEW u
        PROVE  (obj'[s] = u /\ pc'[s] \in Holding) <=> (obj[s] = u /\ pc[s] \in Holding)
    <2>1. CASE s = t
      BY <2>1, Zenon
    <2>2. CASE s # t
      BY <2>2, Zenon DEF OthersStay, Holding
    <2> QED BY <2>1, <2>2
  <1> QED BY <1>1, Zenon DEF Holders, Holding

\* The objects other threads free are still being freed.
LEMMA FreersStay ==
    ASSUME NEW t \in Thread, OthersStay(t), pc[t] # "free", NEW u, Freed(u)
    PROVE  Freed(u)'
  BY Zenon DEF OthersStay, Freed

\* Steps that change no count, no reference and not what is listed.
LEMMA QuietLeak ==
    ASSUME LeakInv, NEW t \in Thread, OthersStay(t), pc[t] # "free",
           refs' = refs, mem' = mem, Listed' = Listed,
           \/ pc[t] \in Holding /\ pc'[t] \in Holding /\ obj'[t] = obj[t]
           \/ pc[t] \notin Holding /\ pc'[t] \notin Holding
    PROVE  LeakInv'
  <1>1. \A u : Holders(u)' = Holders(u)
    BY HoldersStay, Zenon
  <1>2. \A u : Freed(u) => Freed(u)'
    BY FreersStay, Zenon
  <1>3. (\A s \in Thread : pc'[s] # "vanished") => \A s \in Thread : pc[s] # "vanished"
    BY StillVanished, Zenon
  <1> QED BY <1>1, <1>2, <1>3, Zenon DEF LeakInv, Accounted

\* Places where a thread has no reference.
Elsewhere == {"run", "create", "clone", "decimate", "scan", "orphan1", "transition", "zombify",
              "orphan2", "leave", "dead", "wait", "remove", "detach", "everyone", "fork", "abort"}

\* A step from one such place to another.
LEMMA ElsewhereLeak ==
    ASSUME IInv, LeakInv, NEW t \in Thread, NEW l \in Elsewhere, pc[t] \in Elsewhere,
           pc' = [pc EXCEPT ![t] = l], \A s \in Thread \ {t} : obj'[s] = obj[s],
           refs' = refs, mem' = mem, Listed' = Listed
    PROVE  LeakInv'
  <1>1. pc \in [Thread -> PC]
    BY Zenon DEF IInv, TypeOK
  <1>2. pc'[t] = l /\ \A s \in Thread \ {t} : pc'[s] = pc[s]
    BY <1>1, Zenon
  <1>3. \A p \in Elsewhere : p \notin Holding /\ p # "free" /\ p # "vanished"
    BY DEF Elsewhere, Holding
  <1>4. OthersStay(t)
    BY <1>2, <1>3, Zenon DEF OthersStay
  <1> QED BY <1>2, <1>3, <1>4, QuietLeak, Zenon

\* Steps that have nothing to do with references.
LEMMA ElsewhereSteps ==
    ASSUME IInv, LeakInv, NEW t \in Thread,
           \/ DecimateLock(t) \/ DecimateStop(t) \/ DecimateSkip(t)
           \/ CreateCall(t) \/ CreateFail(t) \/ ExitCall(t) \/ ExitFinalize(t)
           \/ ExitTransition(t) \/ ExitSurvivor(t) \/ ExitLeave(t) \/ JoinWait(t)
           \/ JoinGiveUp(t) \/ (\E u \in Thread : JoinCall(t, u) \/ DetachCall(t, u) \/ CreateRefused(t, u))
           \/ CancelEveryone(t) \/ CancelDone(t) \/ ForkPrepare(t) \/ ForkParent(t)
    PROVE  LeakInv'
  <1> DEFINE Moves(l) == /\ pc[t] \in Elsewhere /\ pc' = [pc EXCEPT ![t] = l]
                         /\ \A s \in Thread \ {t} : obj'[s] = obj[s]
                         /\ refs' = refs /\ mem' = mem /\ list' = list
  <1>1. pc \in [Thread -> PC] /\ obj \in [Thread -> Thread \cup {NoThread}] /\ ret[t] \in Return
    BY Zenon DEF IInv, TypeOK
  <1>2. ret[t] \in Elsewhere
    BY <1>1 DEF Return, Elsewhere
  <1>3. DecimateLock(t) => \E l \in Elsewhere : Moves(l)
    BY <1>1, Zenon DEF DecimateLock, At, Goto, heap, Elsewhere
  <1>4. DecimateStop(t) => \E l \in Elsewhere : Moves(l)
    BY <1>1, <1>2, Zenon DEF DecimateStop, ReturnFrom, At, Goto, heap, Elsewhere
  <1>5. DecimateSkip(t) => \E l \in Elsewhere : Moves(l)
    <2>1. pc[t] = "scan" => [pc EXCEPT ![t] = "scan"] = pc
      BY <1>1
    <2> QED BY <1>1, <2>1, Zenon DEF DecimateSkip, At, heap, Elsewhere
  <1>6. CreateCall(t) \/ CreateFail(t) \/ ExitCall(t) => \E l \in Elsewhere : Moves(l)
    BY <1>1, Zenon DEF CreateCall, CreateFail, ExitCall, CallDecimate, At, Goto, heap, local, Elsewhere
  <1>7. ExitFinalize(t) \/ ExitTransition(t) => \E l \in Elsewhere : Moves(l)
    BY <1>1, Zenon DEF ExitFinalize, ExitTransition, At, Goto, heap, local, Elsewhere
  <1>8. ExitSurvivor(t) \/ ExitLeave(t) => \E l \in Elsewhere : Moves(l)
    BY <1>1, Zenon DEF ExitSurvivor, ExitLeave, At, Goto, heap, local, Elsewhere
  <1>9. JoinWait(t) \/ JoinGiveUp(t) => \E l \in Elsewhere : Moves(l)
    BY <1>1, Zenon DEF JoinWait, JoinGiveUp, Forget, At, Goto, heap, local, Elsewhere
  <1>10. ASSUME NEW u \in Thread, JoinCall(t, u) \/ DetachCall(t, u) \/ CreateRefused(t, u)
         PROVE  \E l \in Elsewhere : Moves(l)
    BY <1>1, <1>10, Zenon DEF JoinCall, DetachCall, CreateRefused, CallDecimate, At, Goto, heap, Elsewhere
  <1>11. CancelEveryone(t) \/ CancelDone(t) => \E l \in Elsewhere : Moves(l)
    BY <1>1, Zenon DEF CancelEveryone, CancelDone, At, Goto, heap, Elsewhere
  <1>12. ForkPrepare(t) \/ ForkParent(t) => \E l \in Elsewhere : Moves(l)
    BY <1>1, Zenon DEF ForkPrepare, ForkParent, At, Goto, heap, local, Elsewhere
  <1>13. PICK l \in Elsewhere : Moves(l)
    BY <1>3, <1>4, <1>5, <1>6, <1>7, <1>8, <1>9, <1>10, <1>11, <1>12, Zenon
  <1>14. Listed' = Listed
    BY <1>13, Zenon DEF Listed
  <1> QED BY <1>13, <1>14, ElsewhereLeak, Zenon

\* Moving a zombie to the end of the list, and the start of a thread.
LEMMA ListKeptSteps ==
    ASSUME IInv, LeakInv, NEW t \in Thread,
           ExitZombify(t) \/ DetachZombify(t) \/ Clone(t) \/ SigKiller(t)
    PROVE  LeakInv'
  <1>1. /\ pc \in [Thread -> PC] /\ obj \in [Thread -> Thread \cup {NoThread}]
        /\ list \in Seq(Thread) /\ NoDuplicates(list)
    BY Zenon DEF IInv, TypeOK, ListInv
  <1>2. \A q : Elements(q) = {q[i] : i \in DOMAIN q}
    BY Zenon DEF Elements
  <1>3. Listed = Elements(list) /\ Listed' = Elements(list')
    BY <1>2, Zenon DEF Listed
  <1>4. CASE ExitZombify(t)
    <2>1. /\ pc[t] = "zombify" /\ pc' = [pc EXCEPT ![t] = "orphan2"] /\ obj' = obj
          /\ list' = dll_make_last(dll_remove(list, t), t) /\ refs' = refs /\ mem' = mem
      BY <1>4, Zenon DEF ExitZombify, _pthread_zombify, At, Goto, local
    <2>2. t \in Elements(list)
      BY <1>3, <2>1 DEF IInv, AliveInv, Gone
    <2>3. Listed' = Listed
      BY <1>1, <1>3, <2>1, <2>2, MoveLastLemma, Zenon
    <2> QED BY <2>1, <2>3, ElsewhereLeak, Zenon DEF Elsewhere
  <1>5. CASE DetachZombify(t)
    <2>1. /\ pc[t] = "detach" /\ pc' = [pc EXCEPT ![t] = "decimate"]
          /\ \A s \in Thread \ {t} : obj'[s] = obj[s]
          /\ list' = dll_make_last(dll_remove(list, obj[t]), obj[t]) /\ refs' = refs /\ mem' = mem
      BY <1>1, <1>5, Zenon DEF DetachZombify, _pthread_zombify, CallDecimate, Forget, At, Goto
    <2>2. PICK u \in Thread : u = obj[t] /\ u \in Elements(list)
      BY <1>1, <1>3, <2>1, ThreadAssumption DEF IInv, JoinInv, Claiming, UnbornInv, Touching
    <2>3. Listed' = Listed
      <3>1. Elements(dll_make_last(dll_remove(list, u), u)) = Elements(list)
        <4>1. u \in Elements(list)
          BY <2>2, Zenon
        <4> QED BY <1>1, <4>1, MoveLastLemma, Zenon
      <3> QED BY <1>3, <2>1, <2>2, <3>1, Zenon
    <2> QED BY <2>1, <2>3, ElsewhereLeak, Zenon DEF Elsewhere
  <1>6. CASE Clone(t)
    <2>1. /\ pc[t] = "clone" /\ pc' = [pc EXCEPT ![t] = "run", ![obj[t]] = "run"]
          /\ \A s \in Thread \ {t} : obj'[s] = obj[s]
          /\ list' = list /\ refs' = refs /\ mem' = mem
      BY <1>1, <1>6, Zenon DEF Clone, Forget, At
    <2>2. pc[obj[t]] = "unborn"
      BY <2>1, Zenon DEF IInv, CloneInv
    <2>3. pc'[t] = "run" /\ \A s \in Thread \ {t} : pc'[s] = IF s = obj[t] THEN "run" ELSE pc[s]
      BY <1>1, <2>1
    <2>4. OthersStay(t)
      BY <2>1, <2>2, <2>3, Zenon DEF OthersStay
    <2>5. Listed' = Listed
      BY <2>1, Zenon DEF Listed
    <2>6. "run" \notin Holding /\ "clone" \notin Holding
      BY DEF Holding
    <2> QED BY <2>1, <2>3, <2>4, <2>5, <2>6, QuietLeak, Zenon
  <1>7. CASE SigKiller(t)
    <2>1. /\ pc[t] = "kill" /\ pc' = [pc EXCEPT ![t] = "unref"] /\ obj' = obj
          /\ list' = list /\ refs' = refs /\ mem' = mem
      BY <1>7, Zenon DEF SigKiller, At, Goto, heap
    <2>2. pc'[t] = "unref" /\ \A s \in Thread \ {t} : pc'[s] = pc[s]
      BY <1>1, <2>1, Zenon
    <2>3. OthersStay(t)
      BY <2>1, <2>2, Zenon DEF OthersStay
    <2>4. Listed' = Listed
      BY <2>1, Zenon DEF Listed
    <2>5. "kill" \in Holding /\ "unref" \in Holding
      BY DEF Holding
    <2> QED BY <2>1, <2>2, <2>3, <2>4, <2>5, QuietLeak, Zenon
  <1> QED BY <1>4, <1>5, <1>6, <1>7

\* A step that changes one object has to account for that one.
LEMMA OneObject ==
    ASSUME LeakInv, NEW t \in Thread, OthersStay(t), NEW o \in Thread,
           \A x \in Thread \ {o} : /\ refs'[x] = refs[x] /\ mem'[x] = mem[x]
                                   /\ x \in Listed' <=> x \in Listed
                                   /\ Holders(x)' = Holders(x)
                                   /\ Freed(x) => Freed(x)',
           Accounted(o) => Accounted(o)'
    PROVE  LeakInv'
  <1> SUFFICES ASSUME \A s \in Thread : pc'[s] # "vanished", NEW x \in Thread
               PROVE  Accounted(x)'
    BY Zenon DEF LeakInv
  <1>1. Accounted(x)
    BY StillVanished, Zenon DEF LeakInv
  <1>2. CASE x = o
    BY <1>1, <1>2, Zenon
  <1>3. CASE x # o
    BY <1>1, <1>3, Zenon DEF Accounted
  <1> QED BY <1>2, <1>3

\* Thread t gets a reference to o.
LEMMA HolderGain ==
    ASSUME Counting, NEW t \in Thread, OthersStay(t), NEW o \in Thread,
           pc[t] \notin Holding, pc'[t] \in Holding, obj'[t] = o
    PROVE  /\ \A x \in Thread \ {o} : Holders(x)' = Holders(x)
           /\ Cardinality(Holders(o)') = Cardinality(Holders(o)) + 1
           /\ Cardinality(Holders(o)) \in Nat /\ Holders(o)' # {}
  <1>1. ASSUME NEW x PROVE Holders(x)' = IF x = o THEN Holders(x) \cup {t} ELSE Holders(x)
    <2>1. ASSUME NEW s \in Thread \ {t}
          PROVE  (obj'[s] = x /\ pc'[s] \in Holding) <=> (obj[s] = x /\ pc[s] \in Holding)
      BY Zenon DEF OthersStay, Holding
    <2> QED BY <2>1, Zenon DEF Holders, Holding
  <1>2. t \in Thread \ Holders(o) /\ Holders(o) \in SUBSET Thread
    BY Zenon DEF Holders, Holding
  <1>3. Cardinality(Holders(o) \cup {t}) = Cardinality(Holders(o)) + 1 /\ Cardinality(Holders(o)) \in Nat
    BY <1>2, Zenon DEF Counting
  <1> QED BY <1>1, <1>3, Zenon

\* Thread t gives up its reference to o.
LEMMA HolderDrop ==
    ASSUME Counting, NEW t \in Thread, OthersStay(t), NEW o \in Thread,
           pc[t] \in Holding, obj[t] = o, pc'[t] \notin Holding
    PROVE  /\ \A x \in Thread \ {o} : Holders(x)' = Holders(x)
           /\ Cardinality(Holders(o)') = Cardinality(Holders(o)) - 1
           /\ Cardinality(Holders(o)') \in Nat /\ Cardinality(Holders(o)) \in Nat
           /\ t \in Holders(o)
           /\ Cardinality(Holders(o)') = 0 <=> Holders(o)' = {}
  <1>1. ASSUME NEW x PROVE Holders(x)' = IF x = o THEN Holders(x) \ {t} ELSE Holders(x)
    <2>1. ASSUME NEW s \in Thread \ {t}
          PROVE  (obj'[s] = x /\ pc'[s] \in Holding) <=> (obj[s] = x /\ pc[s] \in Holding)
      BY Zenon DEF OthersStay, Holding
    <2> QED BY <2>1, Zenon DEF Holders, Holding
  <1>2. t \in Holders(o) /\ Holders(o) \in SUBSET Thread /\ Holders(o) \ {t} \in SUBSET Thread
    BY Zenon DEF Holders, Holding
  <1>3. /\ Cardinality(Holders(o) \ {t}) = Cardinality(Holders(o)) - 1
        /\ Cardinality(Holders(o) \ {t}) \in Nat /\ Cardinality(Holders(o)) \in Nat
        /\ Cardinality(Holders(o) \ {t}) = 0 <=> Holders(o) \ {t} = {}
    BY <1>2, Zenon DEF Counting
  <1> QED BY <1>1, <1>2, <1>3, Zenon

\* _pthread_decimate and pthread_join take an object from the list, and with it the
\* reference that is not counted.
LEMMA RemoveLeak ==
    ASSUME IInv, LeakInv, Counting, NEW t \in Thread, DecimateRemove(t) \/ JoinRemove(t)
    PROVE  LeakInv'
  <1>1. /\ pc \in [Thread -> PC] /\ obj \in [Thread -> Thread \cup {NoThread}]
        /\ list \in Seq(Thread) /\ NoDuplicates(list) /\ refs \in [Thread -> Int]
    BY Zenon DEF IInv, TypeOK, ListInv
  <1>2. PICK o \in Listed :
           /\ pc[t] \in {"scan", "remove"} /\ pc' = [pc EXCEPT ![t] = "unref"] /\ obj'[t] = o
           /\ \A s \in Thread \ {t} : obj'[s] = obj[s]
           /\ list' = dll_remove(list, o) /\ refs' = refs /\ mem' = mem
    <2>1. CASE DecimateRemove(t)
      <3>1. cursor[t] \in DOMAIN list
        BY <1>1, <2>1 DEF DecimateRemove, At, IInv, ScanInv
      <3> QED BY <1>1, <2>1, <3>1, Zenon DEF DecimateRemove, At, Goto, Listed
    <2>2. CASE JoinRemove(t)
      <3>1. obj[t] \in Listed
        BY <2>2 DEF JoinRemove, At, IInv, JoinInv, Claiming
      <3> QED BY <1>1, <2>2, <3>1, Zenon DEF JoinRemove, At, Goto
    <2> QED BY <2>1, <2>2
  <1>3. o \in Thread
    BY <1>1 DEF Listed
  <1>4. Listed' = Listed \ {o}
    <2>1. Listed = Elements(list) /\ Listed' = Elements(list')
      BY Zenon DEF Listed, Elements
    <2>2. Elements(dll_remove(list, o)) = Elements(list) \ {o}
      BY <1>1, RemoveLemma, Zenon
    <2> QED BY <1>2, <2>1, <2>2, Zenon
  <1>5. pc'[t] = "unref" /\ \A s \in Thread \ {t} : pc'[s] = pc[s]
    BY <1>1, <1>2, Zenon
  <1>6. OthersStay(t)
    BY <1>2, <1>5, Zenon DEF OthersStay
  <1>7. pc[t] \notin Holding /\ pc[t] # "free" /\ "unref" \in Holding
    BY <1>2 DEF Holding
  <1>8. /\ \A x \in Thread \ {o} : Holders(x)' = Holders(x)
        /\ Cardinality(Holders(o)') = Cardinality(Holders(o)) + 1
        /\ Cardinality(Holders(o)) \in Nat /\ Holders(o)' # {}
    BY <1>2, <1>3, <1>5, <1>6, <1>7, HolderGain, Zenon
  <1>9. \A x : Freed(x) => Freed(x)'
    BY <1>6, <1>7, FreersStay, Zenon
  <1>10. refs[o] <= Cardinality(Holders(o)) => refs'[o] <= Cardinality(Holders(o)') - 1
    BY <1>1, <1>2, <1>3, <1>8
  <1>11. Accounted(o) => Accounted(o)'
    BY <1>2, <1>4, <1>8, <1>10, Zenon DEF Accounted
  <1> QED BY <1>2, <1>3, <1>4, <1>6, <1>8, <1>9, <1>11, OneObject, Zenon

\* A sender of signals takes a reference to a listed object, and counts it.
LEMMA SignalLeak ==
    ASSUME IInv, LeakInv, Counting, NEW t \in Thread, __sig_generate(t) \/ CancelEach(t)
    PROVE  LeakInv'
  <1>1. /\ pc \in [Thread -> PC] /\ obj \in [Thread -> Thread \cup {NoThread}]
        /\ list \in Seq(Thread) /\ refs \in [Thread -> Int]
    BY Zenon DEF IInv, TypeOK
  <1>2. CASE CancelEach(t) /\ pc' = pc
    <2>1. pc[t] = "everyone" /\ refs' = refs /\ obj' = obj /\ mem' = mem /\ list' = list
      <3>1. pc[t] = "everyone" => [pc EXCEPT ![t] = "unref"][t] # pc[t]
        BY <1>1
      <3>2. pc[t] = "everyone" => [pc EXCEPT ![t] = "unref"] # pc
        BY <3>1, Zenon
      <3> QED BY <1>2, <3>2, Zenon DEF CancelEach, At, Goto
    <2>2. Listed' = Listed
      BY <2>1, Zenon DEF Listed
    <2>3. pc' = [pc EXCEPT ![t] = "everyone"]
      BY <1>1, <1>2, <2>1
    <2> QED BY <2>1, <2>2, <2>3, ElsewhereLeak, Zenon DEF Elsewhere
  <1>3. CASE __sig_generate(t) \/ (CancelEach(t) /\ pc' # pc)
    <2>1. PICK o \in Listed, l \in {"kill", "unref"} :
             /\ pc[t] \in {"run", "everyone"} /\ pc' = [pc EXCEPT ![t] = l]
             /\ refs' = [refs EXCEPT ![o] = @ + 1] /\ obj' = [obj EXCEPT ![t] = o]
             /\ mem' = mem /\ list' = list
      <3>1. CASE __sig_generate(t)
        BY <3>1, Zenon DEF __sig_generate, At, Goto
      <3>2. CASE CancelEach(t) /\ pc' # pc
        BY <3>2, Zenon DEF CancelEach, At, Goto, Listed
      <3> QED BY <1>3, <3>1, <3>2
    <2>2. o \in Thread
      BY <1>1 DEF Listed
    <2>3. Listed' = Listed
      BY <2>1, Zenon DEF Listed
    <2>4. /\ pc'[t] = l /\ \A s \in Thread \ {t} : pc'[s] = pc[s]
          /\ obj'[t] = o /\ \A s \in Thread \ {t} : obj'[s] = obj[s]
          /\ \A x \in Thread \ {o} : refs'[x] = refs[x]
      BY <1>1, <2>1, Zenon
    <2>5. refs'[o] = refs[o] + 1 /\ refs[o] \in Int
      BY <1>1, <2>1, <2>2
    <2>6. OthersStay(t)
      BY <2>1, <2>4, Zenon DEF OthersStay
    <2>7. pc[t] \notin Holding /\ pc[t] # "free" /\ l \in Holding
      BY <2>1 DEF Holding
    <2>8. /\ \A x \in Thread \ {o} : Holders(x)' = Holders(x)
          /\ Cardinality(Holders(o)') = Cardinality(Holders(o)) + 1
          /\ Cardinality(Holders(o)) \in Nat /\ Holders(o)' # {}
      BY <2>2, <2>4, <2>6, <2>7, HolderGain, Zenon
    <2>9. \A x : Freed(x) => Freed(x)'
      BY <2>6, <2>7, FreersStay, Zenon
    <2>10. refs[o] <= Cardinality(Holders(o)) => refs'[o] <= Cardinality(Holders(o)')
      BY <2>5, <2>8
    <2>11. Accounted(o) => Accounted(o)'
      BY <2>1, <2>3, <2>10, Zenon DEF Accounted
    <2> QED BY <2>1, <2>2, <2>3, <2>4, <2>6, <2>8, <2>9, <2>11, OneObject, Zenon
  <1> QED BY <1>2, <1>3

\* _pthread_unref: the last one to drop a reference frees the object.
LEMMA DerefLeak ==
    ASSUME IInv, IInv', LeakInv, Counting, NEW t \in Thread, DerefLoad(t) \/ DerefSub(t)
    PROVE  LeakInv'
  <1>1. /\ pc \in [Thread -> PC] /\ obj \in [Thread -> Thread \cup {NoThread}]
        /\ refs \in [Thread -> Int] /\ ret[t] \in Return
    BY Zenon DEF IInv, TypeOK
  <1>2. pc[t] \in {"unref", "sub"} /\ mem' = mem /\ list' = list
    BY Zenon DEF DerefLoad, DerefSub, At, heap
  <1>3. PICK o \in Thread : o = obj[t]
    BY <1>2 DEF IInv, UnbornInv, Touching
  <1>4. Listed' = Listed
    BY <1>2, Zenon DEF Listed
  <1>5. PICK l : pc' = [pc EXCEPT ![t] = l]
    BY Zenon DEF DerefLoad, DerefSub, ReturnFrom, Goto
  <1>6. /\ pc'[t] = l /\ \A s \in Thread \ {t} : pc'[s] = pc[s]
        /\ \A s \in Thread \ {t} : obj'[s] = obj[s]
    BY <1>1, <1>5, Zenon DEF DerefLoad, DerefSub, Forget, local
  <1>7. OthersStay(t)
    BY <1>2, <1>6 DEF OthersStay
  <1>8. pc[t] \in Holding /\ pc[t] # "free"
    BY <1>2 DEF Holding
  <1>9. \A x : Freed(x) => Freed(x)'
    BY <1>7, <1>8, FreersStay, Zenon
  <1>10. CASE refs[o] = 0
    <2>1. l = "free" /\ obj' = obj
      BY <1>1, <1>3, <1>5, <1>6, <1>10 DEF DerefLoad, DerefSub, Goto, local
    <2>2. l \notin Holding
      BY <2>1 DEF Holding
    <2>3. \A x \in Thread \ {o} : Holders(x)' = Holders(x) /\ refs'[x] = refs[x]
      <3>1. \A x \in Thread \ {o} : Holders(x)' = Holders(x)
        BY <1>3, <1>6, <1>7, <1>8, <2>2, HolderDrop, Zenon
      <3>2. \A x \in Thread \ {o} : refs'[x] = refs[x]
        BY <1>1, <1>3, Zenon DEF DerefLoad, DerefSub, heap
      <3> QED BY <3>1, <3>2, Zenon
    <2>4. pc'[t] = "free" /\ obj'[t] = o
      BY <1>3, <1>6, <2>1
    <2>5. Freed(o)'
      BY <2>4, Zenon DEF Freed
    <2>6. o \notin Listed'
      BY <1>3, <2>4, Zenon DEF IInv, FreeInv
    <2>7. Accounted(o)'
      BY <2>5, <2>6, Zenon DEF Accounted
    <2> QED BY <1>2, <1>3, <1>4, <1>7, <1>9, <2>3, <2>7, OneObject, Zenon
  <1>11. CASE refs[o] # 0 /\ DerefLoad(t)
    <2>1. l = "sub" /\ obj' = obj /\ refs' = refs
      BY <1>1, <1>3, <1>5, <1>6, <1>11 DEF DerefLoad, Goto, local, heap
    <2>2. l \in Holding
      BY <2>1 DEF Holding
    <2> QED BY <1>2, <1>4, <1>6, <1>7, <1>8, <2>1, <2>2, QuietLeak, Zenon
  <1>12. CASE refs[o] # 0 /\ DerefSub(t)
    <2>1. /\ l \in Return \cup {"decimate"} /\ refs' = [refs EXCEPT ![o] = @ - 1]
      BY <1>1, <1>3, <1>5, <1>6, <1>12 DEF DerefSub, ReturnFrom, Goto
    <2>2. l \notin Holding
      BY <2>1 DEF Holding, Return
    <2>3. /\ refs'[o] = refs[o] - 1 /\ refs[o] \in Int
          /\ \A x \in Thread \ {o} : refs'[x] = refs[x]
      BY <1>1, <1>3, <2>1
    <2>4. /\ \A x \in Thread \ {o} : Holders(x)' = Holders(x)
          /\ Cardinality(Holders(o)') = Cardinality(Holders(o)) - 1
          /\ Cardinality(Holders(o)') \in Nat /\ Cardinality(Holders(o)) \in Nat
          /\ t \in Holders(o)
          /\ Cardinality(Holders(o)') = 0 <=> Holders(o)' = {}
      BY <1>3, <1>6, <1>7, <1>8, <2>2, HolderDrop, Zenon
    <2>5. refs[o] >= Cardinality(Holders(o)) - 1
      BY <1>3, <2>4, Zenon DEF IInv, RefInv
    <2>6. ~Freed(o)
      BY <1>3, <2>4, Zenon DEF IInv, FreeInv, Freed
    <2>7. refs[o] <= Cardinality(Holders(o)) => refs'[o] <= Cardinality(Holders(o)')
      BY <2>3, <2>4
    <2>8. refs[o] <= Cardinality(Holders(o)) - 1 =>
             Holders(o)' # {} /\ refs'[o] <= Cardinality(Holders(o)') - 1
      BY <1>12, <2>3, <2>4, <2>5
    <2>9. Accounted(o) => Accounted(o)'
      BY <1>2, <1>4, <2>6, <2>7, <2>8, Zenon DEF Accounted
    <2> QED BY <1>2, <1>3, <1>4, <1>7, <1>9, <2>3, <2>4, <2>9, OneObject, Zenon
  <1> QED BY <1>10, <1>11, <1>12

\* _pthread_free, and pthread_create when clone() fails, give the memory back.
LEMMA FreeLeak ==
    ASSUME IInv, LeakInv, NEW t \in Thread, Free(t) \/ CloneFail(t)
    PROVE  LeakInv'
  <1>0. Freeing(t) \/ CloneFail(t)
    BY FreePasses, Zenon
  <1>1. /\ pc \in [Thread -> PC] /\ obj \in [Thread -> Thread \cup {NoThread}]
        /\ mem \in [Thread -> {"static", "none", "live", "freed"}]
        /\ list \in Seq(Thread) /\ NoDuplicates(list)
    BY Zenon DEF IInv, TypeOK, ListInv
  <1>2. PICK l \in {"decimate", "run"} :
           /\ pc[t] \in {"free", "clone"} /\ pc' = [pc EXCEPT ![t] = l] /\ refs' = refs
           /\ obj' = [obj EXCEPT ![t] = NoThread]
    BY <1>0, Zenon DEF Freeing, CloneFail, Forget, At, Goto
  <1>3. PICK o \in Thread : o = obj[t]
    BY <1>2 DEF IInv, UnbornInv, Touching
  <1>4. /\ mem'[o] # "live" /\ \A x \in Thread \ {o} : mem'[x] = mem[x]
    BY <1>0, <1>1, <1>3 DEF Freeing, CloneFail
  <1>5. Listed' = Listed \ {o}
    <2>1. Listed = Elements(list) /\ Listed' = Elements(list')
      BY Zenon DEF Listed, Elements
    <2>2. CASE CloneFail(t)
      <3>1. Elements(dll_remove(list, o)) = Elements(list) \ {o}
        BY <1>1, RemoveLemma, Zenon
      <3> QED BY <1>3, <2>1, <2>2, <3>1, Zenon DEF CloneFail
    <2>3. CASE Freeing(t)
      <3>1. o \notin Listed
        BY <1>3, <2>3, Zenon DEF IInv, FreeInv, Freeing, At
      <3> QED BY <2>1, <2>3, <3>1, Zenon DEF Freeing
    <2> QED BY <1>0, <2>2, <2>3
  <1>6. /\ pc'[t] = l /\ \A s \in Thread \ {t} : pc'[s] = pc[s]
        /\ \A s \in Thread \ {t} : obj'[s] = obj[s]
    BY <1>1, <1>2, Zenon
  <1>7. OthersStay(t)
    BY <1>2, <1>6 DEF OthersStay
  <1>8. pc[t] \notin Holding /\ l \notin Holding
    BY <1>2 DEF Holding
  <1>9. \A x : Holders(x)' = Holders(x)
    BY <1>6, <1>7, <1>8, HoldersStay, Zenon
  <1>10. \A x \in Thread \ {o} : Freed(x) => Freed(x)'
    BY <1>3, <1>6, Zenon DEF Freed
  <1>11. Accounted(o)'
    BY <1>4, <1>5, Zenon DEF Accounted
  <1> QED BY <1>2, <1>3, <1>4, <1>5, <1>7, <1>9, <1>10, <1>11, OneObject, Zenon

\* A new object is listed with no reference counted.
LEMMA CreateLeak ==
    ASSUME IInv, LeakInv, Counting, NEW t \in Thread, NEW u \in Thread, NEW d, CreateList(t, u, d)
    PROVE  LeakInv'
  <1>1. /\ pc \in [Thread -> PC] /\ obj \in [Thread -> Thread \cup {NoThread}]
        /\ mem \in [Thread -> {"static", "none", "live", "freed"}]
        /\ list \in Seq(Thread) /\ NoDuplicates(list)
    BY Zenon DEF IInv, TypeOK, ListInv
  <1>2. /\ pc[t] = "create" /\ pc' = [pc EXCEPT ![t] = "clone"] /\ refs' = refs
        /\ obj' = [obj EXCEPT ![t] = u] /\ mem' = [mem EXCEPT ![u] = "live"]
        /\ list' = dll_make_first(list, u) /\ mem[u] = "none"
    BY Zenon DEF CreateList, At, Goto
  <1>3. u \notin Listed /\ refs[u] = 0
    BY <1>2 DEF IInv, ListInv, Allocated, AliveInv
  <1>4. Listed' = Listed \cup {u}
    <2>1. Listed = Elements(list) /\ Listed' = Elements(list')
      BY Zenon DEF Listed, Elements
    <2> QED BY <1>1, <1>2, <1>3, <2>1, FirstLemma, Zenon
  <1>5. /\ pc'[t] = "clone" /\ \A s \in Thread \ {t} : pc'[s] = pc[s]
        /\ \A s \in Thread \ {t} : obj'[s] = obj[s]
        /\ \A x \in Thread \ {u} : mem'[x] = mem[x]
    BY <1>1, <1>2, Zenon
  <1>6. OthersStay(t)
    BY <1>2, <1>5 DEF OthersStay
  <1>7. pc[t] \notin Holding /\ pc[t] # "free" /\ "clone" \notin Holding
    BY <1>2 DEF Holding
  <1>8. \A x : Holders(x)' = Holders(x)
    BY <1>5, <1>6, <1>7, HoldersStay, Zenon
  <1>9. \A x : Freed(x) => Freed(x)'
    BY <1>6, <1>7, FreersStay, Zenon
  <1>10. Cardinality(Holders(u)') \in Nat
    <2>1. Holders(u)' \in SUBSET Thread
      BY Zenon DEF Holders
    <2> QED BY <2>1, Zenon DEF Counting
  <1>11. refs'[u] <= Cardinality(Holders(u)')
    BY <1>2, <1>3, <1>10
  <1>12. Accounted(u)'
    BY <1>4, <1>11, Zenon DEF Accounted
  <1> QED BY <1>2, <1>4, <1>5, <1>6, <1>8, <1>9, <1>12, OneObject, Zenon

\* In the child of a fork nobody is left to drop a reference; if no thread vanished,
\* there was none to drop.
LEMMA ForkLeak ==
    ASSUME IInv, LeakInv, NEW t \in Thread, ForkChild(t)
    PROVE  LeakInv'
  <1>1. /\ pc \in [Thread -> PC] /\ list \in Seq(Thread) /\ NoDuplicates(list)
    BY Zenon DEF IInv, TypeOK, ListInv
  <1>2. /\ pc[t] = "fork" /\ refs' = refs /\ mem' = mem
        /\ list' = dll_make_first(dll_remove(list, t), t)
        /\ pc' = [u \in Thread |-> IF u = t THEN "run"
                                   ELSE IF pc[u] \in {"unborn", "dead"} THEN pc[u]
                                   ELSE "vanished"]
    BY Zenon DEF ForkChild, At
  <1>3. Listed' = Listed
    <2>1. Listed = Elements(list) /\ Listed' = Elements(list')
      BY Zenon DEF Listed, Elements
    <2>2. t \in Elements(list)
      BY <1>2, <2>1 DEF IInv, AliveInv, Gone
    <2> QED BY <1>1, <1>2, <2>1, <2>2, MoveFirstLemma, Zenon
  <1> SUFFICES ASSUME \A s \in Thread : pc'[s] # "vanished", NEW x \in Thread
               PROVE  Accounted(x)'
    BY Zenon DEF LeakInv
  <1>4. \A s \in Thread : pc[s] \in {"fork", "unborn", "dead"}
    BY <1>2, Zenon
  <1>5. \A s \in Thread : pc'[s] \in {"run", "unborn", "dead"}
    BY <1>2, Zenon
  <1>6. Holders(x) = {} /\ Holders(x)' = {} /\ ~Freed(x)
    BY <1>4, <1>5 DEF Holders, Freed
  <1>7. \A s \in Thread : pc[s] # "vanished"
    BY <1>4
  <1>8. Accounted(x)
    BY <1>7, Zenon DEF LeakInv
  <1> QED BY <1>2, <1>3, <1>6, <1>8, Zenon DEF Accounted

\* No reference is counted when the process starts.
LEMMA InitLeak ==
    ASSUME Init
    PROVE  LeakInv
  <1> USE ThreadAssumption DEF Init
  <1>1. Listed = {Main}
    BY DEF Listed
  <1>2. ASSUME NEW u \in Thread PROVE Accounted(u)
    <2>1. Holders(u) = {} /\ refs[u] = 0 /\ (mem[u] = "live" => u \in Listed)
      BY <1>1 DEF Holders
    <2>2. Cardinality(Holders(u)) \in Nat
      BY <2>1, CardLemma DEF Counting
    <2> QED BY <2>1, <2>2 DEF Accounted
  <1> QED BY <1>2, Zenon DEF LeakInv

\* Nothing is lost when nothing changes.
LEMMA StutterLeak ==
    ASSUME LeakInv, UNCHANGED vars
    PROVE  LeakInv'
  <1>1. UNCHANGED <<list, mem, refs, pc, obj>>
    BY Zenon DEF vars, heap, local
  <1>2. Listed' = Listed /\ \A x : Holders(x)' = Holders(x) /\ (Freed(x)' <=> Freed(x))
    BY <1>1, Zenon DEF Listed, Holders, Freed
  <1> QED BY <1>1, <1>2, Zenon DEF LeakInv, Accounted

\* Every step of every thread accounts for the references it moves.
LEMMA NextLeak ==
    ASSUME ~ReclaimRoot, IInv, LeakInv, [Next]_vars
    PROVE  LeakInv'
  <1>0. IInv' /\ Counting
    BY NextLemma, CardLemma, Zenon
  <1>1. ASSUME NEW t \in Thread,
               \/ DecimateLock(t) \/ DecimateStop(t) \/ DecimateSkip(t) \/ DecimateRemove(t)
               \/ DerefLoad(t) \/ DerefSub(t) \/ Free(t)
        PROVE  LeakInv'
    BY <1>0, <1>1, ElsewhereSteps, RemoveLeak, DerefLeak, FreeLeak, ZenonT(30)
  <1>2. ASSUME NEW t \in Thread, NEW u \in Thread,
               \/ CreateCall(t) \/ CreateFail(t) \/ Clone(t) \/ CloneFail(t)
               \/ CreateList(t, u, Joinable) \/ CreateList(t, u, Detached) \/ CreateRefused(t, u)
        PROVE  LeakInv'
    BY <1>0, <1>2, ElsewhereSteps, ListKeptSteps, FreeLeak, CreateLeak, ZenonT(30)
  <1>3. ASSUME NEW t \in Thread,
               \/ ExitCall(t) \/ ExitFinalize(t) \/ ExitTransition(t) \/ ExitZombify(t)
               \/ ExitSurvivor(t) \/ ExitLeave(t)
        PROVE  LeakInv'
    BY <1>3, ElsewhereSteps, ListKeptSteps, ZenonT(30)
  <1>4. ASSUME NEW t \in Thread, NEW u \in Thread,
               \/ JoinWait(t) \/ JoinGiveUp(t) \/ JoinRemove(t) \/ DetachZombify(t)
               \/ JoinCall(t, u) \/ DetachCall(t, u)
        PROVE  LeakInv'
    BY <1>0, <1>4, ElsewhereSteps, ListKeptSteps, RemoveLeak, ZenonT(30)
  <1>5. ASSUME NEW t \in Thread,
               \/ __sig_generate(t) \/ SigKiller(t)
               \/ CancelEveryone(t) \/ CancelEach(t) \/ CancelDone(t)
               \/ ForkPrepare(t) \/ ForkParent(t) \/ ForkChild(t)
        PROVE  LeakInv'
    BY <1>0, <1>5, ElsewhereSteps, ListKeptSteps, SignalLeak, ForkLeak, ZenonT(30)
  <1>6. ASSUME Finished PROVE LeakInv'
    BY <1>6, StutterLeak, Zenon DEF Finished
  <1>7. ASSUME UNCHANGED vars PROVE LeakInv'
    BY <1>7, StutterLeak, Zenon
  <1> QED BY <1>1, <1>2, <1>3, <1>4, <1>5, <1>6, <1>7, ZenonT(60) DEF Next

\* IInv and LeakInv hold in every reachable state, for any number of threads, signals and
\* forks, if the first thread is neither joined nor detached.
THEOREM InvariantsHold ==
    ASSUME ~ReclaimRoot
    PROVE  Spec => []Invariants
  <1>1. Init => LeakInv
    BY InitLeak
  <1>2. IInv /\ LeakInv /\ [Next]_vars => LeakInv'
    BY NextLeak
  <1>3. Invariants <=> IInv /\ LeakInv
    BY DEF Invariants
  <1> QED BY <1>1, <1>2, <1>3, Inductive, PTL DEF Spec

\* A thread object that left the list is freed, or somebody is about to drop a reference
\* to it: _pthread_unref never loses the last reference, whatever joins, detaches, signals and
\* exits race for it.
THEOREM NoLeakHolds ==
    ASSUME ~ReclaimRoot
    PROVE  Spec => []NoLeak
  <1>1. ASSUME Invariants PROVE NoLeak
    <2> SUFFICES ASSUME \A t \in Thread : pc[t] # "vanished",
                        NEW u \in Thread, mem[u] = "live", u \notin Listed
                 PROVE  \E t \in Thread : obj[t] = u /\ pc[t] \in Dropping \cup {"kill"}
      BY Zenon DEF NoLeak
    <2>1. Freed(u) \/ Holders(u) # {}
      BY <1>1, Zenon DEF Invariants, LeakInv, Accounted
    <2> QED BY <2>1, Zenon DEF Freed, Holders, Dropping
  <1> QED BY <1>1, InvariantsHold, PTL
=============================================================================
