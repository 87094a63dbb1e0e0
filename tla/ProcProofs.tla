------------------------------ MODULE ProcProofs ------------------------------
(***************************************************************************)
(* The subprocess tracker for any callers, children, slots and calls: the  *)
(* invariant of ProcStepProofs holds in every state, and with it every     *)
(* object is in one place, its waiters are counted, its handle is closed   *)
(* once, and the exit of its process is reported once.                     *)
(***************************************************************************)
EXTENDS ProcStepProofs, FiniteSetTheorems, TLAPS

----------------------------------------------------------------------------
(***************************************************************************)
(* Counting callers and objects.                                           *)
(***************************************************************************)
\* When no object is free there are no more objects than open handles.
LEMMA ObjectBound ==
    ASSUME Types, World, free = <<>>
    PROVE  used <= MaxHandle
  <1> DEFINE f == [o \in 1..used |-> handle[o]]
  <1>1. Listed(free) = {}
    BY ListEmpty, Zenon DEF Types, TLists
  <1>2. 1..used = Owned
    BY <1>1, Zenon DEF World, Places
  <1>3. \A o \in 1..used : handle[o] \in Handle
    BY <1>2, Zenon DEF World, Handles, Types, TKernel
  <1>4. f \in [1..used -> Handle]
    BY <1>3, Zenon
  <1>5. \A x, y \in 1..used : x # y => f[x] # f[y]
    BY <1>2, Zenon DEF World, Handles
  <1> HIDE DEF f
  <1>6. used \in Nat /\ MaxHandle \in Nat
    BY ProcAssumption, Zenon DEF Types, TLists
  <1>7. IsFiniteSet(1..used) /\ Cardinality(1..used) = used
    BY <1>6, FS_Interval
  <1>8. IsFiniteSet(Handle) /\ Cardinality(Handle) = MaxHandle
    BY <1>6, FS_Interval DEF Handle
  <1>9. ~(Cardinality(Handle) < Cardinality(1..used))
    BY <1>4, <1>5, <1>7, <1>8, FS_PigeonHole, Zenon
  <1> QED BY <1>6, <1>7, <1>8, <1>9

\* Finitely many callers claim an object, or wait for any child.
LEMMA ClaimsFinite ==
    /\ \A o : IsFiniteSet(Claimants(o)) /\ Cardinality(Claimants(o)) \in Nat
    /\ IsFiniteSet(Anyone) /\ Cardinality(Anyone) \in Nat
  <1>1. \A o : Claimants(o) \in SUBSET Caller
    BY Zenon DEF Claimants
  <1>2. Anyone \in SUBSET Caller
    BY Zenon DEF Anyone
  <1> QED BY <1>1, <1>2, ProcAssumption, FS_Subset, FS_CardinalityType, Zenon

\* A step of t that makes a claim adds one to one count.
LEMMA ClaimMade ==
    ASSUME NEW t \in Caller, Alone(t), ~Claims(t), Claims(t)'
    PROVE  /\ \A o : Cardinality(Claimants(o)')
                        = Cardinality(Claimants(o)) + IF pr'[t] = o THEN 1 ELSE 0
           /\ Cardinality(Anyone') = Cardinality(Anyone) + IF want'[t] = AnyChild THEN 1 ELSE 0
  <1>1. \A u \in Caller : u # t => (Claims(u)' <=> Claims(u)) /\ pr'[u] = pr[u] /\ want'[u] = want[u]
    BY Zenon DEF Alone, Claims
  <1>2. ASSUME NEW o
        PROVE  Cardinality(Claimants(o)') = Cardinality(Claimants(o)) + IF pr'[t] = o THEN 1 ELSE 0
    <2>1. t \notin Claimants(o)
      BY Zenon DEF Claimants
    <2>2. CASE pr'[t] = o
      <3>1. Claimants(o)' = Claimants(o) \cup {t}
        BY <1>1, <2>2, Zenon DEF Claimants
      <3>2. Cardinality(Claimants(o) \cup {t}) = Cardinality(Claimants(o)) + 1
        BY <2>1, ClaimsFinite, FS_AddElement, Zenon
      <3> QED BY <2>2, <3>1, <3>2, Zenon
    <2>3. CASE pr'[t] # o
      <3>1. Claimants(o)' = Claimants(o)
        BY <1>1, <2>3, Zenon DEF Claimants
      <3>2. Cardinality(Claimants(o)) + 0 = Cardinality(Claimants(o))
        BY ClaimsFinite
      <3> QED BY <2>3, <3>1, <3>2, Zenon
    <2> QED BY <2>2, <2>3, Zenon
  <1>3. t \notin Anyone
    BY Zenon DEF Anyone
  <1>4. CASE want'[t] = AnyChild
    <2>1. Anyone' = Anyone \cup {t}
      BY <1>1, <1>4, Zenon DEF Anyone
    <2>2. Cardinality(Anyone \cup {t}) = Cardinality(Anyone) + 1
      BY <1>3, ClaimsFinite, FS_AddElement, Zenon
    <2> QED BY <1>2, <1>4, <2>1, <2>2, Zenon
  <1>5. CASE want'[t] # AnyChild
    <2>1. Anyone' = Anyone
      BY <1>1, <1>5, Zenon DEF Anyone
    <2>2. Cardinality(Anyone) + 0 = Cardinality(Anyone)
      BY ClaimsFinite
    <2> QED BY <1>2, <1>5, <2>1, <2>2, Zenon
  <1> QED BY <1>4, <1>5, Zenon

\* A step of t that gives its claim up takes one from one count.
LEMMA ClaimDropped ==
    ASSUME NEW t \in Caller, Alone(t), Claims(t), ~Claims(t)'
    PROVE  /\ \A o : Cardinality(Claimants(o)')
                        = Cardinality(Claimants(o)) - IF pr[t] = o THEN 1 ELSE 0
           /\ Cardinality(Anyone') = Cardinality(Anyone) - IF want[t] = AnyChild THEN 1 ELSE 0
           /\ Cardinality(Claimants(pr[t])) > 0
           /\ want[t] = AnyChild => Cardinality(Anyone) > 0
  <1>1. \A u \in Caller : u # t => (Claims(u)' <=> Claims(u)) /\ pr'[u] = pr[u] /\ want'[u] = want[u]
    BY Zenon DEF Alone, Claims
  <1>2. ASSUME NEW o
        PROVE  Cardinality(Claimants(o)') = Cardinality(Claimants(o)) - IF pr[t] = o THEN 1 ELSE 0
    <2>2. CASE pr[t] = o
      <3>1. Claimants(o)' = Claimants(o) \ {t} /\ t \in Claimants(o)
        BY <1>1, <2>2, Zenon DEF Claimants
      <3>2. Cardinality(Claimants(o) \ {t}) = Cardinality(Claimants(o)) - 1
        BY <3>1, ClaimsFinite, FS_RemoveElement, Zenon
      <3> QED BY <2>2, <3>1, <3>2, Zenon
    <2>3. CASE pr[t] # o
      <3>1. Claimants(o)' = Claimants(o)
        BY <1>1, <2>3, Zenon DEF Claimants
      <3>2. Cardinality(Claimants(o)) - 0 = Cardinality(Claimants(o))
        BY ClaimsFinite
      <3> QED BY <2>3, <3>1, <3>2, Zenon
    <2> QED BY <2>2, <2>3, Zenon
  <1>3. Cardinality(Anyone') = Cardinality(Anyone) - IF want[t] = AnyChild THEN 1 ELSE 0
    <2>1. CASE want[t] = AnyChild
      <3>1. Anyone' = Anyone \ {t} /\ t \in Anyone
        BY <1>1, <2>1, Zenon DEF Anyone
      <3>2. Cardinality(Anyone \ {t}) = Cardinality(Anyone) - 1
        BY <3>1, ClaimsFinite, FS_RemoveElement, Zenon
      <3> QED BY <2>1, <3>1, <3>2, Zenon
    <2>2. CASE want[t] # AnyChild
      <3>1. Anyone' = Anyone
        BY <1>1, <2>2, Zenon DEF Anyone
      <3>2. Cardinality(Anyone) - 0 = Cardinality(Anyone)
        BY ClaimsFinite
      <3> QED BY <2>2, <3>1, <3>2, Zenon
    <2> QED BY <2>1, <2>2, Zenon
  <1>4. Cardinality(Claimants(pr[t])) > 0
    <2>1. Claimants(pr[t]) # {}
      BY Zenon DEF Claimants
    <2>2. Cardinality(Claimants(pr[t])) # 0
      BY <2>1, ClaimsFinite, FS_EmptySet, Zenon
    <2> QED BY <2>2, ClaimsFinite
  <1>5. want[t] = AnyChild => Cardinality(Anyone) > 0
    <2>1. want[t] = AnyChild => Anyone # {}
      BY Zenon DEF Anyone
    <2>2. want[t] = AnyChild => Cardinality(Anyone) # 0
      BY <2>1, ClaimsFinite, FS_EmptySet, Zenon
    <2> QED BY <2>2, ClaimsFinite
  <1> QED BY <1>2, <1>3, <1>4, <1>5, Zenon


\* What the proofs of the steps assume of the counts.
LEMMA Counting ==
    ASSUME IInv
    PROVE  Counted /\ Bounded /\ \A t \in Caller : Made(t) /\ Dropped(t)
  <1>1. Counted
    BY ClaimsFinite, Zenon DEF Counted
  <1>2. Bounded
    BY ObjectBound, Zenon DEF Bounded, IInv
  <1>3. ASSUME NEW t \in Caller PROVE Made(t)
    BY ClaimMade, Zenon DEF Made
  <1>4. ASSUME NEW t \in Caller PROVE Dropped(t)
    BY ClaimDropped, Zenon DEF Dropped
  <1> QED BY <1>1, <1>2, <1>3, <1>4, Zenon

----------------------------------------------------------------------------
(***************************************************************************)
(* The invariant.                                                          *)
(***************************************************************************)
\* The invariant holds in every state.
LEMMA Invariance == Spec => []IInv
  <1>1. Init => IInv /\ Awake
    BY InitLemma, FS_EmptySet, Zenon
  <1>2. (IInv /\ Awake) /\ [Next]_vars => (IInv /\ Awake)'
    BY Counting, NextLemma, StutterLemma, Zenon
  <1> QED BY <1>1, <1>2, PTL DEF Spec

----------------------------------------------------------------------------
(***************************************************************************)
(* The properties.                                                         *)
(***************************************************************************)
\* The counts never exceed the number of threads that may wait.
LEMMA CountBounds ==
    ASSUME IInv
    PROVE  /\ Cardinality(Caller) \in Nat
           /\ waiters \in [Object -> 0..(Cardinality(Caller) + 1)]
           /\ anywaiters \in 0..Cardinality(Caller)
  <1>1. Counts /\ waiters \in [Object -> Nat]
    BY Zenon DEF IInv, Types, TObjects
  <1>2. Cardinality(Caller) \in Nat
    BY ProcAssumption, FS_CardinalityType, Zenon
  <1>3. \A o : Claimants(o) \in SUBSET Caller
    BY Zenon DEF Claimants
  <1>4. Anyone \in SUBSET Caller
    BY Zenon DEF Anyone
  <1>5. \A o : Cardinality(Claimants(o)) \in Nat /\ Cardinality(Claimants(o)) <= Cardinality(Caller)
    BY <1>3, ClaimsFinite, ProcAssumption, FS_Subset, Zenon
  <1>6. Cardinality(Anyone) \in Nat /\ Cardinality(Anyone) <= Cardinality(Caller)
    BY <1>4, ClaimsFinite, ProcAssumption, FS_Subset, Zenon
  <1>7. \A o : Watching(o) \in {0, 1}
    BY Zenon DEF Watching
  <1>8. \A o \in Object : waiters[o] = Cardinality(Claimants(o)) + Watching(o)
    BY <1>1, Zenon DEF Counts
  <1>9. \A o \in Object : waiters[o] \in 0..(Cardinality(Caller) + 1)
    BY <1>2, <1>5, <1>7, <1>8, SMT
  <1>10. anywaiters = Cardinality(Anyone)
    BY <1>1, Zenon DEF Counts
  <1>11. anywaiters \in 0..Cardinality(Caller)
    BY <1>2, <1>6, <1>10, SMT
  <1> QED BY <1>1, <1>2, <1>9, <1>11, Zenon

\* At any time, in the pool of any size and for any number of children and callers, a
\* struct Proc is in one of the lists of __proc, once, or with the thread that
\* spawns, and the list agrees with its status.
THEOREM OneListEach == Spec => []OnePlace
  <1>1. ASSUME IInv PROVE OnePlace
    <2>1. Types /\ Places
      BY <1>1, Zenon DEF IInv, World
    <2>2. TypeOK
      <3>1. \A s \in {list, zombies, free, wobj} : Listed(s) \subseteq Object
        BY <2>1, ListSubset, Zenon DEF Types, TLists, TThreads
      <3>2. used \in 0..(PoolSize + MaxHandle)
        BY <2>1, ProcAssumption, SMT DEF Types, TLists, Places
      <3>3. /\ waiters \in [Object -> 0..(Cardinality(Caller) + 1)]
            /\ anywaiters \in 0..Cardinality(Caller)
        BY <1>1, CountBounds, Zenon
      <3> QED BY <2>1, <3>1, <3>2, <3>3, Zenon
              DEF TypeOK, Types, TLists, TObjects, TKernel, TThreads, PC
    <2>3. \A s \in {list, zombies, free} : \A i, j \in DOMAIN s : s[i] = s[j] => i = j
      BY <2>1, Zenon DEF Types, TLists, NoDuplicates
    <2>4. /\ Tracked \cup Listed(free) \cup Launched = 1..used
          /\ Tracked \cap Listed(free) = {} /\ (Tracked \cup Listed(free)) \cap Launched = {}
      BY <2>1, Zenon DEF Places, Owned
    <2>5. /\ \A o \in Listed(list) : status[o] = "ALIVE"
          /\ \A o \in Listed(zombies) : status[o] = "ZOMBIE"
          /\ \A o \in undead : status[o] = "UNDEAD"
      BY <2>1, Zenon DEF Places
    <2> QED BY <2>2, <2>3, <2>4, <2>5, Zenon DEF OnePlace
  <1> QED BY <1>1, Invariance, PTL

\* Proc.waiters is exact for any number of callers: no thread in wait4(), and not the
\* worker, holds a pointer to an object that was freed, and an object whose
\* process was reaped is freed with its last waiter.
THEOREM WaitersCounted == Spec => []WaitersExact
  <1>1. ASSUME IInv PROVE WaitersExact
    <2>1. Counts /\ Locked
      BY <1>1, Zenon DEF IInv
    <2>2. wobj \in Seq(Object) /\ NoDuplicates(wobj)
      BY <1>1, Zenon DEF IInv, Types, TThreads
    <2>3. ASSUME NEW o PROVE Cardinality({i \in DOMAIN wobj : wobj[i] = o}) = Watching(o)
      <3>1. CASE o \in Listed(wobj)
        <4>1. PICK i \in DOMAIN wobj : wobj[i] = o
          BY <3>1, InList, Zenon
        <4>2. {j \in DOMAIN wobj : wobj[j] = o} = {i}
          BY <2>2, <4>1, Zenon DEF NoDuplicates
        <4>3. Cardinality({i}) = 1
          BY FS_Singleton, Zenon
        <4> QED BY <3>1, <4>2, <4>3, Zenon DEF Watching
      <3>2. CASE o \notin Listed(wobj)
        <4>1. {j \in DOMAIN wobj : wobj[j] = o} = {}
          BY <3>2, InList, Zenon
        <4>2. Cardinality({}) = 0
          BY FS_EmptySet, Zenon
        <4> QED BY <3>2, <4>1, <4>2, Zenon DEF Watching
      <3> QED BY <3>1, <3>2, Zenon
    <2>4. \A o \in Object : waiters[o] = Cardinality({t \in Caller : Claims(t) /\ pr[t] = o})
                                        + Cardinality({i \in DOMAIN wobj : wobj[i] = o})
      BY <2>1, <2>3, Zenon DEF Counts, Claimants
    <2>5. anywaiters = Cardinality({t \in Caller : Claims(t) /\ want[t] = AnyChild})
      BY <2>1, Zenon DEF Counts, Anyone
    <2>6. \A o \in Object : waiters[o] > 0 => o \in Tracked
      BY <2>1, Zenon DEF Counts
    <2>7. lock = NoOne => \A o \in undead : waiters[o] > 0
      BY <2>1, NobodyReaps, Zenon DEF Counts
    <2> QED BY <2>4, <2>5, <2>6, <2>7, Zenon DEF WaitersExact
  <1> QED BY <1>1, Invariance, PTL

\* CloseHandle is called on the handle of a child only by whoever takes the last
\* reference to it, so that none is used closed, closed twice or leaked.
THEOREM HandlesClosedOnce == Spec => []HandlesOwned
  <1>1. IInv => HandlesOwned
    BY Zenon DEF IInv, World, Handles, HandlesOwned, Owned
  <1> QED BY <1>1, Invariance, PTL

\* wait4() reports every child once, whatever the order in which the worker and the
\* callers learn of its exit, but for children that are dropped since SIGCHLD is ignored.
THEOREM ChildReportedOnce == Spec => []ReportedOnce
  <1>1. ASSUME IInv PROVE ReportedOnce
    <2>1. Handles /\ Reports
      BY <1>1, Zenon DEF IInv, World
    <2>2. \A o \in Listed(zombies) \cup undead : state[handle[o]] = "exited"
      BY <2>1, Zenon DEF Handles
    <2>3. ASSUME NEW p \in Born
          PROVE  LET tracked == \E o \in Listed(list) \cup Listed(zombies) \cup Launched : pid[o] = p
                 IN \/ reported[p] = IF tracked THEN 0 ELSE 1
                    \/ ignored /\ reported[p] = 0
      <3>1. CASE \E o \in Unreported : pid[o] = p
        BY <2>1, <3>1, Zenon DEF Reports, Unreported
      <3>2. CASE ~\E o \in Unreported : pid[o] = p
        BY <2>1, <2>3, <3>2, Zenon DEF Reports, Unreported
      <3> QED BY <3>1, <3>2, Zenon
    <2> QED BY <2>2, <2>3, Zenon DEF ReportedOnce
  <1> QED BY <1>1, Invariance, PTL

\* The event that wakes the callers of wait() is set exactly when there are zombies.
THEOREM ZombieEvent == Spec => []EventMatches
  <1>1. ASSUME IInv PROVE EventMatches
    <2>1. zombies \in Seq(Object) /\ (haszombies <=> Listed(zombies) # {})
      BY <1>1, Zenon DEF IInv, World, Places, Types, TLists
    <2>2. zombies = <<>> <=> Listed(zombies) = {}
      BY <2>1, ListEmpty, Zenon
    <2> QED BY <2>1, <2>2, Zenon DEF EventMatches
  <1> QED BY <1>1, Invariance, PTL
=============================================================================
