----------------------------- MODULE ProcStepProofs ---------------------------
(***************************************************************************)
(* The subprocess tracker for any callers, children, slots and calls: the  *)
(* places of the objects, the counts of their waiters, their handles, and  *)
(* what wait4() reports. One lemma per step of the worker, of a thread in  *)
(* wait4() or kill(), of a launch and of the kernel says that it keeps the *)
(* inductive invariant IInv; NextLemma puts them together. What the steps  *)
(* need to know about cardinalities is assumed there (Counted, Made,       *)
(* Dropped, Bounded) and proved in ProcProofs.                             *)
(***************************************************************************)
EXTENDS ProcTracker, DllProofs

\* The positions of a thread in wait4() or kill().
PC == {"idle", "check", "zombies", "enter", "blocked", "woke", "status", "unlocked", "kill"}

\* The types of the lists, the objects, the kernel and the threads.
TLists ==
    /\ list \in Seq(Object) /\ zombies \in Seq(Object) /\ free \in Seq(Object)
    /\ NoDuplicates(list) /\ NoDuplicates(zombies) /\ NoDuplicates(free)
    /\ undead \subseteq Object
    /\ used \in Nat

TObjects ==
    /\ status \in [Object -> {"ALIVE", "ZOMBIE", "UNDEAD"}]
    /\ waiters \in [Object -> Nat]
    /\ pid \in [Object -> Handle \cup {0}]
    /\ handle \in [Object -> Handle \cup {0}]

TKernel ==
    /\ ignored \in BOOLEAN
    /\ onbirth \in BOOLEAN /\ haszombies \in BOOLEAN
    /\ state \in [Handle -> {"none", "running", "exited", "execed"}]
    /\ successor \in [Handle -> Handle \cup {0}]
    /\ open \subseteq Handle
    /\ reported \in [Handle -> Nat]

TThreads ==
    /\ lock \in Caller \cup {NoOne, Worker}
    /\ spc \in {"idle", "launched"} /\ sobj \in Object \cup {0}
    /\ spc = "launched" => sobj \in Object
    /\ wpc \in {"assemble", "enter", "wait", "woke", "change", "raise", "panic"}
    /\ wobj \in Seq(Object) /\ NoDuplicates(wobj)
    /\ pc \in [Caller -> PC]
    /\ want \in [Caller -> Handle \cup {AnyChild}]
    /\ pr \in [Caller -> Object \cup {0}]

Types == TLists /\ TObjects /\ TKernel /\ TThreads

\* Where objects are.
Owned == Tracked \cup Launched

Places ==
    /\ used <= PoolSize + MaxHandle
    /\ Owned \cup Listed(free) = 1..used
    /\ Owned \cap Listed(free) = {} /\ Tracked \cap Launched = {}
    /\ \A o \in Listed(list) \cup Launched : status[o] = "ALIVE"
    /\ \A o \in Listed(zombies) : status[o] = "ZOMBIE"
    /\ \A o \in undead : status[o] = "UNDEAD"
    /\ haszombies <=> Listed(zombies) # {}

\* Who has the lock over several steps, and the object they work on.
Locked ==
    /\ lock = Worker <=> wpc = "change"
    /\ wpc = "change" => Len(wobj) = 1
    /\ wpc \in {"assemble", "raise"} => wobj = <<>>
    /\ \A t \in Caller :
          /\ lock = t => pc[t] \in {"zombies", "status"}
          /\ pc[t] = "status" => lock = t /\ want[t] # AnyChild /\ pr[t] \in Tracked

\* Who holds a pointer to an object, or waits for any child.
Claimants(o) == {t \in Caller : Claims(t) /\ pr[t] = o}
Watching(o) == IF o \in Listed(wobj) THEN 1 ELSE 0
Anyone == {t \in Caller : Claims(t) /\ want[t] = AnyChild}

Counts ==
    /\ \A o \in Object : waiters[o] = Cardinality(Claimants(o)) + Watching(o)
    /\ anywaiters = Cardinality(Anyone)
    /\ \A t \in Caller : /\ pc[t] \in {"idle", "kill"} => want[t] = AnyChild
                         /\ want[t] = AnyChild => pr[t] = 0
                         /\ (Claims(t) /\ want[t] # AnyChild) => pr[t] \in Object
    /\ \A o \in Object : waiters[o] > 0 => o \in Tracked
    /\ \A o \in undead : waiters[o] > 0 \/ \E t \in Caller : pc[t] = "status" /\ pr[t] = o

\* Handles and the processes behind them.
Processes ==
    /\ \A h \in Handle : state[h] = "none" =>
          h \notin open /\ reported[h] = 0 /\ \A g \in Handle : successor[g] # h
    /\ \A h \in Handle : successor[h] # 0 <=> state[h] = "execed"
    /\ \A g, h \in Handle : (successor[g] = successor[h] /\ successor[g] # 0) => g = h

Handles ==
    /\ \A o \in Owned : handle[o] \in open
    /\ \A o1, o2 \in Owned : handle[o1] = handle[o2] => o1 = o2
    /\ \A h \in open : \/ \E o \in Owned : handle[o] = h
                       \/ \E g \in open : successor[g] = h
    /\ \A g \in open : successor[g] # 0 =>
          successor[g] \in open /\ \A o \in Owned : handle[o] # successor[g]
    /\ \A o \in Listed(zombies) \cup undead : state[handle[o]] = "exited"
    /\ \A h \in Handle : state[h] = "running" => h \in open

\* Children that were not reported yet.
Unreported == Listed(list) \cup Listed(zombies) \cup Launched

Reports ==
    /\ \A o \in Unreported : pid[o] \in Born /\ reported[pid[o]] = 0
    /\ \A o1, o2 \in Unreported : pid[o1] = pid[o2] => o1 = o2
    /\ \A p \in Born : \/ \E o \in Unreported : pid[o] = p
                       \/ reported[p] = 1
                       \/ ignored /\ reported[p] = 0

World == Places /\ Processes /\ Handles /\ Reports

IInv == Types /\ World /\ Locked /\ Counts

----------------------------------------------------------------------------
(***************************************************************************)
(* Lists.                                                                  *)
(***************************************************************************)
\* Membership in a list, by position.
LEMMA InList == \A s, x : x \in Listed(s) <=> \E i \in DOMAIN s : s[i] = x
  BY Zenon DEF Listed

\* dll_remove takes one object off a list of __proc and keeps the others once each.
LEMMA ListRemove ==
    ASSUME NEW s \in Seq(Object), NoDuplicates(s), NEW o
    PROVE  /\ dll_remove(s, o) \in Seq(Object) /\ NoDuplicates(dll_remove(s, o))
           /\ Listed(dll_remove(s, o)) = Listed(s) \ {o}
  <1>1. \A q : Listed(q) = Elements(q)
    BY Zenon DEF Listed, Elements
  <1> QED BY <1>1, RemoveLemma, Zenon

\* dll_make_first puts an object that is not there at the head of a list of __proc.
LEMMA ListFirst ==
    ASSUME NEW s \in Seq(Object), NoDuplicates(s), NEW o \in Object, o \notin Listed(s)
    PROVE  /\ dll_make_first(s, o) \in Seq(Object) /\ NoDuplicates(dll_make_first(s, o))
           /\ Listed(dll_make_first(s, o)) = Listed(s) \cup {o}
  <1>1. \A q : Listed(q) = Elements(q)
    BY Zenon DEF Listed, Elements
  <1> QED BY <1>1, FirstLemma, Zenon

\* A list is empty when it has no members: what haszombies is computed from.
LEMMA ListEmpty ==
    ASSUME NEW s \in Seq(Object)
    PROVE  s = <<>> <=> Listed(s) = {}
  <1>1. DOMAIN s = 1..Len(s) /\ Len(s) \in Nat /\ (s = <<>> <=> Len(s) = 0)
    OBVIOUS
  <1>2. Len(s) # 0 => 1 \in 1..Len(s)
    BY <1>1
  <1>3. Len(s) = 0 => \A i \in 1..Len(s) : FALSE
    BY <1>1
  <1> QED BY <1>1, <1>2, <1>3, InList, Zenon

\* The lists of __proc hold objects only.
LEMMA ListSubset ==
    ASSUME NEW s \in Seq(Object)
    PROVE  Listed(s) \subseteq Object
  BY DEF Listed

\* What the worker collects or frees in the order of a list has each object once.
LEMMA ListInOrder ==
    ASSUME NEW S \in SUBSET Object, NEW s \in Seq(Object), S \subseteq Listed(s),
           NEW r \in InOrder(S, s) \cup LastFirst(S, s)
    PROVE  r \in Seq(Object) /\ NoDuplicates(r) /\ Listed(r) = S
  <1>0. Len(s) \in Nat
    OBVIOUS
  <1>1. r \in Arrangements(S, s)
    BY Zenon DEF InOrder, LastFirst
  <1>2. PICK n \in 0..Len(s) : r \in [1..n -> S]
    BY <1>1, Zenon DEF Arrangements
  <1>3. Listed(r) = S
    BY <1>1, Zenon DEF Arrangements
  <1>4. n \in Nat /\ r \in [1..n -> Object]
    BY <1>0, <1>2
  <1>5. r \in Seq(Object) /\ DOMAIN r = 1..n
    BY <1>4
  <1>6. \A i \in DOMAIN r : Position(s, r[i]) \in Int
    <2> SUFFICES ASSUME NEW i \in DOMAIN r PROVE Position(s, r[i]) \in Int
      OBVIOUS
    <2>1. \E j \in DOMAIN s : s[j] = r[i]
      BY <1>3, InList, Zenon
    <2>2. Position(s, r[i]) \in DOMAIN s
      BY <2>1, Zenon DEF Position
    <2> QED BY <2>2
  <1>7. \/ \A i, j \in DOMAIN r : i < j => Position(s, r[i]) < Position(s, r[j])
        \/ \A i, j \in DOMAIN r : i < j => Position(s, r[i]) > Position(s, r[j])
    BY Zenon DEF InOrder, LastFirst
  <1>8. NoDuplicates(r)
    <2> SUFFICES ASSUME NEW i \in 1..n, NEW j \in 1..n, r[i] = r[j] PROVE i = j
      BY <1>5, Zenon DEF NoDuplicates
    <2> DEFINE p == Position(s, r[i])
    <2>1. p \in Int /\ Position(s, r[j]) = p
      BY <1>5, <1>6, Zenon
    <2>2. (i < j => p < p \/ p > p) /\ (j < i => p < p \/ p > p)
      BY <1>5, <1>7, <2>1, Zenon
    <2> HIDE DEF p
    <2> QED BY <1>4, <2>1, <2>2, SMTT(30)
  <1> QED BY <1>3, <1>5, <1>8, Zenon

\* __proc_free puts objects that are not free in front of those that are.
LEMMA ListConcat ==
    ASSUME NEW r \in Seq(Object), NEW s \in Seq(Object), NoDuplicates(r), NoDuplicates(s),
           Listed(r) \cap Listed(s) = {}
    PROVE  /\ r \o s \in Seq(Object) /\ NoDuplicates(r \o s)
           /\ Listed(r \o s) = Listed(r) \cup Listed(s)
  <1> DEFINE q == r \o s
  <1>1. /\ q \in Seq(Object) /\ Len(q) = Len(r) + Len(s) /\ Len(r) \in Nat /\ Len(s) \in Nat
        /\ DOMAIN r = 1..Len(r) /\ DOMAIN s = 1..Len(s) /\ DOMAIN q = 1..(Len(r) + Len(s))
    OBVIOUS
  <1>2. \A i \in DOMAIN q : \/ i \in DOMAIN r /\ q[i] = r[i]
                            \/ i - Len(r) \in DOMAIN s /\ q[i] = s[i - Len(r)]
    BY <1>1
  <1>3. /\ \A i \in DOMAIN r : i \in DOMAIN q /\ q[i] = r[i]
        /\ \A i \in DOMAIN s : i + Len(r) \in DOMAIN q /\ q[i + Len(r)] = s[i]
    BY <1>1
  <1>4. Listed(q) = Listed(r) \cup Listed(s)
    <2> HIDE DEF q
    <2>1. ASSUME NEW x \in Listed(q) PROVE x \in Listed(r) \cup Listed(s)
      <3>1. PICK i \in DOMAIN q : q[i] = x
        BY <2>1, InList, Zenon
      <3>2. (\E m \in DOMAIN r : r[m] = x) \/ (\E m \in DOMAIN s : s[m] = x)
        BY <1>2, <3>1, Zenon
      <3> QED BY <3>2, InList, Zenon
    <2>2. ASSUME NEW x \in Listed(r) PROVE x \in Listed(q)
      <3>1. PICK i \in DOMAIN r : r[i] = x
        BY <2>2, InList, Zenon
      <3>2. i \in DOMAIN q /\ q[i] = x
        BY <1>3, <3>1, Zenon
      <3> QED BY <3>2, InList, Zenon
    <2>3. ASSUME NEW x \in Listed(s) PROVE x \in Listed(q)
      <3>1. PICK i \in DOMAIN s : s[i] = x
        BY <2>3, InList, Zenon
      <3>2. i + Len(r) \in DOMAIN q /\ q[i + Len(r)] = x
        BY <1>3, <3>1, Zenon
      <3> QED BY <3>2, InList, Zenon
    <2> QED BY <2>1, <2>2, <2>3, Zenon
  <1>5. NoDuplicates(q)
    <2> SUFFICES ASSUME NEW i \in DOMAIN q, NEW j \in DOMAIN q, q[i] = q[j] PROVE i = j
      BY Zenon DEF NoDuplicates
    <2>1. \A k \in DOMAIN r, m \in DOMAIN s : r[k] # s[m]
      BY Zenon DEF Listed
    <2>2. CASE i \in DOMAIN r /\ q[i] = r[i] /\ j \in DOMAIN r /\ q[j] = r[j]
      BY <2>2, Zenon DEF NoDuplicates
    <2>3. CASE /\ i - Len(r) \in DOMAIN s /\ q[i] = s[i - Len(r)]
               /\ j - Len(r) \in DOMAIN s /\ q[j] = s[j - Len(r)]
      <3>1. i - Len(r) = j - Len(r)
        BY <2>3, Zenon DEF NoDuplicates
      <3> QED BY <3>1, <1>1
    <2> QED BY <1>2, <2>1, <2>2, <2>3, Zenon
  <1> QED BY <1>1, <1>4, <1>5, Zenon

\* The worker moves the children it looked at to the end of __proc.list: same members.
LEMMA ListRotate ==
    ASSUME NEW s \in Seq(Object), NoDuplicates(s), NEW k \in 0..Len(s)
    PROVE  LET q == SubSeq(s, k + 1, Len(s)) \o SubSeq(s, 1, k)
           IN  q \in Seq(Object) /\ NoDuplicates(q) /\ Listed(q) = Listed(s)
  <1> DEFINE a == SubSeq(s, 1, k)
             b == SubSeq(s, k + 1, Len(s))
  <1>1. Len(s) \in Nat /\ DOMAIN s = 1..Len(s) /\ k \in Nat /\ k <= Len(s)
    OBVIOUS
  <1>2. /\ a \in Seq(Object) /\ DOMAIN a = 1..k /\ \A i \in 1..k : a[i] = s[i]
    BY <1>1
  <1>3. /\ b \in Seq(Object) /\ DOMAIN b = 1..(Len(s) - k) /\ \A i \in 1..(Len(s) - k) : b[i] = s[i + k]
    BY <1>1
  <1> HIDE DEF a, b
  <1>4. NoDuplicates(a)
    BY <1>1, <1>2 DEF NoDuplicates
  <1>5. NoDuplicates(b)
    <2> SUFFICES ASSUME NEW i \in 1..(Len(s) - k), NEW j \in 1..(Len(s) - k), b[i] = b[j]
                 PROVE  i = j
      BY <1>3, Zenon DEF NoDuplicates
    <2>1. i + k \in DOMAIN s /\ j + k \in DOMAIN s
      BY <1>1
    <2>2. i + k = j + k
      BY <1>3, <2>1, Zenon DEF NoDuplicates
    <2> QED BY <1>1, <2>2
  <1>6. Listed(a) \cap Listed(b) = {}
    <2>1. ASSUME NEW i \in 1..k, NEW j \in 1..(Len(s) - k), a[i] = b[j] PROVE FALSE
      <3>1. i \in DOMAIN s /\ j + k \in DOMAIN s /\ i # j + k /\ s[i] = s[j + k]
        BY <1>1, <1>2, <1>3, <2>1
      <3> QED BY <3>1, Zenon DEF NoDuplicates
    <2>2. ASSUME NEW x \in Listed(a), x \in Listed(b) PROVE FALSE
      <3>1. PICK i \in DOMAIN a : a[i] = x
        BY <2>2, InList, Zenon
      <3>2. PICK j \in DOMAIN b : b[j] = x
        BY <2>2, InList, Zenon
      <3>3. i \in 1..k /\ j \in 1..(Len(s) - k) /\ a[i] = b[j]
        BY <1>2, <1>3, <3>1, <3>2, Zenon
      <3> QED BY <2>1, <3>3, Zenon
    <2> QED BY <2>2, Zenon
  <1>7. Listed(a) \cup Listed(b) = Listed(s)
    <2>1. ASSUME NEW x \in Listed(s) PROVE x \in Listed(a) \cup Listed(b)
      <3>1. PICK i \in DOMAIN s : s[i] = x
        BY <2>1, InList, Zenon
      <3>2. (i \in 1..k /\ a[i] = x) \/ (i - k \in 1..(Len(s) - k) /\ b[i - k] = x)
        BY <1>1, <1>2, <1>3, <3>1
      <3> QED BY <1>2, <1>3, <3>2, InList, Zenon
    <2>2. \A i \in 1..k : i \in DOMAIN s
      BY <1>1
    <2>3. \A i \in 1..(Len(s) - k) : i + k \in DOMAIN s
      BY <1>1
    <2>4. ASSUME NEW x \in Listed(a) PROVE x \in Listed(s)
      <3>1. PICK i \in DOMAIN a : a[i] = x
        BY <2>4, InList, Zenon
      <3>2. i \in DOMAIN s /\ s[i] = x
        BY <1>2, <2>2, <3>1, Zenon
      <3> QED BY <3>2, InList, Zenon
    <2>5. ASSUME NEW x \in Listed(b) PROVE x \in Listed(s)
      <3>1. PICK i \in DOMAIN b : b[i] = x
        BY <2>5, InList, Zenon
      <3>2. i + k \in DOMAIN s /\ s[i + k] = x
        BY <1>3, <2>3, <3>1, Zenon
      <3> QED BY <3>2, InList, Zenon
    <2> QED BY <2>1, <2>4, <2>5, Zenon
  <1>8. b \o a \in Seq(Object) /\ NoDuplicates(b \o a) /\ Listed(b \o a) = Listed(b) \cup Listed(a)
    BY <1>2, <1>3, <1>4, <1>5, <1>6, ListConcat, Zenon
  <1> QED BY <1>7, <1>8, Zenon DEF a, b

----------------------------------------------------------------------------
(***************************************************************************)
(* What the steps do to the objects, the handles and the processes.        *)
(***************************************************************************)
\* INVALID_HANDLE and the handles of processes differ.
LEMMA ZeroHandle == 0 \notin Handle /\ AnyChild \notin Handle /\ AnyChild # 0
  BY ProcAssumption DEF Handle, AnyChild

\* A step that leaves every object where it is, and at most ends processes.
LEMMA SameWorld ==
    ASSUME World, Types, Listed(list') = Listed(list), Listed(zombies') = Listed(zombies),
           Listed(free') = Listed(free), state' \in [Handle -> {"none", "running", "exited", "execed"}],
           \A h \in Handle : state'[h] = state[h] \/ (state[h] = "running" /\ state'[h] = "exited"),
           UNCHANGED <<ignored, undead, used, status, pid, handle, haszombies, successor, open,
                       spc, sobj, reported>>
    PROVE  World'
  <1>1. /\ ignored' = ignored /\ undead' = undead /\ used' = used /\ status' = status /\ pid' = pid
        /\ handle' = handle /\ haszombies' = haszombies /\ successor' = successor /\ open' = open
        /\ spc' = spc /\ sobj' = sobj /\ reported' = reported
    BY Zenon
  <1>2. Launched' = Launched /\ Tracked' = Tracked
    BY <1>1, Zenon DEF Launched, Tracked
  <1>3. Owned' = Owned /\ Unreported' = Unreported
    BY <1>2, Zenon DEF Owned, Unreported
  <1>4. Places'
    BY <1>1, <1>2, <1>3, SMTT(30) DEF World, Places
  <1>5. \A h \in Handle : (state'[h] = "none" <=> state[h] = "none")
                       /\ (state'[h] = "execed" <=> state[h] = "execed")
                       /\ (state[h] = "exited" => state'[h] = "exited")
                       /\ (state'[h] = "running" => state[h] = "running")
    BY Zenon
  <1>6. Processes'
    BY <1>1, <1>5, SMTT(30) DEF World, Processes
  <1>7. \A o \in Listed(zombies) \cup undead : handle[o] \in Handle
    BY Zenon DEF World, Handles, Owned, Tracked, Types, TKernel
  <1>8. Handles'
    BY <1>1, <1>3, <1>5, <1>7, SMTT(30) DEF World, Handles
  <1>9. Born' = Born
    BY <1>1, <1>5, Zenon DEF Born
  <1>10. Reports'
    BY <1>1, <1>3, <1>9, SMTT(30) DEF World, Reports
  <1> QED BY <1>4, <1>6, <1>8, <1>10, Zenon DEF World

\* CloseHandle on the handles of objects that are given up, after their
\* processes exited: the other handles stay as they are.
LEMMA CloseHandles ==
    ASSUME World, NEW D \in SUBSET Owned, Owned' = Owned \ D,
           \A o \in D : state[handle[o]] = "exited",
           open' = open \ {handle[o] : o \in D},
           \A o \in Listed(zombies') \cup undead' : state[handle[o]] = "exited",
           Types, handle' = handle, state' = state, successor' = successor
    PROVE  Handles'
  <1>1. \A o \in Owned : handle[o] \in open /\ handle[o] \in Handle
    BY Zenon DEF World, Handles, Types, TKernel
  <1>2. \A o1, o2 \in Owned : handle[o1] = handle[o2] => o1 = o2
    BY Zenon DEF World, Handles
  <1>3. \A h : h \in open' <=> h \in open /\ \A o \in D : handle[o] # h
    BY Zenon
  <1>4. \A o \in D : successor[handle[o]] = 0
    BY <1>1, Zenon DEF World, Processes
  <1>5. \A h \in open : h \in Handle
    BY Zenon DEF Types, TKernel
  <1>6. \A o \in Owned' : o \in Owned /\ o \notin D
    BY Zenon
  <1>7. \A o \in Owned' : handle[o] \in open'
    BY <1>1, <1>2, <1>3, <1>6, SMTT(30)
  <1>8. ASSUME NEW h \in open'
        PROVE  (\E o \in Owned' : handle[o] = h) \/ (\E g \in open' : successor[g] = h)
    <2>1. h \in open /\ h # 0 /\ \A o \in D : handle[o] # h
      BY <1>3, <1>5, ZeroHandle, Zenon
    <2>2. CASE \E o \in Owned : handle[o] = h
      BY <2>1, <2>2, Zenon
    <2>3. CASE \E g \in open : successor[g] = h
      BY <1>3, <1>4, <2>1, <2>3, Zenon
    <2> QED BY <2>1, <2>2, <2>3, Zenon DEF World, Handles
  <1>9. ASSUME NEW g \in open', successor[g] # 0
        PROVE  successor[g] \in open' /\ \A o \in Owned' : handle[o] # successor[g]
    <2>1. g \in open
      BY <1>3, Zenon
    <2>2. successor[g] \in open /\ \A o \in Owned : handle[o] # successor[g]
      BY <2>1, <1>9, Zenon DEF World, Handles
    <2> QED BY <1>3, <1>6, <2>2, Zenon
  <1>10. \A o1, o2 \in Owned' : handle[o1] = handle[o2] => o1 = o2
    BY <1>2, <1>6, Zenon
  <1>11. \A h \in Handle : state[h] = "running" => h \in open'
    BY <1>3, Zenon DEF World, Handles
  <1> QED BY <1>7, <1>8, <1>9, <1>10, <1>11, Zenon DEF Handles

\* Objects stop to stand for a child that is still to be reported: wait4()
\* reported it, or the worker dropped it because SIGCHLD is ignored.
LEMMA ReportChildren ==
    ASSUME World, NEW E \in SUBSET Unreported, Unreported' = Unreported \ E,
           \A p \in Handle : reported'[p] = IF \E o \in E : pid[o] = p
                                            THEN (IF ignored THEN reported'[p] ELSE 1) ELSE reported[p],
           \A o \in E : reported'[pid[o]] = 1 \/ (ignored /\ reported'[pid[o]] = 0),
           pid' = pid, state' = state, successor' = successor, ignored' = ignored
    PROVE  Reports'
  <1>1. Born' = Born
    BY Zenon DEF Born
  <1>2. \A o \in Unreported : pid[o] \in Handle
    BY Zenon DEF World, Reports, Born
  <1>3. \A o1, o2 \in Unreported : pid[o1] = pid[o2] => o1 = o2
    BY Zenon DEF World, Reports
  <1>4. \A o \in Unreported' : o \in Unreported /\ o \notin E
    BY Zenon
  <1>5. \A o \in Unreported' : pid'[o] \in Born' /\ reported'[pid'[o]] = 0
    BY <1>1, <1>2, <1>3, <1>4, SMTT(30) DEF World, Reports
  <1>6. ASSUME NEW p \in Born
        PROVE  (\E o \in Unreported' : pid[o] = p) \/ reported'[p] = 1 \/ (ignored /\ reported'[p] = 0)
    <2>1. p \in Handle
      BY Zenon DEF Born
    <2>2. CASE \E o \in E : pid[o] = p
      BY <2>2, Zenon
    <2>3. CASE ~\E o \in E : pid[o] = p
      <3>1. reported'[p] = reported[p]
        BY <2>1, <2>3, Zenon
      <3>2. (\E o \in Unreported : pid[o] = p) => \E o \in Unreported' : pid[o] = p
        BY <2>3, Zenon
      <3> QED BY <3>1, <3>2, Zenon DEF World, Reports
    <2> QED BY <2>2, <2>3, Zenon
  <1> QED BY <1>1, <1>3, <1>4, <1>5, <1>6, Zenon DEF Reports

\* When no object is free there are no more objects than open handles.
Bounded == free = <<>> => used <= MaxHandle

\* __proc_new gives an object that no list but the free one holds.
LEMMA NewObject ==
    ASSUME Types, World, Bounded
    PROVE  LET o == __proc_new
               u == IF o > used THEN o ELSE used
           IN  /\ o \in Object /\ o \notin Owned
               /\ u \in Nat /\ u <= PoolSize + MaxHandle /\ 1..u = 1..used \cup {o}
  <1> DEFINE o == __proc_new
  <1>1. used \in Nat /\ MaxHandle \in Nat /\ PoolSize \in Nat /\ PoolSize >= 1
    BY ProcAssumption DEF Types, TLists
  <1>2. used <= PoolSize + MaxHandle
    BY Zenon DEF World, Places
  <1>3. Owned \cup Listed(free) = 1..used /\ Owned \cap Listed(free) = {}
    BY Zenon DEF World, Places
  <1>4. CASE used < PoolSize \/ free = <<>>
    <2>1. o = used + 1
      BY <1>4, Zenon DEF __proc_new
    <2>2. used + 1 <= PoolSize + MaxHandle
      BY <1>1, <1>4 DEF Bounded
    <2> HIDE DEF o
    <2>3. o \notin 1..used /\ o > used /\ o \in 1..(PoolSize + MaxHandle) /\ o \in Nat
      BY <1>1, <2>1, <2>2
    <2>4. 1..o = 1..used \cup {o}
      BY <1>1, <2>1
    <2> QED BY <1>3, <2>1, <2>2, <2>3, <2>4, Zenon DEF Object, o
  <1>5. CASE ~(used < PoolSize \/ free = <<>>)
    <2>1. o = free[1]
      BY <1>5, Zenon DEF __proc_new
    <2> HIDE DEF o
    <2>2. 1 \in DOMAIN free /\ free[1] \in Object
      BY <1>5 DEF Types, TLists
    <2>3. o \in Listed(free)
      BY <2>1, <2>2, InList, Zenon
    <2>4. o \in 1..used /\ o \notin Owned
      BY <1>3, <2>3, Zenon
    <2>5. ~(o > used)
      BY <1>1, <2>4
    <2>6. 1..used = 1..used \cup {o}
      BY <2>4, Zenon
    <2> QED BY <1>1, <1>2, <2>1, <2>2, <2>4, <2>5, <2>6, Zenon DEF o
  <1> QED BY <1>4, <1>5, Zenon

\* NewHandle is a handle that no process had.
LEMMA FreshHandle ==
    ASSUME \E h \in Handle : state[h] = "none"
    PROVE  NewHandle \in Handle /\ state[NewHandle] = "none"
  BY Zenon DEF NewHandle

\* A new process gets a handle that is not open, and an object o of its own.
LEMMA HandlesGrow ==
    ASSUME World, Types, NEW o, NEW h \in Handle, h \notin open, successor[h] = 0,
           \A g \in Handle : successor[g] # h, Owned' = Owned \cup {o},
           \A x \in Owned : x # o /\ handle'[x] = handle[x], handle'[o] = h,
           open' = open \cup {h}, successor' = successor,
           \A g \in Handle : g # h => state'[g] = state[g],
           \A x \in Listed(zombies') \cup undead' : state'[handle'[x]] = "exited"
    PROVE  Handles'
  <1>1. \A x \in Owned : handle[x] \in open
    BY Zenon DEF World, Handles
  <1>2. \A x \in Owned' : handle'[x] \in open'
    BY <1>1, Zenon
  <1>3. \A x1, x2 \in Owned' : handle'[x1] = handle'[x2] => x1 = x2
    BY <1>1, SMTT(30) DEF World, Handles
  <1>4. ASSUME NEW k \in open'
        PROVE  (\E x \in Owned' : handle'[x] = k) \/ (\E g \in open' : successor[g] = k)
    BY <1>4, SMTT(30) DEF World, Handles
  <1>5. ASSUME NEW g \in open', successor[g] # 0
        PROVE  successor[g] \in open' /\ \A x \in Owned' : handle'[x] # successor[g]
    <2>1. g \in open /\ g \in Handle
      BY <1>5, Zenon DEF Types, TKernel
    <2> QED BY <1>5, <2>1, SMTT(30) DEF World, Handles
  <1>6. \A g \in Handle : state'[g] = "running" => g \in open'
    BY Zenon DEF World, Handles
  <1> QED BY <1>2, <1>3, <1>4, <1>5, <1>6, SMTT(30) DEF Handles

\* The callers and the worker stay where they are, and no object leaves the lists.
LEMMA SameCallers ==
    ASSUME Locked, Counts, Tracked \subseteq Tracked',
           lock' = lock, wpc' = wpc, wobj' = wobj, pc' = pc, want' = want, pr' = pr,
           waiters' = waiters, anywaiters' = anywaiters, undead' = undead
    PROVE  Locked' /\ Counts'
  <1>1. \A t \in Caller : Claims(t)' <=> Claims(t)
    BY Zenon DEF Claims
  <1>2. \A o \in Object : Claimants(o)' = Claimants(o) /\ Watching(o)' = Watching(o)
    BY <1>1, Zenon DEF Claimants, Watching
  <1>3. Anyone' = Anyone
    BY <1>1, Zenon DEF Anyone
  <1>4. Locked'
    BY Zenon DEF Locked
  <1>5. Counts'
    BY <1>1, <1>2, <1>3, Zenon DEF Counts
  <1> QED BY <1>4, <1>5, Zenon

\* posix_spawn() and fork() start a process behind a new handle.
LEMMA SpawnStep ==
    ASSUME IInv, Bounded, Spawn, ignored' = ignored
    PROVE  IInv'
  <1> DEFINE o == __proc_new
             h == NewHandle
  <1>1. /\ h \in Handle /\ state[h] = "none"
    BY FreshHandle, Zenon DEF Spawn
  <1>2. /\ o \in Object /\ o \notin Owned
        /\ used' \in Nat /\ used' <= PoolSize + MaxHandle /\ 1..used' = 1..used \cup {o}
    BY NewObject, Zenon DEF Spawn, Allocate, IInv
  <1>3. /\ status' = [status EXCEPT ![o] = "ALIVE"] /\ waiters' = [waiters EXCEPT ![o] = 0]
        /\ pid' = [pid EXCEPT ![o] = h] /\ handle' = [handle EXCEPT ![o] = h]
        /\ free' = dll_remove(free, o) /\ state' = [state EXCEPT ![h] = "running"]
        /\ open' = open \cup {h} /\ spc = "idle" /\ spc' = "launched" /\ sobj' = o
    BY Zenon DEF Spawn, Allocate
  <1>4. /\ lock' = lock /\ list' = list /\ zombies' = zombies /\ undead' = undead
        /\ anywaiters' = anywaiters /\ onbirth' = onbirth /\ haszombies' = haszombies
        /\ successor' = successor /\ wpc' = wpc /\ wobj' = wobj
        /\ pc' = pc /\ want' = want /\ pr' = pr /\ reported' = reported
    BY Zenon DEF Spawn, events, worker, caller, locals
  <1> HIDE DEF o, h
  <1>5. Types /\ World /\ Locked /\ Counts
    BY Zenon DEF IInv
  <1>6. Tracked' = Tracked
    BY <1>4, Zenon DEF Tracked
  <1>7. /\ free' \in Seq(Object) /\ NoDuplicates(free') /\ Listed(free') = Listed(free) \ {o}
    BY <1>3, <1>5, ListRemove, Zenon DEF Types, TLists
  <1>8. waiters' = waiters
    <2>1. waiters \in [Object -> Nat]
      BY <1>5, Zenon DEF Types, TObjects
    <2>2. ~(waiters[o] > 0)
      BY <1>2, <1>5, Zenon DEF Counts, Owned
    <2>3. waiters[o] = 0
      BY <1>2, <2>1, <2>2
    <2> QED BY <1>3, <2>1, <2>3, Zenon
  <1>9. Types'
    <2>1. TLists'
      BY <1>2, <1>4, <1>5, <1>7, Zenon DEF Types, TLists
    <2>2. TObjects'
      BY <1>1, <1>2, <1>3, <1>5, <1>8, Zenon DEF Types, TObjects
    <2>3. TKernel'
      BY <1>1, <1>3, <1>4, <1>5, Zenon DEF Types, TKernel
    <2>4. TThreads'
      BY <1>2, <1>3, <1>4, <1>5, Zenon DEF Types, TThreads
    <2> QED BY <2>1, <2>2, <2>3, <2>4, Zenon DEF Types
  <1>10. Locked' /\ Counts'
    BY <1>4, <1>5, <1>6, <1>8, SameCallers, Zenon
  <1>11. Owned' = Owned \cup {o} /\ Launched' = {o} /\ Launched = {}
    BY <1>3, <1>6, Zenon DEF Owned, Launched
  <1>12. /\ \A x \in Object : x # o => status'[x] = status[x] /\ pid'[x] = pid[x] /\ handle'[x] = handle[x]
         /\ pid'[o] = h /\ handle'[o] = h /\ status'[o] = "ALIVE"
    BY <1>2, <1>3, <1>5, Zenon DEF Types, TObjects
  <1>13. \A x \in Owned : x # o /\ x \in Object
    BY <1>2, <1>5, <1>11, ListSubset, Zenon DEF Owned, Tracked, Types, TLists
  <1>14. Places'
    <2>1. Owned' \cup Listed(free') = 1..used'
      BY <1>2, <1>5, <1>7, <1>11, Zenon DEF World, Places
    <2>2. Owned' \cap Listed(free') = {}
      BY <1>5, <1>7, <1>11, Zenon DEF World, Places
    <2>3. Tracked' \cap Launched' = {}
      BY <1>2, <1>6, <1>11, Zenon DEF Owned
    <2>4. \A x \in Tracked : status'[x] = status[x]
      BY <1>12, <1>13, Zenon DEF Owned
    <2>5. /\ \A x \in Listed(list) \cup Launched' : status'[x] = "ALIVE"
          /\ \A x \in Listed(zombies) : status'[x] = "ZOMBIE"
          /\ \A x \in undead : status'[x] = "UNDEAD"
      BY <1>5, <1>11, <1>12, <2>4, Zenon DEF World, Places, Tracked
    <2> QED BY <1>2, <1>4, <1>5, <2>1, <2>2, <2>3, <2>5, Zenon DEF World, Places
  <1>15. \A g \in Handle : g # h => state'[g] = state[g]
    BY <1>1, <1>3, <1>5, Zenon DEF Types, TKernel
  <1>16. state'[h] = "running"
    BY <1>1, <1>3, <1>5, Zenon DEF Types, TKernel
  <1>17. h \notin open /\ reported[h] = 0 /\ successor[h] = 0 /\ \A g \in Handle : successor[g] # h
    BY <1>1, <1>5, Zenon DEF World, Processes
  <1>18. Processes'
    BY <1>3, <1>4, <1>5, <1>15, <1>16, <1>17, SMTT(30) DEF World, Processes
  <1>19. Handles'
    <2>1. \A x \in Listed(zombies') \cup undead' : state'[handle'[x]] = "exited"
      <3>1. \A x \in Listed(zombies) \cup undead : x \in Owned
        BY Zenon DEF Owned, Tracked
      <3>2. \A x \in Owned : handle[x] \in Handle /\ handle[x] # h /\ handle'[x] = handle[x]
        BY <1>5, <1>12, <1>13, <1>17, Zenon DEF World, Handles, Types, TKernel
      <3>3. \A x \in Listed(zombies) \cup undead : state[handle[x]] = "exited"
        BY <1>5, Zenon DEF World, Handles
      <3>4. Listed(zombies') = Listed(zombies) /\ undead' = undead
        BY <1>4, Zenon
      <3> QED BY <1>15, <3>1, <3>2, <3>3, <3>4, Zenon
    <2>2. \A x \in Owned : x # o /\ handle'[x] = handle[x]
      BY <1>12, <1>13, Zenon
    <2>3. handle'[o] = h /\ open' = open \cup {h} /\ successor' = successor
      BY <1>3, <1>4, <1>12, Zenon
    <2> QED BY <1>1, <1>5, <1>11, <1>15, <1>17, <2>1, <2>2, <2>3, HandlesGrow, Zenon
  <1>20. Born' = Born \cup {h} /\ h \notin Born
    BY <1>1, <1>4, <1>15, <1>16, <1>17, Zenon DEF Born
  <1>21. Unreported' = Unreported \cup {o} /\ Unreported \subseteq Owned
    BY <1>4, <1>11, Zenon DEF Unreported, Owned, Tracked
  <1>22. Reports'
    BY <1>4, <1>5, <1>12, <1>13, <1>17, <1>20, <1>21, SMTT(30) DEF World, Reports
  <1> QED BY <1>9, <1>10, <1>14, <1>18, <1>19, <1>22, Zenon DEF IInv, World

\* Every owned object is one of the objects there are.
LEMMA OwnedObjects ==
    ASSUME Types
    PROVE  Owned \subseteq Object
  <1>1. Launched \subseteq Object
    BY Zenon DEF Launched, Types, TThreads
  <1>2. Listed(list) \subseteq Object /\ Listed(zombies) \subseteq Object
    BY ListSubset, Zenon DEF Types, TLists
  <1> QED BY <1>1, <1>2, Zenon DEF Owned, Tracked, Types, TLists

\* A posix_spawn() or fork() that fails leaves a cleared object on the free list.
LEMMA SpawnFailStep ==
    ASSUME IInv, Bounded, SpawnFail, ignored' = ignored
    PROVE  IInv'
  <1> DEFINE o == __proc_new
  <1>1. /\ o \in Object /\ o \notin Owned
        /\ used' \in Nat /\ used' <= PoolSize + MaxHandle /\ 1..used' = 1..used \cup {o}
    BY NewObject, Zenon DEF SpawnFail, Allocate, IInv
  <1>2. /\ status' = [status EXCEPT ![o] = "ALIVE"] /\ waiters' = [waiters EXCEPT ![o] = 0]
        /\ pid' = [pid EXCEPT ![o] = 0] /\ handle' = [handle EXCEPT ![o] = 0]
        /\ free' = dll_make_first(dll_remove(free, o), o)
    BY Zenon DEF SpawnFail, Allocate
  <1>3. /\ lock' = lock /\ list' = list /\ zombies' = zombies /\ undead' = undead
        /\ anywaiters' = anywaiters /\ onbirth' = onbirth /\ haszombies' = haszombies
        /\ state' = state /\ successor' = successor /\ open' = open /\ wpc' = wpc /\ wobj' = wobj
        /\ spc' = spc /\ sobj' = sobj /\ pc' = pc /\ want' = want /\ pr' = pr /\ reported' = reported
    BY Zenon DEF SpawnFail, events, kernel, spawner, worker, caller, locals
  <1> HIDE DEF o
  <1>4. Types /\ World /\ Locked /\ Counts
    BY Zenon DEF IInv
  <1>5. Tracked' = Tracked /\ Launched' = Launched
    BY <1>3, Zenon DEF Tracked, Launched
  <1>6. Owned' = Owned /\ Unreported' = Unreported /\ Unreported \subseteq Owned
    BY <1>3, <1>5, Zenon DEF Owned, Unreported, Tracked
  <1>7. /\ free' \in Seq(Object) /\ NoDuplicates(free') /\ Listed(free') = Listed(free) \cup {o}
    <2> DEFINE f == dll_remove(free, o)
    <2>1. f \in Seq(Object) /\ NoDuplicates(f) /\ Listed(f) = Listed(free) \ {o}
      BY <1>4, ListRemove, Zenon DEF Types, TLists
    <2> HIDE DEF f
    <2>2. LET q == dll_make_first(f, o) IN
          q \in Seq(Object) /\ NoDuplicates(q) /\ Listed(q) = Listed(f) \cup {o}
      BY <1>1, <2>1, ListFirst, Zenon
    <2>3. free' = dll_make_first(f, o)
      BY <1>2, Zenon DEF f
    <2> QED BY <2>1, <2>2, <2>3, Zenon
  <1>8. waiters' = waiters
    <2>1. waiters \in [Object -> Nat]
      BY <1>4, Zenon DEF Types, TObjects
    <2>2. ~(waiters[o] > 0)
      BY <1>1, <1>4, Zenon DEF Counts, Owned
    <2>3. waiters[o] = 0
      BY <1>1, <2>1, <2>2
    <2> QED BY <1>2, <2>1, <2>3, Zenon
  <1>9. Types'
    <2>1. TLists'
      BY <1>1, <1>3, <1>4, <1>7, Zenon DEF Types, TLists
    <2>2. TObjects'
      BY <1>1, <1>2, <1>4, <1>8, Zenon DEF Types, TObjects
    <2>3. TKernel'
      BY <1>3, <1>4, Zenon DEF Types, TKernel
    <2>4. TThreads'
      BY <1>3, <1>4, Zenon DEF Types, TThreads
    <2> QED BY <2>1, <2>2, <2>3, <2>4, Zenon DEF Types
  <1>10. Locked' /\ Counts'
    BY <1>3, <1>4, <1>5, <1>8, SameCallers, Zenon
  <1>11. \A x \in Object : x # o => status'[x] = status[x] /\ pid'[x] = pid[x] /\ handle'[x] = handle[x]
    BY <1>1, <1>2, <1>4, Zenon DEF Types, TObjects
  <1>12. Owned \subseteq Object
    BY <1>4, OwnedObjects, Zenon
  <1>13. \A x \in Owned : status'[x] = status[x] /\ pid'[x] = pid[x] /\ handle'[x] = handle[x]
    BY <1>1, <1>11, <1>12, Zenon
  <1>14. Listed(list) \cup Launched \subseteq Owned /\ Listed(zombies) \cup undead \subseteq Owned
    BY Zenon DEF Owned, Tracked
  <1>15. Places'
    <2>3. Owned \cup Listed(free) = 1..used /\ Owned \cap Listed(free) = {}
      BY <1>4, Zenon DEF World, Places
    <2>4. Owned' \cup Listed(free') = (Owned \cup Listed(free)) \cup {o}
      BY <1>6, <1>7, Zenon
    <2>5. Owned' \cap Listed(free') = {}
      BY <1>1, <1>6, <1>7, <2>3, Zenon
    <2>1. Owned' \cup Listed(free') = 1..used' /\ Owned' \cap Listed(free') = {}
      BY <1>1, <2>3, <2>4, <2>5, Zenon
    <2>2. /\ \A x \in Listed(list) \cup Launched : status'[x] = "ALIVE"
          /\ \A x \in Listed(zombies) : status'[x] = "ZOMBIE"
          /\ \A x \in undead : status'[x] = "UNDEAD"
      BY <1>4, <1>13, <1>14, Zenon DEF World, Places
    <2> QED BY <1>1, <1>3, <1>4, <1>5, <2>1, <2>2, Zenon DEF World, Places
  <1>16. Processes'
    BY <1>3, <1>4, Zenon DEF World, Processes
  <1>17. Handles'
    BY <1>3, <1>4, <1>6, <1>13, <1>14, SMTT(30) DEF World, Handles
  <1>18. Born' = Born
    BY <1>3, Zenon DEF Born
  <1>19. Reports'
    BY <1>3, <1>4, <1>6, <1>13, <1>18, SMTT(30) DEF World, Reports
  <1> QED BY <1>9, <1>10, <1>15, <1>16, <1>17, <1>19, Zenon DEF IInv, World

\* __proc_add puts the object of the new child in the list.
LEMMA AddStep ==
    ASSUME IInv, __proc_add, ignored' = ignored
    PROVE  IInv'
  <1>1. /\ list' = dll_make_first(list, sobj) /\ onbirth' = TRUE /\ spc = "launched"
        /\ spc' = "idle" /\ sobj' = 0
    BY Zenon DEF __proc_add
  <1>2. /\ lock' = lock /\ zombies' = zombies /\ undead' = undead /\ free' = free /\ used' = used
        /\ status' = status /\ waiters' = waiters /\ pid' = pid /\ handle' = handle
        /\ anywaiters' = anywaiters /\ haszombies' = haszombies /\ state' = state
        /\ successor' = successor /\ open' = open /\ wpc' = wpc /\ wobj' = wobj
        /\ pc' = pc /\ want' = want /\ pr' = pr /\ reported' = reported
    BY Zenon DEF __proc_add, objects, kernel, worker, caller, locals
  <1>3. Types /\ World /\ Locked /\ Counts
    BY Zenon DEF IInv
  <1>4. Launched = {sobj} /\ Launched' = {} /\ sobj \in Object
    BY <1>1, <1>3, Zenon DEF Launched, Types, TThreads
  <1>5. sobj \notin Listed(list)
    BY <1>3, <1>4, Zenon DEF World, Places, Tracked
  <1>6. list' \in Seq(Object) /\ NoDuplicates(list') /\ Listed(list') = Listed(list) \cup {sobj}
    BY <1>1, <1>3, <1>4, <1>5, ListFirst, Zenon DEF Types, TLists
  <1>7. Tracked' = Tracked \cup {sobj}
    BY <1>2, <1>6, Zenon DEF Tracked
  <1>8. Owned' = Owned /\ Unreported' = Unreported
    BY <1>2, <1>4, <1>6, <1>7, Zenon DEF Owned, Unreported
  <1>9. Types'
    <2>1. TLists'
      BY <1>2, <1>3, <1>6, Zenon DEF Types, TLists
    <2>2. TObjects' /\ TKernel'
      BY <1>1, <1>2, <1>3, Zenon DEF Types, TObjects, TKernel
    <2>3. TThreads'
      BY <1>1, <1>2, <1>3, Zenon DEF Types, TThreads
    <2> QED BY <2>1, <2>2, <2>3, Zenon DEF Types
  <1>10. Locked' /\ Counts'
    BY <1>2, <1>3, <1>7, SameCallers, Zenon
  <1>11. Places'
    BY <1>2, <1>3, <1>4, <1>6, <1>8, Zenon DEF World, Places
  <1>12. Processes'
    BY <1>2, <1>3, Zenon DEF World, Processes
  <1>13. Handles'
    BY <1>2, <1>3, <1>8, Zenon DEF World, Handles
  <1>14. Born' = Born
    BY <1>2, Zenon DEF Born
  <1>15. Reports'
    BY <1>2, <1>3, <1>8, <1>14, Zenon DEF World, Reports
  <1> QED BY <1>9, <1>10, <1>11, <1>12, <1>13, <1>15, Zenon DEF IInv, World

----------------------------------------------------------------------------
(***************************************************************************)
(* Processes end or go on behind another handle.                           *)
(***************************************************************************)
\* A step that leaves the objects alone and at most ends processes.
LEMMA Quiet ==
    ASSUME IInv, onbirth' \in BOOLEAN,
           state' \in [Handle -> {"none", "running", "exited", "execed"}],
           \A h \in Handle : state'[h] = state[h] \/ (state[h] = "running" /\ state'[h] = "exited"),
           ignored' = ignored, lists' = lists, objects' = objects, haszombies' = haszombies,
           successor' = successor, open' = open, spawner' = spawner, reported' = reported
    PROVE  /\ World' /\ TLists' /\ TObjects' /\ TKernel'
           /\ Tracked' = Tracked /\ undead' = undead /\ waiters' = waiters
           /\ spc' = spc /\ sobj' = sobj
  <1>1. /\ list' = list /\ zombies' = zombies /\ free' = free /\ undead' = undead /\ used' = used
        /\ status' = status /\ waiters' = waiters /\ pid' = pid /\ handle' = handle
        /\ spc' = spc /\ sobj' = sobj
    BY Zenon DEF lists, objects, spawner
  <1>2. Types /\ World
    BY Zenon DEF IInv
  <1>3. World'
    BY <1>1, <1>2, SameWorld, Zenon
  <1>4. TLists' /\ TObjects'
    BY <1>1, <1>2, Zenon DEF Types, TLists, TObjects
  <1>5. TKernel'
    BY <1>2, Zenon DEF Types, TKernel
  <1>6. Tracked' = Tracked
    BY <1>1, Zenon DEF Tracked
  <1> QED BY <1>1, <1>3, <1>4, <1>5, <1>6, Zenon

\* Nobody but the processes moved.
LEMMA StillThreads ==
    ASSUME TThreads, spc' = spc, sobj' = sobj, lock' = lock, wpc' = wpc, wobj' = wobj,
           pc' = pc, want' = want, pr' = pr
    PROVE  TThreads'
  BY Zenon DEF TThreads

\* A process exits.
LEMMA ExitStep ==
    ASSUME IInv, NEW h \in Handle, Exit(h), ignored' = ignored
    PROVE  IInv'
  <1>1. state[h] = "running" /\ state' = [state EXCEPT ![h] = "exited"]
    BY Zenon DEF Exit
  <1>2. /\ lists' = lists /\ objects' = objects /\ haszombies' = haszombies /\ onbirth' = onbirth
        /\ successor' = successor /\ open' = open /\ spawner' = spawner /\ reported' = reported
    BY Zenon DEF Exit, events, caller
  <1>3. /\ lock' = lock /\ wpc' = wpc /\ wobj' = wobj /\ pc' = pc /\ want' = want /\ pr' = pr
        /\ anywaiters' = anywaiters
    BY Zenon DEF Exit, worker, caller, locals
  <1>4. TKernel /\ TThreads /\ Locked /\ Counts
    BY Zenon DEF IInv, Types
  <1>5. /\ state' \in [Handle -> {"none", "running", "exited", "execed"}]
        /\ \A g \in Handle : state'[g] = state[g] \/ (state[g] = "running" /\ state'[g] = "exited")
    BY <1>1, <1>4, Zenon DEF TKernel
  <1>6. onbirth' \in BOOLEAN
    BY <1>2, <1>4, Zenon DEF TKernel
  <1>7. /\ World' /\ TLists' /\ TObjects' /\ TKernel'
        /\ Tracked' = Tracked /\ undead' = undead /\ waiters' = waiters /\ spc' = spc /\ sobj' = sobj
    BY <1>2, <1>5, <1>6, Quiet, Zenon
  <1>8. TThreads'
    BY <1>3, <1>4, <1>7, StillThreads, Zenon
  <1>9. Locked' /\ Counts'
    BY <1>3, <1>4, <1>7, SameCallers, Zenon
  <1> QED BY <1>7, <1>8, <1>9, Zenon DEF IInv, Types

\* TerminateProcess on the handles of S.
LEMMA TerminatedLemma ==
    ASSUME TKernel, NEW S, Terminated(S)
    PROVE  /\ state' \in [Handle -> {"none", "running", "exited", "execed"}]
           /\ \A g \in Handle : state'[g] = state[g] \/ (state[g] = "running" /\ state'[g] = "exited")
  <1>1. state \in [Handle -> {"none", "running", "exited", "execed"}]
    BY Zenon DEF TKernel
  <1> QED BY <1>1, Zenon DEF Terminated

\* kill() on every child.
LEMMA KillAllStep ==
    ASSUME IInv, NEW t \in Caller, KillAll(t), ignored' = ignored
    PROVE  IInv'
  <1>1. Terminated({handle[o] : o \in Listed(list)})
    BY Zenon DEF KillAll
  <1>2. /\ lists' = lists /\ objects' = objects /\ haszombies' = haszombies /\ onbirth' = onbirth
        /\ successor' = successor /\ open' = open /\ spawner' = spawner /\ reported' = reported
    BY Zenon DEF KillAll, events, caller
  <1>3. /\ lock' = lock /\ wpc' = wpc /\ wobj' = wobj /\ pc' = pc /\ want' = want /\ pr' = pr
        /\ anywaiters' = anywaiters
    BY Zenon DEF KillAll, worker, caller, locals
  <1>4. TKernel /\ TThreads /\ Locked /\ Counts
    BY Zenon DEF IInv, Types
  <1>5. /\ state' \in [Handle -> {"none", "running", "exited", "execed"}]
        /\ \A g \in Handle : state'[g] = state[g] \/ (state[g] = "running" /\ state'[g] = "exited")
    BY <1>1, <1>4, TerminatedLemma, Zenon
  <1>6. onbirth' \in BOOLEAN
    BY <1>2, <1>4, Zenon DEF TKernel
  <1>7. /\ World' /\ TLists' /\ TObjects' /\ TKernel'
        /\ Tracked' = Tracked /\ undead' = undead /\ waiters' = waiters /\ spc' = spc /\ sobj' = sobj
    BY <1>2, <1>5, <1>6, Quiet, Zenon
  <1>8. TThreads'
    BY <1>3, <1>4, <1>7, StillThreads, Zenon
  <1>9. Locked' /\ Counts'
    BY <1>3, <1>4, <1>7, SameCallers, Zenon
  <1> QED BY <1>7, <1>8, <1>9, Zenon DEF IInv, Types

\* execve() ends the process and leaves the handle of the next one in its exit code.
LEMMA ExecveStep ==
    ASSUME IInv, NEW h \in Handle, Execve(h), ignored' = ignored
    PROVE  IInv'
  <1> DEFINE n == NewHandle
  <1>1. n \in Handle /\ state[n] = "none"
    BY FreshHandle, Zenon DEF Execve
  <1>2. /\ state[h] = "running" /\ state' = [state EXCEPT ![h] = "execed", ![n] = "running"]
        /\ successor' = [successor EXCEPT ![h] = n] /\ open' = open \cup {n}
    BY Zenon DEF Execve
  <1>3. /\ list' = list /\ zombies' = zombies /\ free' = free /\ undead' = undead /\ used' = used
        /\ status' = status /\ waiters' = waiters /\ pid' = pid /\ handle' = handle
        /\ haszombies' = haszombies /\ onbirth' = onbirth /\ spc' = spc /\ sobj' = sobj
        /\ reported' = reported
    BY Zenon DEF Execve, lists, objects, events, spawner, caller
  <1>4. /\ lock' = lock /\ wpc' = wpc /\ wobj' = wobj /\ pc' = pc /\ want' = want /\ pr' = pr
        /\ anywaiters' = anywaiters
    BY Zenon DEF Execve, worker, caller, locals
  <1> HIDE DEF n
  <1>5. Types /\ World /\ Locked /\ Counts
    BY Zenon DEF IInv
  <1>6. Launched' = Launched /\ Tracked' = Tracked
    BY <1>3, Zenon DEF Tracked, Launched
  <1>7. Owned' = Owned /\ Unreported' = Unreported
    BY <1>3, <1>6, Zenon DEF Owned, Unreported
  <1>8. Types'
    <2>1. TLists' /\ TObjects'
      BY <1>3, <1>5, Zenon DEF Types, TLists, TObjects
    <2>2. TKernel'
      BY <1>1, <1>2, <1>3, <1>5, Zenon DEF Types, TKernel
    <2>3. TThreads'
      BY <1>3, <1>4, <1>5, StillThreads, Zenon DEF Types
    <2> QED BY <2>1, <2>2, <2>3, Zenon DEF Types
  <1>9. Locked' /\ Counts'
    BY <1>3, <1>4, <1>5, <1>6, SameCallers, Zenon
  <1>10. Places'
    BY <1>3, <1>5, <1>6, <1>7, Zenon DEF World, Places
  <1>11. /\ h # n /\ state'[h] = "execed" /\ state'[n] = "running"
         /\ \A g \in Handle : g # h /\ g # n => state'[g] = state[g]
         /\ successor'[h] = n /\ \A g \in Handle : g # h => successor'[g] = successor[g]
    BY <1>1, <1>2, <1>5, Zenon DEF Types, TKernel
  <1>12. /\ n \notin open /\ reported[n] = 0 /\ successor[n] = 0 /\ n # 0
         /\ \A g \in Handle : successor[g] # n
    BY <1>1, <1>5, ZeroHandle, Zenon DEF World, Processes
  <1>13. h \in open /\ successor[h] = 0
    BY <1>2, <1>5, Zenon DEF World, Processes, Handles
  <1>14. Processes'
    <2>1. \A g \in Handle : state'[g] = "none" =>
             g \notin open' /\ reported'[g] = 0 /\ \A k \in Handle : successor'[k] # g
      BY <1>2, <1>3, <1>5, <1>11, <1>12, SMTT(30) DEF World, Processes
    <2>2. \A g \in Handle : successor'[g] # 0 <=> state'[g] = "execed"
      BY <1>5, <1>11, <1>12, SMTT(30) DEF World, Processes
    <2>3. \A g, k \in Handle : (successor'[g] = successor'[k] /\ successor'[g] # 0) => g = k
      BY <1>5, <1>11, <1>12, SMTT(30) DEF World, Processes
    <2> QED BY <2>1, <2>2, <2>3, Zenon DEF Processes
  <1>15. Handles'
    <2>1. open \subseteq Handle /\ \A x \in Owned : handle[x] \in open
      BY <1>5, Zenon DEF World, Handles, Types, TKernel
    <2>2. ASSUME NEW k \in open'
          PROVE  (\E x \in Owned : handle[x] = k) \/ (\E g \in open' : successor'[g] = k)
      <3>1. CASE k = n
        BY <1>2, <1>11, <1>13, <3>1, Zenon
      <3>2. CASE k # n
        <4>1. k \in open
          BY <1>2, <3>2, Zenon
        <4>2. ASSUME NEW g \in open, successor[g] = k PROVE g \in open' /\ successor'[g] = k
          <5>1. g # h /\ g \in Handle
            BY <1>13, <2>1, <4>1, <4>2, ZeroHandle, Zenon
          <5> QED BY <1>2, <1>11, <4>2, <5>1, Zenon
        <4> QED BY <1>5, <4>1, <4>2, Zenon DEF World, Handles
      <3> QED BY <3>1, <3>2, Zenon
    <2>3. ASSUME NEW g \in open', successor'[g] # 0
          PROVE  successor'[g] \in open' /\ \A x \in Owned : handle[x] # successor'[g]
      <3>1. CASE g = h
        <4>1. successor'[g] = n /\ n \in open'
          BY <1>2, <1>11, <3>1, Zenon
        <4> QED BY <1>12, <2>1, <4>1, Zenon
      <3>2. CASE g # h
        <4>1. g \in Handle
          BY <1>1, <1>2, <2>1, Zenon
        <4>2. successor'[g] = successor[g]
          BY <1>11, <3>2, <4>1, Zenon
        <4>3. g \in open
          BY <1>2, <1>12, <2>3, <4>2, Zenon
        <4>4. successor[g] \in open /\ \A x \in Owned : handle[x] # successor[g]
          BY <1>5, <2>3, <4>2, <4>3, Zenon DEF World, Handles
        <4> QED BY <1>2, <4>2, <4>4, SMTT(30)
      <3> QED BY <3>1, <3>2, Zenon
    <2>4. ASSUME NEW x \in Listed(zombies) \cup undead PROVE state'[handle[x]] = "exited"
      <3>1. x \in Owned /\ state[handle[x]] = "exited"
        BY <1>5, Zenon DEF World, Handles, Owned, Tracked
      <3>2. handle[x] \in Handle /\ handle[x] # h /\ handle[x] # n
        BY <1>2, <1>12, <2>1, <3>1, Zenon
      <3> QED BY <1>11, <3>1, <3>2, Zenon
    <2>5. ASSUME NEW g \in Handle, state'[g] = "running" PROVE g \in open'
      <3>1. g = n \/ state[g] = "running"
        BY <1>11, <2>5, Zenon
      <3> QED BY <1>2, <1>5, <3>1, Zenon DEF World, Handles
    <2>6. \A x1, x2 \in Owned : handle[x1] = handle[x2] => x1 = x2
      BY <1>5, Zenon DEF World, Handles
    <2>7. \A x \in Owned : handle[x] \in open'
      BY <1>2, <2>1, Zenon
    <2> QED BY <1>3, <1>7, <2>2, <2>3, <2>4, <2>5, <2>6, <2>7, Zenon DEF Handles
  <1>16. Born' = Born
    <2>1. ASSUME NEW g \in Handle PROVE g \in Born' <=> g \in Born
      <3>1. CASE g = n
        BY <1>1, <1>11, <3>1, Zenon DEF Born
      <3>2. CASE g # n
        <4>1. state'[g] # "none" <=> state[g] # "none"
          BY <1>2, <1>11, <3>2, Zenon
        <4>2. \A k \in Handle : successor'[k] # g <=> successor[k] # g
          BY <1>11, <1>13, <3>2, ZeroHandle, Zenon
        <4> QED BY <4>1, <4>2, Zenon DEF Born
      <3> QED BY <3>1, <3>2, Zenon
    <2>2. Born \subseteq Handle /\ Born' \subseteq Handle
      BY Zenon DEF Born
    <2> QED BY <2>1, <2>2, Zenon
  <1>17. Reports'
    BY <1>3, <1>5, <1>7, <1>16, Zenon DEF World, Reports
  <1> QED BY <1>8, <1>9, <1>10, <1>14, <1>15, <1>17, Zenon DEF IInv, World

----------------------------------------------------------------------------
(***************************************************************************)
(* One caller moves.                                                       *)
(***************************************************************************)
\* The other callers stay where they are.
Alone(t) == \A u \in Caller \ {t} : pc'[u] = pc[u] /\ want'[u] = want[u] /\ pr'[u] = pr[u]

\* Caller t claims what it claimed before.
SameClaim(t) ==
    \/ ~Claims(t) /\ ~Claims(t)'
    \/ Claims(t) /\ Claims(t)' /\ pr'[t] = pr[t] /\ want'[t] = want[t]

\* What the call of t waits for, after a step.
Settled(t) ==
    /\ pc'[t] \in {"idle", "kill"} => want'[t] = AnyChild
    /\ want'[t] = AnyChild => pr'[t] = 0
    /\ (Claims(t)' /\ want'[t] # AnyChild) => pr'[t] \in Object

\* Finitely many callers claim an object, or wait for any child.
Counted == (\A o : Cardinality(Claimants(o)) \in Nat) /\ Cardinality(Anyone) \in Nat

\* A step of t that makes a claim adds one to one count.
Made(t) ==
    (Alone(t) /\ ~Claims(t) /\ Claims(t)') =>
       /\ \A o : Cardinality(Claimants(o)')
                    = Cardinality(Claimants(o)) + IF pr'[t] = o THEN 1 ELSE 0
       /\ Cardinality(Anyone') = Cardinality(Anyone) + IF want'[t] = AnyChild THEN 1 ELSE 0

\* A step of t that gives its claim up takes one from one count.
Dropped(t) ==
    (Alone(t) /\ Claims(t) /\ ~Claims(t)') =>
       /\ \A o : Cardinality(Claimants(o)')
                    = Cardinality(Claimants(o)) - IF pr[t] = o THEN 1 ELSE 0
       /\ Cardinality(Anyone') = Cardinality(Anyone) - IF want[t] = AnyChild THEN 1 ELSE 0
       /\ Cardinality(Claimants(pr[t])) > 0
       /\ want[t] = AnyChild => Cardinality(Anyone) > 0

\* A step of t that keeps its claim keeps the counts.
LEMMA ClaimsKept ==
    ASSUME NEW t \in Caller, Alone(t), SameClaim(t)
    PROVE  (\A o : Claimants(o)' = Claimants(o)) /\ Anyone' = Anyone
  <1>1. \A u \in Caller : u # t => (Claims(u)' <=> Claims(u)) /\ pr'[u] = pr[u] /\ want'[u] = want[u]
    BY Zenon DEF Alone, Claims
  <1>2. ASSUME NEW o PROVE Claimants(o)' = Claimants(o)
    <2>1. \A u \in Caller : (Claims(u)' /\ pr'[u] = o) <=> (Claims(u) /\ pr[u] = o)
      BY <1>1, Zenon DEF SameClaim
    <2> QED BY <2>1, Zenon DEF Claimants
  <1>3. \A u \in Caller : (Claims(u)' /\ want'[u] = AnyChild) <=> (Claims(u) /\ want[u] = AnyChild)
    BY <1>1, Zenon DEF SameClaim
  <1> QED BY <1>2, <1>3, Zenon DEF Anyone

\* __proc.lock has one holder, and who holds it over several steps is inside wait4().
LEMMA CallerLocked ==
    ASSUME Locked, NEW t \in Caller, Alone(t), wpc' = wpc, wobj' = wobj,
           \/ lock' = lock /\ Tracked \subseteq Tracked'
           \/ lock \in {NoOne, t} /\ lock' \in {NoOne, t},
           lock' = t => pc'[t] \in {"zombies", "status"},
           pc'[t] = "status" => lock' = t /\ want'[t] # AnyChild /\ pr'[t] \in Tracked'
    PROVE  Locked'
  <1>1. t # Worker /\ NoOne # Worker /\ NoOne \notin Caller
    BY ProcAssumption, Zenon DEF Worker
  <1>2. lock' = Worker <=> lock = Worker
    BY <1>1, Zenon
  <1>3. lock' = Worker <=> wpc' = "change"
    BY <1>2, Zenon DEF Locked
  <1>4. ASSUME NEW u \in Caller, u # t
        PROVE  /\ lock' = u => pc'[u] \in {"zombies", "status"}
               /\ pc'[u] = "status" => lock' = u /\ want'[u] # AnyChild /\ pr'[u] \in Tracked'
    <2>1. pc'[u] = pc[u] /\ want'[u] = want[u] /\ pr'[u] = pr[u]
      BY <1>4, Zenon DEF Alone
    <2>2. /\ lock = u => pc[u] \in {"zombies", "status"}
          /\ pc[u] = "status" => lock = u /\ want[u] # AnyChild /\ pr[u] \in Tracked
      BY <1>4, Zenon DEF Locked
    <2>3. u # NoOne
      BY <1>1, <1>4, Zenon
    <2> QED BY <1>4, <2>1, <2>2, <2>3, Zenon
  <1> QED BY <1>3, <1>4, Zenon DEF Locked

\* A step of t outside the lock, or one that only gives it up.
LEMMA QuietCaller ==
    ASSUME IInv, NEW t \in Caller, Alone(t), SameClaim(t), Settled(t),
           pc' \in [Caller -> PC], want' \in [Caller -> Handle \cup {AnyChild}],
           pr' \in [Caller -> Object \cup {0}], onbirth' \in BOOLEAN,
           state' \in [Handle -> {"none", "running", "exited", "execed"}],
           \A h \in Handle : state'[h] = state[h] \/ (state[h] = "running" /\ state'[h] = "exited"),
           lock' = lock \/ (lock \in {NoOne, t} /\ lock' \in {NoOne, t}),
           lock' = t => pc'[t] \in {"zombies", "status"},
           pc'[t] # "status", pc[t] = "status" => pr[t] \notin undead,
           ignored' = ignored, lists' = lists, objects' = objects, haszombies' = haszombies,
           successor' = successor, open' = open, spawner' = spawner, reported' = reported,
           wpc' = wpc, wobj' = wobj, anywaiters' = anywaiters
    PROVE  IInv'
  <1>1. /\ World' /\ TLists' /\ TObjects' /\ TKernel'
        /\ Tracked' = Tracked /\ undead' = undead /\ waiters' = waiters /\ spc' = spc /\ sobj' = sobj
    BY Quiet, Zenon
  <1>2. TThreads /\ Locked /\ Counts
    BY Zenon DEF IInv, Types
  <1>3. TThreads'
    <2>1. lock' \in Caller \cup {NoOne, Worker}
      BY <1>2, Zenon DEF TThreads
    <2> QED BY <1>1, <1>2, <2>1, Zenon DEF TThreads
  <1>4. Locked'
    BY <1>1, <1>2, CallerLocked, Zenon
  <1>5. (\A o : Claimants(o)' = Claimants(o)) /\ Anyone' = Anyone
    BY ClaimsKept, Zenon
  <1>6. \A o \in Object : Watching(o)' = Watching(o)
    BY Zenon DEF Watching
  <1>7. \A u \in Caller : /\ pc'[u] \in {"idle", "kill"} => want'[u] = AnyChild
                          /\ want'[u] = AnyChild => pr'[u] = 0
                          /\ (Claims(u)' /\ want'[u] # AnyChild) => pr'[u] \in Object
    <2>1. ASSUME NEW u \in Caller, u # t
          PROVE  /\ pc'[u] \in {"idle", "kill"} => want'[u] = AnyChild
                 /\ want'[u] = AnyChild => pr'[u] = 0
                 /\ (Claims(u)' /\ want'[u] # AnyChild) => pr'[u] \in Object
      <3>1. pc'[u] = pc[u] /\ want'[u] = want[u] /\ pr'[u] = pr[u]
        BY <2>1, Zenon DEF Alone
      <3> QED BY <1>2, <2>1, <3>1, SMTT(30) DEF Counts, Claims
    <2> QED BY <2>1, Zenon DEF Settled
  <1>8. ASSUME NEW o \in undead
        PROVE  waiters[o] > 0 \/ \E u \in Caller : pc'[u] = "status" /\ pr'[u] = o
    <2>1. CASE \E u \in Caller : pc[u] = "status" /\ pr[u] = o
      <3>1. PICK u \in Caller : pc[u] = "status" /\ pr[u] = o
        BY <2>1, Zenon
      <3>2. u # t
        BY <1>8, <3>1, SMTT(30)
      <3>3. pc'[u] = "status" /\ pr'[u] = o
        BY <3>1, <3>2, Zenon DEF Alone
      <3> QED BY <3>3, Zenon
    <2> QED BY <1>2, <1>8, <2>1, Zenon DEF Counts
  <1>9. Counts'
    BY <1>1, <1>2, <1>5, <1>6, <1>7, <1>8, SMTT(30) DEF Counts
  <1> QED BY <1>1, <1>3, <1>4, <1>9, Zenon DEF IInv, Types

\* Moving the program counter of t.
LEMMA GotoLemma ==
    ASSUME TThreads, NEW t \in Caller, NEW l \in PC, Goto(t, l)
    PROVE  pc' \in [Caller -> PC] /\ pc'[t] = l /\ \A u \in Caller \ {t} : pc'[u] = pc[u]
  BY Zenon DEF TThreads, Goto

\* The end of a call.
LEMMA ReturnLemma ==
    ASSUME TThreads, NEW t \in Caller, Return(t)
    PROVE  /\ pc' \in [Caller -> PC] /\ want' \in [Caller -> Handle \cup {AnyChild}]
           /\ pr' \in [Caller -> Object \cup {0}]
           /\ pc'[t] = "idle" /\ want'[t] = AnyChild /\ pr'[t] = 0
           /\ Alone(t) /\ Settled(t) /\ ~Claims(t)'
  <1>1. "idle" \in PC
    BY Zenon DEF PC
  <1>2. pc' \in [Caller -> PC] /\ pc'[t] = "idle" /\ \A u \in Caller \ {t} : pc'[u] = pc[u]
    BY <1>1, GotoLemma, Zenon DEF Return
  <1>3. /\ want' = [want EXCEPT ![t] = AnyChild] /\ pr' = [pr EXCEPT ![t] = 0]
    BY Zenon DEF Return
  <1>4. want \in [Caller -> Handle \cup {AnyChild}] /\ pr \in [Caller -> Object \cup {0}]
    BY Zenon DEF TThreads
  <1>5. /\ want' \in [Caller -> Handle \cup {AnyChild}] /\ pr' \in [Caller -> Object \cup {0}]
        /\ want'[t] = AnyChild /\ pr'[t] = 0
        /\ \A u \in Caller \ {t} : want'[u] = want[u] /\ pr'[u] = pr[u]
    BY <1>3, <1>4, Zenon
  <1>6. ~Claims(t)'
    BY <1>2, Zenon DEF Claims
  <1> QED BY <1>2, <1>5, <1>6, Zenon DEF Alone, Settled

\* A call of wait4() begins.
LEMMA WaitCallStep ==
    ASSUME IInv, NEW t \in Caller, NEW p \in Handle \cup {AnyChild}, NEW b \in BOOLEAN,
           WaitCall(t, p, b), ignored' = ignored
    PROVE  IInv'
  <1>1. TThreads /\ TKernel /\ Locked /\ Counts
    BY Zenon DEF IInv, Types
  <1>2. /\ lists' = lists /\ objects' = objects /\ haszombies' = haszombies
        /\ successor' = successor /\ open' = open /\ spawner' = spawner /\ reported' = reported
        /\ wpc' = wpc /\ wobj' = wobj /\ anywaiters' = anywaiters
        /\ onbirth' = onbirth /\ state' = state /\ lock' = lock /\ pr' = pr
    BY Zenon DEF WaitCall, events, kernel, worker
  <1>3. /\ onbirth' \in BOOLEAN /\ state' \in [Handle -> {"none", "running", "exited", "execed"}]
        /\ \A h \in Handle : state'[h] = state[h] \/ (state[h] = "running" /\ state'[h] = "exited")
    BY <1>1, <1>2, Zenon DEF TKernel
  <1>4. pc[t] = "idle" /\ want' = [want EXCEPT ![t] = p] /\ Goto(t, "check")
    BY Zenon DEF WaitCall
  <1>5. pc' \in [Caller -> PC] /\ pc'[t] = "check" /\ \A u \in Caller \ {t} : pc'[u] = pc[u]
    BY <1>1, <1>4, GotoLemma, Zenon DEF PC
  <1>6. /\ want' \in [Caller -> Handle \cup {AnyChild}] /\ pr' \in [Caller -> Object \cup {0}]
        /\ \A u \in Caller \ {t} : want'[u] = want[u]
    BY <1>1, <1>2, <1>4, Zenon DEF TThreads
  <1>7. Alone(t)
    BY <1>2, <1>5, <1>6, Zenon DEF Alone
  <1>8. ~Claims(t) /\ ~Claims(t)'
    BY <1>4, <1>5, Zenon DEF Claims
  <1>9. pr[t] = 0
    BY <1>1, <1>4, Zenon DEF Counts
  <1>10. SameClaim(t) /\ Settled(t)
    BY <1>2, <1>5, <1>8, <1>9, Zenon DEF SameClaim, Settled
  <1>11. lock' # t /\ pc'[t] # "status" /\ pc[t] # "status"
    BY <1>1, <1>2, <1>4, <1>5, Zenon DEF Locked
  <1> QED BY <1>2, <1>3, <1>5, <1>6, <1>7, <1>10, <1>11, QuietCaller, Zenon

\* A signal arrives for a thread.
LEMMA InterruptStep ==
    ASSUME IInv, NEW t \in Caller, Interrupt(t), ignored' = ignored
    PROVE  IInv'
  <1>1. TThreads /\ TKernel /\ Locked /\ Counts
    BY Zenon DEF IInv, Types
  <1>2. /\ lists' = lists /\ objects' = objects /\ haszombies' = haszombies /\ onbirth' = onbirth
        /\ state' = state /\ successor' = successor /\ open' = open /\ spawner' = spawner
        /\ reported' = reported /\ lock' = lock /\ wpc' = wpc /\ wobj' = wobj
        /\ pc' = pc /\ want' = want /\ pr' = pr /\ anywaiters' = anywaiters
    BY Zenon DEF Interrupt, events, kernel, worker
  <1>3. /\ onbirth' \in BOOLEAN /\ state' \in [Handle -> {"none", "running", "exited", "execed"}]
        /\ \A h \in Handle : state'[h] = state[h] \/ (state[h] = "running" /\ state'[h] = "exited")
    BY <1>1, <1>2, Zenon DEF TKernel
  <1>4. /\ World' /\ TLists' /\ TObjects' /\ TKernel'
        /\ Tracked' = Tracked /\ undead' = undead /\ waiters' = waiters /\ spc' = spc /\ sobj' = sobj
    BY <1>2, <1>3, Quiet, Zenon
  <1>5. TThreads'
    BY <1>1, <1>2, <1>4, StillThreads, Zenon
  <1>6. Locked' /\ Counts'
    BY <1>1, <1>2, <1>4, SameCallers, Zenon
  <1> QED BY <1>4, <1>5, <1>6, Zenon DEF IInv, Types

\* wait4() looks for signals and for a cancellation.
LEMMA CheckSignalsStep ==
    ASSUME IInv, NEW t \in Caller, CheckSignals(t), ignored' = ignored
    PROVE  IInv'
  <1>1. TThreads /\ TKernel /\ Locked /\ Counts
    BY Zenon DEF IInv, Types
  <1>2. /\ lists' = lists /\ objects' = objects /\ haszombies' = haszombies
        /\ successor' = successor /\ open' = open /\ spawner' = spawner /\ reported' = reported
        /\ wpc' = wpc /\ wobj' = wobj /\ anywaiters' = anywaiters
        /\ onbirth' = onbirth /\ state' = state /\ lock' = lock
    BY Zenon DEF CheckSignals, events, kernel, worker
  <1>3. /\ onbirth' \in BOOLEAN /\ state' \in [Handle -> {"none", "running", "exited", "execed"}]
        /\ \A h \in Handle : state'[h] = state[h] \/ (state[h] = "running" /\ state'[h] = "exited")
    BY <1>1, <1>2, Zenon DEF TKernel
  <1>4. pc[t] = "check"
    BY Zenon DEF CheckSignals
  <1>5. ~Claims(t) /\ lock' # t /\ pc[t] # "status"
    BY <1>1, <1>2, <1>4, Zenon DEF Claims, Locked
  <1>6. CASE Return(t)
    <2>1. /\ pc' \in [Caller -> PC] /\ want' \in [Caller -> Handle \cup {AnyChild}]
          /\ pr' \in [Caller -> Object \cup {0}] /\ pc'[t] = "idle" /\ Alone(t) /\ Settled(t) /\ ~Claims(t)'
      BY <1>1, <1>6, ReturnLemma, Zenon
    <2>2. SameClaim(t) /\ pc'[t] # "status"
      BY <1>5, <2>1, Zenon DEF SameClaim
    <2> QED BY <1>2, <1>3, <1>5, <2>1, <2>2, QuietCaller, Zenon
  <1>7. CASE Goto(t, "zombies") /\ UNCHANGED locals
    <2>1. pc' \in [Caller -> PC] /\ pc'[t] = "zombies" /\ \A u \in Caller \ {t} : pc'[u] = pc[u]
      BY <1>1, <1>7, GotoLemma, Zenon DEF PC
    <2>2. want' = want /\ pr' = pr
      BY <1>7, Zenon DEF locals
    <2>3. want' \in [Caller -> Handle \cup {AnyChild}] /\ pr' \in [Caller -> Object \cup {0}]
      BY <1>1, <2>2, Zenon DEF TThreads
    <2>4. Alone(t)
      BY <2>1, <2>2, Zenon DEF Alone
    <2>5. ~Claims(t)'
      BY <2>1, Zenon DEF Claims
    <2>6. SameClaim(t) /\ pc'[t] # "status" /\ Settled(t)
      BY <1>1, <1>5, <2>1, <2>2, <2>5, Zenon DEF SameClaim, Settled, Counts
    <2> QED BY <1>2, <1>3, <1>5, <2>1, <2>3, <2>4, <2>6, QuietCaller, Zenon
  <1> QED BY <1>6, <1>7, Zenon DEF CheckSignals

\* wait4() finds nothing to wait for.
LEMMA NothingToWaitForStep ==
    ASSUME IInv, NEW t \in Caller, NothingToWaitFor(t), ignored' = ignored
    PROVE  IInv'
  <1>1. TThreads /\ TKernel /\ Locked /\ Counts
    BY Zenon DEF IInv, Types
  <1>2. /\ lists' = lists /\ objects' = objects /\ haszombies' = haszombies
        /\ successor' = successor /\ open' = open /\ spawner' = spawner /\ reported' = reported
        /\ wpc' = wpc /\ wobj' = wobj /\ anywaiters' = anywaiters
        /\ onbirth' = onbirth /\ state' = state
    BY Zenon DEF NothingToWaitFor, events, kernel, worker
  <1>3. /\ onbirth' \in BOOLEAN /\ state' \in [Handle -> {"none", "running", "exited", "execed"}]
        /\ \A h \in Handle : state'[h] = state[h] \/ (state[h] = "running" /\ state'[h] = "exited")
    BY <1>1, <1>2, Zenon DEF TKernel
  <1>4. pc[t] = "zombies" /\ lock \in {NoOne, t} /\ lock' = NoOne /\ Return(t)
    BY Zenon DEF NothingToWaitFor, AtZombies
  <1>5. /\ pc' \in [Caller -> PC] /\ want' \in [Caller -> Handle \cup {AnyChild}]
        /\ pr' \in [Caller -> Object \cup {0}] /\ pc'[t] = "idle" /\ Alone(t) /\ Settled(t) /\ ~Claims(t)'
    BY <1>1, <1>4, ReturnLemma, Zenon
  <1>6. ~Claims(t) /\ lock' # t
    BY <1>4, ProcAssumption, Zenon DEF Claims
  <1>7. SameClaim(t) /\ pc'[t] # "status" /\ pc[t] # "status"
    BY <1>4, <1>5, <1>6, Zenon DEF SameClaim
  <1> QED BY <1>2, <1>3, <1>4, <1>5, <1>6, <1>7, QuietCaller, Zenon

\* The wait begins, or fails at once.
LEMMA EnterStep ==
    ASSUME IInv, NEW t \in Caller, Enter(t), ignored' = ignored
    PROVE  IInv'
  <1>1. TThreads /\ TKernel /\ Locked /\ Counts
    BY Zenon DEF IInv, Types
  <1>2. /\ lists' = lists /\ objects' = objects /\ haszombies' = haszombies
        /\ successor' = successor /\ open' = open /\ spawner' = spawner /\ reported' = reported
        /\ wpc' = wpc /\ wobj' = wobj /\ anywaiters' = anywaiters
        /\ onbirth' = onbirth /\ state' = state /\ lock' = lock /\ want' = want /\ pr' = pr
    BY Zenon DEF Enter, events, kernel, worker
  <1>3. /\ onbirth' \in BOOLEAN /\ state' \in [Handle -> {"none", "running", "exited", "execed"}]
        /\ \A h \in Handle : state'[h] = state[h] \/ (state[h] = "running" /\ state'[h] = "exited")
    BY <1>1, <1>2, Zenon DEF TKernel
  <1>4. pc[t] = "enter" /\ \E l \in {"blocked", "woke"} : Goto(t, l)
    BY Zenon DEF Enter
  <1>5. /\ pc' \in [Caller -> PC] /\ pc'[t] \in {"blocked", "woke"}
        /\ \A u \in Caller \ {t} : pc'[u] = pc[u]
    BY <1>1, <1>4, GotoLemma, Zenon DEF PC
  <1>6. want' \in [Caller -> Handle \cup {AnyChild}] /\ pr' \in [Caller -> Object \cup {0}]
    BY <1>1, <1>2, Zenon DEF TThreads
  <1>7. Alone(t)
    BY <1>2, <1>5, Zenon DEF Alone
  <1>8. Claims(t) /\ Claims(t)'
    BY <1>4, <1>5, Zenon DEF Claims
  <1>9. SameClaim(t) /\ Settled(t)
    BY <1>1, <1>2, <1>5, <1>8, Zenon DEF SameClaim, Settled, Counts
  <1>10. lock' # t /\ pc'[t] # "status" /\ pc[t] # "status"
    BY <1>1, <1>2, <1>4, <1>5, Zenon DEF Locked
  <1> QED BY <1>2, <1>3, <1>5, <1>6, <1>7, <1>9, <1>10, QuietCaller, Zenon

\* The wait of a caller ends.
LEMMA WakeStep ==
    ASSUME IInv, NEW t \in Caller, Wake(t), ignored' = ignored
    PROVE  IInv'
  <1>1. TThreads /\ TKernel /\ Locked /\ Counts
    BY Zenon DEF IInv, Types
  <1>2. /\ lists' = lists /\ objects' = objects /\ haszombies' = haszombies
        /\ successor' = successor /\ open' = open /\ spawner' = spawner /\ reported' = reported
        /\ wpc' = wpc /\ wobj' = wobj /\ anywaiters' = anywaiters
        /\ onbirth' = onbirth /\ state' = state /\ lock' = lock /\ want' = want /\ pr' = pr
    BY Zenon DEF Wake, events, kernel, worker
  <1>3. /\ onbirth' \in BOOLEAN /\ state' \in [Handle -> {"none", "running", "exited", "execed"}]
        /\ \A h \in Handle : state'[h] = state[h] \/ (state[h] = "running" /\ state'[h] = "exited")
    BY <1>1, <1>2, Zenon DEF TKernel
  <1>4. pc[t] = "blocked" /\ \E l \in {"woke"} : Goto(t, l)
    BY Zenon DEF Wake
  <1>5. /\ pc' \in [Caller -> PC] /\ pc'[t] \in {"woke"}
        /\ \A u \in Caller \ {t} : pc'[u] = pc[u]
    BY <1>1, <1>4, GotoLemma, Zenon DEF PC
  <1>6. want' \in [Caller -> Handle \cup {AnyChild}] /\ pr' \in [Caller -> Object \cup {0}]
    BY <1>1, <1>2, Zenon DEF TThreads
  <1>7. Alone(t)
    BY <1>2, <1>5, Zenon DEF Alone
  <1>8. Claims(t) /\ Claims(t)'
    BY <1>4, <1>5, Zenon DEF Claims
  <1>9. SameClaim(t) /\ Settled(t)
    BY <1>1, <1>2, <1>5, <1>8, Zenon DEF SameClaim, Settled, Counts
  <1>10. lock' # t /\ pc'[t] # "status" /\ pc[t] # "status"
    BY <1>1, <1>2, <1>4, <1>5, Zenon DEF Locked
  <1> QED BY <1>2, <1>3, <1>5, <1>6, <1>7, <1>9, <1>10, QuietCaller, Zenon

\* The child only called execve(): the lock is given up.
LEMMA StatusAliveStep ==
    ASSUME IInv, NEW t \in Caller, StatusAlive(t), ignored' = ignored
    PROVE  IInv'
  <1>1. TThreads /\ TKernel /\ Locked /\ Counts
    BY Zenon DEF IInv, Types
  <1>2. /\ lists' = lists /\ objects' = objects /\ haszombies' = haszombies
        /\ successor' = successor /\ open' = open /\ spawner' = spawner /\ reported' = reported
        /\ wpc' = wpc /\ wobj' = wobj /\ anywaiters' = anywaiters
        /\ onbirth' = onbirth /\ state' = state /\ want' = want /\ pr' = pr
    BY Zenon DEF StatusAlive, events, kernel, worker, locals
  <1>3. /\ onbirth' \in BOOLEAN /\ state' \in [Handle -> {"none", "running", "exited", "execed"}]
        /\ \A h \in Handle : state'[h] = state[h] \/ (state[h] = "running" /\ state'[h] = "exited")
    BY <1>1, <1>2, Zenon DEF TKernel
  <1>4. pc[t] = "status" /\ status[pr[t]] = "ALIVE" /\ lock' = NoOne /\ Goto(t, "unlocked")
    BY Zenon DEF StatusAlive
  <1>5. pc' \in [Caller -> PC] /\ pc'[t] = "unlocked" /\ \A u \in Caller \ {t} : pc'[u] = pc[u]
    BY <1>1, <1>4, GotoLemma, Zenon DEF PC
  <1>6. want' \in [Caller -> Handle \cup {AnyChild}] /\ pr' \in [Caller -> Object \cup {0}]
    BY <1>1, <1>2, Zenon DEF TThreads
  <1>7. Alone(t)
    BY <1>2, <1>5, Zenon DEF Alone
  <1>8. ~Claims(t) /\ ~Claims(t)'
    BY <1>4, <1>5, Zenon DEF Claims
  <1>9. SameClaim(t) /\ Settled(t)
    BY <1>1, <1>2, <1>5, <1>8, Zenon DEF SameClaim, Settled, Counts
  <1>10. lock = t /\ lock' # t /\ pc'[t] # "status"
    BY <1>1, <1>4, <1>5, ProcAssumption, Zenon DEF Locked
  <1>11. pr[t] \notin undead
    BY <1>4, Zenon DEF IInv, World, Places
  <1> QED BY <1>2, <1>3, <1>4, <1>5, <1>6, <1>7, <1>9, <1>10, <1>11, QuietCaller, Zenon

\* After the unlock the caller has the worker look at the child again.
LEMMA NotifyWorkerStep ==
    ASSUME IInv, NEW t \in Caller, NotifyWorker(t), ignored' = ignored
    PROVE  IInv'
  <1>1. TThreads /\ TKernel /\ Locked /\ Counts
    BY Zenon DEF IInv, Types
  <1>2. /\ lists' = lists /\ objects' = objects /\ haszombies' = haszombies
        /\ successor' = successor /\ open' = open /\ spawner' = spawner /\ reported' = reported
        /\ wpc' = wpc /\ wobj' = wobj /\ anywaiters' = anywaiters
        /\ state' = state /\ lock' = lock /\ want' = want /\ pr' = pr
    BY Zenon DEF NotifyWorker, kernel, worker, locals
  <1>3. /\ onbirth' \in BOOLEAN /\ state' \in [Handle -> {"none", "running", "exited", "execed"}]
        /\ \A h \in Handle : state'[h] = state[h] \/ (state[h] = "running" /\ state'[h] = "exited")
    BY <1>1, <1>2, Zenon DEF TKernel, NotifyWorker
  <1>4. pc[t] = "unlocked" /\ Goto(t, "check")
    BY Zenon DEF NotifyWorker
  <1>5. pc' \in [Caller -> PC] /\ pc'[t] = "check" /\ \A u \in Caller \ {t} : pc'[u] = pc[u]
    BY <1>1, <1>4, GotoLemma, Zenon DEF PC
  <1>6. want' \in [Caller -> Handle \cup {AnyChild}] /\ pr' \in [Caller -> Object \cup {0}]
    BY <1>1, <1>2, Zenon DEF TThreads
  <1>7. Alone(t)
    BY <1>2, <1>5, Zenon DEF Alone
  <1>8. ~Claims(t) /\ ~Claims(t)'
    BY <1>4, <1>5, Zenon DEF Claims
  <1>9. SameClaim(t) /\ Settled(t)
    BY <1>1, <1>2, <1>5, <1>8, Zenon DEF SameClaim, Settled, Counts
  <1>10. lock' # t /\ pc'[t] # "status" /\ pc[t] # "status"
    BY <1>1, <1>2, <1>4, <1>5, Zenon DEF Locked
  <1> QED BY <1>2, <1>3, <1>5, <1>6, <1>7, <1>9, <1>10, QuietCaller, Zenon

\* kill() finds the handle of a child.
LEMMA SearchStep ==
    ASSUME IInv, NEW t \in Caller, NEW o \in Object, __proc_search(t, o), ignored' = ignored
    PROVE  IInv'
  <1>1. TThreads /\ TKernel /\ Locked /\ Counts
    BY Zenon DEF IInv, Types
  <1>2. /\ lists' = lists /\ objects' = objects /\ haszombies' = haszombies
        /\ successor' = successor /\ open' = open /\ spawner' = spawner /\ reported' = reported
        /\ wpc' = wpc /\ wobj' = wobj /\ anywaiters' = anywaiters
        /\ onbirth' = onbirth /\ state' = state /\ lock' = lock /\ want' = want /\ pr' = pr
    BY Zenon DEF __proc_search, events, kernel, worker
  <1>3. /\ onbirth' \in BOOLEAN /\ state' \in [Handle -> {"none", "running", "exited", "execed"}]
        /\ \A h \in Handle : state'[h] = state[h] \/ (state[h] = "running" /\ state'[h] = "exited")
    BY <1>1, <1>2, Zenon DEF TKernel
  <1>4. pc[t] = "idle" /\ Goto(t, "kill")
    BY Zenon DEF __proc_search
  <1>5. pc' \in [Caller -> PC] /\ pc'[t] = "kill" /\ \A u \in Caller \ {t} : pc'[u] = pc[u]
    BY <1>1, <1>4, GotoLemma, Zenon DEF PC
  <1>6. want' \in [Caller -> Handle \cup {AnyChild}] /\ pr' \in [Caller -> Object \cup {0}]
    BY <1>1, <1>2, Zenon DEF TThreads
  <1>7. Alone(t)
    BY <1>2, <1>5, Zenon DEF Alone
  <1>8. ~Claims(t) /\ ~Claims(t)'
    BY <1>4, <1>5, Zenon DEF Claims
  <1>9. SameClaim(t) /\ Settled(t)
    BY <1>1, <1>2, <1>4, <1>5, <1>8, Zenon DEF SameClaim, Settled, Counts
  <1>10. lock' # t /\ pc'[t] # "status" /\ pc[t] # "status"
    BY <1>1, <1>2, <1>4, <1>5, Zenon DEF Locked
  <1> QED BY <1>2, <1>3, <1>5, <1>6, <1>7, <1>9, <1>10, QuietCaller, Zenon

\* kill() ends the process behind the handle, if it is open.
LEMMA KillUseStep ==
    ASSUME IInv, NEW t \in Caller, KillUse(t), ignored' = ignored
    PROVE  IInv'
  <1>1. TThreads /\ TKernel /\ Locked /\ Counts
    BY Zenon DEF IInv, Types
  <1>2. /\ lists' = lists /\ objects' = objects /\ haszombies' = haszombies
        /\ successor' = successor /\ open' = open /\ spawner' = spawner /\ reported' = reported
        /\ wpc' = wpc /\ wobj' = wobj /\ anywaiters' = anywaiters
        /\ onbirth' = onbirth /\ lock' = lock
    BY Zenon DEF KillUse, events, worker
  <1>3. /\ onbirth' \in BOOLEAN /\ state' \in [Handle -> {"none", "running", "exited", "execed"}]
        /\ \A h \in Handle : state'[h] = state[h] \/ (state[h] = "running" /\ state'[h] = "exited")
    <2>1. Terminated({hwait[t]} \cap open)
      BY Zenon DEF KillUse
    <2>2. onbirth' \in BOOLEAN
      BY <1>1, <1>2, Zenon DEF TKernel
    <2> QED BY <1>1, <2>1, <2>2, TerminatedLemma, Zenon
  <1>4. pc[t] = "kill" /\ Return(t)
    BY Zenon DEF KillUse
  <1>5. /\ pc' \in [Caller -> PC] /\ want' \in [Caller -> Handle \cup {AnyChild}]
        /\ pr' \in [Caller -> Object \cup {0}] /\ pc'[t] = "idle" /\ Alone(t) /\ Settled(t) /\ ~Claims(t)'
    BY <1>1, <1>4, ReturnLemma, Zenon
  <1>6. ~Claims(t) /\ lock' # t /\ pc[t] # "status"
    BY <1>1, <1>2, <1>4, Zenon DEF Claims, Locked
  <1>7. SameClaim(t) /\ pc'[t] # "status"
    BY <1>5, <1>6, Zenon DEF SameClaim
  <1> QED BY <1>2, <1>3, <1>5, <1>6, <1>7, QuietCaller, Zenon

----------------------------------------------------------------------------
(***************************************************************************)
(* Claims are made and given up.                                           *)
(***************************************************************************)
\* The counts after a step of t, put together.
LEMMA CountsMoved ==
    ASSUME Counts, NEW t \in Caller, Alone(t), Settled(t), wobj' = wobj,
           \A o \in Object : waiters'[o] = Cardinality(Claimants(o)') + Watching(o),
           anywaiters' = Cardinality(Anyone'),
           \A o \in Object : waiters'[o] > 0 => o \in Tracked',
           \A o \in undead' : waiters'[o] > 0 \/ \E u \in Caller : pc'[u] = "status" /\ pr'[u] = o
    PROVE  Counts'
  <1>1. \A o \in Object : Watching(o)' = Watching(o)
    BY Zenon DEF Watching
  <1>2. \A u \in Caller : /\ pc'[u] \in {"idle", "kill"} => want'[u] = AnyChild
                          /\ want'[u] = AnyChild => pr'[u] = 0
                          /\ (Claims(u)' /\ want'[u] # AnyChild) => pr'[u] \in Object
    <2>1. ASSUME NEW u \in Caller, u # t
          PROVE  /\ pc'[u] \in {"idle", "kill"} => want'[u] = AnyChild
                 /\ want'[u] = AnyChild => pr'[u] = 0
                 /\ (Claims(u)' /\ want'[u] # AnyChild) => pr'[u] \in Object
      <3>1. pc'[u] = pc[u] /\ want'[u] = want[u] /\ pr'[u] = pr[u]
        BY <2>1, Zenon DEF Alone
      <3> QED BY <2>1, <3>1, Zenon DEF Counts, Claims
    <2> QED BY <2>1, Zenon DEF Settled
  <1> QED BY <1>1, <1>2, SMTT(30) DEF Counts

\* Those who reap an object go on with it while t moves.
LEMMA ReapersStay ==
    ASSUME NEW t \in Caller, Alone(t), pc[t] # "status", NEW o,
           \E u \in Caller : pc[u] = "status" /\ pr[u] = o
    PROVE  \E u \in Caller : pc'[u] = "status" /\ pr'[u] = o
  <1>1. PICK u \in Caller : pc[u] = "status" /\ pr[u] = o
    BY Zenon
  <1>2. u # t
    BY <1>1, Zenon
  <1>3. pc'[u] = "status" /\ pr'[u] = o
    BY <1>1, <1>2, Zenon DEF Alone
  <1> QED BY <1>3, Zenon

\* 0 stands for no object.
LEMMA ZeroObject == 0 \notin Object
  BY ProcAssumption DEF Object

\* The search of wait4() ends at a living child.
LEMMA SearchedLemma ==
    ASSUME TLists, NEW t, list # <<>>
    PROVE  Searched(t) \in Listed(list) /\ Searched(t) \in Object
  <1>1. Len(list) \in DOMAIN list
    BY DEF TLists
  <1>2. list[Len(list)] \in Listed(list)
    BY <1>1, InList, Zenon
  <1>3. Searched(t) \in Listed(list)
    <2>1. CASE \E o \in Listed(list) : pid[o] = want[t]
      BY <2>1, Zenon DEF Searched
    <2>2. CASE ~\E o \in Listed(list) : pid[o] = want[t]
      BY <1>2, <2>2, Zenon DEF Searched
    <2> QED BY <2>1, <2>2, Zenon
  <1> QED BY <1>3, ListSubset, Zenon DEF TLists

\* wait4() counts itself as a waiter and gives up the lock.
LEMMA RegisterStep ==
    ASSUME IInv, Counted, NEW t \in Caller, Made(t), Register(t), ignored' = ignored
    PROVE  IInv'
  <1>1. TThreads /\ TKernel /\ TLists /\ TObjects /\ Types /\ World /\ Locked /\ Counts
    BY Zenon DEF IInv, Types
  <1>2. /\ list' = list /\ zombies' = zombies /\ free' = free /\ undead' = undead /\ used' = used
        /\ status' = status /\ pid' = pid /\ handle' = handle /\ haszombies' = haszombies
        /\ onbirth' = onbirth /\ state' = state /\ successor' = successor /\ open' = open
        /\ spc' = spc /\ sobj' = sobj /\ reported' = reported
    BY Zenon DEF Register, lists, events, kernel, spawner
  <1>3. wpc' = wpc /\ wobj' = wobj /\ want' = want
    BY Zenon DEF Register, worker
  <1>4. pc[t] = "zombies" /\ lock \in {NoOne, t} /\ lock' = NoOne /\ Goto(t, "enter") /\ list # <<>>
    BY Zenon DEF Register, AtZombies
  <1>5. World'
    <2>1. /\ state' \in [Handle -> {"none", "running", "exited", "execed"}]
          /\ \A h \in Handle : state'[h] = state[h] \/ (state[h] = "running" /\ state'[h] = "exited")
      BY <1>1, <1>2, Zenon DEF TKernel
    <2> QED BY <1>1, <1>2, <2>1, SameWorld, Zenon
  <1>6. TLists' /\ TKernel'
    BY <1>1, <1>2, Zenon DEF TLists, TKernel
  <1>7. Tracked' = Tracked
    BY <1>2, Zenon DEF Tracked
  <1>8. pc' \in [Caller -> PC] /\ pc'[t] = "enter" /\ \A u \in Caller \ {t} : pc'[u] = pc[u]
    BY <1>1, <1>4, GotoLemma, Zenon DEF PC
  <1>9. ~Claims(t) /\ Claims(t)' /\ pc[t] # "status"
    BY <1>4, <1>8, Zenon DEF Claims
  <1>10. CASE want[t] = AnyChild
    <2>1. anywaiters' = anywaiters + 1 /\ waiters' = waiters /\ pr' = pr
      BY <1>10, Zenon DEF Register
    <2>2. Alone(t)
      BY <1>3, <1>8, <2>1, Zenon DEF Alone
    <2>3. /\ TObjects' /\ TThreads'
      BY <1>1, <1>2, <1>3, <1>4, <1>8, <2>1, Zenon DEF TObjects, TThreads
    <2>4. pr'[t] = 0 /\ want'[t] = AnyChild
      BY <1>1, <1>3, <1>10, <2>1, Zenon DEF Counts
    <2>5. Settled(t)
      BY <1>8, <2>4, Zenon DEF Settled
    <2>6. /\ \A o : Cardinality(Claimants(o)') = Cardinality(Claimants(o)) + IF pr'[t] = o THEN 1 ELSE 0
          /\ Cardinality(Anyone') = Cardinality(Anyone) + IF want'[t] = AnyChild THEN 1 ELSE 0
      BY <1>9, <2>2, Zenon DEF Made
    <2>7. \A o \in Object : waiters'[o] = Cardinality(Claimants(o)') + Watching(o)
      BY <1>1, <2>1, <2>4, <2>6, ZeroObject, SMTT(30) DEF Counts, Counted
    <2>8. anywaiters' = Cardinality(Anyone')
      BY <1>1, <2>1, <2>4, <2>6, Zenon DEF Counts
    <2>9. \A o \in Object : waiters'[o] > 0 => o \in Tracked'
      BY <1>1, <1>7, <2>1, Zenon DEF Counts
    <2>10. \A o \in undead' : waiters'[o] > 0 \/ \E u \in Caller : pc'[u] = "status" /\ pr'[u] = o
      BY <1>1, <1>2, <1>9, <2>1, <2>2, ReapersStay, Zenon DEF Counts
    <2>11. Counts'
      BY <1>1, <1>3, <2>2, <2>5, <2>7, <2>8, <2>9, <2>10, CountsMoved, Zenon
    <2>12. Locked'
      BY <1>1, <1>3, <1>4, <1>8, <2>2, ProcAssumption, CallerLocked, Zenon
    <2> QED BY <1>5, <1>6, <2>3, <2>11, <2>12, Zenon DEF IInv, Types
  <1>11. CASE want[t] # AnyChild
    <2> DEFINE c == Searched(t)
    <2>1. anywaiters' = anywaiters /\ waiters' = [waiters EXCEPT ![c] = @ + 1] /\ pr' = [pr EXCEPT ![t] = c]
      BY <1>11, Zenon DEF Register, Claim
    <2>2. c \in Listed(list) /\ c \in Object
      BY <1>1, <1>4, SearchedLemma, Zenon
    <2> HIDE DEF c
    <2>3. pr'[t] = c /\ pr' \in [Caller -> Object \cup {0}] /\ \A u \in Caller \ {t} : pr'[u] = pr[u]
      BY <1>1, <2>1, <2>2, Zenon DEF TThreads
    <2>4. Alone(t)
      BY <1>3, <1>8, <2>3, Zenon DEF Alone
    <2>5. /\ waiters' \in [Object -> Nat] /\ waiters'[c] = waiters[c] + 1
          /\ \A o \in Object : o # c => waiters'[o] = waiters[o]
      BY <1>1, <2>1, <2>2, SMTT(30) DEF TObjects
    <2>6. TObjects' /\ TThreads'
      BY <1>1, <1>2, <1>3, <1>4, <1>8, <2>3, <2>5, Zenon DEF TObjects, TThreads
    <2>7. Settled(t)
      BY <1>3, <1>8, <1>11, <2>2, <2>3, Zenon DEF Settled
    <2>8. /\ \A o : Cardinality(Claimants(o)') = Cardinality(Claimants(o)) + IF pr'[t] = o THEN 1 ELSE 0
          /\ Cardinality(Anyone') = Cardinality(Anyone) + IF want'[t] = AnyChild THEN 1 ELSE 0
      BY <1>9, <2>4, Zenon DEF Made
    <2>9. ASSUME NEW o \in Object PROVE waiters'[o] = Cardinality(Claimants(o)') + Watching(o)
      <3>1. waiters[o] = Cardinality(Claimants(o)) + Watching(o)
        BY <1>1, Zenon DEF Counts
      <3>2. Cardinality(Claimants(o)) \in Nat /\ Watching(o) \in Nat
        BY Zenon DEF Watching, Counted
      <3> QED BY <2>3, <2>5, <2>8, <3>1, <3>2, SMTT(30)
    <2>10. anywaiters' = Cardinality(Anyone')
      BY <1>1, <1>3, <1>11, <2>1, <2>8, SMTT(30) DEF Counts, Counted
    <2>11. \A o \in Object : waiters'[o] > 0 => o \in Tracked'
      BY <1>1, <1>7, <2>2, <2>5, Zenon DEF Counts, Tracked
    <2>12. ASSUME NEW o \in undead'
           PROVE  waiters'[o] > 0 \/ \E u \in Caller : pc'[u] = "status" /\ pr'[u] = o
      <3>1. o \in undead /\ o \in Object
        BY <1>1, <1>2, <2>12, Zenon DEF TLists
      <3>2. o # c
        BY <1>1, <2>2, <3>1, Zenon DEF World, Places
      <3> QED BY <1>1, <1>9, <2>4, <2>5, <3>1, <3>2, ReapersStay, Zenon DEF Counts
    <2>13. Counts'
      BY <1>1, <1>3, <2>4, <2>7, <2>9, <2>10, <2>11, <2>12, CountsMoved, Zenon
    <2>14. Locked'
      BY <1>1, <1>3, <1>4, <1>8, <2>4, ProcAssumption, CallerLocked, SMTT(30)
    <2> QED BY <1>5, <1>6, <2>6, <2>13, <2>14, Zenon DEF IInv, Types
  <1> QED BY <1>10, <1>11, Zenon

\* A wait for any child ended: the caller takes the lock and looks at the zombies.
LEMMA WokeAnyStep ==
    ASSUME IInv, Counted, NEW t \in Caller, Dropped(t), WokeAny(t), ignored' = ignored
    PROVE  IInv'
  <1>1. TThreads /\ TKernel /\ Types /\ World /\ Locked /\ Counts
    BY Zenon DEF IInv, Types
  <1>2. /\ lists' = lists /\ objects' = objects /\ haszombies' = haszombies /\ onbirth' = onbirth
        /\ state' = state /\ successor' = successor /\ open' = open /\ spawner' = spawner
        /\ reported' = reported /\ wpc' = wpc /\ wobj' = wobj /\ want' = want /\ pr' = pr
    BY Zenon DEF WokeAny, events, kernel, worker, locals
  <1>3. /\ pc[t] = "woke" /\ lock = NoOne /\ lock' = t /\ want[t] = AnyChild
        /\ anywaiters' = anywaiters - 1 /\ Goto(t, "zombies")
    BY Zenon DEF WokeAny
  <1>4. /\ onbirth' \in BOOLEAN /\ state' \in [Handle -> {"none", "running", "exited", "execed"}]
        /\ \A h \in Handle : state'[h] = state[h] \/ (state[h] = "running" /\ state'[h] = "exited")
    BY <1>1, <1>2, Zenon DEF TKernel
  <1>5. /\ World' /\ TLists' /\ TObjects' /\ TKernel'
        /\ Tracked' = Tracked /\ undead' = undead /\ waiters' = waiters /\ spc' = spc /\ sobj' = sobj
    BY <1>2, <1>4, Quiet, Zenon
  <1>6. pc' \in [Caller -> PC] /\ pc'[t] = "zombies" /\ \A u \in Caller \ {t} : pc'[u] = pc[u]
    BY <1>1, <1>3, GotoLemma, Zenon DEF PC
  <1>7. Alone(t)
    BY <1>2, <1>6, Zenon DEF Alone
  <1>8. TThreads'
    BY <1>1, <1>2, <1>3, <1>5, <1>6, Zenon DEF TThreads
  <1>9. Claims(t) /\ ~Claims(t)' /\ pc[t] # "status" /\ pc'[t] # "status"
    BY <1>3, <1>6, Zenon DEF Claims
  <1>10. pr[t] = 0
    BY <1>1, <1>3, Zenon DEF Counts
  <1>11. Settled(t)
    BY <1>2, <1>6, <1>9, <1>10, Zenon DEF Settled
  <1>12. /\ \A o : Cardinality(Claimants(o)') = Cardinality(Claimants(o)) - IF pr[t] = o THEN 1 ELSE 0
         /\ Cardinality(Anyone') = Cardinality(Anyone) - IF want[t] = AnyChild THEN 1 ELSE 0
    BY <1>7, <1>9, Zenon DEF Dropped
  <1>13. \A o \in Object : waiters'[o] = Cardinality(Claimants(o)') + Watching(o)
    BY <1>1, <1>5, <1>10, <1>12, ZeroObject, SMTT(30) DEF Counts, Counted
  <1>14. anywaiters' = Cardinality(Anyone')
    BY <1>1, <1>3, <1>12, Zenon DEF Counts
  <1>15. \A o \in Object : waiters'[o] > 0 => o \in Tracked'
    BY <1>1, <1>5, Zenon DEF Counts
  <1>16. \A o \in undead' : waiters'[o] > 0 \/ \E u \in Caller : pc'[u] = "status" /\ pr'[u] = o
    BY <1>1, <1>5, <1>7, <1>9, ReapersStay, Zenon DEF Counts
  <1>17. Counts'
    BY <1>1, <1>2, <1>7, <1>11, <1>13, <1>14, <1>15, <1>16, CountsMoved, Zenon
  <1>18. Locked'
    BY <1>1, <1>2, <1>3, <1>6, <1>7, <1>9, CallerLocked, Zenon
  <1> QED BY <1>5, <1>8, <1>17, <1>18, Zenon DEF IInv, Types

----------------------------------------------------------------------------
(***************************************************************************)
(* __proc_harvest, __proc_free and __proc_reap.                            *)
(***************************************************************************)
\* What these leave alone.
OutOfReach ==
    /\ ignored' = ignored /\ used' = used /\ pid' = pid /\ state' = state
    /\ successor' = successor /\ spc' = spc /\ sobj' = sobj

\* The lists, fields and handles have their types after it.
Shapes ==
    /\ TLists' /\ status' \in [Object -> {"ALIVE", "ZOMBIE", "UNDEAD"}]
    /\ handle' \in [Object -> Handle \cup {0}] /\ haszombies' \in BOOLEAN /\ open' \subseteq Handle

\* A living child: its object is in the list alone, its handle open.
LEMMA Living ==
    ASSUME Types, World, NEW o \in Listed(list)
    PROVE  /\ o \in Object /\ o \in Owned /\ o \in Unreported /\ handle[o] \in open
           /\ handle[o] \in Handle
           /\ o \notin Listed(zombies) /\ o \notin undead /\ o \notin Listed(free) /\ o \notin Launched
  <1>1. o \in Object /\ o \in Tracked /\ o \in Owned /\ o \in Unreported
    BY ListSubset, Zenon DEF Types, TLists, Tracked, Owned, Unreported
  <1>2. handle[o] \in open /\ handle[o] \in Handle
    BY <1>1, Zenon DEF World, Handles, Types, TKernel
  <1>3. status[o] = "ALIVE"
    BY Zenon DEF World, Places
  <1>4. o \notin Listed(zombies) /\ o \notin undead
    BY <1>3, Zenon DEF World, Places
  <1>5. o \notin Listed(free) /\ o \notin Launched
    BY <1>1, Zenon DEF World, Places
  <1> QED BY <1>1, <1>2, <1>4, <1>5, Zenon

\* A child that exited becomes a zombie.
LEMMA ZombifyWorld ==
    ASSUME Types, World, NEW o \in Listed(list), Exited(o), Zombify(o), OutOfReach,
           undead' = undead, reported' = reported
    PROVE  World' /\ Shapes /\ Tracked' = Tracked
  <1>1. /\ status' = [status EXCEPT ![o] = "ZOMBIE"] /\ list' = dll_remove(list, o)
        /\ zombies' = dll_make_first(zombies, o) /\ haszombies' = TRUE
        /\ free' = free /\ handle' = handle /\ open' = open
    BY Zenon DEF Zombify
  <1>2. /\ ignored' = ignored /\ used' = used /\ pid' = pid /\ state' = state
        /\ successor' = successor /\ spc' = spc /\ sobj' = sobj
    BY Zenon DEF OutOfReach
  <1>3. /\ o \in Object /\ o \in Owned /\ handle[o] \in Handle
        /\ o \notin Listed(zombies) /\ o \notin undead /\ o \notin Launched
    BY Living, Zenon
  <1>4. list' \in Seq(Object) /\ NoDuplicates(list') /\ Listed(list') = Listed(list) \ {o}
    BY <1>1, ListRemove, Zenon DEF Types, TLists
  <1>5. zombies' \in Seq(Object) /\ NoDuplicates(zombies') /\ Listed(zombies') = Listed(zombies) \cup {o}
    BY <1>1, <1>3, ListFirst, Zenon DEF Types, TLists
  <1>6. Launched' = Launched /\ Tracked' = Tracked
    BY <1>2, <1>4, <1>5, Zenon DEF Launched, Tracked
  <1>7. Owned' = Owned /\ Unreported' = Unreported
    BY <1>4, <1>5, <1>6, Zenon DEF Owned, Unreported
  <1>8. status'[o] = "ZOMBIE" /\ \A x \in Object : x # o => status'[x] = status[x]
    BY <1>1, <1>3, Zenon DEF Types, TObjects
  <1>9. Shapes
    <2>1. TLists'
      BY <1>1, <1>2, <1>4, <1>5, Zenon DEF Types, TLists
    <2>2. status' \in [Object -> {"ALIVE", "ZOMBIE", "UNDEAD"}]
      BY <1>1, <1>3, Zenon DEF Types, TObjects
    <2> QED BY <1>1, <2>1, <2>2, Zenon DEF Shapes, Types, TObjects, TKernel
  <1>10. Places'
    <2>1. Owned \subseteq Object
      BY OwnedObjects, Zenon
    <2>2. \A x \in Listed(list') \cup Launched : status'[x] = "ALIVE"
      <3>1. \A x \in Listed(list) \cup Launched : x \in Object /\ status[x] = "ALIVE"
        BY <2>1, Zenon DEF World, Places, Owned, Tracked
      <3> QED BY <1>3, <1>4, <1>8, <3>1, Zenon
    <2>3. \A x \in Listed(zombies') : status'[x] = "ZOMBIE"
      <3>1. \A x \in Listed(zombies) : x \in Object /\ status[x] = "ZOMBIE"
        BY <2>1, Zenon DEF World, Places, Owned, Tracked
      <3> QED BY <1>5, <1>8, <3>1, Zenon
    <2>4. \A x \in undead : status'[x] = "UNDEAD"
      <3>1. \A x \in undead : x \in Object /\ status[x] = "UNDEAD"
        BY <2>1, Zenon DEF World, Places, Owned, Tracked
      <3> QED BY <1>3, <1>8, <3>1, Zenon
    <2>5. haszombies' <=> Listed(zombies') # {}
      BY <1>1, <1>5, Zenon
    <2> QED BY <1>1, <1>2, <1>6, <1>7, <2>2, <2>3, <2>4, <2>5, Zenon DEF World, Places
  <1>11. Processes'
    BY <1>1, <1>2, Zenon DEF World, Processes
  <1>12. Handles'
    <2>1. \A x \in Listed(zombies') \cup undead' : state[handle[x]] = "exited"
      BY <1>5, Zenon DEF World, Handles, Exited
    <2>2. Owned' = Owned \ {} /\ open' = open \ {handle[x] : x \in {}}
      BY <1>1, <1>7, Zenon
    <2>3. {} \in SUBSET Owned /\ \A x \in {} : state[handle[x]] = "exited"
      BY Zenon
    <2> QED BY <1>1, <1>2, <2>1, <2>2, <2>3, CloseHandles, Zenon
  <1>13. Born' = Born
    BY <1>2, Zenon DEF Born
  <1>14. Reports'
    BY <1>2, <1>7, <1>13, Zenon DEF World, Reports
  <1> QED BY <1>6, <1>9, <1>10, <1>11, <1>12, <1>14, Zenon DEF World

\* A child that exited is dropped, since SIGCHLD is ignored.
LEMMA AutoReapWorld ==
    ASSUME Types, World, NEW o \in Listed(list), Exited(o), AutoReap(o), ignored, OutOfReach,
           undead' = undead, reported' = reported
    PROVE  World' /\ Shapes /\ Tracked' = Tracked \ {o}
  <1>1. /\ list' = dll_remove(list, o) /\ free' = dll_make_first(free, o) /\ open' = open \ {handle[o]}
        /\ zombies' = zombies /\ status' = status /\ handle' = handle /\ haszombies' = haszombies
    BY Zenon DEF AutoReap
  <1>2. /\ ignored' = ignored /\ used' = used /\ pid' = pid /\ state' = state
        /\ successor' = successor /\ spc' = spc /\ sobj' = sobj
    BY Zenon DEF OutOfReach
  <1>3. /\ o \in Object /\ o \in Owned /\ o \in Unreported /\ o \notin Listed(free)
        /\ o \notin Listed(zombies) /\ o \notin undead /\ o \notin Launched
    BY Living, Zenon
  <1>4. list' \in Seq(Object) /\ NoDuplicates(list') /\ Listed(list') = Listed(list) \ {o}
    BY <1>1, ListRemove, Zenon DEF Types, TLists
  <1>5. free' \in Seq(Object) /\ NoDuplicates(free') /\ Listed(free') = Listed(free) \cup {o}
    BY <1>1, <1>3, ListFirst, Zenon DEF Types, TLists
  <1>6. Launched' = Launched /\ Tracked' = Tracked \ {o}
    BY <1>1, <1>2, <1>3, <1>4, Zenon DEF Launched, Tracked
  <1>7. Owned' = Owned \ {o} /\ Unreported' = Unreported \ {o}
    BY <1>1, <1>3, <1>4, <1>6, Zenon DEF Owned, Unreported
  <1>8. Shapes
    <2>1. TLists'
      BY <1>1, <1>2, <1>4, <1>5, Zenon DEF Types, TLists
    <2> QED BY <1>1, <2>1, Zenon DEF Shapes, Types, TObjects, TKernel
  <1>9. Places'
    <2>1. Owned \cup Listed(free) = 1..used /\ Owned \cap Listed(free) = {}
      BY Zenon DEF World, Places
    <2>2. Owned' \cup Listed(free') = Owned \cup Listed(free)
      BY <1>3, <1>5, <1>7, Zenon
    <2>3. Owned' \cap Listed(free') = {}
      BY <1>5, <1>7, <2>1, Zenon
    <2>4. Tracked' \cap Launched' = {}
      BY <1>6, Zenon DEF World, Places
    <2>5. \A x \in Listed(list') \cup Launched' : status'[x] = "ALIVE"
      BY <1>1, <1>4, <1>6, Zenon DEF World, Places
    <2> QED BY <1>1, <1>2, <2>1, <2>2, <2>3, <2>4, <2>5, Zenon DEF World, Places
  <1>10. Processes'
    BY <1>1, <1>2, Zenon DEF World, Processes
  <1>11. Handles'
    <2>1. \A x \in Listed(zombies') \cup undead' : state[handle[x]] = "exited"
      BY <1>1, Zenon DEF World, Handles
    <2>2. open' = open \ {handle[x] : x \in {o}}
      BY <1>1, Zenon
    <2>3. {o} \in SUBSET Owned /\ \A x \in {o} : state[handle[x]] = "exited"
      BY <1>3, Zenon DEF Exited
    <2> QED BY <1>1, <1>2, <1>7, <2>1, <2>2, <2>3, CloseHandles, Zenon
  <1>12. Reports'
    <2>1. {o} \in SUBSET Unreported
      BY <1>3, Zenon
    <2>2. reported'[pid[o]] = 0
      BY <1>3, Zenon DEF World, Reports
    <2>3. \A p \in Handle : reported'[p] = IF \E x \in {o} : pid[x] = p
                                          THEN (IF ignored THEN reported'[p] ELSE 1) ELSE reported[p]
      BY Zenon
    <2>4. \A x \in {o} : reported'[pid[x]] = 1 \/ (ignored /\ reported'[pid[x]] = 0)
      BY <2>2, Zenon
    <2> QED BY <1>2, <1>7, <2>1, <2>3, <2>4, ReportChildren, Zenon
  <1> QED BY <1>6, <1>8, <1>9, <1>10, <1>11, <1>12, Zenon DEF World

\* A child that called execve() goes on behind the handle in its exit code.
LEMMA AdoptWorld ==
    ASSUME Types, World, NEW o \in Listed(list), state[handle[o]] = "execed", Adopt(o), OutOfReach,
           undead' = undead, reported' = reported
    PROVE  World' /\ Shapes /\ Tracked' = Tracked
  <1> DEFINE h == handle[o]
             n == successor[h]
  <1>1. /\ open' = open \ {h} /\ handle' = [handle EXCEPT ![o] = n] /\ list' = list
        /\ zombies' = zombies /\ free' = free /\ status' = status /\ haszombies' = haszombies
    BY Zenon DEF Adopt
  <1>2. /\ ignored' = ignored /\ used' = used /\ pid' = pid /\ state' = state
        /\ successor' = successor /\ spc' = spc /\ sobj' = sobj
    BY Zenon DEF OutOfReach
  <1>3. /\ o \in Object /\ o \in Owned /\ h \in open /\ h \in Handle
        /\ o \notin Listed(zombies) /\ o \notin undead
    BY Living, Zenon
  <1>4. n # 0
    BY <1>3, Zenon DEF World, Processes
  <1>5. n \in open /\ n \in Handle /\ \A x \in Owned : handle[x] # n
    BY <1>3, <1>4, Zenon DEF World, Handles, Types, TKernel
  <1> HIDE DEF h, n
  <1>6. Launched' = Launched /\ Tracked' = Tracked
    BY <1>1, <1>2, Zenon DEF Launched, Tracked
  <1>7. Owned' = Owned /\ Unreported' = Unreported
    BY <1>1, <1>6, Zenon DEF Owned, Unreported
  <1>8. handle'[o] = n /\ \A x \in Object : x # o => handle'[x] = handle[x]
    BY <1>1, <1>3, Zenon DEF Types, TObjects
  <1>9. Shapes
    <2>1. TLists'
      BY <1>1, <1>2, Zenon DEF Types, TLists
    <2>2. handle' \in [Object -> Handle \cup {0}]
      BY <1>1, <1>3, <1>5, Zenon DEF Types, TObjects
    <2> QED BY <1>1, <2>1, <2>2, Zenon DEF Shapes, Types, TObjects, TKernel
  <1>10. Places'
    BY <1>1, <1>2, <1>6, <1>7, Zenon DEF World, Places
  <1>11. Processes'
    BY <1>1, <1>2, Zenon DEF World, Processes
  <1>12. Handles'
    <2>1. Owned \subseteq Object
      BY OwnedObjects, Zenon
    <2>2. \A x \in Owned : x # o => handle'[x] = handle[x] /\ handle[x] # h /\ handle[x] \in open
      BY <1>3, <1>8, <2>1, Zenon DEF World, Handles, h
    <2>3. n # h
      BY <1>3, <1>5, Zenon DEF h
    <2>4. \A x \in Owned : handle'[x] \in open'
      BY <1>1, <1>5, <1>8, <2>2, <2>3, SMTT(30)
    <2>5. \A x1, x2 \in Owned : handle'[x1] = handle'[x2] => x1 = x2
      <3>1. \A x1, x2 \in Owned : handle[x1] = handle[x2] => x1 = x2
        BY Zenon DEF World, Handles
      <3> QED BY <1>5, <1>8, <2>2, <3>1, SMTT(30)
    <2>6. \A g \in open' : g \in open /\ g # h /\ g \in Handle
      BY <1>1, Zenon DEF Types, TKernel
    <2>7. ASSUME NEW k \in open'
          PROVE  (\E x \in Owned : handle'[x] = k) \/ (\E g \in open' : successor[g] = k)
      <3>1. CASE k = n
        BY <1>3, <1>8, <3>1, Zenon
      <3>2. CASE k # n
        <4>1. \A x \in Owned : handle[x] = k => handle'[x] = k
          BY <2>2, <2>6, <2>7, Zenon DEF h
        <4>2. \A g \in open : successor[g] = k => g \in open'
          BY <1>1, <3>2, Zenon DEF n
        <4> QED BY <2>6, <4>1, <4>2, Zenon DEF World, Handles
      <3> QED BY <3>1, <3>2, Zenon
    <2>8. ASSUME NEW g \in open', successor[g] # 0
          PROVE  successor[g] \in open' /\ \A x \in Owned : handle'[x] # successor[g]
      <3>1. g \in open /\ g # h /\ g \in Handle
        BY <2>6, Zenon
      <3>2. successor[g] \in open /\ \A x \in Owned : handle[x] # successor[g]
        BY <2>8, <3>1, Zenon DEF World, Handles
      <3>3. successor[g] # n
        BY <1>3, <2>8, <3>1, Zenon DEF World, Processes, n
      <3>4. successor[g] # h
        BY <1>3, <3>2, Zenon DEF h
      <3>5. successor[g] \in open'
        BY <1>1, <3>2, <3>4, Zenon
      <3>6. \A x \in Owned : handle'[x] # successor[g]
        BY <1>8, <2>2, <3>2, <3>3, Zenon
      <3> QED BY <3>5, <3>6, Zenon
    <2>9. ASSUME NEW x \in Listed(zombies) \cup undead PROVE state[handle'[x]] = "exited"
      <3>1. x \in Owned /\ x # o
        BY <1>3, Zenon DEF Owned, Tracked
      <3> QED BY <2>2, <2>9, <3>1, Zenon DEF World, Handles
    <2>10. \A g \in Handle : state[g] = "running" => g \in open'
      BY <1>1, Zenon DEF World, Handles, h
    <2> QED BY <1>1, <1>2, <1>7, <2>4, <2>5, <2>7, <2>8, <2>9, <2>10, SMTT(30) DEF Handles
  <1>13. Born' = Born
    BY <1>2, Zenon DEF Born
  <1>14. Reports'
    BY <1>2, <1>7, <1>13, Zenon DEF World, Reports
  <1> QED BY <1>6, <1>9, <1>10, <1>11, <1>12, <1>14, Zenon DEF World

\* __proc_harvest keeps the objects, handles and children in order; only the
\* worker drops an object, one that nobody else waits for.
LEMMA HarvestWorld ==
    ASSUME Types, World, NEW o \in Listed(list), NEW w \in BOOLEAN, __proc_harvest(o, w), OutOfReach,
           undead' = undead, reported' = reported
    PROVE  /\ World' /\ Shapes
           /\ Tracked' = Tracked \/ (Tracked' = Tracked \ {o} /\ waiters[o] = 1 /\ ~w)
  <1>1. CASE /\ state[handle[o]] = "running"
             /\ UNCHANGED <<list, zombies, free, status, handle, haszombies, open>>
    <2>1. /\ list' = list /\ zombies' = zombies /\ free' = free /\ status' = status
          /\ handle' = handle /\ haszombies' = haszombies /\ open' = open
      BY <1>1, Zenon
    <2>2. /\ ignored' = ignored /\ used' = used /\ pid' = pid /\ state' = state
          /\ successor' = successor /\ spc' = spc /\ sobj' = sobj
      BY Zenon DEF OutOfReach
    <2>3. /\ state' \in [Handle -> {"none", "running", "exited", "execed"}]
          /\ \A h \in Handle : state'[h] = state[h] \/ (state[h] = "running" /\ state'[h] = "exited")
      BY <2>2, Zenon DEF Types, TKernel
    <2>4. World'
      BY <2>1, <2>2, <2>3, SameWorld, Zenon
    <2>5. TLists'
      BY <2>1, <2>2, Zenon DEF Types, TLists
    <2>6. Shapes /\ Tracked' = Tracked
      BY <2>1, <2>5, Zenon DEF Shapes, Tracked, Types, TObjects, TKernel
    <2> QED BY <2>4, <2>6, Zenon
  <1>2. CASE state[handle[o]] = "execed" /\ Adopt(o)
    BY <1>2, AdoptWorld, Zenon
  <1>3. CASE Exited(o) /\ AutoReaped(o, w) /\ AutoReap(o)
    BY <1>3, AutoReapWorld, Zenon DEF AutoReaped
  <1>4. CASE Exited(o) /\ ~AutoReaped(o, w) /\ Zombify(o)
    BY <1>4, ZombifyWorld, Zenon
  <1> QED BY <1>1, <1>2, <1>3, <1>4, Zenon DEF __proc_harvest

\* __proc_free puts objects of reaped children on the free list.
LEMMA FreeWorld ==
    ASSUME Types, World, NEW d \in Seq(Object), NoDuplicates(d), Listed(d) \subseteq undead,
           __proc_free(d), OutOfReach, list' = list, zombies' = zombies, status' = status,
           handle' = handle, haszombies' = haszombies, reported' = reported
    PROVE  World' /\ Shapes /\ Tracked' = Tracked \ Listed(d) /\ undead' = undead \ Listed(d)
  <1> DEFINE D == Listed(d)
  <1>1. undead' = undead \ D /\ free' = d \o free /\ open' = open \ {handle[o] : o \in D}
    BY Zenon DEF __proc_free
  <1>2. /\ ignored' = ignored /\ used' = used /\ pid' = pid /\ state' = state
        /\ successor' = successor /\ spc' = spc /\ sobj' = sobj
    BY Zenon DEF OutOfReach
  <1>3. D \subseteq undead
    BY Zenon
  <1>4. undead \subseteq Owned /\ \A o \in undead : status[o] = "UNDEAD" /\ state[handle[o]] = "exited"
    BY Zenon DEF World, Places, Handles, Owned, Tracked
  <1>5. D \cap Listed(free) = {} /\ D \cap Launched = {}
    BY <1>3, <1>4, Zenon DEF World, Places, Tracked
  <1>6. free' \in Seq(Object) /\ NoDuplicates(free') /\ Listed(free') = D \cup Listed(free)
    BY <1>1, <1>5, ListConcat, Zenon DEF Types, TLists
  <1> HIDE DEF D
  <1>7. \A o \in D : o \notin Listed(list) /\ o \notin Listed(zombies)
    BY <1>3, <1>4, Zenon DEF World, Places
  <1>8. Launched' = Launched /\ Tracked' = Tracked \ D
    BY <1>1, <1>2, <1>7, Zenon DEF Launched, Tracked
  <1>9. Owned' = Owned \ D /\ Unreported' = Unreported
    BY <1>5, <1>8, Zenon DEF Owned, Unreported
  <1>10. Shapes
    <2>1. TLists'
      BY <1>1, <1>2, <1>6, Zenon DEF Types, TLists
    <2> QED BY <1>1, <2>1, Zenon DEF Shapes, Types, TObjects, TKernel
  <1>11. Places'
    <2>1. Owned \cup Listed(free) = 1..used /\ Owned \cap Listed(free) = {}
      BY Zenon DEF World, Places
    <2>2. Owned' \cup Listed(free') = Owned \cup Listed(free)
      BY <1>3, <1>4, <1>6, <1>9, Zenon
    <2>3. Owned' \cap Listed(free') = {}
      BY <1>6, <1>9, <2>1, Zenon
    <2>4. Tracked' \cap Launched' = {}
      BY <1>8, Zenon DEF World, Places
    <2>5. \A x \in undead' : status'[x] = "UNDEAD"
      BY <1>1, <1>4, Zenon
    <2> QED BY <1>2, <1>8, <2>1, <2>2, <2>3, <2>4, <2>5, Zenon DEF World, Places
  <1>12. Processes'
    BY <1>1, <1>2, Zenon DEF World, Processes
  <1>13. Handles'
    <2>1. \A x \in Listed(zombies') \cup undead' : state[handle[x]] = "exited"
      BY <1>1, Zenon DEF World, Handles
    <2>2. D \in SUBSET Owned /\ \A x \in D : state[handle[x]] = "exited"
      BY <1>3, <1>4, Zenon
    <2> QED BY <1>1, <1>2, <1>9, <2>1, <2>2, CloseHandles, Zenon
  <1>14. Born' = Born
    BY <1>2, Zenon DEF Born
  <1>15. Reports'
    BY <1>2, <1>9, <1>14, Zenon DEF World, Reports
  <1> QED BY <1>1, <1>8, <1>10, <1>11, <1>12, <1>13, <1>15, Zenon DEF World, D

\* __proc_reap reports a zombie once, and keeps its object as long as it has waiters.
LEMMA ReapWorld ==
    ASSUME Types, World, NEW t \in Caller, NEW o \in Listed(zombies), __proc_reap(t, o), OutOfReach,
           list' = list, handle' = handle
    PROVE  /\ World' /\ Shapes /\ reported' \in [Handle -> Nat]
           /\ waiters[o] # 0 => Tracked' = Tracked /\ undead' = undead \cup {o}
           /\ waiters[o] = 0 => Tracked' = Tracked \ {o} /\ undead' = undead
  <1>1. /\ zombies' = dll_remove(zombies, o) /\ haszombies' = (haszombies /\ zombies' # <<>>)
        /\ reported' = [reported EXCEPT ![pid[o]] = @ + 1]
    BY Zenon DEF __proc_reap, ResetZombies
  <1>2. /\ ignored' = ignored /\ used' = used /\ pid' = pid /\ state' = state
        /\ successor' = successor /\ spc' = spc /\ sobj' = sobj
    BY Zenon DEF OutOfReach
  <1>3. o \in Object /\ o \in Tracked /\ o \in Owned /\ o \in Unreported
    BY ListSubset, Zenon DEF Types, TLists, Tracked, Owned, Unreported
  <1>4. status[o] = "ZOMBIE" /\ state[handle[o]] = "exited" /\ haszombies
    BY Zenon DEF World, Places, Handles
  <1>5. o \notin Listed(list) /\ o \notin undead
    BY <1>4, Zenon DEF World, Places
  <1>6. o \notin Listed(free) /\ o \notin Launched
    BY <1>3, Zenon DEF World, Places
  <1>7. zombies' \in Seq(Object) /\ NoDuplicates(zombies') /\ Listed(zombies') = Listed(zombies) \ {o}
    BY <1>1, ListRemove, Zenon DEF Types, TLists
  <1>8. haszombies' \in BOOLEAN /\ (haszombies' <=> Listed(zombies') # {})
    BY <1>1, <1>4, <1>7, ListEmpty, Zenon
  <1>9. pid[o] \in Handle /\ reported[pid[o]] = 0
    BY <1>3, Zenon DEF World, Reports, Born
  <1>10. /\ reported' \in [Handle -> Nat] /\ reported'[pid[o]] = 1
         /\ \A p \in Handle : p # pid[o] => reported'[p] = reported[p]
    BY <1>1, <1>9, SMTT(30) DEF Types, TKernel
  <1>11. Launched' = Launched
    BY <1>2, Zenon DEF Launched
  <1>12. Unreported' = Unreported \ {o}
    BY <1>5, <1>6, <1>7, <1>11, Zenon DEF Unreported
  <1>13. Reports'
    <2>1. {o} \in SUBSET Unreported
      BY <1>3, Zenon
    <2>2. \A p \in Handle : reported'[p] = IF \E x \in {o} : pid[x] = p
                                          THEN (IF ignored THEN reported'[p] ELSE 1) ELSE reported[p]
      BY <1>10, Zenon
    <2>3. \A x \in {o} : reported'[pid[x]] = 1 \/ (ignored /\ reported'[pid[x]] = 0)
      BY <1>10, Zenon
    <2> QED BY <1>2, <1>12, <2>1, <2>2, <2>3, ReportChildren, Zenon
  <1>14. Owned \subseteq Object
    BY OwnedObjects, Zenon
  <1>15. CASE waiters[o] # 0
    <2>1. /\ status' = [status EXCEPT ![o] = "UNDEAD"] /\ undead' = undead \cup {o}
          /\ free' = free /\ open' = open
      BY <1>15, Zenon DEF __proc_reap
    <2>2. Tracked' = Tracked
      BY <1>7, <2>1, Zenon DEF Tracked
    <2>3. Owned' = Owned
      BY <1>11, <2>2, Zenon DEF Owned
    <2>4. status'[o] = "UNDEAD" /\ \A x \in Object : x # o => status'[x] = status[x]
      BY <1>3, <2>1, Zenon DEF Types, TObjects
    <2>5. Shapes
      <3>1. TLists'
        BY <1>2, <1>3, <1>7, <2>1, Zenon DEF Types, TLists
      <3>2. status' \in [Object -> {"ALIVE", "ZOMBIE", "UNDEAD"}]
        BY <1>3, <2>1, Zenon DEF Types, TObjects
      <3> QED BY <1>8, <2>1, <3>1, <3>2, Zenon DEF Shapes, Types, TObjects, TKernel
    <2>6. Places'
      <3>1. \A x \in Listed(list) \cup Launched : status'[x] = "ALIVE"
        <4>1. \A x \in Listed(list) \cup Launched : x \in Object /\ x # o /\ status[x] = "ALIVE"
          BY <1>5, <1>6, <1>14, Zenon DEF World, Places, Owned, Tracked
        <4> QED BY <2>4, <4>1, Zenon
      <3>2. \A x \in Listed(zombies') : status'[x] = "ZOMBIE"
        <4>1. \A x \in Listed(zombies') : x \in Object /\ x # o /\ status[x] = "ZOMBIE"
          BY <1>7, <1>14, Zenon DEF World, Places, Owned, Tracked
        <4> QED BY <2>4, <4>1, Zenon
      <3>3. \A x \in undead' : status'[x] = "UNDEAD"
        <4>1. \A x \in undead : x \in Object /\ status[x] = "UNDEAD"
          BY <1>14, Zenon DEF World, Places, Owned, Tracked
        <4> QED BY <2>1, <2>4, <4>1, Zenon
      <3> QED BY <1>2, <1>8, <1>11, <2>1, <2>2, <2>3, <3>1, <3>2, <3>3, Zenon DEF World, Places
    <2>7. Processes'
      <3>1. \A g \in Handle : state[g] = "none" => g # pid[o]
        BY <1>3, Zenon DEF World, Reports, Born
      <3> QED BY <1>2, <1>10, <2>1, <3>1, Zenon DEF World, Processes
    <2>8. Handles'
      <3>1. \A x \in Listed(zombies') \cup undead' : state[handle[x]] = "exited"
        BY <1>4, <1>7, <2>1, Zenon DEF World, Handles
      <3>2. Owned' = Owned \ {} /\ open' = open \ {handle[x] : x \in {}}
        BY <2>1, <2>3, Zenon
      <3>3. {} \in SUBSET Owned /\ \A x \in {} : state[handle[x]] = "exited"
        BY Zenon
      <3> QED BY <1>2, <3>1, <3>2, <3>3, CloseHandles, Zenon
    <2> QED BY <1>10, <1>13, <1>15, <2>1, <2>2, <2>5, <2>6, <2>7, <2>8, Zenon DEF World
  <1>16. CASE waiters[o] = 0
    <2>1. /\ free' = dll_make_first(free, o) /\ open' = open \ {handle[o]}
          /\ status' = status /\ undead' = undead
      BY <1>16, Zenon DEF __proc_reap
    <2>2. free' \in Seq(Object) /\ NoDuplicates(free') /\ Listed(free') = Listed(free) \cup {o}
      BY <1>3, <1>6, <2>1, ListFirst, Zenon DEF Types, TLists
    <2>3. Tracked' = Tracked \ {o}
      BY <1>5, <1>7, <2>1, Zenon DEF Tracked
    <2>4. Owned' = Owned \ {o}
      BY <1>6, <1>11, <2>3, Zenon DEF Owned
    <2>5. Shapes
      <3>1. TLists'
        BY <1>2, <1>7, <2>1, <2>2, Zenon DEF Types, TLists
      <3> QED BY <1>8, <2>1, <3>1, Zenon DEF Shapes, Types, TObjects, TKernel
    <2>6. Places'
      <3>1. Owned \cup Listed(free) = 1..used /\ Owned \cap Listed(free) = {}
        BY Zenon DEF World, Places
      <3>2. Owned' \cup Listed(free') = Owned \cup Listed(free)
        BY <1>3, <2>2, <2>4, Zenon
      <3>3. Owned' \cap Listed(free') = {}
        BY <2>2, <2>4, <3>1, Zenon
      <3>4. Tracked' \cap Launched' = {}
        BY <1>11, <2>3, Zenon DEF World, Places
      <3>5. \A x \in Listed(zombies') : status'[x] = "ZOMBIE"
        BY <1>7, <2>1, Zenon DEF World, Places
      <3> QED BY <1>2, <1>8, <1>11, <2>1, <3>1, <3>2, <3>3, <3>4, <3>5, Zenon DEF World, Places
    <2>7. Processes'
      <3>1. \A g \in Handle : state[g] = "none" => g # pid[o]
        BY <1>3, SMTT(30) DEF World, Reports, Born
      <3> QED BY <1>2, <1>10, <2>1, <3>1, Zenon DEF World, Processes
    <2>8. Handles'
      <3>1. \A x \in Listed(zombies') \cup undead' : state[handle[x]] = "exited"
        BY <1>7, <2>1, Zenon DEF World, Handles
      <3>2. open' = open \ {handle[x] : x \in {o}}
        BY <2>1, Zenon
      <3>3. {o} \in SUBSET Owned /\ \A x \in {o} : state[handle[x]] = "exited"
        BY <1>3, <1>4, Zenon
      <3> QED BY <1>2, <2>4, <3>1, <3>2, <3>3, CloseHandles, Zenon
    <2> QED BY <1>10, <1>13, <1>16, <2>1, <2>3, <2>5, <2>6, <2>7, <2>8, Zenon DEF World
  <1> QED BY <1>15, <1>16, Zenon

----------------------------------------------------------------------------
(***************************************************************************)
(* wait4() with the lock.                                                  *)
(***************************************************************************)
\* Who has a status to look at has the lock.
LEMMA LockedOut ==
    ASSUME Locked, NEW t \in Caller, lock \in {NoOne, t}, NEW u \in Caller, pc[u] = "status"
    PROVE  u = t
  <1>1. lock = u
    BY Zenon DEF Locked
  <1>2. u # NoOne
    BY ProcAssumption, Zenon
  <1> QED BY <1>1, <1>2, Zenon

\* The types after a step of a caller that moves objects.
LEMMA ShapedTypes ==
    ASSUME Types, Shapes, NEW t \in Caller, pid' = pid, waiters' \in [Object -> Nat],
           ignored' = ignored, onbirth' = onbirth, state' = state, successor' = successor,
           reported' \in [Handle -> Nat], lock' \in {NoOne, t},
           spc' = spc, sobj' = sobj, wpc' = wpc, wobj' = wobj,
           pc' \in [Caller -> PC], want' \in [Caller -> Handle \cup {AnyChild}],
           pr' \in [Caller -> Object \cup {0}]
    PROVE  Types'
  <1>1. TObjects'
    BY Zenon DEF Types, TObjects, Shapes
  <1>2. TKernel'
    BY Zenon DEF Types, TKernel, Shapes
  <1>3. TThreads'
    BY Zenon DEF Types, TThreads
  <1> QED BY <1>1, <1>2, <1>3, Zenon DEF Types, Shapes

\* A call returns with the status of a zombie.
LEMMA ReapStep ==
    ASSUME IInv, Counted, NEW t \in Caller, NEW o \in Listed(zombies), __proc_reap(t, o),
           OutOfReach, lock \in {NoOne, t}, lock' = NoOne, pc[t] \in {"zombies", "status"},
           pc[t] = "status" => pr[t] = o, list' = list, handle' = handle, waiters' = waiters,
           anywaiters' = anywaiters, onbirth' = onbirth, wpc' = wpc, wobj' = wobj
    PROVE  IInv'
  <1>1. Types /\ World /\ Locked /\ Counts /\ TThreads
    BY Zenon DEF IInv, Types
  <1>2. /\ World' /\ Shapes /\ reported' \in [Handle -> Nat]
        /\ waiters[o] # 0 => Tracked' = Tracked /\ undead' = undead \cup {o}
        /\ waiters[o] = 0 => Tracked' = Tracked \ {o} /\ undead' = undead
    BY <1>1, ReapWorld, Zenon
  <1>3. /\ pc' \in [Caller -> PC] /\ want' \in [Caller -> Handle \cup {AnyChild}]
        /\ pr' \in [Caller -> Object \cup {0}]
        /\ pc'[t] = "idle" /\ want'[t] = AnyChild /\ pr'[t] = 0
        /\ Alone(t) /\ Settled(t) /\ ~Claims(t)'
    BY <1>1, ReturnLemma, Zenon DEF __proc_reap
  <1>4. Types'
    <2>1. waiters' \in [Object -> Nat] /\ lock' \in {NoOne, t}
      BY <1>1, Zenon DEF Types, TObjects
    <2> QED BY <1>1, <1>2, <1>3, <2>1, ShapedTypes, Zenon DEF OutOfReach
  <1>5. lock' # t
    BY ProcAssumption, Zenon
  <1>6. Locked'
    BY <1>1, <1>3, <1>5, CallerLocked, Zenon
  <1>7. ~Claims(t)
    BY Zenon DEF Claims
  <1>8. (\A x : Claimants(x)' = Claimants(x)) /\ Anyone' = Anyone
    BY <1>3, <1>7, ClaimsKept, Zenon DEF SameClaim
  <1>9. \A x \in Object : waiters'[x] = Cardinality(Claimants(x)') + Watching(x)
    BY <1>1, <1>8, Zenon DEF Counts
  <1>10. anywaiters' = Cardinality(Anyone')
    BY <1>1, <1>8, Zenon DEF Counts
  <1>11. o \in Object /\ waiters[o] \in Nat
    BY <1>1, ListSubset, Zenon DEF Types, TLists, TObjects
  <1>12. \A x \in Object : waiters'[x] > 0 => x \in Tracked'
    <2>1. \A x \in Object : waiters[x] > 0 => x \in Tracked
      BY <1>1, Zenon DEF Counts
    <2> QED BY <1>2, <1>11, <2>1, SMTT(30)
  <1>13. ASSUME NEW x \in undead'
         PROVE  waiters'[x] > 0 \/ \E u \in Caller : pc'[u] = "status" /\ pr'[u] = x
    <2>1. CASE x = o /\ waiters[o] # 0
      BY <1>11, <2>1, SMTT(30)
    <2>2. CASE x \in undead
      <3>1. ASSUME NEW u \in Caller, pc[u] = "status", pr[u] = x PROVE FALSE
        <4>1. u = t
          BY <1>1, <3>1, LockedOut, Zenon
        <4>2. x = o
          BY <3>1, <4>1, Zenon
        <4> QED BY <1>1, <2>2, <4>2, Zenon DEF World, Places
      <3> QED BY <1>1, <2>2, <3>1, Zenon DEF Counts
    <2> QED BY <1>2, <2>1, <2>2, Zenon
  <1>14. Counts'
    BY <1>1, <1>3, <1>9, <1>10, <1>12, <1>13, CountsMoved, Zenon
  <1> QED BY <1>2, <1>4, <1>6, <1>14, Zenon DEF IInv

\* wait4() finds a zombie.
LEMMA CheckStep ==
    ASSUME IInv, Counted, NEW t \in Caller, __proc_check(t), ignored' = ignored
    PROVE  IInv'
  <1>1. PICK i \in Matching(t) : __proc_reap(t, zombies[i])
    BY Zenon DEF __proc_check
  <1>2. zombies[i] \in Listed(zombies)
    BY InList, Zenon DEF Matching
  <1>3. pc[t] = "zombies" /\ lock \in {NoOne, t} /\ lock' = NoOne
    BY Zenon DEF __proc_check, AtZombies
  <1>4. /\ list' = list /\ used' = used /\ waiters' = waiters /\ pid' = pid /\ handle' = handle
        /\ anywaiters' = anywaiters /\ onbirth' = onbirth /\ state' = state
        /\ successor' = successor /\ spc' = spc /\ sobj' = sobj /\ wpc' = wpc /\ wobj' = wobj
    BY Zenon DEF __proc_check, spawner, worker
  <1>5. pc[t] \in {"zombies", "status"} /\ pc[t] # "status"
    BY <1>3, Zenon
  <1>6. OutOfReach
    BY <1>4, Zenon DEF OutOfReach
  <1> QED BY <1>1, <1>2, <1>3, <1>4, <1>5, <1>6, ReapStep, Zenon

\* The child that was waited for is a zombie.
LEMMA StatusZombieStep ==
    ASSUME IInv, Counted, NEW t \in Caller, StatusZombie(t), ignored' = ignored
    PROVE  IInv'
  <1>1. pc[t] = "status" /\ status[pr[t]] = "ZOMBIE" /\ __proc_reap(t, pr[t]) /\ lock' = NoOne
    BY Zenon DEF StatusZombie
  <1>2. /\ list' = list /\ used' = used /\ waiters' = waiters /\ pid' = pid /\ handle' = handle
        /\ anywaiters' = anywaiters /\ onbirth' = onbirth /\ state' = state
        /\ successor' = successor /\ spc' = spc /\ sobj' = sobj /\ wpc' = wpc /\ wobj' = wobj
    BY Zenon DEF StatusZombie, spawner, worker
  <1>3. lock = t /\ pr[t] \in Tracked
    BY <1>1, Zenon DEF IInv, Locked
  <1>4. pr[t] \in Listed(zombies)
    BY <1>1, <1>3, Zenon DEF IInv, World, Places, Tracked
  <1>5. pc[t] \in {"zombies", "status"}
    BY <1>1, Zenon
  <1>6. OutOfReach
    BY <1>2, Zenon DEF OutOfReach
  <1> QED BY <1>1, <1>2, <1>3, <1>4, <1>5, <1>6, ReapStep, Zenon

\* Another thread was given the status: the last one to look frees the object.
LEMMA StatusUndeadStep ==
    ASSUME IInv, Counted, NEW t \in Caller, StatusUndead(t), ignored' = ignored
    PROVE  IInv'
  <1> DEFINE o == pr[t]
  <1>1. /\ pc[t] = "status" /\ status[o] = "UNDEAD" /\ lock' = NoOne /\ Return(t)
        /\ IF waiters[o] = 0 THEN __proc_free(<<o>>) ELSE UNCHANGED <<undead, free, open>>
    BY Zenon DEF StatusUndead
  <1>2. /\ list' = list /\ zombies' = zombies /\ used' = used /\ status' = status /\ waiters' = waiters
        /\ pid' = pid /\ handle' = handle /\ anywaiters' = anywaiters /\ onbirth' = onbirth
        /\ haszombies' = haszombies /\ state' = state /\ successor' = successor
        /\ spc' = spc /\ sobj' = sobj /\ wpc' = wpc /\ wobj' = wobj /\ reported' = reported
    BY Zenon DEF StatusUndead, objects, events, spawner, worker
  <1>3. Types /\ World /\ Locked /\ Counts /\ TThreads
    BY Zenon DEF IInv, Types
  <1>4. lock = t /\ o \in Tracked
    BY <1>1, <1>3, Zenon DEF Locked
  <1>5. o \in undead /\ o \in Object
    <2>1. o \in undead
      BY <1>1, <1>3, <1>4, Zenon DEF World, Places, Tracked
    <2> QED BY <1>3, <2>1, Zenon DEF Types, TLists
  <1>6. OutOfReach
    BY <1>2, Zenon DEF OutOfReach
  <1>7. /\ pc' \in [Caller -> PC] /\ want' \in [Caller -> Handle \cup {AnyChild}]
        /\ pr' \in [Caller -> Object \cup {0}]
        /\ pc'[t] = "idle" /\ want'[t] = AnyChild /\ pr'[t] = 0
        /\ Alone(t) /\ Settled(t) /\ ~Claims(t)'
    BY <1>1, <1>3, ReturnLemma, Zenon
  <1> HIDE DEF o
  <1>8. /\ World' /\ Shapes
        /\ waiters[o] = 0 => Tracked' = Tracked \ {o} /\ undead' = undead \ {o}
        /\ waiters[o] # 0 => Tracked' = Tracked /\ undead' = undead
    <2>1. CASE waiters[o] = 0
      <3> DEFINE d == <<o>>
      <3>1. d \in Seq(Object) /\ DOMAIN d = {1} /\ d[1] = o
        BY <1>5
      <3>2. __proc_free(d)
        BY <1>1, <2>1, Zenon
      <3> HIDE DEF d
      <3>3. NoDuplicates(d)
        BY <3>1, Zenon DEF NoDuplicates
      <3>4. Listed(d) = {o}
        BY <3>1, Zenon DEF Listed
      <3>5. Listed(d) \subseteq undead
        BY <1>5, <3>4, Zenon
      <3>6. World' /\ Shapes /\ Tracked' = Tracked \ Listed(d) /\ undead' = undead \ Listed(d)
        BY <1>2, <1>3, <1>6, <3>1, <3>2, <3>3, <3>5, FreeWorld, Zenon
      <3> QED BY <2>1, <3>4, <3>6, Zenon
    <2>2. CASE waiters[o] # 0
      <3>1. undead' = undead /\ free' = free /\ open' = open
        BY <1>1, <2>2, Zenon
      <3>2. /\ state' \in [Handle -> {"none", "running", "exited", "execed"}]
            /\ \A h \in Handle : state'[h] = state[h] \/ (state[h] = "running" /\ state'[h] = "exited")
        BY <1>2, <1>3, Zenon DEF Types, TKernel
      <3>3. World'
        BY <1>2, <1>3, <3>1, <3>2, SameWorld, Zenon
      <3>4. TLists'
        BY <1>2, <1>3, <3>1, Zenon DEF Types, TLists
      <3>5. Shapes /\ Tracked' = Tracked
        BY <1>2, <1>3, <3>1, <3>4, Zenon DEF Shapes, Tracked, Types, TObjects, TKernel
      <3> QED BY <2>2, <3>1, <3>3, <3>5, Zenon
    <2> QED BY <2>1, <2>2, Zenon
  <1>9. Types'
    <2>1. waiters' \in [Object -> Nat] /\ reported' \in [Handle -> Nat] /\ lock' \in {NoOne, t}
      BY <1>1, <1>2, <1>3, Zenon DEF Types, TObjects, TKernel
    <2> QED BY <1>2, <1>3, <1>7, <1>8, <2>1, ShapedTypes, Zenon
  <1>10. lock' # t
    BY <1>1, ProcAssumption, Zenon
  <1>11. Locked'
    BY <1>1, <1>2, <1>3, <1>4, <1>7, <1>10, CallerLocked, Zenon
  <1>12. ~Claims(t)
    BY <1>1, Zenon DEF Claims
  <1>13. (\A x : Claimants(x)' = Claimants(x)) /\ Anyone' = Anyone
    BY <1>7, <1>12, ClaimsKept, Zenon DEF SameClaim
  <1>14. \A x \in Object : waiters'[x] = Cardinality(Claimants(x)') + Watching(x)
    BY <1>2, <1>3, <1>13, Zenon DEF Counts
  <1>15. anywaiters' = Cardinality(Anyone')
    BY <1>2, <1>3, <1>13, Zenon DEF Counts
  <1>16. \A x \in Object : waiters'[x] > 0 => x \in Tracked'
    <2>1. \A x \in Object : waiters[x] > 0 => x \in Tracked
      BY <1>3, Zenon DEF Counts
    <2> QED BY <1>2, <1>8, <2>1, SMTT(30)
  <1>17. ASSUME NEW x \in undead'
         PROVE  waiters'[x] > 0 \/ \E u \in Caller : pc'[u] = "status" /\ pr'[u] = x
    <2>1. x \in undead /\ x \in Object
      BY <1>3, <1>8, Zenon DEF Types, TLists
    <2>2. CASE x = o
      <3>1. waiters[o] # 0 /\ waiters[o] \in Nat
        BY <1>3, <1>5, <1>8, <2>2, Zenon DEF Types, TObjects
      <3> QED BY <1>2, <2>2, <3>1, SMTT(30)
    <2>3. CASE x # o
      <3>1. ASSUME NEW u \in Caller, pc[u] = "status", pr[u] = x PROVE FALSE
        <4>1. u = t
          BY <1>3, <1>4, <3>1, LockedOut, Zenon
        <4> QED BY <2>3, <3>1, <4>1, Zenon DEF o
      <3> QED BY <1>2, <1>3, <2>1, <3>1, Zenon DEF Counts
    <2> QED BY <2>2, <2>3, Zenon
  <1>18. Counts'
    BY <1>2, <1>3, <1>7, <1>14, <1>15, <1>16, <1>17, CountsMoved, Zenon
  <1> QED BY <1>8, <1>9, <1>11, <1>18, Zenon DEF IInv

\* Giving up claims frees the objects of reaped children that lose their last waiter.
LEMMA ReleaseLemma ==
    ASSUME Types, World, Counts, NEW S \in SUBSET Object, NEW s \in Seq(Object), S \subseteq Listed(s),
           \A o \in S : waiters[o] > 0, Release(S, s), \A u \in Caller : pc[u] # "status",
           OutOfReach, list' = list, zombies' = zombies, status' = status,
           handle' = handle, haszombies' = haszombies, reported' = reported
    PROVE  /\ World' /\ Shapes /\ waiters' \in [Object -> Nat]
           /\ \A o \in Object : waiters'[o] = IF o \in S THEN waiters[o] - 1 ELSE waiters[o]
           /\ \A o \in Object : waiters'[o] > 0 => o \in Tracked'
           /\ \A o \in undead' : waiters'[o] > 0
  <1>1. waiters' = [o \in Object |-> IF o \in S THEN waiters[o] - 1 ELSE waiters[o]]
    BY Zenon DEF Release
  <1>2. waiters \in [Object -> Nat] /\ undead \subseteq Object
    BY Zenon DEF Types, TObjects, TLists
  <1>3. waiters' \in [Object -> Nat]
    BY <1>1, <1>2, SMTT(30)
  <1>4. \A o \in Object : waiters'[o] = IF o \in S THEN waiters[o] - 1 ELSE waiters[o]
    BY <1>1, Zenon
  <1>5. Deserted(S) \subseteq S
    BY Zenon DEF Deserted
  <1>6. Deserted(S) \subseteq undead
    <2> SUFFICES ASSUME NEW o \in Deserted(S) PROVE o \in undead
      BY Zenon
    <2>1. o \in S /\ o \in Object /\ waiters[o] > 0 /\ status[o] = "UNDEAD"
      BY Zenon DEF Deserted
    <2>2. o \in Tracked
      BY <2>1, Zenon DEF Counts
    <2> QED BY <2>1, <2>2, Zenon DEF World, Places, Tracked
  <1>7. PICK d \in LastFirst(Deserted(S), s) : __proc_free(d)
    BY Zenon DEF Release
  <1>8. Deserted(S) \in SUBSET Object /\ Deserted(S) \subseteq Listed(s)
    BY <1>5, Zenon
  <1>9. d \in InOrder(Deserted(S), s) \cup LastFirst(Deserted(S), s)
    BY <1>7, Zenon
  <1>10. d \in Seq(Object) /\ NoDuplicates(d) /\ Listed(d) = Deserted(S)
    BY <1>8, <1>9, ListInOrder, Zenon
  <1>11. Listed(d) \subseteq undead
    BY <1>6, <1>10, Zenon
  <1>12. World' /\ Shapes /\ Tracked' = Tracked \ Listed(d) /\ undead' = undead \ Listed(d)
    BY <1>7, <1>10, <1>11, FreeWorld, Zenon
  <1>13. ASSUME NEW o \in Object, waiters'[o] > 0 PROVE o \in Tracked'
    <2>1. waiters[o] \in Nat
      BY <1>2, Zenon
    <2>2. waiters[o] > 0
      BY <1>4, <1>13, <2>1, Zenon
    <2>3. ~(o \in S /\ waiters[o] = 1)
      BY <1>4, <1>13, <2>1, SMTT(30)
    <2>4. o \notin Deserted(S)
      BY <2>3, Zenon DEF Deserted
    <2>5. o \in Tracked
      BY <2>2, Zenon DEF Counts
    <2> QED BY <1>10, <1>12, <2>4, <2>5, Zenon
  <1>14. ASSUME NEW o \in undead' PROVE waiters'[o] > 0
    <2>1. o \in undead /\ o \notin Deserted(S) /\ o \in Object
      BY <1>2, <1>10, <1>12, <1>14, Zenon
    <2>2. waiters[o] > 0 /\ waiters[o] \in Nat
      BY <1>2, <2>1, Zenon DEF Counts
    <2>3. status[o] = "UNDEAD"
      BY <2>1, Zenon DEF World, Places
    <2>4. ~(o \in S /\ waiters[o] = 1)
      BY <2>1, <2>3, Zenon DEF Deserted
    <2> QED BY <1>4, <2>1, <2>2, <2>4, SMTT(30)
  <1> QED BY <1>3, <1>4, <1>12, <1>13, <1>14, Zenon

\* The wait was interrupted, or it failed.
LEMMA WokeKilledStep ==
    ASSUME IInv, Counted, NEW t \in Caller, Dropped(t), WokeKilled(t), ignored' = ignored
    PROVE  IInv'
  <1>1. Types /\ World /\ Locked /\ Counts /\ TThreads
    BY Zenon DEF IInv, Types
  <1>2. /\ lock' = lock /\ list' = list /\ zombies' = zombies /\ used' = used /\ status' = status
        /\ pid' = pid /\ handle' = handle /\ onbirth' = onbirth /\ haszombies' = haszombies
        /\ state' = state /\ successor' = successor /\ spc' = spc /\ sobj' = sobj
        /\ wpc' = wpc /\ wobj' = wobj /\ reported' = reported
    BY Zenon DEF WokeKilled, events, spawner, worker
  <1>3. pc[t] = "woke" /\ lock = NoOne /\ Unclaim(t)
    BY Zenon DEF WokeKilled
  <1>4. OutOfReach
    BY <1>2, Zenon DEF OutOfReach
  <1>5. /\ pc' \in [Caller -> PC] /\ want' \in [Caller -> Handle \cup {AnyChild}]
        /\ pr' \in [Caller -> Object \cup {0}]
        /\ pc'[t] \in {"check", "idle"} /\ Alone(t) /\ Settled(t) /\ ~Claims(t)'
    <2>1. CASE Goto(t, "check") /\ UNCHANGED locals
      <3>1. pc' \in [Caller -> PC] /\ pc'[t] = "check" /\ \A u \in Caller \ {t} : pc'[u] = pc[u]
        BY <1>1, <2>1, GotoLemma, Zenon DEF PC
      <3>2. want' = want /\ pr' = pr
        BY <2>1, Zenon DEF locals
      <3>3. ~Claims(t)'
        BY <3>1, Zenon DEF Claims
      <3>4. Alone(t)
        BY <3>1, <3>2, Zenon DEF Alone
      <3>5. Settled(t)
        BY <1>1, <3>1, <3>2, <3>3, Zenon DEF Settled, Counts
      <3> QED BY <1>1, <3>1, <3>2, <3>3, <3>4, <3>5, Zenon DEF TThreads
    <2>2. CASE Return(t)
      BY <1>1, <2>2, ReturnLemma, Zenon
    <2> QED BY <2>1, <2>2, Zenon DEF WokeKilled
  <1>6. Claims(t)
    BY <1>3, Zenon DEF Claims
  <1>7. /\ \A o : Cardinality(Claimants(o)') = Cardinality(Claimants(o)) - IF pr[t] = o THEN 1 ELSE 0
        /\ Cardinality(Anyone') = Cardinality(Anyone) - IF want[t] = AnyChild THEN 1 ELSE 0
        /\ Cardinality(Claimants(pr[t])) > 0
    BY <1>5, <1>6, Zenon DEF Dropped
  <1>8. \A u \in Caller : pc[u] # "status"
    <2>1. ASSUME NEW u \in Caller, pc[u] = "status" PROVE FALSE
      <3>1. u = t
        BY <1>1, <1>3, <2>1, LockedOut, Zenon
      <3> QED BY <1>3, <2>1, <3>1, Zenon
    <2> QED BY <2>1, Zenon
  <1>9. /\ World' /\ Shapes /\ waiters' \in [Object -> Nat]
        /\ \A o \in Object : waiters'[o] = Cardinality(Claimants(o)') + Watching(o)
        /\ anywaiters' = Cardinality(Anyone')
        /\ \A o \in Object : waiters'[o] > 0 => o \in Tracked'
        /\ \A o \in undead' : waiters'[o] > 0
    <2>1. CASE want[t] = AnyChild
      <3>1. anywaiters' = anywaiters - 1 /\ waiters' = waiters /\ undead' = undead /\ free' = free /\ open' = open
        BY <1>3, <2>1, Zenon DEF Unclaim
      <3>2. /\ state' \in [Handle -> {"none", "running", "exited", "execed"}]
            /\ \A h \in Handle : state'[h] = state[h] \/ (state[h] = "running" /\ state'[h] = "exited")
        BY <1>1, <1>2, Zenon DEF Types, TKernel
      <3>3. World'
        BY <1>1, <1>2, <3>1, <3>2, SameWorld, Zenon
      <3>4. TLists'
        BY <1>1, <1>2, <3>1, Zenon DEF Types, TLists
      <3>5. Shapes /\ Tracked' = Tracked
        BY <1>1, <1>2, <3>1, <3>4, Zenon DEF Shapes, Tracked, Types, TObjects, TKernel
      <3>6. pr[t] = 0
        BY <1>1, <2>1, Zenon DEF Counts
      <3>7. \A o \in Object : waiters'[o] = Cardinality(Claimants(o)') + Watching(o)
        BY <1>1, <1>7, <3>1, <3>6, ZeroObject, SMTT(30) DEF Counts, Counted
      <3>8. anywaiters' = Cardinality(Anyone')
        BY <1>1, <1>7, <2>1, <3>1, Zenon DEF Counts
      <3>9. waiters' \in [Object -> Nat]
        BY <1>1, <3>1, Zenon DEF Types, TObjects
      <3>10. (\A o \in Object : waiters'[o] > 0 => o \in Tracked') /\ \A o \in undead' : waiters'[o] > 0
        BY <1>1, <1>8, <3>1, <3>5, Zenon DEF Counts
      <3> QED BY <3>3, <3>5, <3>7, <3>8, <3>9, <3>10, Zenon
    <2>2. CASE want[t] # AnyChild
      <3> DEFINE o == pr[t]
                 s == <<o>>
      <3>1. anywaiters' = anywaiters /\ Release({o}, s)
        BY <1>3, <2>2, Zenon DEF Unclaim
      <3>2. o \in Object
        BY <1>1, <1>6, <2>2, Zenon DEF Counts
      <3>3. s \in Seq(Object) /\ DOMAIN s = {1} /\ s[1] = o
        BY <3>2
      <3> HIDE DEF s
      <3>4. {o} \subseteq Listed(s) /\ {o} \in SUBSET Object
        BY <3>2, <3>3, Zenon DEF Listed
      <3>5. \A x \in Object : waiters[x] = Cardinality(Claimants(x)) + Watching(x)
        BY <1>1, Zenon DEF Counts
      <3>6. \A x : Cardinality(Claimants(x)) \in Nat /\ Watching(x) \in Nat
        BY Zenon DEF Counted, Watching
      <3>7. waiters[o] > 0
        BY <1>7, <3>2, <3>5, <3>6, SMTT(30)
      <3>8. \A x \in {o} : waiters[x] > 0
        BY <3>7, Zenon
      <3>9. /\ World' /\ Shapes /\ waiters' \in [Object -> Nat]
            /\ \A x \in Object : waiters'[x] = IF x \in {o} THEN waiters[x] - 1 ELSE waiters[x]
            /\ \A x \in Object : waiters'[x] > 0 => x \in Tracked'
            /\ \A x \in undead' : waiters'[x] > 0
        BY <1>1, <1>2, <1>4, <1>8, <3>1, <3>3, <3>4, <3>8, ReleaseLemma, Zenon
      <3>10. \A x \in Object : waiters'[x] = Cardinality(Claimants(x)') + Watching(x)
        <4> SUFFICES ASSUME NEW x \in Object
                     PROVE  waiters'[x] = Cardinality(Claimants(x)') + Watching(x)
          BY Zenon
        <4>1. /\ waiters[x] = Cardinality(Claimants(x)) + Watching(x)
              /\ Cardinality(Claimants(x)) \in Nat /\ Watching(x) \in Nat
          BY <3>5, <3>6, Zenon
        <4>2. /\ x = o => /\ waiters'[x] = waiters[x] - 1
                         /\ Cardinality(Claimants(x)') = Cardinality(Claimants(x)) - 1
              /\ x # o => /\ waiters'[x] = waiters[x]
                         /\ Cardinality(Claimants(x)') = Cardinality(Claimants(x)) - 0
          BY <1>7, <3>9, Zenon
        <4> QED BY <4>1, <4>2, SMTT(30)
      <3>11. anywaiters' = Cardinality(Anyone')
        <4>1. anywaiters = Cardinality(Anyone) /\ Cardinality(Anyone) \in Nat
          BY <1>1, Zenon DEF Counts, Counted
        <4>2. Cardinality(Anyone') = Cardinality(Anyone) - 0
          BY <1>7, <2>2, Zenon
        <4>3. anywaiters' = anywaiters
          BY <3>1, Zenon
        <4> QED BY <4>1, <4>2, <4>3, SMTT(30)
      <3> QED BY <3>9, <3>10, <3>11, Zenon
    <2> QED BY <2>1, <2>2, Zenon
  <1>10. Types'
    <2>1. reported' \in [Handle -> Nat] /\ lock' \in {NoOne, t}
      BY <1>1, <1>2, <1>3, Zenon DEF Types, TKernel
    <2> QED BY <1>1, <1>2, <1>5, <1>9, <2>1, ShapedTypes, Zenon
  <1>11. lock' # t
    BY <1>2, <1>3, ProcAssumption, Zenon
  <1>12. Locked'
    BY <1>1, <1>2, <1>3, <1>5, <1>11, CallerLocked, Zenon
  <1>13. Counts'
    BY <1>1, <1>2, <1>5, <1>9, CountsMoved, Zenon
  <1> QED BY <1>9, <1>10, <1>12, <1>13, Zenon DEF IInv

\* The child that was waited for ended: the caller has the lock and looks at it.
LEMMA WokeExitStep ==
    ASSUME IInv, Counted, NEW t \in Caller, Dropped(t), WokeExit(t), ignored' = ignored
    PROVE  IInv'
  <1> DEFINE o == pr[t]
  <1>1. Types /\ World /\ Locked /\ Counts /\ TThreads
    BY Zenon DEF IInv, Types
  <1>2. /\ undead' = undead /\ used' = used /\ pid' = pid /\ anywaiters' = anywaiters
        /\ onbirth' = onbirth /\ state' = state /\ successor' = successor
        /\ spc' = spc /\ sobj' = sobj /\ wpc' = wpc /\ wobj' = wobj
        /\ want' = want /\ pr' = pr /\ reported' = reported
    BY Zenon DEF WokeExit, spawner, worker, locals
  <1>3. /\ pc[t] = "woke" /\ lock = NoOne /\ lock' = t /\ want[t] # AnyChild /\ Goto(t, "status")
        /\ waiters' = [waiters EXCEPT ![o] = @ - 1]
        /\ IF status[o] = "ALIVE" THEN __proc_harvest(o, TRUE)
           ELSE UNCHANGED <<list, zombies, free, status, handle, haszombies, open>>
    BY Zenon DEF WokeExit
  <1>4. OutOfReach
    BY <1>2, Zenon DEF OutOfReach
  <1>5. pc' \in [Caller -> PC] /\ pc'[t] = "status" /\ \A u \in Caller \ {t} : pc'[u] = pc[u]
    BY <1>1, <1>3, GotoLemma, Zenon DEF PC
  <1>6. Alone(t)
    BY <1>2, <1>5, Zenon DEF Alone
  <1>7. Claims(t) /\ ~Claims(t)'
    BY <1>3, <1>5, Zenon DEF Claims
  <1>8. Settled(t)
    BY <1>1, <1>2, <1>3, <1>5, <1>7, Zenon DEF Settled, Counts
  <1>9. /\ \A x : Cardinality(Claimants(x)') = Cardinality(Claimants(x)) - IF pr[t] = x THEN 1 ELSE 0
        /\ Cardinality(Anyone') = Cardinality(Anyone) - IF want[t] = AnyChild THEN 1 ELSE 0
        /\ Cardinality(Claimants(pr[t])) > 0
    BY <1>6, <1>7, Zenon DEF Dropped
  <1>10. o \in Object
    BY <1>1, <1>3, <1>7, Zenon DEF Counts
  <1>11. \A x \in Object : waiters[x] = Cardinality(Claimants(x)) + Watching(x)
    BY <1>1, Zenon DEF Counts
  <1>12. \A x : Cardinality(Claimants(x)) \in Nat /\ Watching(x) \in Nat
    BY Zenon DEF Counted, Watching
  <1>13. waiters[o] > 0 /\ waiters \in [Object -> Nat]
    <2>1. waiters[o] = Cardinality(Claimants(o)) + Watching(o) /\ Cardinality(Claimants(o)) > 0
      BY <1>9, <1>10, <1>11, Zenon
    <2>2. Cardinality(Claimants(o)) \in Nat /\ Watching(o) \in Nat
      BY <1>12, Zenon
    <2>3. waiters \in [Object -> Nat]
      BY <1>1, Zenon DEF Types, TObjects
    <2>4. waiters[o] > 0
      BY <2>1, <2>2, SMTT(30)
    <2> QED BY <2>3, <2>4, Zenon
  <1>14. /\ waiters' \in [Object -> Nat] /\ waiters'[o] = waiters[o] - 1
         /\ \A x \in Object : x # o => waiters'[x] = waiters[x]
    BY <1>3, <1>10, <1>13, SMTT(30)
  <1>15. o \in Tracked
    BY <1>1, <1>10, <1>13, Zenon DEF Counts
  <1>16. World' /\ Shapes /\ Tracked' = Tracked
    <2>1. CASE status[o] = "ALIVE"
      <3>1. o \in Listed(list)
        BY <1>1, <1>15, <2>1, Zenon DEF World, Places, Tracked
      <3>2. __proc_harvest(o, TRUE) /\ TRUE \in BOOLEAN
        BY <1>3, <2>1, Zenon
      <3> QED BY <1>1, <1>2, <1>4, <3>1, <3>2, HarvestWorld, Zenon
    <2>2. CASE status[o] # "ALIVE"
      <3>1. /\ list' = list /\ zombies' = zombies /\ free' = free /\ status' = status
            /\ handle' = handle /\ haszombies' = haszombies /\ open' = open
        BY <1>3, <2>2, Zenon
      <3>2. /\ state' \in [Handle -> {"none", "running", "exited", "execed"}]
            /\ \A h \in Handle : state'[h] = state[h] \/ (state[h] = "running" /\ state'[h] = "exited")
        BY <1>1, <1>2, Zenon DEF Types, TKernel
      <3>3. World'
        BY <1>1, <1>2, <3>1, <3>2, SameWorld, Zenon
      <3>4. TLists'
        BY <1>1, <1>2, <3>1, Zenon DEF Types, TLists
      <3>5. Shapes /\ Tracked' = Tracked
        BY <1>1, <1>2, <3>1, <3>4, Zenon DEF Shapes, Tracked, Types, TObjects, TKernel
      <3> QED BY <3>3, <3>5, Zenon
    <2> QED BY <2>1, <2>2, Zenon
  <1>17. Types'
    <2>1. /\ reported' \in [Handle -> Nat] /\ lock' \in {NoOne, t}
          /\ want' \in [Caller -> Handle \cup {AnyChild}] /\ pr' \in [Caller -> Object \cup {0}]
      BY <1>1, <1>2, <1>3, Zenon DEF Types, TKernel, TThreads
    <2> QED BY <1>1, <1>2, <1>5, <1>14, <1>16, <2>1, ShapedTypes, Zenon
  <1>18. Locked'
    <2>1. lock' = t /\ want'[t] # AnyChild /\ pr'[t] \in Tracked'
      BY <1>2, <1>3, <1>15, <1>16, Zenon
    <2>2. lock \in {NoOne, t} /\ lock' \in {NoOne, t} /\ pc'[t] \in {"zombies", "status"}
      BY <1>3, <1>5, Zenon
    <2> QED BY <1>1, <1>2, <1>6, <2>1, <2>2, CallerLocked, Zenon
  <1>19. \A x \in Object : waiters'[x] = Cardinality(Claimants(x)') + Watching(x)
    <2> SUFFICES ASSUME NEW x \in Object
                 PROVE  waiters'[x] = Cardinality(Claimants(x)') + Watching(x)
      BY Zenon
    <2>1. /\ waiters[x] = Cardinality(Claimants(x)) + Watching(x)
          /\ Cardinality(Claimants(x)) \in Nat /\ Watching(x) \in Nat
      BY <1>11, <1>12, Zenon
    <2>2. /\ x = o => /\ waiters'[x] = waiters[x] - 1
                     /\ Cardinality(Claimants(x)') = Cardinality(Claimants(x)) - 1
          /\ x # o => /\ waiters'[x] = waiters[x]
                     /\ Cardinality(Claimants(x)') = Cardinality(Claimants(x)) - 0
      BY <1>9, <1>14, Zenon
    <2> QED BY <2>1, <2>2, SMTT(30)
  <1>20. anywaiters' = Cardinality(Anyone')
    <2>1. anywaiters = Cardinality(Anyone) /\ Cardinality(Anyone) \in Nat
      BY <1>1, Zenon DEF Counts, Counted
    <2>2. Cardinality(Anyone') = Cardinality(Anyone) - 0
      BY <1>3, <1>9, Zenon
    <2>3. anywaiters' = anywaiters
      BY <1>2, Zenon
    <2> QED BY <2>1, <2>2, <2>3, SMTT(30)
  <1>21. \A x \in Object : waiters'[x] > 0 => x \in Tracked'
    <2>1. \A x \in Object : waiters[x] > 0 => x \in Tracked
      BY <1>1, Zenon DEF Counts
    <2> QED BY <1>14, <1>15, <1>16, <2>1, Zenon
  <1>22. ASSUME NEW x \in undead'
         PROVE  waiters'[x] > 0 \/ \E u \in Caller : pc'[u] = "status" /\ pr'[u] = x
    <2>1. x \in undead /\ x \in Object
      BY <1>1, <1>2, <1>22, Zenon DEF Types, TLists
    <2>2. CASE x = o
      BY <1>2, <1>5, <2>2, Zenon
    <2>3. CASE x # o
      <3>1. pc[t] # "status"
        BY <1>3, Zenon
      <3> QED BY <1>1, <1>6, <1>14, <2>1, <2>3, <3>1, ReapersStay, Zenon DEF Counts
    <2> QED BY <2>2, <2>3, Zenon
  <1>23. Counts'
    BY <1>1, <1>2, <1>6, <1>8, <1>19, <1>20, <1>21, <1>22, CountsMoved, Zenon
  <1> QED BY <1>16, <1>17, <1>18, <1>23, Zenon DEF IInv

----------------------------------------------------------------------------
(***************************************************************************)
(* The worker.                                                             *)
(***************************************************************************)
\* The worker waits on one handle for each object it watches, and what woke
\* it is one of them.
Awake ==
    /\ wpc \in {"enter", "wait", "woke"} => DOMAIN whandle = DOMAIN wobj
    /\ wpc = "woke" => wi \in DOMAIN wobj \cup {0}

\* The callers are not moved by a step of the worker.
LEMMA WorkerMoved ==
    ASSUME Counts, pc' = pc, want' = want, pr' = pr, anywaiters' = anywaiters,
           \A o \in Object : waiters'[o] = Cardinality(Claimants(o)) + Watching(o)',
           \A o \in Object : waiters'[o] > 0 => o \in Tracked',
           \A o \in undead' : waiters'[o] > 0 \/ \E u \in Caller : pc[u] = "status" /\ pr[u] = o
    PROVE  Counts'
  <1>1. \A t \in Caller : Claims(t)' = Claims(t)
    BY Zenon DEF Claims
  <1>2. (\A o : Claimants(o)' = Claimants(o)) /\ Anyone' = Anyone
    BY <1>1, Zenon DEF Claimants, Anyone
  <1>3. \A o \in Object : waiters'[o] = Cardinality(Claimants(o)') + Watching(o)'
    BY <1>2, Zenon
  <1>4. anywaiters' = Cardinality(Anyone')
    BY <1>2, Zenon DEF Counts
  <1>5. \A t \in Caller : /\ pc'[t] \in {"idle", "kill"} => want'[t] = AnyChild
                          /\ want'[t] = AnyChild => pr'[t] = 0
                          /\ (Claims(t)' /\ want'[t] # AnyChild) => pr'[t] \in Object
    BY <1>1, Zenon DEF Counts
  <1>6. \A o \in undead' : waiters'[o] > 0 \/ \E u \in Caller : pc'[u] = "status" /\ pr'[u] = o
    BY Zenon
  <1> QED BY <1>3, <1>4, <1>5, <1>6, Zenon DEF Counts

\* __proc.lock after a step of the worker.
LEMMA WorkerLocked ==
    ASSUME Locked, pc' = pc, want' = want, pr' = pr,
           \/ lock' = lock /\ Tracked' = Tracked
           \/ lock \in {NoOne, Worker} /\ lock' \in {NoOne, Worker},
           lock' = Worker <=> wpc' = "change",
           wpc' = "change" => Len(wobj') = 1,
           wpc' \in {"assemble", "raise"} => wobj' = <<>>
    PROVE  Locked'
  <1>1. ASSUME NEW t \in Caller
        PROVE  /\ lock' = t => pc'[t] \in {"zombies", "status"}
               /\ pc'[t] = "status" => lock' = t /\ want'[t] # AnyChild /\ pr'[t] \in Tracked'
    <2>1. CASE lock' = lock /\ Tracked' = Tracked
      BY <2>1, Zenon DEF Locked
    <2>2. CASE lock \in {NoOne, Worker} /\ lock' \in {NoOne, Worker}
      <3>1. lock # t /\ lock' # t
        BY <2>2, ProcAssumption, Zenon DEF Worker
      <3> QED BY <3>1, Zenon DEF Locked
    <2> QED BY <2>1, <2>2, Zenon
  <1> QED BY <1>1, Zenon DEF Locked

\* While the worker has the lock, or nobody has, no caller looks at a status.
LEMMA NobodyReaps ==
    ASSUME Locked, lock \in {NoOne, Worker}
    PROVE  \A u \in Caller : pc[u] # "status"
  BY ProcAssumption, Zenon DEF Locked, Worker

\* The types after a step of the worker that moves objects.
LEMMA WorkerTypes ==
    ASSUME Types, Shapes, pid' = pid, waiters' \in [Object -> Nat], ignored' = ignored,
           onbirth' \in BOOLEAN, state' = state, successor' = successor, reported' = reported,
           lock' \in {NoOne, Worker}, spc' = spc, sobj' = sobj,
           wpc' \in {"assemble", "enter", "wait", "woke", "change", "raise", "panic"},
           wobj' \in Seq(Object), NoDuplicates(wobj'), pc' = pc, want' = want, pr' = pr
    PROVE  Types'
  <1>1. TObjects'
    BY Zenon DEF Types, TObjects, Shapes
  <1>2. TKernel'
    BY Zenon DEF Types, TKernel, Shapes
  <1>3. TThreads'
    BY Zenon DEF Types, TThreads
  <1>4. TLists'
    BY Zenon DEF Shapes
  <1> QED BY <1>1, <1>2, <1>3, <1>4, Zenon DEF Types

\* A step of the worker that touches no object.
LEMMA QuietWorker ==
    ASSUME IInv, onbirth' \in BOOLEAN, wpc \notin {"change"}, wpc' \notin {"change"},
           wpc' \in {"assemble", "enter", "wait", "woke", "raise", "panic"},
           wpc' \in {"assemble", "raise"} => wpc = "raise",
           ignored' = ignored, lists' = lists, objects' = objects, haszombies' = haszombies,
           kernel' = kernel, spawner' = spawner, reported' = reported, lock' = lock,
           wobj' = wobj, pc' = pc, want' = want, pr' = pr, anywaiters' = anywaiters
    PROVE  IInv'
  <1>1. Types /\ World /\ Locked /\ Counts
    BY Zenon DEF IInv
  <1>2. state' = state /\ successor' = successor /\ open' = open
    BY Zenon DEF kernel
  <1>3. /\ state' \in [Handle -> {"none", "running", "exited", "execed"}]
        /\ \A h \in Handle : state'[h] = state[h] \/ (state[h] = "running" /\ state'[h] = "exited")
    BY <1>1, <1>2, Zenon DEF Types, TKernel
  <1>4. /\ World' /\ TLists' /\ TObjects' /\ TKernel'
        /\ Tracked' = Tracked /\ undead' = undead /\ waiters' = waiters
        /\ spc' = spc /\ sobj' = sobj
    BY <1>2, <1>3, Quiet, Zenon
  <1>5. TThreads'
    BY <1>1, <1>4, Zenon DEF Types, TThreads
  <1>6. Locked'
    <2>1. lock' # Worker
      BY <1>1, Zenon DEF Locked
    <2>2. wpc' \in {"assemble", "raise"} => wobj' = <<>>
      BY <1>1, Zenon DEF Locked
    <2> QED BY <1>1, <1>4, <2>1, <2>2, WorkerLocked, Zenon
  <1>7. \A o : Watching(o)' = Watching(o)
    BY Zenon DEF Watching, Listed
  <1>8. \A o \in Object : waiters'[o] = Cardinality(Claimants(o)) + Watching(o)'
    BY <1>1, <1>4, <1>7, Zenon DEF Counts
  <1>9. /\ \A o \in Object : waiters'[o] > 0 => o \in Tracked'
        /\ \A o \in undead' : waiters'[o] > 0 \/ \E u \in Caller : pc[u] = "status" /\ pr[u] = o
    BY <1>1, <1>4, Zenon DEF Counts
  <1>10. Counts'
    BY <1>1, <1>8, <1>9, WorkerMoved, Zenon
  <1> QED BY <1>4, <1>5, <1>6, <1>10, Zenon DEF IInv, Types

\* The worker begins to wait.
LEMMA WorkerEnterStep ==
    ASSUME IInv, WorkerEnter, ignored' = ignored
    PROVE  IInv'
  <1>1. /\ wpc = "enter" /\ lists' = lists /\ objects' = objects /\ onbirth' = onbirth
        /\ haszombies' = haszombies /\ kernel' = kernel /\ spawner' = spawner /\ reported' = reported
        /\ lock' = lock /\ wobj' = wobj /\ pc' = pc /\ want' = want /\ pr' = pr
        /\ anywaiters' = anywaiters
    BY Zenon DEF WorkerEnter, events, caller, locals
  <1>2. wpc' \in {"wait", "panic"}
    BY Zenon DEF WorkerEnter
  <1>3. onbirth' \in BOOLEAN
    BY <1>1, Zenon DEF IInv, Types, TKernel
  <1>4. /\ wpc \notin {"change"} /\ wpc' \notin {"change"} /\ wpc' \notin {"assemble", "raise"}
        /\ wpc' \in {"assemble", "enter", "wait", "woke", "raise", "panic"}
    BY <1>1, <1>2, Zenon
  <1> QED BY <1>1, <1>3, <1>4, QuietWorker, Zenon

\* The wait of the worker ends.
LEMMA WorkerWakeStep ==
    ASSUME IInv, WorkerWake, ignored' = ignored
    PROVE  IInv'
  <1>1. /\ wpc = "wait" /\ wpc' = "woke" /\ lists' = lists /\ objects' = objects
        /\ haszombies' = haszombies /\ kernel' = kernel /\ spawner' = spawner /\ reported' = reported
        /\ lock' = lock /\ wobj' = wobj /\ pc' = pc /\ want' = want /\ pr' = pr
        /\ anywaiters' = anywaiters
    BY Zenon DEF WorkerWake, caller, locals
  <1>2. onbirth' = onbirth \/ onbirth' = (onbirth /\ Len(whandle) = Slots)
    BY Zenon DEF WorkerWake
  <1>3. onbirth' \in BOOLEAN
    BY <1>2, Zenon DEF IInv, Types, TKernel
  <1>4. /\ wpc \notin {"change"} /\ wpc' \notin {"change"} /\ wpc' \notin {"assemble", "raise"}
        /\ wpc' \in {"assemble", "enter", "wait", "woke", "raise", "panic"}
    BY <1>1, Zenon
  <1> QED BY <1>1, <1>3, <1>4, QuietWorker, Zenon

\* The worker raises SIGCHLD.
LEMMA WorkerRaiseStep ==
    ASSUME IInv, WorkerRaise, ignored' = ignored
    PROVE  IInv'
  <1>1. /\ wpc = "raise" /\ wpc' = "assemble" /\ lists' = lists /\ objects' = objects
        /\ onbirth' = onbirth /\ haszombies' = haszombies /\ kernel' = kernel
        /\ spawner' = spawner /\ reported' = reported
        /\ lock' = lock /\ wobj' = wobj /\ pc' = pc /\ want' = want /\ pr' = pr
        /\ anywaiters' = anywaiters
    BY Zenon DEF WorkerRaise, events, caller, locals
  <1>2. onbirth' \in BOOLEAN
    BY <1>1, Zenon DEF IInv, Types, TKernel
  <1>3. /\ wpc \notin {"change"} /\ wpc' \notin {"change"}
        /\ wpc' \in {"assemble", "enter", "wait", "woke", "raise", "panic"}
    BY <1>1, Zenon
  <1> QED BY <1>1, <1>2, <1>3, QuietWorker, Zenon

\* The worker counts itself as a waiter for the children it is about to watch.
LEMMA WorkerAssembleStep ==
    ASSUME IInv, Counted, WorkerAssemble, ignored' = ignored
    PROVE  IInv'
  <1>1. Types /\ World /\ Locked /\ Counts
    BY Zenon DEF IInv
  <1>2. /\ lock' = lock /\ zombies' = zombies /\ undead' = undead /\ free' = free /\ used' = used
        /\ status' = status /\ pid' = pid /\ handle' = handle /\ anywaiters' = anywaiters
        /\ onbirth' = onbirth /\ haszombies' = haszombies /\ state' = state
        /\ successor' = successor /\ open' = open /\ spc' = spc /\ sobj' = sobj
        /\ pc' = pc /\ want' = want /\ pr' = pr /\ reported' = reported
    BY Zenon DEF WorkerAssemble, events, kernel, spawner, caller, locals
  <1>3. wpc = "assemble" /\ lock = NoOne /\ wpc' = "enter"
    BY Zenon DEF WorkerAssemble
  <1>4. PICK k \in 0..Len(list) :
           /\ wobj' \in InOrder(Unwatched(k), list)
           /\ waiters' = [o \in Object |-> IF o \in Unwatched(k) THEN 1 ELSE waiters[o]]
           /\ list' = SubSeq(list, k + 1, Len(list)) \o SubSeq(list, 1, k)
    BY Zenon DEF WorkerAssemble
  <1> DEFINE U == Unwatched(k)
  <1>5. list \in Seq(Object) /\ NoDuplicates(list)
    BY <1>1, Zenon DEF Types, TLists
  <1>6. list' \in Seq(Object) /\ NoDuplicates(list') /\ Listed(list') = Listed(list)
    BY <1>4, <1>5, ListRotate, Zenon
  <1>7. Listed(SubSeq(list, 1, k)) \subseteq Listed(list)
    <2>1. \A i \in DOMAIN SubSeq(list, 1, k) : i \in DOMAIN list /\ SubSeq(list, 1, k)[i] = list[i]
      BY <1>5
    <2> QED BY <2>1, Zenon DEF Listed
  <1>8. U \subseteq Listed(list) /\ \A o \in U : waiters[o] = 0
    BY <1>7, Zenon DEF Unwatched
  <1> HIDE DEF U
  <1>9. U \in SUBSET Object
    BY <1>5, <1>8, ListSubset, Zenon
  <1>10. wobj' \in Seq(Object) /\ NoDuplicates(wobj') /\ Listed(wobj') = U
    <2>1. wobj' \in InOrder(U, list) \cup LastFirst(U, list)
      BY <1>4, Zenon DEF U
    <2> QED BY <1>5, <1>8, <1>9, <2>1, ListInOrder, Zenon
  <1>11. /\ \A o : Watching(o) = 0
         /\ \A o : Watching(o)' = IF o \in U THEN 1 ELSE 0
    <2>1. wobj = <<>> /\ wobj \in Seq(Object)
      BY <1>1, <1>3, Zenon DEF Locked, Types, TThreads
    <2>2. Listed(wobj) = {}
      BY <2>1, ListEmpty, Zenon
    <2>3. Listed(wobj)' = U
      BY <1>10, Zenon DEF Listed
    <2> QED BY <2>2, <2>3, Zenon DEF Watching
  <1>12. waiters' = [o \in Object |-> IF o \in U THEN 1 ELSE waiters[o]]
    BY <1>4, Zenon DEF U
  <1>13. waiters \in [Object -> Nat]
    BY <1>1, Zenon DEF Types, TObjects
  <1>14. waiters' \in [Object -> Nat]
    BY <1>12, <1>13, Zenon
  <1>15. \A o \in Object : waiters'[o] = IF o \in U THEN 1 ELSE waiters[o]
    BY <1>12, Zenon
  <1>16. /\ state' \in [Handle -> {"none", "running", "exited", "execed"}]
         /\ \A h \in Handle : state'[h] = state[h] \/ (state[h] = "running" /\ state'[h] = "exited")
    BY <1>1, <1>2, Zenon DEF Types, TKernel
  <1>17. World'
    BY <1>1, <1>2, <1>6, <1>16, SameWorld, Zenon
  <1>18. Listed(list)' = Listed(list)
    BY <1>6, Zenon DEF Listed
  <1>19. Tracked' = Tracked
    BY <1>2, <1>18, Zenon DEF Tracked, Listed
  <1>20. TLists'
    BY <1>1, <1>2, <1>6, Zenon DEF Types, TLists
  <1>21. Shapes
    BY <1>1, <1>2, <1>20, Zenon DEF Shapes, Types, TObjects, TKernel
  <1>22. Types'
    <2>1. onbirth' \in BOOLEAN /\ lock' \in {NoOne, Worker}
      BY <1>1, <1>2, <1>3, Zenon DEF Types, TKernel
    <2>2. wpc' \in {"assemble", "enter", "wait", "woke", "change", "raise", "panic"}
      BY <1>3, Zenon
    <2> QED BY <1>1, <1>2, <1>10, <1>14, <1>21, <2>1, <2>2, WorkerTypes, Zenon
  <1>23. Locked'
    <2>1. lock' # Worker /\ lock' = lock
      BY <1>2, <1>3, ProcAssumption, Zenon DEF Worker
    <2>2. wpc' # "change" /\ wpc' \notin {"assemble", "raise"}
      BY <1>3, Zenon
    <2> QED BY <1>1, <1>2, <1>19, <2>1, <2>2, WorkerLocked, Zenon
  <1>24. \A o \in Object : waiters'[o] = Cardinality(Claimants(o)) + Watching(o)'
    <2> SUFFICES ASSUME NEW o \in Object
                 PROVE  waiters'[o] = Cardinality(Claimants(o)) + Watching(o)'
      BY Zenon
    <2>1. waiters[o] = Cardinality(Claimants(o)) + Watching(o) /\ Cardinality(Claimants(o)) \in Nat
      BY <1>1, Zenon DEF Counts, Counted
    <2> QED BY <1>8, <1>11, <1>15, <2>1, SMTT(30)
  <1>25. \A o \in Object : waiters'[o] > 0 => o \in Tracked'
    BY <1>1, <1>8, <1>15, <1>19, Zenon DEF Counts, Tracked
  <1>26. \A o \in undead' : waiters'[o] > 0
    <2>1. \A u \in Caller : pc[u] # "status"
      BY <1>1, <1>3, NobodyReaps, Zenon
    <2>2. \A o \in undead : o \in Object /\ waiters[o] > 0
      BY <1>1, <2>1, Zenon DEF Counts, Types, TLists
    <2>3. undead' = undead
      BY <1>2, Zenon
    <2>4. \A o \in undead : waiters'[o] = 1 \/ waiters'[o] = waiters[o]
      BY <1>15, <2>2, Zenon
    <2> QED BY <2>2, <2>3, <2>4, SMTT(30)
  <1>27. Counts'
    BY <1>1, <1>2, <1>24, <1>25, <1>26, WorkerMoved, Zenon
  <1> QED BY <1>17, <1>22, <1>23, <1>27, Zenon DEF IInv

\* The worker gives up its claims, but for the child that woke it.
LEMMA WorkerReleaseStep ==
    ASSUME IInv, Awake, Counted, WorkerRelease, ignored' = ignored
    PROVE  IInv'
  <1>1. Types /\ World /\ Locked /\ Counts
    BY Zenon DEF IInv
  <1>2. /\ list' = list /\ zombies' = zombies /\ used' = used /\ status' = status /\ pid' = pid
        /\ handle' = handle /\ anywaiters' = anywaiters /\ onbirth' = onbirth
        /\ haszombies' = haszombies /\ state' = state /\ successor' = successor
        /\ spc' = spc /\ sobj' = sobj /\ pc' = pc /\ want' = want /\ pr' = pr
        /\ reported' = reported
    BY Zenon DEF WorkerRelease, events, spawner, caller, locals
  <1>3. /\ wpc = "woke" /\ lock = NoOne /\ Release(Others, wobj)
        /\ wobj' = (IF wi = 0 THEN <<>> ELSE <<wobj[wi]>>)
        /\ lock' = (IF wi = 0 THEN NoOne ELSE Worker)
        /\ wpc' = (IF wi = 0 THEN "assemble" ELSE "change")
    BY Zenon DEF WorkerRelease
  <1>4. wobj \in Seq(Object) /\ NoDuplicates(wobj)
    BY <1>1, Zenon DEF Types, TThreads
  <1>5. wi # 0 => wi \in DOMAIN wobj
    BY <1>3, Zenon DEF Awake
  <1>6. Others \subseteq Listed(wobj) /\ Others \in SUBSET Object
    BY <1>4, ListSubset, Zenon DEF Others, Listed
  <1>7. \A u \in Caller : pc[u] # "status"
    BY <1>1, <1>3, NobodyReaps, Zenon
  <1>8. \A o \in Object : waiters[o] = Cardinality(Claimants(o)) + Watching(o)
    BY <1>1, Zenon DEF Counts
  <1>9. \A o : Cardinality(Claimants(o)) \in Nat
    BY Zenon DEF Counted
  <1>10. \A o \in Others : waiters[o] > 0
    <2>1. \A o \in Others : o \in Object /\ Watching(o) = 1
      BY <1>6, Zenon DEF Watching
    <2> QED BY <1>8, <1>9, <2>1, SMTT(30)
  <1>11. OutOfReach
    BY <1>2, Zenon DEF OutOfReach
  <1>12. /\ World' /\ Shapes /\ waiters' \in [Object -> Nat]
         /\ \A o \in Object : waiters'[o] = IF o \in Others THEN waiters[o] - 1 ELSE waiters[o]
         /\ \A o \in Object : waiters'[o] > 0 => o \in Tracked'
         /\ \A o \in undead' : waiters'[o] > 0
    BY <1>1, <1>2, <1>3, <1>4, <1>6, <1>7, <1>10, <1>11, ReleaseLemma, Zenon
  <1>13. /\ wobj' \in Seq(Object) /\ NoDuplicates(wobj')
         /\ wi # 0 => Len(wobj') = 1
         /\ Listed(wobj)' = Listed(wobj) \ Others
    <2>1. CASE wi = 0
      <3>1. wobj' = <<>>
        BY <1>3, <2>1, Zenon
      <3>2. wobj' \in Seq(Object) /\ DOMAIN wobj' = {}
        BY <3>1, SMTT(30)
      <3>3. 0 \notin DOMAIN wobj
        BY <1>4, SMTT(30)
      <3>4. Others = Listed(wobj)
        BY <2>1, <3>3, Zenon DEF Others, Listed
      <3>5. Listed(wobj)' = {}
        BY <3>2, Zenon DEF Listed
      <3>6. NoDuplicates(wobj')
        BY <3>2, Zenon DEF NoDuplicates
      <3> QED BY <2>1, <3>2, <3>4, <3>5, <3>6, Zenon
    <2>2. CASE wi # 0
      <3> DEFINE x == wobj[wi]
      <3>1. wi \in DOMAIN wobj /\ x \in Object
        BY <1>4, <1>5, <2>2, SMTT(30)
      <3>2. wobj' = <<x>>
        BY <1>3, <2>2, Zenon
      <3>3. wobj' \in Seq(Object) /\ DOMAIN wobj' = {1} /\ wobj'[1] = x /\ Len(wobj') = 1
        BY <3>1, <3>2, SMTT(30)
      <3>4. Listed(wobj)' = {x}
        BY <3>3, Zenon DEF Listed
      <3>5. NoDuplicates(wobj')
        BY <3>3, Zenon DEF NoDuplicates
      <3>6. Listed(wobj) \ Others = {x}
        <4>1. x \in Listed(wobj)
          BY <3>1, Zenon DEF Listed
        <4>2. x \notin Others
          BY <1>4, <3>1, Zenon DEF Others, NoDuplicates
        <4>3. ASSUME NEW y \in Listed(wobj), y # x PROVE y \in Others
          BY <4>3, Zenon DEF Listed, Others
        <4> QED BY <4>1, <4>2, <4>3, Zenon
      <3> QED BY <3>3, <3>4, <3>5, <3>6, Zenon
    <2> QED BY <2>1, <2>2, Zenon
  <1>14. Types'
    <2>1. onbirth' \in BOOLEAN
      BY <1>1, <1>2, Zenon DEF Types, TKernel
    <2>2. /\ lock' \in {NoOne, Worker}
          /\ wpc' \in {"assemble", "enter", "wait", "woke", "change", "raise", "panic"}
      BY <1>3, Zenon
    <2> QED BY <1>1, <1>2, <1>12, <1>13, <2>1, <2>2, WorkerTypes, Zenon
  <1>15. Locked'
    <2>1. lock \in {NoOne, Worker} /\ lock' \in {NoOne, Worker}
      BY <1>3, Zenon
    <2>2. lock' = Worker <=> wi # 0
      BY <1>3, ProcAssumption, Zenon DEF Worker
    <2>3. (wpc' = "change" <=> wi # 0) /\ (wpc' \in {"assemble", "raise"} <=> wi = 0)
      BY <1>3, Zenon
    <2>4. wi = 0 => wobj' = <<>>
      BY <1>3, Zenon
    <2> QED BY <1>1, <1>2, <1>13, <2>1, <2>2, <2>3, <2>4, WorkerLocked, Zenon
  <1>16. \A o \in Object : waiters'[o] = Cardinality(Claimants(o)) + Watching(o)'
    <2> SUFFICES ASSUME NEW o \in Object
                 PROVE  waiters'[o] = Cardinality(Claimants(o)) + Watching(o)'
      BY Zenon
    <2>1. /\ o \in Others => Watching(o) = 1 /\ Watching(o)' = 0
          /\ o \notin Others => Watching(o)' = Watching(o)
      BY <1>6, <1>13, Zenon DEF Watching
    <2>2. Watching(o) \in Nat
      BY Zenon DEF Watching
    <2> QED BY <1>8, <1>9, <1>12, <2>1, <2>2, SMTT(30)
  <1>17. Counts'
    BY <1>1, <1>2, <1>12, <1>16, WorkerMoved, Zenon
  <1> QED BY <1>12, <1>14, <1>15, <1>17, Zenon DEF IInv

\* The worker looks at the child that woke it, and gives up the lock.
LEMMA WorkerChangeStep ==
    ASSUME IInv, Counted, WorkerChange, ignored' = ignored
    PROVE  IInv'
  <1> DEFINE o == wobj[1]
  <1>1. Types /\ World /\ Locked /\ Counts
    BY Zenon DEF IInv
  <1>2. /\ used' = used /\ pid' = pid /\ anywaiters' = anywaiters /\ onbirth' = onbirth
        /\ state' = state /\ successor' = successor /\ spc' = spc /\ sobj' = sobj
        /\ pc' = pc /\ want' = want /\ pr' = pr /\ reported' = reported
    BY Zenon DEF WorkerChange, spawner, caller, locals
  <1>3. /\ wpc = "change" /\ wobj' = <<>> /\ lock' = NoOne /\ wpc' \in {"raise", "assemble"}
        /\ \/ /\ status[o] = "ALIVE" /\ waiters' = [waiters EXCEPT ![o] = @ - 1]
              /\ __proc_harvest(o, FALSE) /\ undead' = undead
           \/ /\ status[o] # "ALIVE" /\ Release({o}, wobj) /\ list' = list /\ zombies' = zombies
              /\ status' = status /\ handle' = handle /\ haszombies' = haszombies
    BY Zenon DEF WorkerChange
  <1>4. wobj \in Seq(Object) /\ Len(wobj) = 1 /\ lock = Worker
    BY <1>1, <1>3, Zenon DEF Locked, Types, TThreads
  <1>5. DOMAIN wobj = {1} /\ o \in Object
    BY <1>4, SMTT(30)
  <1>6. Listed(wobj) = {o}
    BY <1>5, Zenon DEF Listed
  <1>7. \A u \in Caller : pc[u] # "status"
    BY <1>1, <1>4, NobodyReaps, Zenon
  <1>8. \A x \in Object : waiters[x] = Cardinality(Claimants(x)) + Watching(x)
    BY <1>1, Zenon DEF Counts
  <1>9. \A x : Cardinality(Claimants(x)) \in Nat
    BY Zenon DEF Counted
  <1>10. Watching(o) = 1 /\ \A x : x # o => Watching(x) = 0
    BY <1>6, Zenon DEF Watching
  <1>11. wobj' \in Seq(Object) /\ NoDuplicates(wobj') /\ Listed(wobj)' = {}
    <2>1. wobj' \in Seq(Object) /\ DOMAIN wobj' = {}
      BY <1>3, SMTT(30)
    <2> QED BY <2>1, Zenon DEF NoDuplicates, Listed
  <1>12. \A x : Watching(x)' = 0
    BY <1>11, Zenon DEF Watching
  <1> HIDE DEF o
  <1>13. waiters[o] > 0 /\ waiters \in [Object -> Nat]
    <2>1. waiters \in [Object -> Nat]
      BY <1>1, Zenon DEF Types, TObjects
    <2> QED BY <1>5, <1>8, <1>9, <1>10, <2>1, SMTT(30)
  <1>14. o \in Tracked
    BY <1>1, <1>5, <1>13, Zenon DEF Counts
  <1>15. OutOfReach
    BY <1>2, Zenon DEF OutOfReach
  <1>16. /\ World' /\ Shapes /\ waiters' \in [Object -> Nat]
         /\ \A x \in Object : waiters'[x] = IF x \in {o} THEN waiters[x] - 1 ELSE waiters[x]
         /\ \A x \in Object : waiters'[x] > 0 => x \in Tracked'
         /\ \A x \in undead' : waiters'[x] > 0
    <2>1. CASE status[o] = "ALIVE"
      <3>1. o \in Listed(list) /\ o \notin undead
        BY <1>1, <1>14, <2>1, Zenon DEF World, Places, Tracked
      <3>2. waiters' = [waiters EXCEPT ![o] = @ - 1] /\ __proc_harvest(o, FALSE) /\ undead' = undead
        BY <1>3, <2>1, Zenon
      <3>3. /\ World' /\ Shapes
            /\ Tracked' = Tracked \/ (Tracked' = Tracked \ {o} /\ waiters[o] = 1)
        BY <1>1, <1>2, <1>15, <3>1, <3>2, HarvestWorld, Zenon
      <3>4. /\ waiters' \in [Object -> Nat] /\ waiters'[o] = waiters[o] - 1
            /\ \A x \in Object : x # o => waiters'[x] = waiters[x]
        BY <1>5, <1>13, <3>2, SMTT(30)
      <3>5. \A x \in Object : waiters[x] > 0 => x \in Tracked
        BY <1>1, Zenon DEF Counts
      <3>6. ASSUME NEW x \in Object, waiters'[x] > 0 PROVE x \in Tracked'
        <4>1. CASE x # o
          BY <3>3, <3>4, <3>5, <3>6, <4>1, Zenon
        <4>2. CASE x = o
          <5>1. waiters[o] # 1
            BY <3>4, <3>6, <4>2, SMTT(30)
          <5> QED BY <1>14, <3>3, <4>2, <5>1, Zenon
        <4> QED BY <4>1, <4>2, Zenon
      <3>7. \A x \in undead : x \in Object /\ x # o /\ waiters[x] > 0
        BY <1>1, <1>7, <3>1, Zenon DEF Counts, Types, TLists
      <3>8. \A x \in undead' : waiters'[x] > 0
        BY <3>2, <3>4, <3>7, Zenon
      <3> QED BY <3>3, <3>4, <3>6, <3>8, Zenon
    <2>2. CASE status[o] # "ALIVE"
      <3>1. /\ Release({o}, wobj) /\ list' = list /\ zombies' = zombies
            /\ status' = status /\ handle' = handle /\ haszombies' = haszombies
        BY <1>3, <2>2, Zenon
      <3>2. {o} \in SUBSET Object /\ {o} \subseteq Listed(wobj) /\ \A x \in {o} : waiters[x] > 0
        BY <1>5, <1>6, <1>13, Zenon
      <3> QED BY <1>1, <1>2, <1>4, <1>7, <1>15, <3>1, <3>2, ReleaseLemma, Zenon
    <2> QED BY <2>1, <2>2, Zenon
  <1>17. Types'
    <2>1. onbirth' \in BOOLEAN
      BY <1>1, <1>2, Zenon DEF Types, TKernel
    <2>2. /\ lock' \in {NoOne, Worker}
          /\ wpc' \in {"assemble", "enter", "wait", "woke", "change", "raise", "panic"}
      BY <1>3, Zenon
    <2> QED BY <1>1, <1>2, <1>11, <1>16, <2>1, <2>2, WorkerTypes, Zenon
  <1>18. Locked'
    <2>1. lock \in {NoOne, Worker} /\ lock' \in {NoOne, Worker}
      BY <1>3, <1>4, Zenon
    <2>2. lock' # Worker
      BY <1>3, ProcAssumption, Zenon DEF Worker
    <2>3. wpc' # "change"
      BY <1>3, Zenon
    <2> QED BY <1>1, <1>2, <1>3, <2>1, <2>2, <2>3, WorkerLocked, Zenon
  <1>19. \A x \in Object : waiters'[x] = Cardinality(Claimants(x)) + Watching(x)'
    BY <1>8, <1>9, <1>10, <1>12, <1>16, SMTT(30)
  <1>20. Counts'
    BY <1>1, <1>2, <1>16, <1>19, WorkerMoved, Zenon
  <1> QED BY <1>16, <1>17, <1>18, <1>20, Zenon DEF IInv

----------------------------------------------------------------------------
(***************************************************************************)
(* The invariant.                                                          *)
(***************************************************************************)
\* There are no children, no calls and no objects at the start.
LEMMA InitLemma ==
    ASSUME Init, Cardinality({}) = 0
    PROVE  IInv /\ Awake
  <1>1. /\ lock = NoOne /\ list = <<>> /\ zombies = <<>> /\ undead = {} /\ free = <<>> /\ used = 0
        /\ haszombies = FALSE /\ onbirth = FALSE /\ open = {} /\ spc = "idle" /\ sobj = 0
        /\ wpc = "assemble" /\ wobj = <<>> /\ anywaiters = 0 /\ ignored \in BOOLEAN
    BY ProcAssumption, Zenon DEF Init
  <1>2. /\ status \in [Object -> {"ALIVE", "ZOMBIE", "UNDEAD"}]
        /\ waiters = [o \in Object |-> 0]
        /\ pid \in [Object -> Handle \cup {0}] /\ handle \in [Object -> Handle \cup {0}]
        /\ state = [h \in Handle |-> "none"] /\ successor = [h \in Handle |-> 0]
        /\ reported = [h \in Handle |-> 0]
        /\ pc = [t \in Caller |-> "idle"] /\ want = [t \in Caller |-> AnyChild]
        /\ pr = [t \in Caller |-> 0]
    BY Zenon DEF Init
  <1>3. <<>> \in Seq(Object) /\ DOMAIN <<>> = {} /\ 0 \in Nat
    OBVIOUS
  <1>4. NoDuplicates(<<>>) /\ Listed(<<>>) = {}
    BY <1>3, Zenon DEF NoDuplicates, Listed
  <1>5. TLists
    BY <1>1, <1>3, <1>4, Zenon DEF TLists
  <1>6. TObjects
    BY <1>2, Zenon DEF TObjects
  <1>7. TKernel
    <2>1. state \in [Handle -> {"none", "running", "exited", "execed"}]
      BY <1>2, Zenon
    <2>2. successor \in [Handle -> Handle \cup {0}] /\ reported \in [Handle -> Nat]
      BY <1>2, <1>3, Zenon
    <2> QED BY <1>1, <2>1, <2>2, Zenon DEF TKernel
  <1>8. TThreads
    <2>1. pc \in [Caller -> PC]
      BY <1>2, Zenon DEF PC
    <2>2. want \in [Caller -> Handle \cup {AnyChild}] /\ pr \in [Caller -> Object \cup {0}]
      BY <1>2, Zenon
    <2>3. spc # "launched"
      BY <1>1, Zenon
    <2> QED BY <1>1, <1>3, <1>4, <2>1, <2>2, <2>3, Zenon DEF TThreads
  <1>9. Tracked = {} /\ Launched = {}
    <2>1. spc # "launched"
      BY <1>1, SMTT(30)
    <2> QED BY <1>1, <1>4, <2>1, Zenon DEF Tracked, Launched
  <1>10. Owned = {} /\ Unreported = {}
    BY <1>1, <1>4, <1>9, Zenon DEF Owned, Unreported
  <1>11. Places
    <2>1. 1..used = {} /\ used <= PoolSize + MaxHandle
      BY <1>1, ProcAssumption
    <2> QED BY <1>1, <1>4, <1>9, <1>10, <2>1, Zenon DEF Places
  <1>12. \A h \in Handle : state[h] = "none" /\ successor[h] = 0 /\ reported[h] = 0
    BY <1>2, Zenon
  <1>13. Processes
    BY <1>1, <1>12, ZeroHandle, Zenon DEF Processes
  <1>14. Handles
    BY <1>1, <1>4, <1>10, <1>12, Zenon DEF Handles
  <1>15. Reports
    <2>1. Born = {}
      BY <1>12, Zenon DEF Born
    <2> QED BY <1>10, <2>1, Zenon DEF Reports
  <1>16. Locked
    <2>1. wpc # "change" /\ lock # Worker
      BY <1>1, ProcAssumption, Zenon DEF Worker
    <2>2. \A t \in Caller : pc[t] # "status" /\ lock # t
      BY <1>1, <1>2, ProcAssumption, Zenon
    <2> QED BY <1>1, <2>1, <2>2, Zenon DEF Locked
  <1>17. Counts
    <2>1. \A t \in Caller : ~Claims(t) /\ pr[t] = 0 /\ want[t] = AnyChild
      BY <1>2, Zenon DEF Claims
    <2>2. (\A o : Claimants(o) = {}) /\ Anyone = {}
      BY <2>1, Zenon DEF Claimants, Anyone
    <2>4. \A o : Watching(o) = 0
      BY <1>1, <1>4, Zenon DEF Watching
    <2>5. \A o \in Object : waiters[o] = 0
      BY <1>2, Zenon
    <2>6. \A o \in Object : waiters[o] = Cardinality(Claimants(o)) + Watching(o)
      <3>1. 0 + 0 = 0
        OBVIOUS
      <3> QED BY <2>2, <2>4, <2>5, <3>1, Zenon
    <2>7. \A o \in Object : ~(waiters[o] > 0)
      BY <2>5, SMTT(30)
    <2> QED BY <1>1, <2>1, <2>2, <2>6, <2>7, Zenon DEF Counts
  <1>18. Awake
    BY <1>1, Zenon DEF Awake
  <1> QED BY <1>5, <1>6, <1>7, <1>8, <1>11, <1>13, <1>14, <1>15, <1>16, <1>17, <1>18, Zenon
          DEF IInv, World, Types

\* A step of the worker keeps the invariant.
LEMMA WorkerStepLemma ==
    ASSUME IInv, Awake, Counted, WorkerStep, ignored' = ignored
    PROVE  IInv' /\ Awake'
  <1>1. CASE WorkerAssemble
    <2>1. wpc' = "enter" /\ whandle' = [i \in DOMAIN wobj' |-> handle[wobj'[i]]]
      BY <1>1, Zenon DEF WorkerAssemble
    <2>2. Awake'
      BY <2>1, Zenon DEF Awake
    <2> QED BY <1>1, <2>2, WorkerAssembleStep, Zenon
  <1>2. CASE WorkerEnter
    <2>1. wpc = "enter" /\ wpc' \in {"wait", "panic"} /\ wobj' = wobj /\ whandle' = whandle
      BY <1>2, Zenon DEF WorkerEnter
    <2>2. Awake'
      BY <2>1, Zenon DEF Awake
    <2> QED BY <1>2, <2>2, WorkerEnterStep, Zenon
  <1>3. CASE WorkerWake
    <2>1. wpc = "wait" /\ wpc' = "woke" /\ wobj' = wobj /\ whandle' = whandle
          /\ wi' \in DOMAIN whandle \cup {0}
      BY <1>3, Zenon DEF WorkerWake
    <2>2. Awake'
      BY <2>1, Zenon DEF Awake
    <2> QED BY <1>3, <2>2, WorkerWakeStep, Zenon
  <1>4. CASE WorkerRelease
    <2>1. wpc' \in {"assemble", "change"}
      BY <1>4, Zenon DEF WorkerRelease
    <2>2. Awake'
      BY <2>1, Zenon DEF Awake
    <2> QED BY <1>4, <2>2, WorkerReleaseStep, Zenon
  <1>5. CASE WorkerChange
    <2>1. wpc' \in {"assemble", "raise"}
      BY <1>5, Zenon DEF WorkerChange
    <2>2. Awake'
      BY <2>1, Zenon DEF Awake
    <2> QED BY <1>5, <2>2, WorkerChangeStep, Zenon
  <1>6. CASE WorkerRaise
    <2>1. wpc' = "assemble"
      BY <1>6, Zenon DEF WorkerRaise
    <2>2. Awake'
      BY <2>1, Zenon DEF Awake
    <2> QED BY <1>6, <2>2, WorkerRaiseStep, Zenon
  <1> QED BY <1>1, <1>2, <1>3, <1>4, <1>5, <1>6, Zenon DEF WorkerStep

\* The worker stays where it is.
LEMMA WorkerStays ==
    ASSUME Awake, worker' = worker
    PROVE  Awake'
  BY Zenon DEF Awake, worker

\* A step inside wait4() or kill() keeps the invariant.
LEMMA CallerStepLemma ==
    ASSUME IInv, Awake, Counted, NEW t \in Caller, Made(t), Dropped(t), CallerStep(t),
           ignored' = ignored
    PROVE  IInv' /\ Awake'
  <1>1. CASE CheckSignals(t)
    <2>1. worker' = worker
      BY <1>1, Zenon DEF CheckSignals
    <2> QED BY <1>1, <2>1, CheckSignalsStep, WorkerStays, Zenon
  <1>2. CASE __proc_check(t)
    <2>1. worker' = worker
      BY <1>2, Zenon DEF __proc_check
    <2> QED BY <1>2, <2>1, CheckStep, WorkerStays, Zenon
  <1>3. CASE NothingToWaitFor(t)
    <2>1. worker' = worker
      BY <1>3, Zenon DEF NothingToWaitFor
    <2> QED BY <1>3, <2>1, NothingToWaitForStep, WorkerStays, Zenon
  <1>4. CASE Register(t)
    <2>1. worker' = worker
      BY <1>4, Zenon DEF Register
    <2> QED BY <1>4, <2>1, RegisterStep, WorkerStays, Zenon
  <1>5. CASE Enter(t)
    <2>1. worker' = worker
      BY <1>5, Zenon DEF Enter
    <2> QED BY <1>5, <2>1, EnterStep, WorkerStays, Zenon
  <1>6. CASE Wake(t)
    <2>1. worker' = worker
      BY <1>6, Zenon DEF Wake
    <2> QED BY <1>6, <2>1, WakeStep, WorkerStays, Zenon
  <1>7. CASE WokeAny(t)
    <2>1. worker' = worker
      BY <1>7, Zenon DEF WokeAny
    <2> QED BY <1>7, <2>1, WokeAnyStep, WorkerStays, Zenon
  <1>8. CASE WokeKilled(t)
    <2>1. worker' = worker
      BY <1>8, Zenon DEF WokeKilled
    <2> QED BY <1>8, <2>1, WokeKilledStep, WorkerStays, Zenon
  <1>9. CASE WokeExit(t)
    <2>1. worker' = worker
      BY <1>9, Zenon DEF WokeExit
    <2> QED BY <1>9, <2>1, WokeExitStep, WorkerStays, Zenon
  <1>10. CASE StatusAlive(t)
    <2>1. worker' = worker
      BY <1>10, Zenon DEF StatusAlive
    <2> QED BY <1>10, <2>1, StatusAliveStep, WorkerStays, Zenon
  <1>11. CASE NotifyWorker(t)
    <2>1. worker' = worker
      BY <1>11, Zenon DEF NotifyWorker
    <2> QED BY <1>11, <2>1, NotifyWorkerStep, WorkerStays, Zenon
  <1>12. CASE StatusZombie(t)
    <2>1. worker' = worker
      BY <1>12, Zenon DEF StatusZombie
    <2> QED BY <1>12, <2>1, StatusZombieStep, WorkerStays, Zenon
  <1>13. CASE StatusUndead(t)
    <2>1. worker' = worker
      BY <1>13, Zenon DEF StatusUndead
    <2> QED BY <1>13, <2>1, StatusUndeadStep, WorkerStays, Zenon
  <1>14. CASE KillUse(t)
    <2>1. worker' = worker
      BY <1>14, Zenon DEF KillUse
    <2> QED BY <1>14, <2>1, KillUseStep, WorkerStays, Zenon
  <1> QED BY <1>1, <1>2, <1>3, <1>4, <1>5, <1>6, <1>7, <1>8, <1>9, <1>10, <1>11, <1>12, <1>13,
             <1>14, Zenon DEF CallerStep

\* The start of a call, or a signal, keeps the invariant.
LEMMA CallLemma ==
    ASSUME IInv, Awake, NEW t \in Caller, Call(t), ignored' = ignored
    PROVE  IInv' /\ Awake'
  <1>1. ASSUME NEW p \in Handle \cup {AnyChild}, NEW b \in BOOLEAN, WaitCall(t, p, b)
        PROVE  IInv' /\ Awake'
    <2>1. worker' = worker
      BY <1>1, Zenon DEF WaitCall
    <2> QED BY <1>1, <2>1, WaitCallStep, WorkerStays, Zenon
  <1>2. CASE KillAll(t)
    <2>1. worker' = worker
      BY <1>2, Zenon DEF KillAll
    <2> QED BY <1>2, <2>1, KillAllStep, WorkerStays, Zenon
  <1>3. ASSUME NEW o \in Object, __proc_search(t, o)
        PROVE  IInv' /\ Awake'
    <2>1. worker' = worker
      BY <1>3, Zenon DEF __proc_search
    <2> QED BY <1>3, <2>1, SearchStep, WorkerStays, Zenon
  <1>4. CASE Interrupt(t)
    <2>1. worker' = worker
      BY <1>4, Zenon DEF Interrupt
    <2> QED BY <1>4, <2>1, InterruptStep, WorkerStays, Zenon
  <1> QED BY <1>1, <1>2, <1>3, <1>4, Zenon DEF Call

\* Every step keeps the invariant.
LEMMA NextLemma ==
    ASSUME IInv, Awake, Counted, Bounded, \A t \in Caller : Made(t) /\ Dropped(t), Next
    PROVE  IInv' /\ Awake'
  <1>1. ignored' = ignored
    BY Zenon DEF Next, Going
  <1>2. CASE WorkerStep
    BY <1>1, <1>2, WorkerStepLemma, Zenon
  <1>3. CASE Spawn
    <2>1. worker' = worker
      BY <1>3, Zenon DEF Spawn
    <2> QED BY <1>1, <1>3, <2>1, SpawnStep, WorkerStays, Zenon
  <1>4. CASE SpawnFail
    <2>1. worker' = worker
      BY <1>4, Zenon DEF SpawnFail
    <2> QED BY <1>1, <1>4, <2>1, SpawnFailStep, WorkerStays, Zenon
  <1>5. CASE __proc_add
    <2>1. worker' = worker
      BY <1>5, Zenon DEF __proc_add
    <2> QED BY <1>1, <1>5, <2>1, AddStep, WorkerStays, Zenon
  <1>6. ASSUME NEW h \in Handle, Exit(h) PROVE IInv' /\ Awake'
    <2>1. worker' = worker
      BY <1>6, Zenon DEF Exit
    <2> QED BY <1>1, <1>6, <2>1, ExitStep, WorkerStays, Zenon
  <1>7. ASSUME NEW h \in Handle, Execve(h) PROVE IInv' /\ Awake'
    <2>1. worker' = worker
      BY <1>7, Zenon DEF Execve
    <2> QED BY <1>1, <1>7, <2>1, ExecveStep, WorkerStays, Zenon
  <1>8. ASSUME NEW t \in Caller, CallerStep(t) PROVE IInv' /\ Awake'
    BY <1>1, <1>8, CallerStepLemma, Zenon
  <1>9. ASSUME NEW t \in Caller, Call(t) PROVE IInv' /\ Awake'
    BY <1>1, <1>9, CallLemma, Zenon
  <1> QED BY <1>2, <1>3, <1>4, <1>5, <1>6, <1>7, <1>8, <1>9, Zenon DEF Next

\* So does no step at all.
LEMMA StutterLemma ==
    ASSUME IInv, Awake, vars' = vars
    PROVE  IInv' /\ Awake'
  <1>1. /\ ignored' = ignored /\ onbirth' = onbirth /\ state' = state /\ lists' = lists
        /\ objects' = objects /\ haszombies' = haszombies /\ successor' = successor /\ open' = open
        /\ spawner' = spawner /\ reported' = reported /\ lock' = lock /\ wpc' = wpc /\ wobj' = wobj
        /\ pc' = pc /\ want' = want /\ pr' = pr /\ anywaiters' = anywaiters /\ worker' = worker
    BY Zenon DEF vars, events, kernel, worker, caller, locals
  <1>2. Types /\ Locked /\ Counts /\ TThreads
    BY Zenon DEF IInv, Types
  <1>3. /\ onbirth' \in BOOLEAN
        /\ state' \in [Handle -> {"none", "running", "exited", "execed"}]
        /\ \A h \in Handle : state'[h] = state[h] \/ (state[h] = "running" /\ state'[h] = "exited")
    BY <1>1, <1>2, Zenon DEF Types, TKernel
  <1>4. /\ World' /\ TLists' /\ TObjects' /\ TKernel'
        /\ Tracked' = Tracked /\ undead' = undead /\ waiters' = waiters
        /\ spc' = spc /\ sobj' = sobj
    BY <1>1, <1>3, Quiet, Zenon
  <1>5. TThreads'
    BY <1>1, <1>2, <1>4, StillThreads, Zenon
  <1>6. Locked' /\ Counts'
    BY <1>1, <1>2, <1>4, SameCallers, Zenon
  <1> QED BY <1>1, <1>4, <1>5, <1>6, WorkerStays, Zenon DEF IInv, Types
=============================================================================
