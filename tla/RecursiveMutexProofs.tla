------------------------ MODULE RecursiveMutexProofs ------------------------
(***************************************************************************)
(* A program that locks a mutex from any set of threads, to any depth, and *)
(* unlocks what it locked, is safe, in its fork() and vfork() children too, *)
(* if only unlocking does nothing in the latter, as its documentation says *)
(* and the code does not ensure.                                           *)
(***************************************************************************)
EXTENDS RecursiveMutex, TLAPS

\* What a thread executes in lock after the exchange, and in unlock.
Inside == {"depth", "owner", "pid", "unlock", "level", "disown", "release"}

\* The name in the mutex is the thread's: the one it has, or had before it forked.
Names(t) == owner = <<t, "self">> \/ (mode[t] = "forked" /\ owner = tid[t])

HoldInv ==
    /\ lock = 0 => \A t \in Thread : holds[t] = 0
    /\ \A s, t \in Thread : holds[s] > 0 /\ holds[t] > 0 =>
           s = t \/ Mistaken(s, t) \/ Mistaken(t, s)
    /\ \A t \in Thread : pc[t] \in Inside /\ mode[t] # "vforked" =>
          /\ holds[t] > 0
          /\ pc[t] \in {"depth", "owner", "pid", "disown", "release"} => holds[t] = 1
          /\ pc[t] # "unlock" => \A s \in Thread : holds[s] > 0 => s = t

DepthInv ==
    /\ \A t \in Thread : holds[t] > 0 =>
           depth = holds[t] - 1 \/ \E s \in Thread : s # t /\ holds[s] > 0
    /\ (\A t \in Thread : holds[t] = 0) => depth = 0
    /\ Type = "normal" => depth = 0 /\ owner = NoOwner

\* The name in the mutex is the holder's, except while it is set or cleared.
OwnerInv ==
    /\ owner # NoOwner => \E s \in Thread : holds[s] > 0 /\ Names(s)
    /\ \A t \in Thread :
          /\ pc[t] \in {"depth", "owner", "release"} /\ mode[t] # "vforked" => owner = NoOwner
          /\ (/\ Type # "normal" /\ holds[t] > 0
              /\ \/ mode[t] = "vforked"
                 \/ pc[t] \in {"idle", "spin", "pid", "unlock", "level", "disown"})
                => Names(t)

ModeInv ==
    \A t \in Thread :
        /\ pc[t] \in {"spin", "depth", "owner", "pid"} => mode[t] # "vforked"
        /\ mode[t] = "self" => tid[t] = <<t, "self">>
        /\ mode[t] = "forked" => pid = 2
        /\ (pid = 2 /\ pc[t] # "gone") => mode[t] = "forked"
        /\ pid = 1 \/ (pc[t] = "gone" /\ holds[t] > 0) => mpid # 2
        /\ (Type # "normal" /\ pc[t] = "spin" /\ mode[t] # "forked") => holds[t] = 0
        /\ (Type # "normal" /\ pid = 2 /\ pc[t] \in {"level", "disown", "release"}) => mpid = 2
        /\ ~alive => pc[t] \in {"idle", "gone"}
        /\ pc[t] = "gone" => mode[t] # "forked"
        /\ \A s \in Thread : mode[s] = "forked" /\ mode[t] = "forked" => s = t
        /\ Type = "normal" => pc[t] \notin {"depth", "owner", "pid", "unlock", "level", "disown"}

IInv == TypeOK /\ HoldInv /\ DepthInv /\ OwnerInv /\ ModeInv

\* Nobody holds the mutex when the program starts.
LEMMA InitLemma == Init => IInv
  <1> SUFFICES ASSUME Init PROVE IInv
    OBVIOUS
  <1> USE MutexAssumption DEF Init, NoOwner
  <1>1. TypeOK
    BY DEF TypeOK, PC, Result
  <1>2. HoldInv /\ DepthInv
    BY DEF HoldInv, DepthInv, Inside, Mistaken
  <1>3. OwnerInv /\ ModeInv
    BY DEF OwnerInv, ModeInv, Names
  <1> QED BY <1>1, <1>2, <1>3 DEF IInv

\* The invariant is kept when nothing changes.
LEMMA StutterLemma == IInv /\ UNCHANGED vars => IInv'
  <1> SUFFICES ASSUME IInv, UNCHANGED vars PROVE IInv'
    OBVIOUS
  <1> QED BY DEF IInv, vars, fields, process, TypeOK, HoldInv, DepthInv, OwnerInv, ModeInv,
            Names, Mistaken, gettid

\* IInv is kept: the exchange finds the lock free, so nobody holds the mutex.
LEMMA AcquireStep ==
    ASSUME IInv, NEW t \in Thread, Acquire(t)
    PROVE  IInv'
  <1>1. /\ pc[t] = "spin" /\ lock' = 1 /\ holds \in [Thread -> Nat] /\ pc \in [Thread -> PC]
        /\ res \in [Thread -> Result] /\ mode[t] # "vforked"
        /\ UNCHANGED <<owner, depth, mpid, alive, try, mode, tid, pid, idled, calls>>
    BY DEF Acquire, process, IInv, TypeOK, ModeInv
  <1>2. /\ \A s \in Thread : holds[s] = 0
        /\ depth = 0
    BY DEF Acquire, IInv, HoldInv, DepthInv
  <1>3. owner = NoOwner
    BY <1>1, <1>2 DEF IInv, OwnerInv
  <1>4. /\ holds' = [holds EXCEPT ![t] = 1]
        /\ pc' = [pc EXCEPT ![t] = IF Type = "normal" THEN "idle" ELSE "depth"]
        /\ res' = res \/ res' = [res EXCEPT ![t] = "OK"]
    <2>1. holds' = [holds EXCEPT ![t] = 1]
      <3>1. holds' = [holds EXCEPT ![t] = holds[t] + 1]
        BY <1>1 DEF Acquire, Hold
      <3>2. holds[t] = 0
        BY <1>2
      <3> QED BY <3>1, <3>2
    <2>2. CASE Type = "normal"
      BY <2>1, <2>2, Zenon DEF Acquire, Return, Goto
    <2>3. CASE Type # "normal"
      BY <2>1, <2>3, Zenon DEF Acquire, Goto
    <2> QED BY <2>2, <2>3
  <1>5. /\ holds' \in [Thread -> Nat] /\ pc' \in [Thread -> PC] /\ res' \in [Thread -> Result]
        /\ holds'[t] = 1 /\ \A s \in Thread \ {t} : holds'[s] = 0 /\ pc'[s] = pc[s]
        /\ \A s \in Thread : holds'[s] > 0 => s = t
        /\ pc'[t] = IF Type = "normal" THEN "idle" ELSE "depth"
    BY <1>1, <1>2, <1>4 DEF PC, Result
  <1>6. TypeOK'
    BY <1>1, <1>5 DEF IInv, TypeOK
  <1>7. HoldInv'
    <2>1. \A s \in Thread : pc[s] \in Inside => mode[s] = "vforked"
      BY <1>2 DEF IInv, HoldInv
    <2> QED BY <1>1, <1>5, <2>1 DEF HoldInv, Inside
  <1>8. DepthInv'
    BY <1>1, <1>2, <1>3, <1>5 DEF DepthInv
  <1>9. OwnerInv'
    BY <1>1, <1>3, <1>5 DEF OwnerInv
  <1>10. ModeInv'
    BY <1>1, <1>5 DEF IInv, ModeInv
  <1> QED BY <1>6, <1>7, <1>8, <1>9, <1>10 DEF IInv

\* IInv is kept: trylock gives up.
LEMMA BusyStep ==
    ASSUME IInv, NEW t \in Thread, Busy(t)
    PROVE  IInv'
  <1>1. /\ pc[t] = "spin" /\ pc \in [Thread -> PC] /\ res \in [Thread -> Result]
        /\ pc' = [pc EXCEPT ![t] = "idle"] /\ res' = [res EXCEPT ![t] = "EBUSY"]
        /\ UNCHANGED <<lock, owner, depth, mpid, alive, try, mode, tid, pid, idled, holds, calls>>
    BY DEF Busy, Return, Goto, fields, process, IInv, TypeOK
  <1>2. /\ pc' \in [Thread -> PC] /\ res' \in [Thread -> Result] /\ pc'[t] = "idle"
        /\ \A s \in Thread \ {t} : pc'[s] = pc[s]
    BY <1>1 DEF PC, Result
  <1>3. TypeOK'
    BY <1>1, <1>2 DEF IInv, TypeOK
  <1>4. HoldInv'
    <2>1. \A r, q \in Thread : Mistaken(r, q) => Mistaken(r, q)'
      BY <1>1, <1>2 DEF Mistaken, gettid
    <2> QED BY <1>1, <1>2, <2>1 DEF IInv, HoldInv, Inside
  <1>5. (DepthInv /\ OwnerInv)'
    BY <1>1, <1>2 DEF IInv, DepthInv, OwnerInv, Names
  <1>6. ModeInv'
    BY <1>1, <1>2 DEF IInv, ModeInv
  <1> QED BY <1>3, <1>4, <1>5, <1>6 DEF IInv

\* No tid is zero.
LEMMA NamedTid == ASSUME IInv, NEW t \in Thread PROVE tid[t] # <<>> /\ <<t, "self">> # <<>>
  <1>1. PICK a \in Thread, k \in {"self", "child"} : tid[t] = <<a, k>>
    BY DEF IInv, TypeOK
  <1> QED BY <1>1

\* Who stores in the mutex is its only holder.
LEMMA OnlyHolder ==
    ASSUME IInv, NEW t \in Thread, mode[t] # "vforked",
           pc[t] \in {"depth", "owner", "pid", "level", "disown", "release"}
    PROVE  /\ holds[t] \in Nat \ {0}
           /\ pc[t] # "level" => holds[t] = 1
           /\ \A s \in Thread : holds[s] > 0 => s = t
           /\ \A s \in Thread \ {t} : holds[s] = 0
           /\ depth = holds[t] - 1
  <1>1. /\ holds[t] > 0 /\ holds \in [Thread -> Nat]
        /\ pc[t] # "level" => holds[t] = 1
        /\ \A s \in Thread : holds[s] > 0 => s = t
    BY DEF IInv, TypeOK, HoldInv, Inside
  <1>2. \A s \in Thread \ {t} : holds[s] = 0
    BY <1>1
  <1>3. depth = holds[t] - 1
    BY <1>1 DEF IInv, DepthInv
  <1> QED BY <1>1, <1>2, <1>3

\* The only thread of the child of fork() is the one that forked.
LEMMA ForkedAlone ==
    ASSUME IInv, NEW s \in Thread, NEW t \in Thread, pid = 2, s # t, mode[t] = "forked"
    PROVE  pc[s] = "gone" /\ mode[s] # "forked"
  <1> QED BY DEF IInv, ModeInv

\* IInv is kept: the depth is already zero.
LEMMA SetDepthStep ==
    ASSUME IInv, NEW t \in Thread, SetDepth(t)
    PROVE  IInv'
  <1>1. mode[t] # "vforked" /\ pc[t] = "depth"
    BY DEF IInv, ModeInv, SetDepth
  <1>2. depth = 0
    BY <1>1, OnlyHolder
  <1>3. /\ pc' = [pc EXCEPT ![t] = "owner"] /\ pc \in [Thread -> PC]
        /\ UNCHANGED <<lock, owner, depth, mpid, alive, try, res, mode, tid, pid, idled, holds, calls>>
    BY <1>2 DEF SetDepth, Goto, process, IInv, TypeOK
  <1>4. pc' \in [Thread -> PC] /\ pc'[t] = "owner" /\ \A s \in Thread \ {t} : pc'[s] = pc[s]
    BY <1>3 DEF PC
  <1>5. TypeOK'
    BY <1>3, <1>4 DEF IInv, TypeOK
  <1>6. HoldInv'
    BY <1>1, <1>3, <1>4 DEF IInv, HoldInv, Inside, Mistaken, gettid
  <1>7. (DepthInv /\ OwnerInv)'
    BY <1>1, <1>3, <1>4 DEF IInv, DepthInv, OwnerInv, Names
  <1>8. ModeInv'
    BY <1>1, <1>3, <1>4 DEF IInv, ModeInv
  <1> QED BY <1>5, <1>6, <1>7, <1>8 DEF IInv

\* IInv is kept: the holder stores its name.
LEMMA SetOwnerStep ==
    ASSUME IInv, NEW t \in Thread, SetOwner(t)
    PROVE  IInv'
  <1>1. mode[t] # "vforked" /\ pc[t] = "owner"
    BY DEF IInv, ModeInv, SetOwner
  <1>2. /\ holds[t] = 1 /\ \A s \in Thread : holds[s] > 0 => s = t
    BY <1>1, OnlyHolder
  <1>3. /\ pc' = [pc EXCEPT ![t] = "pid"] /\ pc \in [Thread -> PC] /\ owner' = tid[t]
        /\ UNCHANGED <<lock, depth, mpid, alive, try, res, mode, tid, pid, idled, holds, calls>>
    BY DEF SetOwner, Goto, gettid, process, IInv, TypeOK
  <1>4. pc' \in [Thread -> PC] /\ pc'[t] = "pid" /\ \A s \in Thread \ {t} : pc'[s] = pc[s]
    BY <1>3 DEF PC
  <1>5. TypeOK'
    BY <1>3, <1>4 DEF IInv, TypeOK
  <1>6. \A r \in Thread \ {t} : pc[r] \in Inside => mode[r] = "vforked"
    BY <1>2 DEF IInv, HoldInv
  <1>7. HoldInv'
    <2>1. lock' # 0
      BY <1>2, <1>3 DEF IInv, HoldInv
    <2> QED BY <1>2, <1>3, <1>4, <1>6, <2>1 DEF HoldInv, Inside
  <1>8. Type # "normal"
    BY <1>1 DEF IInv, ModeInv
  <1>9. DepthInv'
    BY <1>3, <1>8 DEF IInv, DepthInv
  <1>10. OwnerInv'
    <2>1. Names(t)'
      BY <1>1, <1>3 DEF IInv, TypeOK, ModeInv, Names
    <2> QED BY <1>2, <1>3, <1>4, <1>6, <2>1 DEF OwnerInv, Inside
  <1>11. ModeInv'
    BY <1>1, <1>3, <1>4 DEF IInv, ModeInv
  <1> QED BY <1>5, <1>7, <1>9, <1>10, <1>11 DEF IInv

\* IInv is kept: the holder stores its process.
LEMMA SetPidStep ==
    ASSUME IInv, NEW t \in Thread, SetPid(t)
    PROVE  IInv'
  <1>1. mode[t] # "vforked" /\ pc[t] = "pid"
    BY DEF IInv, ModeInv, SetPid
  <1>2. /\ holds[t] = 1 /\ \A s \in Thread \ {t} : holds[s] = 0
        /\ \A s \in Thread : holds[s] > 0 => s = t
    BY <1>1, OnlyHolder
  <1>3. /\ pc' = [pc EXCEPT ![t] = "idle"] /\ pc \in [Thread -> PC] /\ mpid' = pid
        /\ res' = [res EXCEPT ![t] = "OK"] /\ res \in [Thread -> Result]
        /\ UNCHANGED <<lock, owner, depth, alive, try, mode, tid, pid, idled, holds, calls>>
    BY DEF SetPid, Return, Goto, process, IInv, TypeOK
  <1>4. pc' \in [Thread -> PC] /\ pc'[t] = "idle" /\ \A s \in Thread \ {t} : pc'[s] = pc[s]
    BY <1>3 DEF PC
  <1>5. TypeOK'
    <2>1. res' \in [Thread -> Result]
      BY <1>3 DEF Result
    <2> QED BY <1>3, <1>4, <2>1 DEF IInv, TypeOK
  <1>6. HoldInv'
    <2>1. lock = 1
      BY <1>2 DEF IInv, TypeOK, HoldInv
    <2>2. \A r \in Thread : pc'[r] \in Inside => r # t /\ pc[r] \in Inside
      BY <1>4 DEF Inside
    <2>3. \A r \in Thread : pc[r] \in Inside /\ mode[r] # "vforked" => r = t
      BY <1>2 DEF IInv, HoldInv
    <2> QED BY <1>2, <1>3, <2>1, <2>2, <2>3 DEF HoldInv
  <1>7. DepthInv'
    BY <1>3 DEF IInv, DepthInv
  <1>8. OwnerInv'
    BY <1>1, <1>3, <1>4 DEF IInv, OwnerInv, Names
  <1>9. ModeInv'
    BY <1>1, <1>2, <1>3, <1>4 DEF IInv, TypeOK, ModeInv
  <1> QED BY <1>5, <1>6, <1>7, <1>8, <1>9 DEF IInv

\* IInv is kept: who passes the test is named in the mutex, and by its process.
LEMMA UnlockCheckStep ==
    ASSUME IInv, NEW t \in Thread, UnlockCheck(t)
    PROVE  IInv'
  <1>1. /\ pc[t] = "unlock" /\ pc \in [Thread -> PC] /\ res \in [Thread -> Result]
        /\ UNCHANGED <<lock, owner, depth, mpid, alive, try, mode, tid, pid, idled, holds, calls>>
    BY DEF UnlockCheck, fields, process, IInv, TypeOK
  <1>2. /\ pc' = [pc EXCEPT ![t] = IF Foreign(t) THEN "idle" ELSE "level"]
        /\ res' = res \/ res' = [res EXCEPT ![t] = "EPERM"]
    BY DEF UnlockCheck, Return, Goto
  <1>3. /\ pc' \in [Thread -> PC] /\ res' \in [Thread -> Result]
        /\ \A s \in Thread \ {t} : pc'[s] = pc[s]
        /\ pc'[t] = IF Foreign(t) THEN "idle" ELSE "level"
    BY <1>1, <1>2 DEF PC, Result
  <1>4. Type # "normal"
    BY <1>1 DEF IInv, ModeInv
  <1>5. mode[t] # "vforked" => holds[t] > 0 /\ Names(t)
    BY <1>1, <1>4 DEF IInv, HoldInv, OwnerInv, Inside
  <1>6. mode[t] # "vforked" => owner # NoOwner
    <2>1. tid[t] # <<>> /\ <<t, "self">> # <<>>
      BY NamedTid
    <2> QED BY <1>5, <2>1 DEF Names, NoOwner
  <1>7. mode[t] # "vforked" /\ ~Foreign(t) => mpid = pid
    BY <1>6 DEF Foreign
  <1>8. TypeOK'
    BY <1>1, <1>3 DEF IInv, TypeOK
  <1>9. HoldInv'
    <2>1. mode[t] # "vforked" /\ ~Foreign(t) => \A s \in Thread : holds[s] > 0 => s = t
      BY <1>5, <1>7 DEF IInv, HoldInv, Mistaken
    <2>2. \A r, q \in Thread : Mistaken(r, q) => Mistaken(r, q)'
      BY <1>1, <1>3 DEF Mistaken, gettid
    <2>3. \A r \in Thread \ {t} : pc'[r] = pc[r]
      BY <1>3
    <2>4. pc'[t] = "idle" \/ (pc'[t] = "level" /\ ~Foreign(t))
      BY <1>3
    <2> QED BY <1>1, <1>5, <2>1, <2>2, <2>3, <2>4 DEF IInv, HoldInv, Inside
  <1>10. DepthInv'
    BY <1>1 DEF IInv, DepthInv
  <1>11. OwnerInv'
    BY <1>1, <1>3 DEF IInv, OwnerInv, Names
  <1>12. ModeInv'
    <2>1. pid = 2 => mode[t] = "forked"
      BY <1>1 DEF IInv, ModeInv
    <2>2. pc'[t] = "idle" \/ (pc'[t] = "level" /\ (pid = 2 => mpid = 2))
      BY <1>3, <1>7, <2>1
    <2>3. \A r \in Thread \ {t} : pc'[r] = pc[r]
      BY <1>3
    <2> QED BY <1>1, <1>4, <2>2, <2>3 DEF IInv, ModeInv
  <1> QED BY <1>8, <1>9, <1>10, <1>11, <1>12 DEF IInv

\* IInv is kept by a step of a thread that changes nothing but what it executes,
\* in the child of vfork().
LEMMA ChildStep ==
    ASSUME IInv, NEW t \in Thread, mode[t] = "vforked",
           NEW l \in {"idle", "disown", "release"}, pc' = [pc EXCEPT ![t] = l],
           pc[t] \in {"level", "disown", "release"}, res' \in [Thread -> Result],
           UNCHANGED <<lock, owner, depth, mpid, alive, try, mode, tid, pid, idled, holds, calls>>,
           Type = "normal" => l = "idle"
    PROVE  IInv'
  <1>1. /\ pc' \in [Thread -> PC] /\ pc'[t] = l
        /\ \A s \in Thread \ {t} : pc'[s] = pc[s]
    BY DEF IInv, TypeOK, PC
  <1>2. TypeOK'
    BY <1>1 DEF IInv, TypeOK
  <1>3. HoldInv'
    <2>1. \A r, q \in Thread : Mistaken(r, q) => Mistaken(r, q)'
      BY <1>1 DEF Mistaken, gettid
    <2> QED BY <1>1, <2>1 DEF IInv, HoldInv, Inside
  <1>4. (DepthInv /\ OwnerInv)'
    BY <1>1 DEF IInv, DepthInv, OwnerInv, Names
  <1>5. ModeInv'
    BY <1>1 DEF IInv, ModeInv
  <1> QED BY <1>2, <1>3, <1>4, <1>5 DEF IInv

\* IInv is kept: the holder goes on to unlock only at depth zero.
LEMMA UnlockLevelStep ==
    ASSUME IInv, NEW t \in Thread, UnlockLevel(t), VforkChildIdle
    PROVE  IInv'
  <1>1. /\ pc[t] = "level" /\ pc \in [Thread -> PC] /\ res \in [Thread -> Result]
        /\ holds \in [Thread -> Nat] /\ depth \in 0..MaxDepth /\ MaxDepth \in Nat
        /\ UNCHANGED <<lock, owner, mpid, alive, try, mode, tid, pid, idled, calls>>
    BY MutexAssumption DEF UnlockLevel, IInv, TypeOK, process
  <1>2. CASE mode[t] = "vforked"
    <2>1. pc'[t] # pc[t]
      BY <1>1 DEF UnlockLevel, Return, Goto
    <2>2. depth' = depth
      BY <1>1, <1>2, <2>1 DEF VforkChildIdle, fields
    <2>3. ~(depth > 0)
      BY <1>1, <2>2 DEF UnlockLevel
    <2>4. pc' = [pc EXCEPT ![t] = "disown"] /\ UNCHANGED <<depth, holds, res>>
      BY <2>3 DEF UnlockLevel, Goto
    <2>5. Type # "normal"
      BY <1>1 DEF IInv, ModeInv
    <2> QED BY <1>1, <1>2, <2>4, <2>5, ChildStep, Zenon
  <1>3. CASE mode[t] # "vforked" /\ depth > 0
    <2>1. /\ holds[t] \in Nat \ {0} /\ depth = holds[t] - 1
          /\ \A s \in Thread : holds[s] > 0 => s = t
      BY <1>1, <1>3, OnlyHolder
    <2>2. /\ holds' = [holds EXCEPT ![t] = holds[t] - 1] /\ depth' = depth - 1
          /\ pc' = [pc EXCEPT ![t] = "idle"] /\ res' = [res EXCEPT ![t] = "OK"]
      BY <1>1, <1>3, <2>1 DEF UnlockLevel, Return, Goto, Hold
    <2>3. holds[t] - 1 \in Nat \ {0} /\ depth' \in 0..MaxDepth
      BY <1>1, <1>3, <2>1, <2>2
    <2>4. /\ holds' \in [Thread -> Nat] /\ holds'[t] = holds[t] - 1 /\ pc'[t] = "idle"
          /\ \A s \in Thread \ {t} : holds'[s] = holds[s] /\ pc'[s] = pc[s]
          /\ \A s \in Thread : holds'[s] > 0 <=> holds[s] > 0
      BY <1>1, <2>2, <2>3
    <2>5. TypeOK'
      <3>1. pc' \in [Thread -> PC] /\ res' \in [Thread -> Result]
        BY <1>1, <2>2 DEF PC, Result
      <3> QED BY <1>1, <2>3, <2>4, <3>1 DEF IInv, TypeOK
    <2>6. HoldInv'
      <3>1. \A r \in Thread : holds'[r] > 0 => r = t
        BY <2>1, <2>4
      <3>2. \A r \in Thread \ {t} : pc[r] \in Inside => mode[r] = "vforked"
        BY <2>1 DEF IInv, HoldInv
      <3>3. lock' # 0
        BY <1>1, <2>1 DEF IInv, HoldInv
      <3> QED BY <1>1, <2>4, <3>1, <3>2, <3>3 DEF HoldInv, Inside
    <2>7. DepthInv'
      BY <1>1, <1>3, <2>1, <2>2, <2>3, <2>4 DEF IInv, DepthInv
    <2>8. OwnerInv'
      BY <1>1, <2>4 DEF IInv, OwnerInv, Names
    <2>9. ModeInv'
      BY <1>1, <2>4 DEF IInv, ModeInv
    <2> QED BY <2>5, <2>6, <2>7, <2>8, <2>9 DEF IInv
  <1>4. CASE mode[t] # "vforked" /\ ~(depth > 0)
    <2>1. pc' = [pc EXCEPT ![t] = "disown"] /\ UNCHANGED <<depth, holds, res>>
      BY <1>4 DEF UnlockLevel, Goto
    <2>2. /\ holds[t] \in Nat \ {0} /\ depth = holds[t] - 1
          /\ \A s \in Thread : holds[s] > 0 => s = t
      BY <1>1, <1>4, OnlyHolder
    <2>3. /\ pc' \in [Thread -> PC] /\ pc'[t] = "disown" /\ holds[t] = 1
          /\ \A s \in Thread \ {t} : pc'[s] = pc[s]
      BY <1>1, <1>4, <2>1, <2>2 DEF PC
    <2>4. TypeOK'
      BY <1>1, <2>1, <2>3 DEF IInv, TypeOK
    <2>5. HoldInv'
      <3>1. \A r, q \in Thread : Mistaken(r, q) => Mistaken(r, q)'
        BY <1>1, <2>1, <2>3 DEF Mistaken, gettid
      <3> QED BY <1>1, <1>4, <2>1, <2>2, <2>3, <3>1 DEF IInv, HoldInv, Inside
    <2>6. (DepthInv /\ OwnerInv)'
      BY <1>1, <1>4, <2>1, <2>3 DEF IInv, DepthInv, OwnerInv, Names
    <2>7. ModeInv'
      BY <1>1, <2>1, <2>3 DEF IInv, ModeInv
    <2> QED BY <2>4, <2>5, <2>6, <2>7 DEF IInv
  <1> QED BY <1>2, <1>3, <1>4

\* IInv is kept: the holder clears its name.
LEMMA DisownStep ==
    ASSUME IInv, NEW t \in Thread, Disown(t), VforkChildIdle
    PROVE  IInv'
  <1>1. /\ pc[t] = "disown" /\ pc \in [Thread -> PC] /\ res \in [Thread -> Result]
        /\ pc' = [pc EXCEPT ![t] = "release"] /\ owner' = <<>>
        /\ UNCHANGED <<lock, depth, mpid, alive, try, res, mode, tid, pid, idled, holds, calls>>
    BY DEF Disown, Goto, NoOwner, IInv, TypeOK, process
  <1>2. /\ pc' \in [Thread -> PC] /\ pc'[t] = "release"
        /\ \A s \in Thread \ {t} : pc'[s] = pc[s]
    BY <1>1 DEF PC
  <1>3. Type # "normal"
    BY <1>1 DEF IInv, ModeInv
  <1>4. CASE mode[t] = "vforked"
    <2>1. owner' = owner
      BY <1>1, <1>2, <1>4 DEF VforkChildIdle, fields
    <2> QED BY <1>1, <1>3, <1>4, <2>1, ChildStep, Zenon
  <1>5. CASE mode[t] # "vforked"
    <2>1. holds[t] = 1 /\ \A s \in Thread : holds[s] > 0 => s = t
      BY <1>1, <1>5, OnlyHolder
    <2>2. TypeOK'
      BY <1>1, <1>2 DEF IInv, TypeOK, NoOwner
    <2>3. HoldInv'
      <3>1. \A r \in Thread \ {t} : pc[r] \in Inside => mode[r] = "vforked"
        BY <2>1 DEF IInv, HoldInv
      <3>2. lock' # 0
        BY <1>1, <2>1 DEF IInv, HoldInv
      <3> QED BY <1>1, <1>2, <2>1, <3>1, <3>2 DEF HoldInv, Inside
    <2>4. DepthInv'
      BY <1>1, <1>3 DEF IInv, DepthInv
    <2>5. OwnerInv'
      BY <1>1, <1>2, <1>5, <2>1 DEF OwnerInv, NoOwner
    <2>6. ModeInv'
      BY <1>1, <1>2 DEF IInv, ModeInv
    <2> QED BY <2>2, <2>3, <2>4, <2>5, <2>6 DEF IInv
  <1> QED BY <1>4, <1>5

\* IInv is kept: the holder, who has it once, frees the lock.
LEMMA ReleaseStep ==
    ASSUME IInv, NEW t \in Thread, Release(t), VforkChildIdle
    PROVE  IInv'
  <1>1. /\ pc[t] = "release" /\ pc \in [Thread -> PC] /\ res \in [Thread -> Result]
        /\ pc' = [pc EXCEPT ![t] = "idle"] /\ res' = [res EXCEPT ![t] = "OK"]
        /\ lock' = 0 /\ holds \in [Thread -> Nat]
        /\ UNCHANGED <<owner, depth, mpid, alive, try, mode, tid, pid, idled, calls>>
    BY DEF Release, Return, Goto, IInv, TypeOK, process
  <1>2. /\ pc' \in [Thread -> PC] /\ res' \in [Thread -> Result] /\ pc'[t] = "idle"
        /\ \A s \in Thread \ {t} : pc'[s] = pc[s]
    BY <1>1 DEF PC, Result
  <1>3. CASE mode[t] = "vforked"
    <2>1. lock' = lock
      BY <1>1, <1>2, <1>3 DEF VforkChildIdle, fields
    <2>2. holds' = holds
      BY <1>1, <1>3 DEF Release, Hold
    <2> QED BY <1>1, <1>2, <1>3, <2>1, <2>2, ChildStep, Zenon
  <1>4. CASE mode[t] # "vforked"
    <2>1. /\ holds[t] = 1 /\ \A s \in Thread \ {t} : holds[s] = 0
          /\ depth = 0 /\ owner = <<>>
      BY <1>1, <1>4, OnlyHolder DEF IInv, OwnerInv, NoOwner
    <2>2. holds' = [holds EXCEPT ![t] = 0]
      BY <1>1, <1>4, <2>1 DEF Release, Hold
    <2>3. holds' \in [Thread -> Nat] /\ \A s \in Thread : holds'[s] = 0 /\ ~(holds'[s] > 0)
      BY <1>1, <2>1, <2>2
    <2>4. TypeOK'
      BY <1>1, <1>2, <2>3 DEF IInv, TypeOK
    <2>5. HoldInv'
      <3>1. \A r \in Thread \ {t} : pc[r] \in Inside => mode[r] = "vforked"
        BY <2>1 DEF IInv, HoldInv
      <3> QED BY <1>1, <1>2, <2>3, <3>1 DEF HoldInv, Inside
    <2>6. (DepthInv /\ OwnerInv)'
      BY <1>1, <2>1, <2>3 DEF DepthInv, OwnerInv, NoOwner
    <2>7. ModeInv'
      BY <1>1, <1>2, <2>3 DEF IInv, ModeInv
    <2> QED BY <2>4, <2>5, <2>6, <2>7 DEF IInv
  <1> QED BY <1>3, <1>4

\* IInv is kept: the caller only relocks the mutex when it is named in it, and so
\* holds it, or is the only thread of a child and mistaken for a holder.
LEMMA LockCallStep ==
    ASSUME IInv, NEW t \in Thread, NEW b \in BOOLEAN, LockCall(t, b)
    PROVE  IInv'
  <1>1. /\ pc[t] = "idle" /\ mode[t] # "vforked" /\ alive
        /\ try' = [try EXCEPT ![t] = b] /\ calls' = calls + 1
        /\ UNCHANGED <<lock, owner, mpid, alive, mode, tid, pid, idled>>
        /\ holds \in [Thread -> Nat] /\ pc \in [Thread -> PC] /\ res \in [Thread -> Result]
        /\ depth \in 0..MaxDepth /\ try' \in [Thread -> BOOLEAN] /\ calls' \in Nat
        /\ MaxDepth \in Nat
    BY MutexAssumption DEF LockCall, Call, process, IInv, TypeOK
  <1>2. CASE Type # "normal" /\ owner = tid[t] /\ Type # "errorcheck" /\ depth < MaxDepth
    <2>1. /\ holds' = [holds EXCEPT ![t] = holds[t] + 1] /\ depth' = depth + 1
          /\ pc' = [pc EXCEPT ![t] = "idle"] /\ res' = [res EXCEPT ![t] = "OK"]
      BY <1>1, <1>2 DEF LockCall, gettid, Relock, Return, Goto, Hold
    <2>2. /\ holds' \in [Thread -> Nat] /\ holds'[t] = holds[t] + 1 /\ pc' = pc
          /\ \A s \in Thread \ {t} : holds'[s] = holds[s]
          /\ depth' \in 0..MaxDepth /\ holds[t] \in Nat /\ holds'[t] > 0
      BY <1>1, <1>2, <2>1
    <2>3. owner # <<>>
      BY <1>2, NamedTid
    <2>4. PICK h \in Thread : holds[h] > 0 /\ Names(h)
      BY <2>3 DEF IInv, OwnerInv, NoOwner
    <2>5. lock' # 0
      BY <1>1, <2>4 DEF IInv, HoldInv
    <2>6. \A s \in Thread : s # t /\ holds[s] > 0 =>
             mode[t] = "forked" /\ pid = 2 /\ pc[s] = "gone" /\ mode[s] # "forked" /\ mpid # pid
      <3> SUFFICES ASSUME NEW s \in Thread, s # t, holds[s] > 0
                   PROVE  mode[t] = "forked" /\ pid = 2 /\ pc[s] = "gone" /\ mode[s] # "forked" /\ mpid # pid
        OBVIOUS
      <3>1. mode[t] = "forked"
        <4>1. SUFFICES ASSUME mode[t] # "forked" PROVE FALSE
          OBVIOUS
        <4>2. mode[t] = "self" /\ tid[t] = <<t, "self">> /\ pid = 1
          BY <1>1, <4>1 DEF IInv, TypeOK, ModeInv
        <4>3. \A q \in Thread : mode[q] # "forked"
          BY <4>2 DEF IInv, ModeInv
        <4>4. h = t
          BY <1>2, <2>4, <4>2, <4>3 DEF Names
        <4>5. ~Mistaken(s, t) /\ ~Mistaken(t, s)
          BY <4>3 DEF Mistaken
        <4> QED BY <2>4, <4>4, <4>5 DEF IInv, HoldInv
      <3>2. pid = 2
        BY <3>1 DEF IInv, ModeInv
      <3>3. pc[s] = "gone" /\ mode[s] # "forked"
        BY <3>1, <3>2, ForkedAlone
      <3>4. mpid # 2
        BY <3>3 DEF IInv, ModeInv
      <3> QED BY <3>1, <3>2, <3>3, <3>4
    <2>7. TypeOK'
      <3>1. res' \in [Thread -> Result]
        BY <1>1, <2>1 DEF Result
      <3> QED BY <1>1, <2>2, <3>1, Zenon DEF IInv, TypeOK
    <2>8. HoldInv'
      <3>1. \A s \in Thread : s # t /\ holds'[s] > 0 => Mistaken(s, t)'
        BY <1>1, <1>2, <2>2, <2>6 DEF Mistaken, gettid
      <3>2. \A r, q \in Thread : Mistaken(r, q) => Mistaken(r, q)'
        BY <1>1, <2>2 DEF Mistaken, gettid
      <3>3. \A s, q \in Thread : holds'[s] > 0 /\ holds'[q] > 0 =>
               s = q \/ Mistaken(s, q)' \/ Mistaken(q, s)'
        <4> SUFFICES ASSUME NEW s \in Thread, NEW q \in Thread, holds'[s] > 0, holds'[q] > 0,
                            s # q
                     PROVE  Mistaken(s, q)' \/ Mistaken(q, s)'
          OBVIOUS
        <4>1. CASE s = t \/ q = t
          BY <3>1, <4>1
        <4>2. CASE s # t /\ q # t
          BY <2>2, <3>2, <4>2 DEF IInv, HoldInv
        <4> QED BY <4>1, <4>2
      <3>4. \A r \in Thread : pc[r] \in Inside => r # t
        BY <1>1 DEF Inside
      <3>5. ASSUME NEW r \in Thread, pc[r] \in Inside, mode[r] # "vforked"
            PROVE  /\ holds'[r] > 0 /\ holds'[r] = holds[r]
                   /\ pc[r] \in {"depth", "owner", "pid", "disown", "release"} => holds[r] = 1
                   /\ FALSE
        <4>1. r # t /\ holds[r] > 0 /\ holds'[r] = holds[r]
          BY <2>2, <3>4, <3>5 DEF IInv, HoldInv
        <4>2. pc[r] = "gone"
          BY <2>6, <4>1
        <4> QED BY <3>5, <4>2 DEF Inside
      <3> QED BY <1>1, <2>2, <2>5, <3>3, <3>5 DEF HoldInv
    <2>9. DepthInv'
      <3>1. \A s \in Thread \ {t} : holds'[s] > 0 => \E q \in Thread : q # s /\ holds'[q] > 0
        BY <2>2
      <3>2. depth' = holds'[t] - 1 \/ \E q \in Thread : q # t /\ holds'[q] > 0
        <4>1. CASE h = t
          BY <1>1, <2>1, <2>2, <2>4, <4>1 DEF IInv, DepthInv
        <4>2. CASE h # t
          BY <2>2, <2>4, <4>2
        <4> QED BY <4>1, <4>2
      <3> QED BY <1>2, <2>2, <3>1, <3>2 DEF DepthInv
    <2>10. OwnerInv'
      <3>1. Names(t)
        <4>1. CASE mode[t] = "forked"
          BY <1>2, <4>1 DEF Names
        <4>2. CASE mode[t] # "forked"
          BY <1>1, <1>2, <4>2 DEF IInv, TypeOK, ModeInv, Names
        <4> QED BY <4>1, <4>2
      <3>2. \A s \in Thread : Names(s)' <=> Names(s)
        BY <1>1 DEF Names
      <3>3. \A s \in Thread : s # t => (holds'[s] > 0 <=> holds[s] > 0)
        BY <2>2
      <3> QED BY <1>1, <2>2, <3>1, <3>2, <3>3 DEF IInv, OwnerInv
    <2>11. ModeInv'
      BY <1>1, <2>2 DEF IInv, ModeInv
    <2> QED BY <2>7, <2>8, <2>9, <2>10, <2>11 DEF IInv
  <1>3. CASE Type # "normal" /\ owner = tid[t] /\ ~(Type # "errorcheck" /\ depth < MaxDepth)
    <2>1. /\ pc' = [pc EXCEPT ![t] = "idle"] /\ UNCHANGED <<depth, holds>>
          /\ \E r \in Result : res' = [res EXCEPT ![t] = r]
      BY <1>3 DEF LockCall, gettid, Relock, Return, Goto, Result
    <2>2. pc' = pc /\ res' \in [Thread -> Result]
      BY <1>1, <2>1
    <2>3. TypeOK'
      BY <1>1, <2>1, <2>2 DEF IInv, TypeOK
    <2>4. (HoldInv /\ DepthInv)'
      BY <1>1, <2>1, <2>2 DEF IInv, HoldInv, DepthInv, Mistaken, gettid
    <2>5. (OwnerInv /\ ModeInv)'
      BY <1>1, <2>1, <2>2 DEF IInv, OwnerInv, ModeInv, Names
    <2> QED BY <2>3, <2>4, <2>5 DEF IInv
  <1>4. CASE ~(Type # "normal" /\ owner = tid[t])
    <2>1. pc' = [pc EXCEPT ![t] = "spin"] /\ UNCHANGED <<depth, holds, res>>
      BY <1>4 DEF LockCall, gettid, Goto
    <2>2. pc' \in [Thread -> PC] /\ pc'[t] = "spin" /\ \A s \in Thread \ {t} : pc'[s] = pc[s]
      BY <1>1, <2>1 DEF PC
    <2>3. TypeOK'
      BY <1>1, <2>1, <2>2 DEF IInv, TypeOK
    <2>4. HoldInv'
      <3>1. \A r, q \in Thread : Mistaken(r, q) => Mistaken(r, q)'
        BY <1>1, <2>1, <2>2 DEF Mistaken, gettid
      <3> QED BY <1>1, <2>1, <2>2, <3>1 DEF IInv, HoldInv, Inside
    <2>5. (DepthInv /\ OwnerInv)'
      BY <1>1, <2>1, <2>2 DEF IInv, DepthInv, OwnerInv, Names
    <2>6. Type # "normal" /\ mode[t] # "forked" => holds[t] = 0
      BY <1>1, <1>4 DEF IInv, OwnerInv, ModeInv, TypeOK, Names
    <2>7. ModeInv'
      BY <1>1, <2>1, <2>2, <2>6 DEF IInv, ModeInv
    <2> QED BY <2>3, <2>4, <2>5, <2>7 DEF IInv
  <1> QED BY <1>2, <1>3, <1>4

\* IInv is kept: nothing happens in the child of vfork().
LEMMA LockVforkedStep ==
    ASSUME IInv, NEW t \in Thread, LockVforked(t)
    PROVE  IInv'
  <1>1. /\ pc[t] = "idle" /\ pc \in [Thread -> PC] /\ res \in [Thread -> Result]
        /\ pc' = [pc EXCEPT ![t] = "idle"] /\ res' = [res EXCEPT ![t] = "OK"]
        /\ idled' = [idled EXCEPT ![t] = TRUE] /\ idled \in [Thread -> BOOLEAN]
        /\ calls' = calls + 1 /\ calls \in Nat
        /\ UNCHANGED <<lock, owner, depth, mpid, alive, try, mode, tid, pid, holds>>
    BY DEF LockVforked, Call, Return, Goto, fields, IInv, TypeOK
  <1>2. /\ pc' = pc /\ res' \in [Thread -> Result] /\ idled' \in [Thread -> BOOLEAN]
        /\ calls' \in Nat
    BY <1>1 DEF Result
  <1>3. TypeOK'
    BY <1>1, <1>2 DEF IInv, TypeOK
  <1>4. (HoldInv /\ DepthInv)'
    BY <1>1, <1>2 DEF IInv, HoldInv, DepthInv, Mistaken, gettid
  <1>5. (OwnerInv /\ ModeInv)'
    BY <1>1, <1>2 DEF IInv, OwnerInv, ModeInv, Names
  <1> QED BY <1>3, <1>4, <1>5 DEF IInv

\* IInv is kept: a correct program unlocks what it holds.
LEMMA UnlockCallStep ==
    ASSUME IInv, NEW t \in Thread, UnlockCall(t)
    PROVE  IInv'
  <1>1. /\ pc[t] = "idle" /\ alive /\ (mode[t] # "vforked" => holds[t] > 0)
        /\ pc' = [pc EXCEPT ![t] = IF Type = "normal" THEN "release" ELSE "unlock"]
        /\ UNCHANGED <<lock, owner, depth, mpid, alive, try, res, mode, tid, pid, idled, holds, calls>>
        /\ pc \in [Thread -> PC] /\ holds \in [Thread -> Nat]
    BY DEF UnlockCall, MayUnlock, Goto, fields, process, IInv, TypeOK
  <1>2. /\ pc' \in [Thread -> PC] /\ \A s \in Thread \ {t} : pc'[s] = pc[s]
        /\ pc'[t] = IF Type = "normal" THEN "release" ELSE "unlock"
    BY <1>1 DEF PC
  <1>3. ASSUME Type = "normal", mode[t] # "vforked"
        PROVE  holds[t] = 1 /\ owner = <<>> /\ \A s \in Thread : holds[s] > 0 => s = t
    <2>1. depth = 0 /\ owner = <<>>
      BY <1>3 DEF IInv, DepthInv, NoOwner
    <2>2. \A r, q \in Thread : ~Mistaken(r, q)
      BY <2>1, NamedTid DEF Mistaken, gettid
    <2>3. \A s \in Thread : holds[s] > 0 => s = t
      BY <1>1, <1>3, <2>2 DEF IInv, HoldInv
    <2> QED BY <1>1, <1>3, <2>1, <2>3 DEF IInv, DepthInv
  <1>4. TypeOK'
    BY <1>1, <1>2 DEF IInv, TypeOK
  <1>5. HoldInv'
    <2>1. \A r, q \in Thread : Mistaken(r, q) => Mistaken(r, q)'
      BY <1>1, <1>2 DEF Mistaken, gettid
    <2> QED BY <1>1, <1>2, <1>3, <2>1 DEF IInv, HoldInv, Inside
  <1>6. DepthInv'
    BY <1>1 DEF IInv, DepthInv
  <1>7. OwnerInv'
    BY <1>1, <1>2, <1>3 DEF IInv, OwnerInv, Names, NoOwner
  <1>8. ModeInv'
    BY <1>1, <1>2 DEF IInv, ModeInv
  <1> QED BY <1>4, <1>5, <1>6, <1>7, <1>8 DEF IInv

\* IInv is kept: nobody holds the mutex.
LEMMA pthread_mutex_destroyStep ==
    ASSUME IInv, NEW t \in Thread, pthread_mutex_destroy(t)
    PROVE  IInv'
  <1>1. /\ res' = [res EXCEPT ![t] = "OK"] /\ res \in [Thread -> Result]
        /\ calls' = calls + 1 /\ calls \in Nat /\ alive' = FALSE
        /\ \A s \in Thread : pc[s] \in {"idle", "gone"}
        /\ UNCHANGED <<lock, owner, depth, mpid, pc, try, mode, tid, pid, idled, holds>>
    BY DEF pthread_mutex_destroy, Call, process, IInv, TypeOK
  <1>2. res' \in [Thread -> Result] /\ calls' \in Nat
    BY <1>1 DEF Result
  <1>3. TypeOK'
    <2>1. alive' \in BOOLEAN
      BY <1>1, Zenon
    <2> QED BY <1>1, <1>2, <2>1 DEF IInv, TypeOK
  <1>4. (HoldInv /\ DepthInv)'
    BY <1>1 DEF IInv, HoldInv, DepthInv, Mistaken, gettid
  <1>5. OwnerInv'
    BY <1>1 DEF IInv, OwnerInv, Names
  <1>6. ModeInv'
    BY <1>1 DEF IInv, ModeInv
  <1> QED BY <1>3, <1>4, <1>5, <1>6 DEF IInv

\* IInv is kept: everything is reset.
LEMMA pthread_mutex_initStep ==
    ASSUME IInv, NEW t \in Thread, pthread_mutex_init(t)
    PROVE  IInv'
  <1>1. /\ res' = [res EXCEPT ![t] = "OK"] /\ res \in [Thread -> Result]
        /\ calls' = calls + 1 /\ calls \in Nat /\ alive' = TRUE /\ pc[t] = "idle"
        /\ lock' = 0 /\ owner' = NoOwner /\ depth' = 0 /\ mpid' = 0
        /\ holds' = [s \in Thread |-> 0] /\ MaxDepth \in Nat
        /\ UNCHANGED <<pc, try, mode, tid, pid, idled>>
    BY MutexAssumption DEF pthread_mutex_init, process, IInv, TypeOK
  <1>2. /\ res' \in [Thread -> Result] /\ calls' \in Nat /\ holds' \in [Thread -> Nat]
        /\ \A s \in Thread : holds'[s] = 0 /\ ~(holds'[s] > 0)
    BY <1>1 DEF Result
  <1>3. \A s \in Thread : pc[s] = "idle" \/ pc[s] = "gone"
    <2>1. CASE ~alive
      BY <2>1 DEF IInv, ModeInv
    <2>2. CASE alive
      <3>1. mode[t] = "forked" /\ pid = 2
        BY <2>2 DEF pthread_mutex_init, IInv, ModeInv
      <3> QED BY <1>1, <3>1, ForkedAlone
    <2> QED BY <2>1, <2>2
  <1>4. TypeOK'
    <2>1. alive' \in BOOLEAN
      BY <1>1, Zenon
    <2>2. depth' \in 0..MaxDepth
      BY <1>1
    <2> QED BY <1>1, <1>2, <2>1, <2>2 DEF IInv, TypeOK
  <1>5. HoldInv'
    BY <1>1, <1>2, <1>3 DEF HoldInv, Inside
  <1>6. (DepthInv /\ OwnerInv)'
    BY <1>1, <1>2 DEF DepthInv, OwnerInv
  <1>7. ModeInv'
    BY <1>1, <1>2, <1>3 DEF IInv, ModeInv
  <1> QED BY <1>4, <1>5, <1>6, <1>7 DEF IInv

\* IInv is kept: the forker is alone in the child, and not in a call.
LEMMA ForkChildStep ==
    ASSUME IInv, NEW t \in Thread, ForkChild(t)
    PROVE  IInv'
  <1>1. /\ pc[t] = "idle" /\ mode[t] = "self" /\ pid = 1 /\ pid' = 2
        /\ mode' = [mode EXCEPT ![t] = "forked"]
        /\ pc' = [s \in Thread |-> IF s = t THEN "idle" ELSE "gone"]
        /\ mode \in [Thread -> {"self", "forked", "vforked"}]
        /\ tid \in [Thread -> Thread \X {"self", "child"}]
        /\ UNCHANGED <<lock, owner, depth, mpid, alive, try, res, idled, holds, calls>>
    BY DEF ForkChild, fields, IInv, TypeOK
  <1>2. PICK id \in Thread \X {"self", "child"} : tid' = [tid EXCEPT ![t] = id]
    BY MutexAssumption, Zenon DEF ForkChild, ChildTids
  <1>3. /\ tid' \in [Thread -> Thread \X {"self", "child"}]
        /\ mode' \in [Thread -> {"self", "forked", "vforked"}] /\ pc' \in [Thread -> PC]
        /\ mode'[t] = "forked" /\ pc'[t] = "idle"
        /\ \A s \in Thread \ {t} : pc'[s] = "gone" /\ mode'[s] = mode[s] /\ tid'[s] = tid[s]
    BY <1>1, <1>2 DEF PC
  <1>4. \A s \in Thread : mode[s] # "forked"
    BY <1>1 DEF IInv, ModeInv
  <1>5. TypeOK'
    BY <1>1, <1>3 DEF IInv, TypeOK
  <1>6. HoldInv'
    <2>1. \A r, q \in Thread : ~Mistaken(r, q)
      BY <1>4 DEF Mistaken
    <2>2. \A r \in Thread : pc'[r] \notin Inside
      BY <1>3 DEF Inside
    <2> QED BY <1>1, <2>1, <2>2 DEF IInv, HoldInv
  <1>7. DepthInv'
    BY <1>1 DEF IInv, DepthInv
  <1>8. OwnerInv'
    <2>1. \A s \in Thread : Names(s) => Names(s)'
      BY <1>1, <1>4 DEF Names
    <2> QED BY <1>1, <1>3, <2>1 DEF IInv, OwnerInv
  <1>9. ModeInv'
    BY <1>1, <1>3, <1>4 DEF IInv, ModeInv
  <1> QED BY <1>5, <1>6, <1>7, <1>8, <1>9 DEF IInv

\* IInv is kept: the thread is not in a call.
LEMMA VforkStep ==
    ASSUME IInv, NEW t \in Thread, Vfork(t)
    PROVE  IInv'
  <1>1. /\ pc[t] = "idle" /\ mode[t] = "self" /\ mode' = [mode EXCEPT ![t] = "vforked"]
        /\ mode \in [Thread -> {"self", "forked", "vforked"}]
        /\ tid \in [Thread -> Thread \X {"self", "child"}]
        /\ calls' \in Nat /\ idled' \in [Thread -> BOOLEAN]
        /\ UNCHANGED <<lock, owner, depth, mpid, alive, pc, try, res, pid, holds>>
    BY DEF Vfork, fields, IInv, TypeOK
  <1>2. PICK id \in Thread \X {"self", "child"} : tid' = [tid EXCEPT ![t] = id]
    BY MutexAssumption, Zenon DEF Vfork, ChildTids
  <1>3. /\ tid' \in [Thread -> Thread \X {"self", "child"}] /\ tid'[t] = id
        /\ mode' \in [Thread -> {"self", "forked", "vforked"}] /\ mode'[t] = "vforked"
        /\ \A s \in Thread \ {t} : mode'[s] = mode[s] /\ tid'[s] = tid[s]
    BY <1>1, <1>2
  <1>4. TypeOK'
    BY <1>1, <1>3 DEF IInv, TypeOK
  <1>5. HoldInv'
    <2>1. \A r, q \in Thread : Mistaken(r, q) => Mistaken(r, q)'
      BY <1>1, <1>3 DEF Mistaken, gettid
    <2> QED BY <1>1, <1>3, <2>1 DEF IInv, HoldInv, Inside
  <1>6. DepthInv'
    BY <1>1 DEF IInv, DepthInv
  <1>7. OwnerInv'
    <2>1. \A s \in Thread : Names(s) => Names(s)'
      BY <1>1, <1>3 DEF Names
    <2> QED BY <1>1, <1>3, <2>1 DEF IInv, OwnerInv
  <1>8. ModeInv'
    BY <1>1, <1>3 DEF IInv, ModeInv
  <1> QED BY <1>4, <1>5, <1>6, <1>7, <1>8 DEF IInv

\* IInv is kept: the thread is not in a call.
LEMMA VforkEndStep ==
    ASSUME IInv, NEW t \in Thread, VforkEnd(t)
    PROVE  IInv'
  <1>1. /\ pc[t] = "idle" /\ mode[t] = "vforked" /\ mode' = [mode EXCEPT ![t] = "self"]
        /\ mode \in [Thread -> {"self", "forked", "vforked"}]
        /\ tid \in [Thread -> Thread \X {"self", "child"}]
        /\ calls' \in Nat /\ idled' \in [Thread -> BOOLEAN]
        /\ UNCHANGED <<lock, owner, depth, mpid, alive, pc, try, res, pid, holds>>
    BY DEF VforkEnd, fields, IInv, TypeOK
  <1>2. PICK id \in Thread \X {"self", "child"} : tid' = [tid EXCEPT ![t] = id] /\ id = <<t, "self">>
    BY Zenon DEF VforkEnd
  <1>3. /\ tid' \in [Thread -> Thread \X {"self", "child"}] /\ tid'[t] = id
        /\ mode' \in [Thread -> {"self", "forked", "vforked"}] /\ mode'[t] = "self"
        /\ \A s \in Thread \ {t} : mode'[s] = mode[s] /\ tid'[s] = tid[s]
    BY <1>1, <1>2
  <1>4. TypeOK'
    BY <1>1, <1>3 DEF IInv, TypeOK
  <1>5. HoldInv'
    <2>1. \A r, q \in Thread : Mistaken(r, q) => Mistaken(r, q)'
      BY <1>1, <1>3 DEF Mistaken, gettid
    <2> QED BY <1>1, <1>3, <2>1 DEF IInv, HoldInv, Inside
  <1>6. DepthInv'
    BY <1>1 DEF IInv, DepthInv
  <1>7. OwnerInv'
    <2>1. \A s \in Thread : Names(s) => Names(s)'
      BY <1>1, <1>3 DEF Names
    <2> QED BY <1>1, <1>3, <2>1 DEF IInv, OwnerInv
  <1>8. ModeInv'
    <2>1. tid'[t] = <<t, "self">>
      BY <1>2, <1>3
    <2> QED BY <1>1, <1>3, <2>1 DEF IInv, ModeInv
  <1> QED BY <1>4, <1>5, <1>6, <1>7, <1>8 DEF IInv

\* Every step keeps the invariant, if no step of a vfork() child changes the mutex.
LEMMA NextLemma == ASSUME IInv, [Next]_vars, [VforkChildIdle]_vars PROVE IInv'
  <1>1. CASE UNCHANGED vars
    BY <1>1, StutterLemma
  <1>2. CASE Rest
    BY <1>2, StutterLemma DEF Rest
  <1>3. ASSUME NEW t \in Thread, Step(t), VforkChildIdle PROVE IInv'
    BY <1>3, AcquireStep, BusyStep, SetDepthStep, SetOwnerStep, SetPidStep, UnlockCheckStep,
       UnlockLevelStep, DisownStep, ReleaseStep DEF Step
  <1>4. ASSUME NEW t \in Thread, NEW b \in BOOLEAN, LockCall(t, b) PROVE IInv'
    BY <1>4, LockCallStep
  <1>5. ASSUME NEW t \in Thread,
               \/ LockVforked(t) \/ UnlockCall(t) \/ pthread_mutex_destroy(t)
               \/ pthread_mutex_init(t) \/ ForkChild(t) \/ Vfork(t) \/ VforkEnd(t)
        PROVE  IInv'
    BY <1>5, LockVforkedStep, UnlockCallStep, pthread_mutex_destroyStep,
       pthread_mutex_initStep, ForkChildStep, VforkStep, VforkEndStep
  <1> QED BY <1>1, <1>2, <1>3, <1>4, <1>5 DEF Next

\* The invariant holds in every state of a program that unlocks what it locked,
\* as long as the unlocks of its vfork() children do nothing, as documented.
THEOREM Inductive == Spec /\ VforkUnlockDoesNothing => []IInv
  <1>1. IInv /\ [Next]_vars /\ [VforkChildIdle]_vars => IInv'
    BY NextLemma
  <1> QED BY InitLemma, <1>1, PTL DEF Spec, VforkUnlockDoesNothing

\* Every variable keeps its type: in particular _depth never leaves its six bits.
THEOREM TypeCorrect == Spec /\ VforkUnlockDoesNothing => []TypeOK
  <1>1. IInv => TypeOK
    BY DEF IInv
  <1> QED BY Inductive, <1>1, PTL

\* Two threads never hold the mutex: what lock and unlock read of the owner
\* without the lock never lets a second thread in, in fork() children only one
\* that has the tid of the holder they do not have, and in vfork() children only
\* one whose unlock does what the documentation says it does not.
THEOREM MutualExclusionHolds == Spec /\ VforkUnlockDoesNothing => []MutualExclusion
  <1>1. IInv => MutualExclusion
    BY DEF IInv, HoldInv, MutualExclusion
  <1> QED BY Inductive, <1>1, PTL

\* Between calls the fields of the mutex tell who holds it, and how often.
THEOREM FieldsTellHolderHolds == Spec /\ VforkUnlockDoesNothing => []FieldsTellHolder
  <1>1. IInv => FieldsTellHolder
    <2> SUFFICES ASSUME IInv, Type # "normal", NEW t \in Thread,
                        holds[t] > 0, pc[t] = "idle", mode[t] = "self"
                 PROVE  lock = 1 /\ owner = gettid(t) /\ depth = holds[t] - 1
      BY DEF FieldsTellHolder
    <2>1. pid = 1 /\ \A s \in Thread : mode[s] # "forked"
      BY DEF IInv, TypeOK, ModeInv
    <2>2. \A s \in Thread : holds[s] > 0 => s = t
      BY <2>1 DEF IInv, HoldInv, Mistaken
    <2>3. lock = 1 /\ depth = holds[t] - 1
      BY <2>2 DEF IInv, TypeOK, HoldInv, DepthInv
    <2>4. owner = <<t, "self">> /\ tid[t] = <<t, "self">>
      BY <2>1 DEF IInv, OwnerInv, ModeInv, Names
    <2> QED BY <2>3, <2>4 DEF gettid
  <1> QED BY Inductive, <1>1, PTL

\* No owner of a recursive or error checking mutex spins on it.
THEOREM NoSelfDeadlockHolds == Spec /\ VforkUnlockDoesNothing => []NoSelfDeadlock
  <1>1. IInv => NoSelfDeadlock
    BY DEF IInv, ModeInv, NoSelfDeadlock
  <1> QED BY Inductive, <1>1, PTL

\* The child of fork() unlocks no mutex that its parent had locked, whatever tid
\* the system gave it: the test of _pid is what keeps it from doing so.
THEOREM InheritedStaysLockedHolds == Spec /\ VforkUnlockDoesNothing => InheritedStaysLocked
  <1> DEFINE Stays == (pid = 2 /\ mpid # 2 /\ lock = 1 /\ Type # "normal") =>
                          (lock' = 1 \/ \E t \in Thread : pthread_mutex_init(t))
  <1>1. ASSUME IInv, [Next]_vars, pid = 2, mpid # 2, lock = 1, Type # "normal"
        PROVE  lock' = 1 \/ \E t \in Thread : pthread_mutex_init(t)
    <2>1. CASE lock' = lock
      BY <1>1, <2>1
    <2>2. ASSUME NEW t \in Thread, Acquire(t) \/ Release(t)
          PROVE  lock' = 1
      BY <1>1, <2>2 DEF Acquire, Release, IInv, ModeInv
    <2>3. \/ lock' = lock
          \/ \E t \in Thread : Acquire(t) \/ Release(t) \/ pthread_mutex_init(t)
      <3>1. CASE UNCHANGED vars \/ Rest
        BY <3>1 DEF Rest, vars, fields
      <3>2. ASSUME NEW t \in Thread, Step(t) PROVE lock' = lock \/ Acquire(t) \/ Release(t)
        BY <3>2 DEF Step, Busy, SetDepth, SetOwner, SetPid, UnlockCheck, UnlockLevel, Disown,
           fields
      <3>3. ASSUME NEW t \in Thread, NEW b \in BOOLEAN, LockCall(t, b) PROVE lock' = lock
        BY <3>3 DEF LockCall
      <3>4. ASSUME NEW t \in Thread,
                   \/ LockVforked(t) \/ UnlockCall(t) \/ pthread_mutex_destroy(t)
                   \/ ForkChild(t) \/ Vfork(t) \/ VforkEnd(t)
            PROVE  lock' = lock
        BY <3>4 DEF LockVforked, UnlockCall, pthread_mutex_destroy, ForkChild, Vfork, VforkEnd,
           fields
      <3> QED BY <1>1, <3>1, <3>2, <3>3, <3>4 DEF Next
    <2> QED BY <2>1, <2>2, <2>3
  <1>2. IInv /\ [Next]_vars => [Stays]_vars
    BY <1>1
  <1> QED BY Inductive, <1>2, PTL DEF Spec, InheritedStaysLocked

=============================================================================
