-------------------------- MODULE SemaphoreProofs --------------------------
(***************************************************************************)
(* The unnamed semaphores for any finite set of threads: tokens, the count *)
(* of waiters, wakeups, and the counting semaphore they implement.         *)
(***************************************************************************)
EXTENDS Semaphore, FiniteSetTheorems, TLAPS

RegPc == {"load", "futex", "asleep", "cas", "cleanup"}
BusyPc == {"wake", "load", "cas"}

\* Threads that will look at the value again, or wake one that does.
Busy == {t \in Thread : pc[t] \in BusyPc}

Asleep == {t \in Thread : pc[t] = "asleep"}

\* What a thread knows at each place.
Local ==
    \A t \in Thread :
        /\ pc[t] = "cas" => v[t] > 0
        /\ (pc[t] \in {"try", "trycas"} /\ waiting[t]) => tries[t] < Spins
        /\ pc[t] \in {"register", "load", "futex", "asleep", "cas", "cleanup"} => waiting[t]

\* The tokens that should be there.
Net == start + posted - taken

\* A post past IntMax wraps the value, and then no wait and no post succeeds.
Tokens ==
    /\ (live /\ Net <= IntMax) => (value = Net /\ value >= 0)
    /\ (live /\ ~(Net <= IntMax)) => (value = IntMin \/ crashed # {})

\* There are no more tokens than threads that are about to deal with one.
Announced == Asleep # {} => value <= Cardinality(Busy)

IInv == TypeOK /\ WaitersExact /\ Local /\ Tokens /\ Announced

----------------------------------------------------------------------------
\* The program never posts the semaphore past SEM_VALUE_MAX.
NoOverflow == Net <= IntMax

InCall(t) == pc[t] \notin {"idle", "wake", "dead", "destroy"}

\* A semaphore that was destroyed is unusable, and sem_destroy did not count the
\* calls that see it.
Dead ==
    /\ (~live /\ crashed = {}) => value = IntMin
    /\ \A t \in Thread : (Doomed /\ InCall(t)) => late[t]

Refused ==
    /\ \A t \in Thread : (pc[t] = "trycas" /\ v[t] < 0) => late[t]
    /\ \A t \in Thread : (pc[t] \in {"idle", "cleanup", "dead"} /\ res[t] = "EINVAL") => late[t]
    /\ \A t \in crashed : late[t] \/ MaskedPoll(t)

RInv == IInv /\ Dead /\ Refused

----------------------------------------------------------------------------
\* Adding or removing one thread changes the size of a set of threads by one.
LEMMA Counting ==
    ASSUME NEW X \in SUBSET Thread
    PROVE  /\ IsFiniteSet(X) /\ Cardinality(X) \in Nat
           /\ \A x : x \notin X => Cardinality(X \cup {x}) = Cardinality(X) + 1
           /\ \A x : x \in X => Cardinality(X \ {x}) = Cardinality(X) - 1
  <1>1. IsFiniteSet(X)
    BY SemaphoreAssumption, FS_Subset
  <1> QED BY <1>1, FS_CardinalityType, FS_AddElement, FS_RemoveElement

\* Two sets of threads by the place of the thread.
LEMMA Places ==
    /\ Registered \subseteq Thread /\ Busy \subseteq Thread
    /\ Registered' \subseteq Thread /\ Busy' \subseteq Thread
    /\ \A u \in Thread : /\ u \in Registered <=> pc[u] \in RegPc
                         /\ u \in Registered' <=> pc'[u] \in RegPc
                         /\ u \in Busy <=> pc[u] \in BusyPc
                         /\ u \in Busy' <=> pc'[u] \in BusyPc
  BY Zenon DEF Registered, RegPc, Busy

\* The counts after one thread has moved.
LEMMA Move ==
    ASSUME TypeOK, NEW t \in Thread, NEW l, pc' = [pc EXCEPT ![t] = l]
    PROVE  /\ (l \in RegPc <=> pc[t] \in RegPc) => Registered' = Registered
           /\ (l \in RegPc /\ pc[t] \notin RegPc) =>
                  Cardinality(Registered') = Cardinality(Registered) + 1
           /\ (l \notin RegPc /\ pc[t] \in RegPc) =>
                  Cardinality(Registered') = Cardinality(Registered) - 1
           /\ (l \in BusyPc <=> pc[t] \in BusyPc) => Busy' = Busy
           /\ (l \in BusyPc /\ pc[t] \notin BusyPc) => Cardinality(Busy') = Cardinality(Busy) + 1
           /\ (l \notin BusyPc /\ pc[t] \in BusyPc) => Cardinality(Busy') = Cardinality(Busy) - 1
  <1>1. Registered \in SUBSET Thread /\ Busy \in SUBSET Thread
    BY Places, Zenon
  <1>2. \A u \in Thread : pc'[u] = IF u = t THEN l ELSE pc[u]
    BY Zenon DEF TypeOK
  <1>5. /\ (l \in RegPc <=> pc[t] \in RegPc) => Registered' = Registered
        /\ (l \in RegPc /\ pc[t] \notin RegPc) => t \notin Registered /\ Registered' = Registered \cup {t}
        /\ (l \notin RegPc /\ pc[t] \in RegPc) => t \in Registered /\ Registered' = Registered \ {t}
    BY <1>2, Places, ZenonT(60)
  <1>6. /\ (l \in BusyPc <=> pc[t] \in BusyPc) => Busy' = Busy
        /\ (l \in BusyPc /\ pc[t] \notin BusyPc) => t \notin Busy /\ Busy' = Busy \cup {t}
        /\ (l \notin BusyPc /\ pc[t] \in BusyPc) => t \in Busy /\ Busy' = Busy \ {t}
    BY <1>2, Places, Zenon
  <1> QED BY <1>1, <1>5, <1>6, Counting, Zenon

\* The tokens and the threads that deal with them change together.
LEMMA AnnounceStep ==
    ASSUME TypeOK, Announced, NEW t \in Thread, NEW l, pc' = [pc EXCEPT ![t] = l],
           value' \in Int, l = "asleep" => value' <= 0,
           \/ value' <= 0
           \/ value' <= value /\ (pc[t] \in BusyPc => l \in BusyPc)
           \/ value' = value - 1
           \/ value' = value + 1 /\ pc[t] \notin BusyPc /\ l \in BusyPc
    PROVE  Announced'
  <1>1. SUFFICES ASSUME Asleep' # {}, ~(value' <= 0) PROVE value' <= Cardinality(Busy')
    <2>1. Busy' \in SUBSET Thread
      BY Zenon DEF Busy
    <2>2. Cardinality(Busy') \in Nat
      BY <2>1, Counting, Zenon
    <2>3. value' <= 0 => value' <= Cardinality(Busy')
      BY <2>2
    <2> QED BY <2>3, Zenon DEF Announced
  <1>2. value \in Int
    BY SemaphoreAssumption DEF TypeOK, IntMin
  <1>3. Cardinality(Busy) \in Nat
    <2>1. Busy \in SUBSET Thread
      BY Zenon DEF Busy
    <2> QED BY <2>1, Counting, Zenon
  <1>4. l # "asleep"
    BY <1>1
  <1>5. Asleep # {}
    BY <1>1, <1>4, Zenon DEF Asleep, TypeOK
  <1>6. value <= Cardinality(Busy)
    BY <1>5, Zenon DEF Announced
  <1>7. /\ (pc[t] \in BusyPc => l \in BusyPc) =>
               Cardinality(Busy') = Cardinality(Busy) \/ Cardinality(Busy') = Cardinality(Busy) + 1
        /\ \/ Cardinality(Busy') = Cardinality(Busy) \/ Cardinality(Busy') = Cardinality(Busy) + 1
           \/ Cardinality(Busy') = Cardinality(Busy) - 1
        /\ (pc[t] \notin BusyPc /\ l \in BusyPc) => Cardinality(Busy') = Cardinality(Busy) + 1
    BY Move, Zenon
  <1> QED BY <1>1, <1>2, <1>3, <1>6, <1>7

\* What a new call and an assertion do to the types.
LEMMA BeginType ==
    ASSUME TypeOK, NEW t \in Thread
    PROVE  /\ Begin(t) => /\ late' \in [Thread -> BOOLEAN] /\ calls' \in Nat
                          /\ pc[t] = "idle" /\ crashed = {}
           /\ \A x : unassert(t, x) => crashed' \in SUBSET Thread
  <1>1. Begin(t) => late' \in [Thread -> BOOLEAN]
    <2>1. Doomed \in BOOLEAN
      BY Zenon DEF Doomed
    <2> QED BY <2>1, Zenon DEF Begin, TypeOK
  <1>2. Begin(t) => calls' \in Nat /\ pc[t] = "idle" /\ crashed = {}
    BY DEF Begin, Call, At, TypeOK
  <1>3. \A x : unassert(t, x) => crashed' \in SUBSET Thread
    BY Zenon DEF unassert, TypeOK
  <1> QED BY <1>1, <1>2, <1>3

\* A step that leaves the counters alone.
LEMMA QuietStep ==
    ASSUME IInv, NEW t \in Thread, NEW l, pc' = [pc EXCEPT ![t] = l], TypeOK', Local',
           value' = value, waiters' = waiters, live' = live,
           start' = start, posted' = posted, taken' = taken,
           crashed # {} => crashed' # {}, l \in RegPc <=> pc[t] \in RegPc,
           pc[t] \in BusyPc => l \in BusyPc \/ value <= 0,
           l = "asleep" => value <= 0
    PROVE  IInv'
  <1> USE DEF IInv
  <1>1. WaitersExact'
    BY Move, Zenon DEF WaitersExact
  <1>2. Tokens'
    BY Zenon DEF Tokens, Net
  <1>3. value \in Int
    BY SemaphoreAssumption DEF TypeOK, IntMin
  <1>4. value' \in Int /\ (l = "asleep" => value' <= 0)
        /\ (value' <= 0 \/ (value' <= value /\ (pc[t] \in BusyPc => l \in BusyPc)))
    BY <1>3
  <1>5. Announced'
    BY <1>4, AnnounceStep, Zenon
  <1> QED BY <1>1, <1>2, <1>5, Zenon

\* A step that changes neither the counters nor where threads are.
LEMMA IdleStep ==
    ASSUME IInv, TypeOK', pc' = pc, v' = v, waiting' = waiting, tries' = tries,
           value' = value, waiters' = waiters, live' = live,
           start' = start, posted' = posted, taken' = taken, crashed' = crashed
    PROVE  IInv'
  BY Zenon DEF IInv, WaitersExact, Registered, Local, Tokens, Net, Announced, Asleep, Busy

----------------------------------------------------------------------------
\* sem_trywait, up to a successful exchange.
LEMMA TrySteps ==
    ASSUME IInv, NEW t \in Thread,
           \/ TryCall(t) \/ TryLoad(t) \/ TryEagain(t)
           \/ \E abstime \in BOOLEAN : WaitCall(t, abstime)
    PROVE  IInv'
  <1> USE DEF IInv, RegPc, BusyPc, shared, locals, ghosts, settings, unassert
  <1>1. CASE TryCall(t)
    <2> USE <1>1 DEF TryCall, Goto
    <2>0. /\ late' \in [Thread -> BOOLEAN] /\ calls' \in Nat
          /\ pc[t] = "idle" /\ crashed = {}
      BY BeginType, Zenon
    <2>1. TypeOK'
      BY <2>0, ZenonT(60) DEF TypeOK, PC
    <2>2. Local'
      BY DEF Local, TypeOK
    <2> QED BY <2>0, <2>1, <2>2, QuietStep, ZenonT(60)
  <1>2. ASSUME NEW abstime \in BOOLEAN, WaitCall(t, abstime) PROVE IInv'
    <2> USE <1>2 DEF WaitCall, Goto
    <2>0. /\ late' \in [Thread -> BOOLEAN] /\ calls' \in Nat
          /\ pc[t] = "idle" /\ crashed = {}
      BY BeginType, Zenon
    <2>z. 0 \in 0..Spins
      BY SemaphoreAssumption
    <2>1. TypeOK'
      BY <2>0, <2>z, ZenonT(60) DEF TypeOK, PC
    <2>2. Local'
      BY SemaphoreAssumption DEF Local, TypeOK
    <2> QED BY <2>0, <2>1, <2>2, QuietStep, ZenonT(60)
  <1>3. CASE TryLoad(t)
    <2> USE <1>3 DEF TryLoad, At, Goto
    <2>1. TypeOK'
      BY DEF TypeOK, PC
    <2>2. Local'
      BY DEF Local, TypeOK
    <2> QED BY <2>1, <2>2, QuietStep, ZenonT(60)
  <1>4. CASE TryEagain(t)
    <2> USE <1>4 DEF TryEagain, At, Goto, Return
    <2>1. TypeOK'
      BY SemaphoreAssumption DEF TypeOK, PC, Result, Local
    <2>2. Local'
      BY SemaphoreAssumption DEF Local, TypeOK
    <2> QED BY <2>1, <2>2, QuietStep, ZenonT(60)
  <1> QED BY <1>1, <1>2, <1>3, <1>4, ZenonT(60)

\* The sleeping part of sem_timedwait.
LEMMA SleepSteps ==
    ASSUME IInv, NEW t \in Thread,
           WaitLoad(t) \/ CasSpurious(t) \/ FutexWait(t) \/ FutexSpurious(t) \/ FutexInterrupted(t)
    PROVE  IInv'
  <1> USE DEF IInv, RegPc, BusyPc, shared, locals, ghosts, settings, At, Goto, Leave, unassert
  <1>1. CASE WaitLoad(t)
    <2> USE <1>1 DEF WaitLoad
    <2>0. crashed' \in SUBSET Thread
      BY BeginType, Zenon DEF TypeOK
    <2>1. TypeOK'
      BY <2>0, ZenonT(60) DEF TypeOK, PC, Result
    <2>2. Local'
      BY DEF Local, TypeOK
    <2>3. PICK l \in {"futex", "cas", "cleanup"} : /\ pc' = [pc EXCEPT ![t] = l]
                                                   /\ l # "cas" => value <= 0
      BY SemaphoreAssumption DEF TypeOK, IntMin
    <2> QED BY <2>1, <2>2, <2>3, QuietStep, ZenonT(60)
  <1>2. CASE CasSpurious(t)
    <2> USE <1>2 DEF CasSpurious, Forget
    <2>1. TypeOK'
      BY SemaphoreAssumption DEF TypeOK, PC, IntMin
    <2>2. Local'
      BY DEF Local, TypeOK
    <2> QED BY <2>1, <2>2, QuietStep, Zenon
  <1>3. CASE FutexWait(t)
    <2> USE <1>3 DEF FutexWait
    <2>1. TypeOK'
      BY DEF TypeOK, PC
    <2>2. Local'
      BY DEF Local, TypeOK
    <2>3. PICK l \in {"load", "asleep"} : /\ pc' = [pc EXCEPT ![t] = l]
                                          /\ l = "asleep" => value = 0
      BY Zenon
    <2>4. l = "asleep" => value <= 0
      BY <2>3
    <2> QED BY <2>1, <2>2, <2>3, <2>4, QuietStep, Zenon
  <1>4. CASE FutexSpurious(t) \/ FutexInterrupted(t)
    <2> USE <1>4 DEF FutexSpurious, FutexInterrupted
    <2>1. TypeOK'
      BY DEF TypeOK, PC, Result
    <2>2. Local'
      BY DEF Local, TypeOK
    <2>3. PICK l \in {"load", "cleanup"} : pc' = [pc EXCEPT ![t] = l]
      BY Zenon
    <2> QED BY <2>1, <2>2, <2>3, QuietStep, ZenonT(60)
  <1> QED BY <1>1, <1>2, <1>3, <1>4, ZenonT(60)

\* The ways out of the futex that are told apart by a deadline or a cancelation.
LEMMA TimeoutSteps ==
    ASSUME IInv, NEW t \in Thread, FutexTimeout(t) \/ FutexCanceled(t) \/ Cancel(t)
    PROVE  IInv'
  <1> USE DEF IInv, RegPc, BusyPc, shared, locals, ghosts, settings, unassert
  <1>1. CASE FutexTimeout(t) \/ FutexCanceled(t)
    <2> USE <1>1 DEF FutexTimeout, FutexCanceled, TimedOut, Goto, Leave
    <2>1. TypeOK'
      BY DEF TypeOK, PC, Result
    <2>2. Local'
      BY DEF Local, TypeOK
    <2>3. PICK l \in {"load", "cleanup"} : pc' = [pc EXCEPT ![t] = l]
      BY Zenon
    <2>4. pc[t] \in {"futex", "asleep"}
      BY Zenon
    <2> QED BY <2>1, <2>2, <2>3, <2>4, QuietStep, ZenonT(60)
  <1>2. CASE Cancel(t)
    <2> USE <1>2 DEF Cancel
    <2>1. TypeOK'
      BY DEF TypeOK
    <2> QED BY <2>1, IdleStep, ZenonT(60)
  <1> QED BY <1>1, <1>2, ZenonT(60)

----------------------------------------------------------------------------
\* A token is taken by an exchange, by a thread that saw it.
LEMMA TakeStep ==
    ASSUME IInv, NEW t \in Thread, NEW l \in {"idle", "cleanup"}, pc' = [pc EXCEPT ![t] = l], Take,
           v[t] > 0, value = v[t], TypeOK', Local', l \in RegPc <=> pc[t] \in RegPc,
           waiters' = waiters, live' = live, start' = start, posted' = posted,
           crashed = {}
    PROVE  IInv'
  <1> USE DEF IInv
  <1>1. value' = value - 1 /\ value \in Int /\ value > 0 /\ taken' = taken + 1
    BY SemaphoreAssumption DEF Take, TypeOK, IntMin
  <1>2. WaitersExact'
    BY Move, Zenon DEF WaitersExact
  <1>3. Tokens'
    BY <1>1, SemaphoreAssumption DEF Tokens, Net, TypeOK
  <1>4. Announced'
    <2>1. value' \in Int /\ l # "asleep"
      BY <1>1
    <2> QED BY <1>1, <2>1, AnnounceStep, Zenon
  <1> QED BY <1>2, <1>3, <1>4

LEMMA CasSteps ==
    ASSUME IInv, NEW t \in Thread, TryCas(t) \/ WaitCas(t)
    PROVE  IInv'
  <1> USE DEF IInv, RegPc, BusyPc, Goto, At, Return, Leave, Forget, settings, unassert
  <1>1. CASE TryCas(t) /\ v[t] > 0 /\ value = v[t]
    <2> USE <1>1 DEF TryCas
    <2>1. Take /\ pc[t] = "trycas" /\ pc' = [pc EXCEPT ![t] = "idle"]
      BY SemaphoreAssumption DEF TypeOK, IntMin
    <2>2. TypeOK'
      BY SemaphoreAssumption, <2>1 DEF TypeOK, PC, Result, IntMin, Take
    <2>3. Local'
      BY <2>1 DEF Local, TypeOK
    <2> QED BY <2>1, <2>2, <2>3, TakeStep, ZenonT(60)
  <1>2. CASE TryCas(t) /\ v[t] < 0
    <2> USE <1>2 DEF TryCas
    <2>1. TypeOK'
      BY SemaphoreAssumption DEF TypeOK, PC, Result, IntMin
    <2>2. Local'
      BY DEF Local, TypeOK
    <2> QED BY <2>1, <2>2, QuietStep, ZenonT(60)
  <1>c. CASE TryCas(t) /\ ~(v[t] < 0) /\ value # v[t]
    <2> USE <1>c DEF TryCas
    <2>1. TypeOK'
      BY SemaphoreAssumption DEF TypeOK, PC, IntMin
    <2>2. Local'
      BY DEF Local, TypeOK
    <2>3. pc[t] = "trycas" /\ pc' = [pc EXCEPT ![t] = "trycas"]
      BY ZenonT(60) DEF TypeOK
    <2> QED BY <2>1, <2>2, <2>3, QuietStep, ZenonT(60)
  <1>3. CASE WaitCas(t) /\ value = v[t]
    <2> USE <1>3 DEF WaitCas
    <2>1. Take /\ pc[t] = "cas" /\ pc' = [pc EXCEPT ![t] = "cleanup"] /\ v[t] > 0
      BY DEF Local
    <2>2. TypeOK'
      BY SemaphoreAssumption, <2>1 DEF TypeOK, PC, Result, IntMin, Take
    <2>3. Local'
      BY <2>1 DEF Local, TypeOK
    <2> QED BY <2>1, <2>2, <2>3, TakeStep, Zenon
  <1>4. CASE WaitCas(t) /\ value # v[t]
    <2> USE <1>4 DEF WaitCas
    <2>1. TypeOK'
      BY SemaphoreAssumption DEF TypeOK, PC, IntMin
    <2>2. Local'
      BY DEF Local, TypeOK
    <2> QED BY <2>1, <2>2, QuietStep, ZenonT(60)
  <1>6. (TryCas(t) /\ ~(v[t] < 0)) => v[t] > 0
    BY SemaphoreAssumption DEF TryCas, TypeOK, IntMin
  <1> QED BY <1>1, <1>2, <1>3, <1>4, <1>c, <1>6, Zenon

\* Entering and leaving the part of sem_timedwait that sem_waiters counts.
LEMMA RegisterSteps ==
    ASSUME IInv, NEW t \in Thread, Register(t) \/ Cleanup(t)
    PROVE  IInv'
  <1> USE DEF IInv, RegPc, BusyPc, Goto, At, locals, settings, ghosts, unassert
  <1>1. value \in Int /\ value <= value
    BY SemaphoreAssumption DEF TypeOK, IntMin
  <1>2. CASE Register(t)
    <2> USE <1>2 DEF Register
    <2>1. TypeOK'
      BY SemaphoreAssumption DEF TypeOK, PC
    <2>2. Local'
      BY DEF Local, TypeOK
    <2>3. Cardinality(Registered') = Cardinality(Registered) + 1
      BY Move, Zenon
    <2>4. WaitersExact'
      BY <2>3 DEF WaitersExact
    <2>5. Announced'
      BY <1>1, AnnounceStep, Zenon
    <2>6. Tokens'
      BY Zenon DEF Tokens, Net
    <2> QED BY <2>1, <2>2, <2>4, <2>5, <2>6, ZenonT(60)
  <1>3. CASE Cleanup(t)
    <2> USE <1>3 DEF Cleanup
    <2>1. TypeOK'
      BY DEF TypeOK, PC
    <2>2. Local'
      BY DEF Local, TypeOK
    <2>3. PICK l \in {"idle", "dead"} : pc' = [pc EXCEPT ![t] = l]
      BY Zenon
    <2>4. Cardinality(Registered') = Cardinality(Registered) - 1
      BY <2>3, Move, ZenonT(60)
    <2>5. WaitersExact'
      BY <2>4 DEF WaitersExact
    <2>6. Announced'
      BY <1>1, <2>3, AnnounceStep, Zenon
    <2>7. Tokens'
      BY Zenon DEF Tokens, Net
    <2> QED BY <2>1, <2>2, <2>5, <2>6, <2>7, ZenonT(60)
  <1> QED BY <1>2, <1>3

----------------------------------------------------------------------------
\* A post adds a token and is about to wake somebody.
LEMMA PostAddStep ==
    ASSUME IInv, NEW t \in Thread, PostAdd(t)
    PROVE  IInv'
  <1> USE DEF IInv, RegPc, BusyPc, Begin, Call, Goto, At, Return, settings
  <1>0. crashed' \in SUBSET Thread /\ late' \in [Thread -> BOOLEAN] /\ calls' \in Nat
    BY BeginType, Zenon DEF PostAdd
  <1>1. TypeOK'
    BY <1>0, SemaphoreAssumption DEF PostAdd, TypeOK, PC, Result, IntMin, Increment
  <1>2. /\ pc[t] = "idle" /\ value' = Increment(value)
        /\ waiters' = waiters /\ live' = live /\ start' = start /\ taken' = taken
        /\ v' = v /\ tries' = tries /\ waiting' = waiting
        /\ value >= 0 => pc' = [pc EXCEPT ![t] = "wake"] /\ posted' = posted + 1
        /\ ~(value >= 0) => pc' = [pc EXCEPT ![t] = "idle"] /\ posted' = posted
        /\ crashed = {} /\ (~(value > IntMin) => crashed' # {})
    BY Zenon DEF PostAdd, unassert
  <1>3. PICK l \in {"wake", "idle"} : /\ pc' = [pc EXCEPT ![t] = l]
                                      /\ value >= 0 => l = "wake"
    BY <1>2, ZenonT(60)
  <1>4. Local'
    BY <1>2, <1>3 DEF Local, TypeOK
  <1>5. WaitersExact'
    BY <1>2, <1>3, Move, Zenon DEF WaitersExact
  <1>6. Tokens'
    <2>0. /\ IntMax \in Nat /\ IntMin = -IntMax - 1 /\ value \in IntMin..IntMax /\ start \in Nat
          /\ posted \in Nat /\ taken \in Nat
      BY SemaphoreAssumption DEF TypeOK, IntMin
    <2> SUFFICES ASSUME live PROVE Tokens'
      BY <1>2, Zenon DEF Tokens
    <2> HIDE DEF IInv
    <2>1. CASE value < 0
      <3>1. Net' = Net /\ ~(Net <= IntMax)
        BY <1>2, <2>0, <2>1 DEF Tokens, Net, IInv
      <3>2. value = IntMin
        BY <1>2, <3>1, Zenon DEF Tokens, IInv
      <3>3. crashed' # {}
        BY <1>2, <2>0, <3>2
      <3> QED BY <3>1, <3>3, Zenon DEF Tokens, IntMin
    <2>2. CASE value >= 0
      <3>0. value # IntMin
        BY <2>0, <2>2
      <3>1. value = Net /\ Net <= IntMax
        BY <1>2, <3>0, Zenon DEF Tokens, IInv
      <3> QED BY <1>2, <2>0, <2>2, <3>1 DEF Tokens, Net, Increment
    <2> QED BY <2>0, <2>1, <2>2
  <1>7. Announced'
    <2>1. value' \in Int /\ (value' <= 0 \/ (value' = value + 1 /\ value >= 0))
      BY <1>2, SemaphoreAssumption DEF TypeOK, Increment, IntMin
    <2>2. l # "asleep"
      BY <1>3
    <2> QED BY <1>2, <1>3, <2>1, <2>2, AnnounceStep, ZenonT(60)
  <1> QED BY <1>1, <1>4, <1>5, <1>6, <1>7, ZenonT(60)

\* A wake with a sleeper leaves the sleeper to deal with the token.
LEMMA PostWakeStep ==
    ASSUME IInv, NEW t \in Thread, PostWake(t)
    PROVE  IInv'
  <1> USE DEF IInv, RegPc, BusyPc, Goto, At, shared, locals, settings, ghosts
  <1>1. /\ pc[t] = "wake" /\ UNCHANGED <<shared, locals, ghosts>>
        /\ UNCHANGED <<cancel, settings, crashed, calls>> /\ res' = [res EXCEPT ![t] = "OK"]
    BY Zenon DEF PostWake
  <1>2. Tokens'
    BY <1>1, Zenon DEF Tokens, Net
  <1>3. CASE \E s \in Thread : pc[s] = "asleep" /\ pc' = [pc EXCEPT ![t] = "idle", ![s] = "load"]
    <2>1. PICK s \in Thread : pc[s] = "asleep" /\ pc' = [pc EXCEPT ![t] = "idle", ![s] = "load"]
      BY <1>3, ZenonT(60)
    <2>2. TypeOK'
      BY <1>1, <2>1 DEF TypeOK, PC, Result
    <2>3. Local'
      BY <1>1, <2>1 DEF Local, TypeOK
    <2>4. s # t /\ \A u \in Thread : pc'[u] = IF u = s THEN "load" ELSE IF u = t THEN "idle" ELSE pc[u]
      BY <1>1, <2>1, Zenon DEF TypeOK
    <2>p. /\ pc[t] \notin RegPc /\ pc'[t] \notin RegPc /\ pc[s] \in RegPc /\ pc'[s] \in RegPc
          /\ pc[t] \in BusyPc /\ pc'[t] \notin BusyPc /\ pc[s] \notin BusyPc /\ pc'[s] \in BusyPc
      <3>1. pc[t] = "wake" /\ pc'[t] = "idle" /\ pc[s] = "asleep" /\ pc'[s] = "load"
        BY <1>1, <2>1, <2>4, Zenon
      <3> QED BY <3>1, Zenon
    <2> HIDE DEF RegPc, BusyPc
    <2>5. Registered' = Registered
      BY <2>p, <2>4, Places, Zenon
    <2>6. WaitersExact'
      BY <1>1, <2>5, Zenon DEF WaitersExact
    <2>7. Cardinality(Busy') = Cardinality(Busy)
      <3>1. t \in Busy /\ s \notin Busy \ {t} /\ Busy \in SUBSET Thread /\ Busy \ {t} \in SUBSET Thread
        BY <2>p, Places, Zenon
      <3>2. Busy' = (Busy \ {t}) \cup {s}
        BY <2>p, <2>4, Places, Zenon
      <3>3. Cardinality(Busy \ {t}) = Cardinality(Busy) - 1
        BY <3>1, Counting, Zenon
      <3>4. Cardinality(Busy') = Cardinality(Busy \ {t}) + 1
        BY <3>1, <3>2, Counting, Zenon
      <3>5. Cardinality(Busy) \in Nat
        BY <3>1, Counting, Zenon
      <3> QED BY <3>3, <3>4, <3>5
    <2>8. Asleep # {}
      BY <2>1, Zenon DEF Asleep
    <2>9. Announced'
      BY <1>1, <2>7, <2>8, Zenon DEF Announced
    <2> QED BY <1>2, <2>2, <2>3, <2>6, <2>9
  <1>4. CASE (\A s \in Thread : pc[s] # "asleep") /\ pc' = [pc EXCEPT ![t] = "idle"]
    <2>1. TypeOK'
      BY <1>1, <1>4 DEF TypeOK, PC, Result
    <2>2. Local'
      BY <1>1, <1>4 DEF Local, TypeOK
    <2>3. WaitersExact'
      <3>1. "idle" \notin RegPc /\ pc[t] \notin RegPc
        BY <1>1
      <3> QED BY <1>1, <1>4, <3>1, Move, Zenon DEF WaitersExact
    <2>4. Asleep' = {}
      BY <1>1, <1>4, ZenonT(60) DEF Asleep, TypeOK
    <2> QED BY <1>2, <2>1, <2>2, <2>3, <2>4, ZenonT(60) DEF Announced
  <1> QED BY <1>3, <1>4, Zenon DEF PostWake

\* sem_destroy, sem_init and sem_getvalue.
LEMMA LifeSteps ==
    ASSUME IInv, NEW t \in Thread,
           DestroyCheck(t) \/ DestroyStore(t) \/ sem_getvalue(t) \/ \E n \in Initial : sem_init(t, n)
    PROVE  IInv'
  <1> USE DEF IInv, RegPc, BusyPc, Begin, Call, Goto, At, Return, unassert, shared, locals, settings, ghosts
  <1>1. CASE DestroyCheck(t)
    <2> USE <1>1 DEF DestroyCheck
    <2>0. crashed' \in SUBSET Thread /\ late' \in [Thread -> BOOLEAN] /\ calls' \in Nat
      <3>1. crashed' \in SUBSET Thread
        BY BeginType, Zenon
      <3>2. late' \in [Thread -> BOOLEAN]
        BY Zenon DEF TypeOK
      <3>3. calls' \in Nat
        BY DEF TypeOK
      <3> QED BY <3>1, <3>2, <3>3
    <2>1. TypeOK'
      BY <2>0, ZenonT(60) DEF TypeOK, PC, Result
    <2>2. Local'
      BY DEF Local, TypeOK
    <2>3. PICK l \in {"idle", "destroy"} : pc' = [pc EXCEPT ![t] = l]
      BY Zenon
    <2> QED BY <2>1, <2>2, <2>3, QuietStep, ZenonT(60)
  <1>2. CASE sem_getvalue(t)
    <2> USE <1>2 DEF sem_getvalue
    <2>0. late' \in [Thread -> BOOLEAN] /\ calls' \in Nat
      BY BeginType, Zenon
    <2>1. TypeOK'
      BY <2>0, ZenonT(60) DEF TypeOK, PC, Result
    <2>2. Local'
      BY DEF Local, TypeOK
    <2> QED BY <2>1, <2>2, QuietStep, ZenonT(60)
  <1>3. CASE DestroyStore(t)
    <2> USE <1>3 DEF DestroyStore
    <2>v. value' \in IntMin..IntMax
      BY SemaphoreAssumption DEF IntMin
    <2>1. TypeOK'
      BY <2>v, ZenonT(60) DEF TypeOK, PC, Result
    <2>2. Local'
      BY DEF Local, TypeOK
    <2>3. WaitersExact'
      <3>1. "idle" \notin RegPc /\ pc[t] \notin RegPc
        BY Zenon
      <3>2. pc' = [pc EXCEPT ![t] = "idle"] /\ waiters' = waiters
        BY Zenon
      <3> HIDE <1>3 DEF RegPc
      <3> QED BY <3>1, <3>2, Move, Zenon DEF WaitersExact
    <2>4. Tokens'
      BY Zenon DEF Tokens, Net
    <2>5. value' <= 0 /\ value' \in Int
      BY SemaphoreAssumption DEF IntMin
    <2>6. Announced'
      BY <2>5, AnnounceStep, Zenon
    <2> QED BY <2>1, <2>2, <2>3, <2>4, <2>6, ZenonT(60)
  <1>4. CASE \E n \in Initial : sem_init(t, n)
    <2>1. PICK n \in Initial : sem_init(t, n)
      BY <1>4, ZenonT(60)
    <2> USE <2>1 DEF sem_init
    <2>2. TypeOK'
      BY SemaphoreAssumption DEF TypeOK, PC, Result, IntMin
    <2>3. Local'
      BY DEF Local, TypeOK
    <2>4. Registered' = {} /\ Asleep' = {}
      BY Zenon DEF Registered, Asleep, Outside
    <2>5. WaitersExact'
      BY <2>4, FS_EmptySet, ZenonT(60) DEF WaitersExact
    <2>6. Tokens'
      BY SemaphoreAssumption DEF Tokens, Net
    <2>7. Announced'
      BY <2>4, Zenon DEF Announced
    <2> QED BY <2>2, <2>3, <2>5, <2>6, <2>7
  <1> QED BY <1>1, <1>2, <1>3, <1>4, ZenonT(60)

----------------------------------------------------------------------------
LEMMA InitLemma == Init => IInv
  <1> SUFFICES ASSUME Init PROVE IInv
    OBVIOUS
  <1> USE DEF Init
  <1>1. TypeOK
    <2>1. start \in 0..IntMax /\ polling \in BOOLEAN
      BY SemaphoreAssumption, Zenon
    <2>2. /\ value \in IntMin..IntMax /\ 0 \in IntMin..IntMax /\ 0 \in 0..Spins
          /\ 0 \in Int /\ 0 \in Nat
      BY <2>1, SemaphoreAssumption DEF IntMin
    <2> QED BY <2>1, <2>2, Zenon DEF TypeOK, PC, Result
  <1>2. Registered = {} /\ Asleep = {}
    BY Zenon DEF Registered, Asleep
  <1>3. WaitersExact
    BY <1>2, FS_EmptySet, ZenonT(60) DEF WaitersExact
  <1>4. Local
    BY DEF Local
  <1>5. Tokens
    BY SemaphoreAssumption DEF Tokens, Net
  <1> QED BY <1>1, <1>2, <1>3, <1>4, <1>5, Zenon DEF IInv, Announced

LEMMA NextLemma == IInv /\ [Next]_vars => IInv'
  <1> SUFFICES ASSUME IInv, [Next]_vars PROVE IInv'
    OBVIOUS
  <1>1. ASSUME NEW t \in Thread, Step(t) PROVE IInv'
    BY <1>1, TrySteps, CasSteps, RegisterSteps, SleepSteps, PostWakeStep, LifeSteps, ZenonT(60) DEF Step
  <1>2. ASSUME NEW t \in Thread, Environment(t) PROVE IInv'
    BY <1>2, TimeoutSteps, SleepSteps, Zenon DEF Environment
  <1>3. ASSUME NEW t \in Thread, Program(t) PROVE IInv'
    BY <1>3, TrySteps, PostAddStep, LifeSteps, Zenon DEF Program
  <1>4. CASE UNCHANGED vars
    <2>1. TypeOK'
      BY <1>4, Zenon DEF IInv, TypeOK, vars, shared, locals, settings, ghosts
    <2> QED BY <1>4, <2>1, IdleStep, Zenon DEF vars, shared, locals, ghosts
  <1> QED BY <1>1, <1>2, <1>3, <1>4, Zenon DEF Next, Rest

\* For any number of threads, calls and tokens: the value is what was posted
\* less what was taken, until the posts overflow it.
THEOREM TokensConserved == Spec => []TokenConservation
  <1>1. IInv => TokenConservation
    BY DEF IInv, Tokens, Net, TokenConservation
  <1> QED BY <1>1, InitLemma, NextLemma, PTL DEF Spec

\* For any number of threads: sem_waiters counts the threads in the sleeping
\* part of sem_timedwait, whether they leave with a token, an error or through
\* pthread_exit.
THEOREM WaitersCounted == Spec => []WaitersExact
  <1>1. IInv => WaitersExact
    BY DEF IInv
  <1> QED BY <1>1, InitLemma, NextLemma, PTL DEF Spec

\* For any number of threads: no token is there while all the threads that
\* could take it sleep and nobody is about to wake one of them.
THEOREM WakeupsKept == Spec => []NoLostWakeup
  <1>1. IInv => NoLostWakeup
    <2> SUFFICES ASSUME IInv, value > 0, Asleep # {} PROVE Busy # {}
      BY Zenon DEF NoLostWakeup, Asleep, Busy, BusyPc
    <2>1. value <= Cardinality(Busy) /\ value \in Int
      BY SemaphoreAssumption DEF IInv, Announced, TypeOK, IntMin
    <2>2. Cardinality({}) = 0
      BY FS_EmptySet
    <2> QED BY <2>1, <2>2
  <1> QED BY <1>1, InitLemma, NextLemma, PTL DEF Spec

----------------------------------------------------------------------------
(***************************************************************************)
(* What is refused, as long as the program does not post past IntMax.      *)
(***************************************************************************)
LEMMA Alive ==
    ASSUME RInv, NoOverflow
    PROVE  /\ live => value >= 0
           /\ \A t \in Thread : (InCall(t) /\ value < 0) => late[t]
           /\ value \in Int /\ IntMin < 0 /\ IntMin \in Int
  <1>1. value \in Int /\ IntMin < 0 /\ IntMin \in Int
    BY SemaphoreAssumption DEF RInv, IInv, TypeOK, IntMin
  <1>2. live => value >= 0
    BY Zenon DEF RInv, IInv, Tokens, Net, NoOverflow
  <1>3. value < 0 => ~live
    BY <1>1, <1>2
  <1> QED BY <1>1, <1>2, <1>3, ZenonT(60) DEF RInv, Dead, Doomed

\* A thread in a call moves on.
LEMMA InCallStep ==
    ASSUME RInv, NoOverflow, NEW t \in Thread, NEW l, pc' = [pc EXCEPT ![t] = l],
           crashed = {}, InCall(t), l # "destroy", live' = live, late' = late,
           value' = value \/ value >= 0,
           \A s \in Thread \ {t} : v'[s] = v[s] /\ res'[s] = res[s],
           (l = "trycas" /\ v'[t] < 0) => late[t],
           (l \in {"idle", "cleanup", "dead"} /\ res'[t] = "EINVAL") => late[t],
           \A s \in crashed' : s = t /\ (late[t] \/ MaskedPoll(t)')
    PROVE  Dead' /\ Refused'
  <1>1. \A s \in Thread : pc'[s] = IF s = t THEN l ELSE pc[s]
    BY ZenonT(60) DEF RInv, IInv, TypeOK
  <1>2. (~live' /\ crashed' = {}) => value' = IntMin
    BY Alive DEF RInv, Dead
  <1>3. Doomed' => Doomed
    BY <1>1, Zenon DEF Doomed
  <1>4. \A s \in Thread : (Doomed' /\ InCall(s)') => late'[s]
    BY <1>1, <1>3, Zenon DEF RInv, Dead, InCall
  <1>5. \A s \in Thread : (pc'[s] = "trycas" /\ v'[s] < 0) => late'[s]
    BY <1>1, Zenon DEF RInv, Refused
  <1>6. \A s \in Thread : (pc'[s] \in {"idle", "cleanup", "dead"} /\ res'[s] = "EINVAL") => late'[s]
    BY <1>1, ZenonT(60) DEF RInv, Refused
  <1>7. \A s \in crashed' : late'[s] \/ MaskedPoll(s)'
    BY Zenon
  <1> QED BY <1>2, <1>4, <1>5, <1>6, <1>7, ZenonT(60) DEF Dead, Refused

LEMMA TryRefused ==
    ASSUME RInv, NoOverflow, NEW t \in Thread, TryLoad(t) \/ TryEagain(t) \/ TryCas(t)
    PROVE  Dead' /\ Refused'
  <1> USE DEF settings, shared, ghosts, At, Goto, Return
  <1>0. /\ pc \in [Thread -> PC] /\ v \in [Thread -> IntMin..IntMax] /\ res \in [Thread -> Result]
        /\ value \in Int /\ v[t] \in Int
    BY SemaphoreAssumption DEF RInv, IInv, TypeOK, IntMin
  <1>1. InCall(t)
    BY Zenon DEF TryLoad, TryEagain, TryCas, InCall
  <1>2. value < 0 => late[t]
    BY <1>1, Alive, Zenon
  <1>3. ~(value > IntMin) => value < 0
    BY Alive
  <1>4. CASE TryLoad(t)
    <2> USE <1>4 DEF TryLoad
    <2>1. crashed = {} /\ \A s \in crashed' : s = t /\ late[t]
      BY <1>2, <1>3, Zenon DEF unassert
    <2>2. v'[t] = value /\ \A s \in Thread \ {t} : v'[s] = v[s]
      BY <1>0, Zenon
    <2> QED BY <1>1, <1>2, <2>1, <2>2, InCallStep, ZenonT(60)
  <1>5. CASE TryEagain(t)
    <2> USE <1>5 DEF TryEagain
    <2>1. PICK l \in {"try", "register", "idle"} : pc' = [pc EXCEPT ![t] = l]
      BY ZenonT(60)
    <2>2. /\ \A s \in Thread \ {t} : res'[s] = res[s]
          /\ l = "idle" => res'[t] # "EINVAL"
      BY <1>0, <2>1
    <2>3. /\ crashed = {} /\ UNCHANGED <<value, live, late, masked, polling, cancel, deadline, v, crashed>>
          /\ l # "destroy" /\ l # "trycas" /\ l \notin {"cleanup", "dead"}
      BY <2>1, Zenon DEF locals
    <2>4. l \in {"idle", "cleanup", "dead"} => res'[t] # "EINVAL"
      BY <2>2, <2>3, Zenon
    <2> HIDE <1>5 DEF TryEagain
    <2> QED BY <1>1, <2>1, <2>2, <2>3, <2>4, InCallStep, ZenonT(60)
  <1>6. CASE TryCas(t) /\ v[t] < 0
    <2> USE <1>6 DEF TryCas, Forget
    <2>1. late[t]
      BY Zenon DEF RInv, Refused
    <2>2. \A s \in Thread \ {t} : v'[s] = v[s] /\ res'[s] = res[s]
      BY <1>0, Zenon
    <2> QED BY <1>1, <2>1, <2>2, InCallStep, ZenonT(60)
  <1>7. CASE TryCas(t) /\ ~(v[t] < 0) /\ value = v[t]
    <2> USE <1>7 DEF TryCas, Forget
    <2>1. res'[t] = "OK" /\ \A s \in Thread \ {t} : v'[s] = v[s] /\ res'[s] = res[s]
      BY <1>0, ZenonT(60)
    <2>2. value >= 0
      BY <1>0
    <2>3. /\ crashed = {} /\ UNCHANGED <<live, late, masked, polling, cancel, deadline, crashed>>
          /\ pc' = [pc EXCEPT ![t] = "idle"]
      BY Zenon
    <2> HIDE <1>7 DEF TryCas
    <2> QED BY <1>1, <2>1, <2>2, <2>3, InCallStep, ZenonT(60)
  <1>8. CASE TryCas(t) /\ ~(v[t] < 0) /\ value # v[t]
    <2> USE <1>8 DEF TryCas
    <2>1. crashed = {} /\ \A s \in crashed' : s = t /\ late[t]
      BY <1>2, <1>3, Zenon DEF unassert
    <2>2. v'[t] = value /\ \A s \in Thread \ {t} : v'[s] = v[s]
      BY <1>0, Zenon
    <2>3. pc' = [pc EXCEPT ![t] = "trycas"]
      BY <1>0, Zenon
    <2> QED BY <1>1, <1>2, <2>1, <2>2, <2>3, InCallStep, ZenonT(60)
  <1> QED BY <1>4, <1>5, <1>6, <1>7, <1>8, ZenonT(60)

LEMMA WaitRefused ==
    ASSUME RInv, NoOverflow, NEW t \in Thread,
           \/ Register(t) \/ WaitLoad(t) \/ WaitCas(t) \/ CasSpurious(t) \/ Cleanup(t)
    PROVE  Dead' /\ Refused'
  <1> USE DEF settings, shared, ghosts, locals, At, Goto, Leave
  <1>0. /\ pc \in [Thread -> PC] /\ v \in [Thread -> IntMin..IntMax] /\ res \in [Thread -> Result]
        /\ value \in Int /\ IntMin \in Int
    BY SemaphoreAssumption DEF RInv, IInv, TypeOK, IntMin
  <1>1. InCall(t)
    BY Zenon DEF Register, WaitLoad, WaitCas, CasSpurious, Cleanup, InCall
  <1>2. value < 0 => late[t]
    BY <1>1, Alive, ZenonT(60)
  <1>w. /\ Registered \in SUBSET Thread /\ IsFiniteSet(Registered)
        /\ Cardinality(Registered) \in Nat /\ waiters = Cardinality(Registered)
    <2>1. Registered \in SUBSET Thread
      BY Places, Zenon
    <2> QED BY <2>1, Counting, Zenon DEF RInv, IInv, WaitersExact
  <1>3. CASE Register(t)
    <2> USE <1>3 DEF Register
    <2>1. waiters >= 0
      BY <1>w
    <2>2. crashed = {} /\ crashed' = {}
      BY <2>1, Zenon DEF unassert
    <2> QED BY <1>1, <2>2, InCallStep, ZenonT(60)
  <1>4. CASE WaitLoad(t)
    <2> USE <1>4 DEF WaitLoad
    <2>1. \A s \in Thread \ {t} : v'[s] = v[s] /\ res'[s] = res[s]
      BY <1>0
    <2>2. /\ crashed = {} /\ UNCHANGED <<value, live, late, masked, polling, cancel, deadline>>
          /\ \A s \in crashed' : s = t /\ value < 0
      BY <1>0 DEF unassert
    <2>3. PICK l \in {"futex", "cas", "cleanup"} : pc' = [pc EXCEPT ![t] = l] /\ (l = "cleanup" => value < 0)
      BY <1>0
    <2> HIDE <1>4 DEF WaitLoad
    <2>4. l # "destroy" /\ l # "trycas" /\ l \notin {"idle", "dead"}
      BY <2>3
    <2>5. (l \in {"idle", "cleanup", "dead"} /\ res'[t] = "EINVAL") => late[t]
      BY <1>2, <2>3, <2>4, Zenon
    <2> QED BY <1>1, <1>2, <2>1, <2>2, <2>3, <2>4, <2>5, InCallStep, ZenonT(60)
  <1>5. CASE WaitCas(t) /\ value = v[t]
    <2> USE <1>5 DEF WaitCas, Forget
    <2>1. \A s \in Thread \ {t} : v'[s] = v[s] /\ res'[s] = res[s]
      BY <1>0, ZenonT(60)
    <2>2. value >= 0
      BY <1>0 DEF RInv, IInv, Local
    <2>3. res'[t] = "OK"
      BY <1>0, Zenon
    <2> QED BY <1>1, <2>1, <2>2, <2>3, InCallStep, ZenonT(60)
  <1>6. CASE (WaitCas(t) /\ value # v[t]) \/ CasSpurious(t)
    <2> USE <1>6 DEF WaitCas, CasSpurious, Forget
    <2>1. \A s \in Thread \ {t} : v'[s] = v[s]
      BY <1>0, Zenon
    <2>2. /\ crashed = {} /\ UNCHANGED <<value, live, late, masked, polling, cancel, deadline, crashed, res>>
          /\ pc' = [pc EXCEPT ![t] = "load"]
      BY Zenon
    <2> HIDE <1>6 DEF WaitCas, CasSpurious
    <2> QED BY <1>1, <2>1, <2>2, InCallStep, ZenonT(60)
  <1>7. CASE Cleanup(t)
    <2> USE <1>7 DEF Cleanup
    <2>1. t \in Registered
      BY ZenonT(60) DEF Registered
    <2>2. waiters > 0
      BY <1>w, <2>1, FS_EmptySet
    <2>3. crashed = {} /\ crashed' = {}
      BY <2>2, Zenon DEF unassert
    <2>4. PICK l \in {"idle", "dead"} : pc' = [pc EXCEPT ![t] = l]
      BY Zenon
    <2>5. res[t] = "EINVAL" => late[t]
      BY Zenon DEF RInv, Refused
    <2>6. /\ UNCHANGED <<value, live, late, masked, polling, cancel, deadline, v, res>>
          /\ l # "destroy" /\ l # "trycas"
      BY <2>4, Zenon
    <2> HIDE <1>7 DEF Cleanup
    <2> QED BY <1>1, <2>3, <2>4, <2>5, <2>6, InCallStep, ZenonT(60)
  <1> QED BY <1>3, <1>4, <1>5, <1>6, <1>7, ZenonT(60)

LEMMA FutexRefused ==
    ASSUME RInv, NoOverflow, NEW t \in Thread,
           \/ FutexWait(t) \/ FutexSpurious(t) \/ FutexInterrupted(t)
           \/ FutexTimeout(t) \/ FutexCanceled(t)
    PROVE  Dead' /\ Refused'
  <1> USE DEF settings, shared, ghosts, locals, At, Goto, Leave
  <1>0. pc \in [Thread -> PC] /\ res \in [Thread -> Result]
    BY Zenon DEF RInv, IInv, TypeOK
  <1>1. /\ pc[t] \in {"futex", "asleep"} /\ crashed = {}
        /\ UNCHANGED <<value, live, late, masked, polling, cancel, deadline, v>>
    BY Zenon DEF FutexWait, FutexSpurious, FutexInterrupted, FutexTimeout, FutexCanceled
  <1>2. InCall(t) /\ waiting[t] /\ waiting' = waiting
    BY <1>1, Zenon DEF InCall, RInv, IInv, Local, FutexWait, FutexSpurious, FutexInterrupted,
                       FutexTimeout, FutexCanceled
  <1>3. /\ \E l \in {"load", "asleep", "cleanup"} : pc' = [pc EXCEPT ![t] = l]
        /\ res' = res \/ \E r \in Result \ {"EINVAL"} : res' = [res EXCEPT ![t] = r]
        /\ pc' = [pc EXCEPT ![t] = "cleanup"] => \E r \in Result \ {"EINVAL"} : res' = [res EXCEPT ![t] = r]
        /\ \A s \in crashed' : s = t /\ MaskedPoll(t)'
    <2>1. CASE FutexWait(t) \/ FutexSpurious(t) \/ FutexInterrupted(t)
      BY <1>0, <1>1, <2>1 DEF FutexWait, FutexSpurious, FutexInterrupted, Result
    <2>2. CASE FutexTimeout(t)
      BY <1>0, <1>1, <2>2, Zenon DEF FutexTimeout, TimedOut, unassert, Result
    <2>3. CASE FutexCanceled(t)
      <3>c. /\ cancel[t]
            /\ crashed' = crashed \/ (masked[t] /\ polling /\ (deadline[t] => crashed' = crashed)
                                      /\ crashed' \subseteq crashed \cup {t})
        BY <2>3, Zenon DEF FutexCanceled, TimedOut, unassert
      <3>1. \A s \in crashed' : s = t /\ MaskedPoll(t)'
        BY <1>1, <1>2, <3>c, Zenon DEF MaskedPoll
      <3> QED BY <1>0, <2>3, <3>1, Zenon DEF FutexCanceled, TimedOut, Result
    <2> QED BY <2>1, <2>2, <2>3, ZenonT(60)
  <1>4. PICK l \in {"load", "asleep", "cleanup"} : pc' = [pc EXCEPT ![t] = l]
    BY <1>3, Zenon
  <1>5. \A s \in Thread \ {t} : res'[s] = res[s]
    BY <1>0, <1>3, Zenon
  <1>6. l \in {"idle", "cleanup", "dead"} => res'[t] # "EINVAL"
    BY <1>0, <1>3, <1>4, Zenon
  <1>7. l # "destroy" /\ l # "trycas"
    BY <1>4
  <1> QED BY <1>1, <1>2, <1>3, <1>4, <1>5, <1>6, <1>7, InCallStep, ZenonT(60)

\* A call starts.
LEMMA CallStep ==
    ASSUME RInv, NoOverflow, NEW t \in Thread, Begin(t), NEW l, pc' = [pc EXCEPT ![t] = l],
           l # "destroy", l # "trycas", l # "cleanup", l # "dead", live' = live, v' = v,
           \A s \in Thread \ {t} : res'[s] = res[s],
           (l = "idle" /\ res'[t] = "EINVAL") => ~live,
           (~live' /\ crashed' = {}) => value' = IntMin, \A s \in crashed' : s = t /\ ~live
    PROVE  Dead' /\ Refused'
  <1>0. pc \in [Thread -> PC] /\ late \in [Thread -> BOOLEAN]
    BY Zenon DEF RInv, IInv, TypeOK
  <1>1. /\ pc'[t] = l /\ (late'[t] <=> Doomed)
        /\ \A s \in Thread \ {t} : pc'[s] = pc[s] /\ late'[s] = late[s]
    BY <1>0, Zenon DEF Begin
  <1>2. Doomed' => Doomed
    BY <1>1, Zenon DEF Doomed
  <1>3. \A s \in Thread : (Doomed' /\ InCall(s)') => late'[s]
    BY <1>1, <1>2, Zenon DEF RInv, Dead, InCall
  <1>6. \A s \in Thread : (pc'[s] = "trycas" /\ v'[s] < 0) => late'[s]
    BY <1>1, Zenon DEF RInv, Refused
  <1>7. \A s \in Thread : (pc'[s] \in {"idle", "cleanup", "dead"} /\ res'[s] = "EINVAL") => late'[s]
    BY <1>1, ZenonT(60) DEF RInv, Refused, Doomed
  <1>8. \A s \in crashed' : late'[s]
    BY <1>1, Zenon DEF Doomed
  <1> QED BY <1>3, <1>6, <1>7, <1>8, ZenonT(60) DEF Dead, Refused

LEMMA CallRefused ==
    ASSUME RInv, NoOverflow, NoOverflow', NEW t \in Thread,
           \/ TryCall(t) \/ PostAdd(t) \/ sem_getvalue(t)
           \/ \E abstime \in BOOLEAN : WaitCall(t, abstime)
    PROVE  Dead' /\ Refused'
  <1> USE DEF settings, shared, ghosts, Goto, Return
  <1>0. res \in [Thread -> Result] /\ value \in Int /\ IntMin \in Int
    BY Alive, Zenon DEF RInv, IInv, TypeOK
  <1>1. crashed = {} /\ (~live => value = IntMin)
    BY Zenon DEF TryCall, WaitCall, PostAdd, sem_getvalue, Begin, Call, At, RInv, Dead
  <1>2. CASE TryCall(t)
    BY <1>1, <1>2, CallStep, ZenonT(60) DEF TryCall
  <1>3. CASE sem_getvalue(t)
    <2> USE <1>3 DEF sem_getvalue
    <2>1. res'[t] = "OK" /\ \A s \in Thread \ {t} : res'[s] = res[s]
      BY <1>0, Zenon
    <2> QED BY <1>1, <2>1, CallStep, ZenonT(60)
  <1>4. ASSUME NEW abstime \in BOOLEAN, WaitCall(t, abstime) PROVE Dead' /\ Refused'
    BY <1>1, <1>4, CallStep, ZenonT(60) DEF WaitCall
  <1>5. CASE PostAdd(t)
    <2> USE <1>5 DEF PostAdd
    <2>1. /\ Begin(t) /\ live' = live /\ v' = v
          /\ crashed' = IF value > IntMin THEN {} ELSE {t}
          /\ value >= 0 => pc' = [pc EXCEPT ![t] = "wake"] /\ res' = res
          /\ ~(value >= 0) => pc' = [pc EXCEPT ![t] = "idle"] /\ res' = [res EXCEPT ![t] = "EINVAL"]
      BY <1>1, Zenon DEF unassert
    <2> HIDE <1>5 DEF PostAdd
    <2>2. \A s \in Thread \ {t} : res'[s] = res[s]
      BY <1>0, <2>1, Zenon
    <2>3. ~(value >= 0) => ~live
      BY Alive, Zenon
    <2>7. (value >= 0 => value > IntMin) /\ (value = IntMin => ~(value > IntMin))
      BY <1>0, Alive
    <2>4. \A s \in crashed' : s = t /\ ~live
      BY <2>1, <2>3, <2>7, Zenon
    <2>5. ~live => crashed' # {}
      BY <1>1, <2>1, <2>7, Zenon
    <2>6. PICK l \in {"wake", "idle"} : pc' = [pc EXCEPT ![t] = l] /\ (l = "idle" => ~live)
      BY <2>1, <2>3, Zenon
    <2> QED BY <2>1, <2>2, <2>4, <2>5, <2>6, CallStep, ZenonT(60)
  <1> QED BY <1>2, <1>3, <1>4, <1>5, ZenonT(60)

\* A post's wake, and taking the semaphore down and setting it up again.
LEMMA OtherRefused ==
    ASSUME RInv, NoOverflow, NEW t \in Thread,
           \/ PostWake(t) \/ DestroyCheck(t) \/ DestroyStore(t) \/ Cancel(t)
           \/ \E n \in Initial : sem_init(t, n)
    PROVE  Dead' /\ Refused'
  <1> USE DEF settings, shared, ghosts, locals, Goto, Return
  <1>0. /\ pc \in [Thread -> PC] /\ res \in [Thread -> Result] /\ late \in [Thread -> BOOLEAN]
        /\ waiters \in Int
    BY Zenon DEF RInv, IInv, TypeOK
  <1>c. crashed = {} /\ crashed' = {}
    <2>1. waiters >= 0
      <3>1. Registered \in SUBSET Thread
        BY Places, Zenon
      <3>2. Cardinality(Registered) \in Nat /\ waiters = Cardinality(Registered)
        BY <3>1, Counting, Zenon DEF RInv, IInv, WaitersExact
      <3> QED BY <3>2
    <2> QED BY <2>1, Zenon DEF PostWake, DestroyCheck, DestroyStore, Cancel, sem_init, Call, At, unassert
  <1>1. CASE PostWake(t)
    <2> USE <1>1 DEF PostWake, At
    <2>1. /\ pc[t] = "wake" /\ res'[t] = "OK" /\ \A s \in Thread \ {t} : res'[s] = res[s]
          /\ UNCHANGED <<value, live, late, v>>
      BY <1>0, Zenon
    <2>2. \A s \in Thread : \/ pc'[s] = pc[s] /\ s # t
                            \/ pc'[s] = "idle" /\ s = t
                            \/ pc'[s] = "load" /\ pc[s] = "asleep"
      BY <1>0, Zenon
    <2> HIDE <1>1 DEF PostWake
    <2>3. Doomed' => Doomed
      BY <2>1, <2>2, Zenon DEF Doomed
    <2>4. \A s \in Thread : (Doomed' /\ InCall(s)') => late'[s]
      BY <2>1, <2>2, <2>3, Zenon DEF RInv, Dead, InCall
    <2>6. Dead'
      BY <1>c, <2>1, <2>4, ZenonT(60) DEF RInv, Dead
    <2>7. \A s \in Thread : pc'[s] \in {"idle", "cleanup", "dead", "trycas"} => s = t \/ pc'[s] = pc[s]
      BY <2>2, Zenon
    <2>8. pc'[t] # "trycas"
      BY <2>1, <2>2, Zenon
    <2> QED BY <1>c, <2>1, <2>6, <2>7, <2>8, ZenonT(60) DEF RInv, Refused
  <1>2. CASE DestroyCheck(t)
    <2> USE <1>2 DEF DestroyCheck, Call, At
    <2>1. /\ UNCHANGED <<value, live, v>> /\ pc[t] = "idle"
          /\ waiters # 0 => /\ pc' = [pc EXCEPT ![t] = "idle"]
                            /\ res' = [res EXCEPT ![t] = "EBUSY"] /\ late' = late
          /\ waiters = 0 => /\ pc' = [pc EXCEPT ![t] = "destroy"] /\ res' = res
                            /\ late' = [s \in Thread |-> late[s] \/ s \in Uncounted]
      BY <1>0, Zenon
    <2> HIDE <1>2 DEF DestroyCheck
    <2>2. \A s \in Thread \ {t} : pc'[s] = pc[s] /\ res'[s] = res[s]
      BY <1>0, <2>1, Zenon
    <2>3. \/ waiters = 0 /\ pc'[t] = "destroy"
          \/ waiters # 0 /\ pc'[t] = "idle" /\ res'[t] = "EBUSY"
      BY <1>0, <2>1, Zenon
    <2>4. waiters = 0 => Registered = {}
      <3>1. Registered \in SUBSET Thread
        BY Places, Zenon
      <3>2. IsFiniteSet(Registered)
        BY <3>1, Counting, Zenon
      <3> QED BY <3>2, FS_EmptySet, Zenon DEF RInv, IInv, WaitersExact
    <2>5. /\ \A s \in Thread : late[s] => late'[s]
          /\ waiters = 0 => \A s \in Thread : InCall(s) => late'[s]
      BY <1>0, <2>1, <2>4, Zenon DEF Uncounted, InCall
    <2>6. waiters # 0 => (Doomed' => Doomed)
      BY <2>1, <2>2, <2>3, Zenon DEF Doomed
    <2>7. \A s \in Thread : InCall(s)' => InCall(s)
      BY <2>2, <2>3, Zenon DEF InCall
    <2>8. \A s \in Thread : (Doomed' /\ InCall(s)') => late'[s]
      BY <2>5, <2>6, <2>7, Zenon DEF RInv, Dead
    <2>9. Dead'
      BY <1>c, <2>1, <2>8, Zenon DEF RInv, Dead
    <2>10. \A s \in Thread : (pc'[s] = "trycas" /\ v'[s] < 0) => late'[s]
      BY <2>1, <2>2, <2>3, <2>5, Zenon DEF RInv, Refused
    <2>11. \A s \in Thread : (pc'[s] \in {"idle", "cleanup", "dead"} /\ res'[s] = "EINVAL") => late'[s]
      BY <2>2, <2>3, <2>5, Zenon DEF RInv, Refused
    <2> QED BY <1>c, <2>9, <2>10, <2>11, Zenon DEF Refused
  <1>3. CASE DestroyStore(t)
    <2> USE <1>3 DEF DestroyStore, At
    <2>1. /\ pc[t] = "destroy" /\ value' = IntMin /\ late' = late /\ v' = v
          /\ \A s \in Thread \ {t} : pc'[s] = pc[s] /\ res'[s] = res[s]
          /\ pc'[t] = "idle" /\ res'[t] = "OK"
      BY <1>0, Zenon
    <2> HIDE <1>3 DEF DestroyStore
    <2>2. Doomed
      BY <2>1, Zenon DEF Doomed
    <2>3. \A s \in Thread : InCall(s)' => late'[s]
      BY <2>1, <2>2, Zenon DEF RInv, Dead, InCall
    <2>4. Dead'
      BY <2>1, <2>3, Zenon DEF Dead
    <2>5. \A s \in Thread : (pc'[s] = "trycas" /\ v'[s] < 0) => late'[s]
      BY <2>1, Zenon DEF RInv, Refused
    <2>6. \A s \in Thread : (pc'[s] \in {"idle", "cleanup", "dead"} /\ res'[s] = "EINVAL") => late'[s]
      BY <2>1, Zenon DEF RInv, Refused
    <2> QED BY <1>c, <2>4, <2>5, <2>6, ZenonT(60) DEF Refused
  <1>4. CASE Cancel(t)
    <2>1. UNCHANGED <<pc, res, value, live, late, v>>
      BY <1>4, Zenon DEF Cancel
    <2> QED BY <1>c, <2>1, Zenon DEF RInv, Dead, Refused, Doomed, InCall
  <1>5. CASE \E n \in Initial : sem_init(t, n)
    <2> USE <1>5 DEF sem_init, Call, At
    <2>1. /\ live' /\ UNCHANGED <<pc, late>> /\ res'[t] = "OK"
          /\ \A s \in Thread \ {t} : res'[s] = res[s]
          /\ \A s \in Thread : Outside(s)
      BY <1>0, Zenon
    <2> HIDE <1>5 DEF sem_init
    <2>2. \A s \in Thread : ~InCall(s)' /\ pc'[s] # "trycas"
      BY <2>1, Zenon DEF Outside, InCall
    <2>3. \A s \in Thread : (pc'[s] \in {"idle", "cleanup", "dead"} /\ res'[s] = "EINVAL") => late'[s]
      BY <2>1, Zenon DEF RInv, Refused
    <2> QED BY <1>c, <2>1, <2>2, <2>3, ZenonT(60) DEF Dead, Refused
  <1> QED BY <1>1, <1>2, <1>3, <1>4, <1>5, ZenonT(60)

LEMMA RInitLemma == Init => RInv
  <1> SUFFICES ASSUME Init PROVE Dead /\ Refused
    BY InitLemma, Zenon DEF RInv
  <1> QED BY Zenon DEF Init, Dead, Refused, Doomed, InCall

LEMMA RNextLemma == RInv /\ NoOverflow /\ NoOverflow' /\ [Next]_vars => RInv'
  <1> SUFFICES ASSUME RInv, NoOverflow, NoOverflow', [Next]_vars PROVE Dead' /\ Refused'
    BY NextLemma, Zenon DEF RInv
  <1>1. ASSUME NEW t \in Thread, Step(t) PROVE Dead' /\ Refused'
    BY <1>1, TryRefused, WaitRefused, FutexRefused, OtherRefused, ZenonT(60) DEF Step
  <1>2. ASSUME NEW t \in Thread, Environment(t) PROVE Dead' /\ Refused'
    BY <1>2, WaitRefused, FutexRefused, OtherRefused, ZenonT(60) DEF Environment
  <1>3. ASSUME NEW t \in Thread, Program(t) PROVE Dead' /\ Refused'
    BY <1>3, CallRefused, OtherRefused, Zenon DEF Program
  <1>4. CASE UNCHANGED vars
    BY <1>4, Zenon DEF vars, shared, locals, settings, ghosts, RInv, Dead, Refused, Doomed, MaskedPoll, InCall
  <1> QED BY <1>1, <1>2, <1>3, <1>4, ZenonT(60) DEF Next, Rest

\* For any number of threads: as long as the posts do not overflow the value,
\* only calls that sem_destroy could not count are refused or fail an assertion,
\* but for the polling wait that is canceled in masked mode.
THEOREM OnlyLateRefused == Spec /\ []NoOverflow => []OnlyInvalidRefused
  <1>1. RInv => OnlyInvalidRefused
    BY Zenon DEF RInv, Refused, OnlyInvalidRefused
  <1> QED BY <1>1, RInitLemma, RNextLemma, PTL DEF Spec

----------------------------------------------------------------------------
(***************************************************************************)
(* The counting semaphore of AbstractSemaphore, step by step.              *)
(***************************************************************************)
WantPc == {"try", "trycas", "register", "load", "futex", "asleep", "cas"}

Avail == IF live THEN value ELSE 0

Simulated == Abstract!Next \/ UNCHANGED <<live, Avail, Wanting>>

\* What the move of one thread does to the set of threads that want a token.
LEMMA WantMove ==
    ASSUME TypeOK, NEW t \in Thread, NEW l, pc' = [pc EXCEPT ![t] = l]
    PROVE  /\ (l \in WantPc <=> pc[t] \in WantPc) => Wanting' = Wanting
           /\ (l \in WantPc /\ pc[t] \notin WantPc) => t \notin Wanting /\ Wanting' = Wanting \cup {t}
           /\ (l \notin WantPc /\ pc[t] \in WantPc) => t \in Wanting /\ Wanting' = Wanting \ {t}
  <1>1. \A u \in Thread : pc'[u] = IF u = t THEN l ELSE pc[u]
    BY Zenon DEF TypeOK
  <1>2. /\ Wanting \subseteq Thread /\ Wanting' \subseteq Thread
        /\ \A u \in Thread : /\ u \in Wanting <=> pc[u] \in WantPc
                             /\ u \in Wanting' <=> pc'[u] \in WantPc
    BY Zenon DEF Wanting, WantPc
  <1> QED BY <1>1, <1>2, Zenon

\* The tokens stay: a call begins, gives up, or nothing happens.
LEMMA SameTokens ==
    ASSUME TypeOK, NEW t \in Thread, NEW l, pc' = [pc EXCEPT ![t] = l], live' = live, Avail' = Avail
    PROVE  Simulated
  <1>1. CASE l \in WantPc <=> pc[t] \in WantPc
    BY <1>1, WantMove, Zenon DEF Simulated
  <1>2. CASE l \in WantPc /\ pc[t] \notin WantPc
    <2>1. t \notin Wanting /\ Wanting' = Wanting \cup {t}
      BY <1>2, WantMove, Zenon
    <2>2. Abstract!Begin(t)
      BY <2>1, Zenon DEF Abstract!Begin, Avail
    <2> QED BY <2>2, Zenon DEF Simulated, Abstract!Next
  <1>3. CASE l \notin WantPc /\ pc[t] \in WantPc
    <2>1. t \in Wanting /\ Wanting' = Wanting \ {t}
      BY <1>3, WantMove, Zenon
    <2>2. Abstract!GiveUp(t)
      BY <2>1, Zenon DEF Abstract!GiveUp, Avail
    <2> QED BY <2>2, Zenon DEF Simulated, Abstract!Next
  <1> QED BY <1>1, <1>2, <1>3, Zenon

LEMMA TakesToken ==
    ASSUME RInv, NoOverflow, NEW t \in Thread, NEW l, pc' = [pc EXCEPT ![t] = l], crashed = {},
           l \notin WantPc, pc[t] \in WantPc, Take, value > 0, live' = live
    PROVE  Simulated
  <1>1. live
    BY Alive DEF RInv, Dead
  <1>2. t \in Wanting /\ Wanting' = Wanting \ {t}
    BY WantMove, Zenon DEF RInv, IInv
  <1>3. Abstract!Take(t)
    BY <1>1, <1>2, Zenon DEF Abstract!Take, Take
  <1> QED BY <1>3, ZenonT(60) DEF Simulated, Abstract!Next

\* The semaphore is taken down, or set up when no thread wants a token of it.
LEMMA LifeSimulated ==
    ASSUME RInv, NEW t \in Thread, DestroyStore(t) \/ \E n \in Initial : sem_init(t, n)
    PROVE  Simulated
  <1>0. TypeOK /\ pc \in [Thread -> PC]
    BY Zenon DEF RInv, IInv, TypeOK
  <1>i. "idle" \notin WantPc /\ "destroy" \notin WantPc /\ "wake" \notin WantPc /\ "dead" \notin WantPc
    BY DEF WantPc
  <1>1. CASE DestroyStore(t)
    <2>1. pc[t] = "destroy" /\ pc' = [pc EXCEPT ![t] = "idle"] /\ live' = FALSE
      BY <1>1, Zenon DEF DestroyStore, Return, Goto, At
    <2>2. Wanting' = Wanting
      BY <1>0, <1>i, <2>1, WantMove, Zenon
    <2>3. Avail' = 0 /\ (~live => Avail = 0)
      BY <2>1, Zenon DEF Avail
    <2>4. live \in BOOLEAN
      BY <1>0, Zenon DEF TypeOK
    <2>5. CASE live
      BY <2>1, <2>2, <2>3, <2>5, Zenon DEF Simulated, Abstract!Next, Abstract!TakeDown, Avail
    <2>6. CASE ~live
      BY <2>1, <2>2, <2>3, <2>4, <2>6, Zenon DEF Simulated
    <2> QED BY <2>5, <2>6
  <1>2. ASSUME NEW n \in Initial, sem_init(t, n) PROVE Simulated
    <2>1. /\ ~live /\ live' = TRUE /\ value' = n /\ pc' = pc
          /\ \A s \in Thread : Outside(s)
      BY <1>2, Zenon DEF sem_init
    <2>2. Wanting = {} /\ Wanting' = {}
      BY <1>i, <2>1, Zenon DEF Wanting, WantPc, Outside
    <2>3. Avail' \in Initial
      BY <2>1, Zenon DEF Avail
    <2>4. Abstract!SetUp
      BY <2>1, <2>2, <2>3, Zenon DEF Abstract!SetUp, Avail
    <2> QED BY <2>4, Zenon DEF Simulated, Abstract!Next
  <1> QED BY <1>1, <1>2, ZenonT(60)

LEMMA CallsSimulated ==
    ASSUME RInv, NoOverflow, NEW t \in Thread,
           \/ TryCall(t) \/ DestroyCheck(t) \/ sem_getvalue(t) \/ TryLoad(t) \/ TryEagain(t)
           \/ \E abstime \in BOOLEAN : WaitCall(t, abstime)
           \/ Register(t) \/ WaitLoad(t) \/ CasSpurious(t) \/ FutexWait(t) \/ FutexSpurious(t)
           \/ FutexInterrupted(t) \/ FutexTimeout(t) \/ FutexCanceled(t) \/ Cleanup(t) \/ Cancel(t)
    PROVE  Simulated
  <1> USE DEF shared, settings, ghosts, locals, Goto, Return, Leave
  <1>0. TypeOK /\ pc \in [Thread -> PC]
    BY Zenon DEF RInv, IInv, TypeOK
  <1>1. UNCHANGED <<value, live>> /\ \E l : pc' = [pc EXCEPT ![t] = l]
    <2>1. CASE TryCall(t) \/ sem_getvalue(t) \/ TryLoad(t) \/ \E abstime \in BOOLEAN : WaitCall(t, abstime)
      BY <2>1, Zenon DEF TryCall, sem_getvalue, TryLoad, WaitCall
    <2>2. CASE DestroyCheck(t) \/ TryEagain(t)
      BY <2>2, Zenon DEF DestroyCheck, TryEagain
    <2>3. CASE Register(t) \/ WaitLoad(t) \/ CasSpurious(t) \/ Cleanup(t)
      BY <2>3, Zenon DEF Register, WaitLoad, CasSpurious, Cleanup
    <2>4. CASE FutexWait(t) \/ FutexSpurious(t) \/ FutexInterrupted(t)
      BY <2>4, Zenon DEF FutexWait, FutexSpurious, FutexInterrupted
    <2>5. CASE FutexTimeout(t) \/ FutexCanceled(t)
      BY <2>5, Zenon DEF FutexTimeout, FutexCanceled, TimedOut
    <2>6. CASE Cancel(t)
      BY <1>0, <2>6, Zenon DEF Cancel
    <2> QED BY <2>1, <2>2, <2>3, <2>4, <2>5, <2>6, ZenonT(60)
  <1>2. Avail' = Avail
    BY <1>1, Zenon DEF Avail
  <1> QED BY <1>0, <1>1, <1>2, SameTokens, ZenonT(60)

LEMMA CasSimulated ==
    ASSUME RInv, NoOverflow, NEW t \in Thread, TryCas(t) \/ WaitCas(t)
    PROVE  Simulated
  <1> USE DEF Goto, At, Return, Leave
  <1>0. TypeOK /\ pc \in [Thread -> PC] /\ v[t] \in Int
    BY SemaphoreAssumption DEF RInv, IInv, TypeOK, IntMin
  <1>1. live' = live /\ crashed = {} /\ pc[t] \in {"trycas", "cas"}
    BY Zenon DEF TryCas, WaitCas
  <1>2. pc[t] \in WantPc /\ "idle" \notin WantPc /\ "cleanup" \notin WantPc
    BY <1>1 DEF WantPc
  <1>3. CASE TryCas(t) /\ ~(v[t] < 0) /\ value = v[t]
    <2>1. Take /\ pc' = [pc EXCEPT ![t] = "idle"] /\ v[t] # 0
      BY <1>3, Zenon DEF TryCas
    <2>2. value > 0
      BY <1>0, <1>3, <2>1
    <2> QED BY <1>1, <1>2, <2>1, <2>2, TakesToken, ZenonT(60)
  <1>4. CASE WaitCas(t) /\ value = v[t]
    <2>1. Take /\ pc' = [pc EXCEPT ![t] = "cleanup"]
      BY <1>4, Zenon DEF WaitCas
    <2>2. value > 0
      BY <1>4, Zenon DEF WaitCas, RInv, IInv, Local
    <2> QED BY <1>1, <1>2, <2>1, <2>2, TakesToken, ZenonT(60)
  <1>5. CASE \/ TryCas(t) /\ (v[t] < 0 \/ value # v[t])
             \/ WaitCas(t) /\ value # v[t]
    <2>1. value' = value /\ \E l : pc' = [pc EXCEPT ![t] = l]
      BY <1>0, <1>5, ZenonT(60) DEF TryCas, WaitCas
    <2>2. Avail' = Avail
      BY <1>1, <2>1, Zenon DEF Avail
    <2> QED BY <1>0, <1>1, <2>1, <2>2, SameTokens, ZenonT(60)
  <1> QED BY <1>3, <1>4, <1>5, ZenonT(60)

LEMMA PostAddSimulated ==
    ASSUME RInv, NoOverflow, NoOverflow', NEW t \in Thread, PostAdd(t)
    PROVE  Simulated
  <1>1. /\ value' = Increment(value) /\ live' = live /\ start' = start /\ taken' = taken
        /\ value >= 0 => pc' = [pc EXCEPT ![t] = "wake"] /\ posted' = posted + 1
        /\ ~(value >= 0) => pc' = [pc EXCEPT ![t] = "idle"]
        /\ pc[t] = "idle"
    BY Zenon DEF PostAdd, Begin, Call, At, Goto, Return
  <1>2. TypeOK
    BY Zenon DEF RInv, IInv
  <1>3. CASE ~live
    <2>1. Avail' = Avail
      BY <1>1, <1>3, Zenon DEF Avail
    <2> QED BY <1>1, <1>2, <2>1, SameTokens, ZenonT(60)
  <1>4. CASE live
    <2>1. value = Net /\ value >= 0
      BY <1>4, ZenonT(60) DEF RInv, IInv, Tokens, NoOverflow
    <2>2. posted \in Nat /\ taken \in Nat /\ start \in Int /\ IntMax \in Nat
      BY SemaphoreAssumption DEF RInv, IInv, TypeOK
    <2>3. Net' = Net + 1 /\ Net' <= IntMax
      BY <1>1, <2>1, <2>2 DEF Net, NoOverflow
    <2>4. Net \in Int
      BY <2>2 DEF Net
    <2>5. value' = value + 1
      BY <1>1, <2>1, <2>2, <2>3, <2>4 DEF Increment
    <2>6. "wake" \notin WantPc /\ pc[t] \notin WantPc
      BY <1>1 DEF WantPc
    <2>7. Wanting' = Wanting
      BY <1>1, <1>2, <2>1, <2>6, WantMove, ZenonT(60)
    <2>8. Abstract!Post
      BY <1>1, <1>4, <2>5, <2>7, ZenonT(60) DEF Abstract!Post
    <2> QED BY <2>8, Zenon DEF Simulated, Abstract!Next
  <1> QED BY <1>3, <1>4

LEMMA PostWakeSimulated ==
    ASSUME RInv, NEW t \in Thread, PostWake(t)
    PROVE  Simulated
  <1>1. TypeOK /\ pc \in [Thread -> PC]
    BY Zenon DEF RInv, IInv, TypeOK
  <1>2. live' = live /\ Avail' = Avail /\ pc[t] = "wake"
    BY Zenon DEF PostWake, Avail, shared, At
  <1>3. CASE pc' = [pc EXCEPT ![t] = "idle"]
    BY <1>1, <1>2, <1>3, SameTokens, ZenonT(60)
  <1>4. ASSUME NEW s \in Thread, pc[s] = "asleep", pc' = [pc EXCEPT ![t] = "idle", ![s] = "load"]
        PROVE  Simulated
    <2>1. \A u \in Thread : pc'[u] = IF u = s THEN "load" ELSE IF u = t THEN "idle" ELSE pc[u]
      BY <1>1, <1>4, ZenonT(60)
    <2>i. /\ "load" \in WantPc /\ "asleep" \in WantPc
          /\ "idle" \notin WantPc /\ "wake" \notin WantPc /\ s # t
      BY <1>2, <1>4 DEF WantPc
    <2>2. \A u \in Thread : pc'[u] \in WantPc <=> pc[u] \in WantPc
      BY <1>2, <1>4, <2>1, <2>i, ZenonT(60)
    <2>3. Wanting' = Wanting
      BY <2>2, Zenon DEF Wanting, WantPc
    <2> QED BY <1>2, <2>3, Zenon DEF Simulated
  <1> QED BY <1>3, <1>4, Zenon DEF PostWake, Goto

\* Every step of the threads is a step of the counting semaphore, or none.
LEMMA StepSimulated ==
    ASSUME RInv, NoOverflow, NoOverflow', [Next]_vars
    PROVE  Simulated
  <1>1. ASSUME NEW t \in Thread, Step(t) PROVE Simulated
    BY <1>1, CallsSimulated, CasSimulated, PostWakeSimulated, LifeSimulated, ZenonT(60) DEF Step
  <1>2. ASSUME NEW t \in Thread, Environment(t) PROVE Simulated
    BY <1>2, CallsSimulated, Zenon DEF Environment
  <1>3. ASSUME NEW t \in Thread, Program(t) PROVE Simulated
    BY <1>3, CallsSimulated, PostAddSimulated, LifeSimulated, ZenonT(60) DEF Program
  <1>4. CASE UNCHANGED vars
    BY <1>4, Zenon DEF vars, shared, Simulated, Avail, Wanting
  <1> QED BY <1>1, <1>2, <1>3, <1>4, ZenonT(60) DEF Next, Rest

\* For any number of threads: as long as the posts do not overflow the value,
\* the loads, exchanges and futex calls of sem_trywait, sem_timedwait and
\* sem_post, with every way out of a wait, implement a counting semaphore.
THEOREM CountingSemaphore == Spec /\ []NoOverflow => Implements
  <1>1. Init => Abstract!Init
    BY Zenon DEF Init, Abstract!Init, Wanting
  <1>2. RInv /\ NoOverflow /\ NoOverflow' /\ [Next]_vars
            => [Abstract!Next]_<<live, IF live THEN value ELSE 0, Wanting>>
    BY StepSimulated, Zenon DEF Simulated, Avail
  <1> QED BY <1>1, <1>2, RInitLemma, RNextLemma, PTL DEF Spec, Implements, Abstract!Spec
=============================================================================
