---------------------------- MODULE NsyncProofs ----------------------------
(***************************************************************************)
(* nsync_mu excludes, for any finite set of threads and any bounds, with   *)
(* conditional critical sections and below a condition variable.           *)
(***************************************************************************)
EXTENDS NsyncCv, FiniteSetTheorems, TLAPS

Mode == {"reader", "writer"}

Struct == [waiting : BOOLEAN, sem : Int, l_type : Mode, cond : BOOLEAN,
           cv_mu : BOOLEAN, removed : BOOLEAN]

\* The bits that the unlocking thread sets when it has scanned the queue.
Hint == {"MU_ALL_FALSE", "MU_WRITER_WAITING"}

Word == [bits : SUBSET Bit, readers : Nat]

Label == {"idle", "lock", "queue", "sleep", "p", "unlock", "scan", "respin", "wake", "v",
          "cond_spin", "cond_release", "cond_loop", "cond_p", "cond_try", "cond_check",
          "cv_loop", "cv_p", "cv_return", "transfer", "xfer"}

TypeInv ==
    /\ word \in Word
    /\ pc \in [Thread -> Label] /\ after \in [Thread -> Label]
    /\ hold \in [Thread -> Mode \cup {"none"}] /\ mode \in [Thread -> Mode]
    /\ nw \in [Waiter -> Struct]

ScanInv ==
    /\ DOMAIN scan = Thread
    /\ \A t \in Thread :
          /\ DOMAIN scan[t] = {"new", "kept", "set", "testing", "late"}
          /\ scan[t].late \in BOOLEAN
          /\ scan[t].set \subseteq Hint

Readers == {t \in Thread : hold[t] = "reader"}

WordInv ==
    /\ \A s, t \in Thread : hold[s] = "writer" /\ hold[t] # "none" => s = t
    /\ "MU_WLOCK" \in word.bits <=> \E t \in Thread : hold[t] = "writer"
    /\ word.readers = Cardinality(Readers)

SpinPc == {"queue", "scan", "cond_release", "xfer"}

SpinInv ==
    /\ SpinFree <=> \A t \in Thread : pc[t] \notin SpinPc
    /\ \A s, t \in Thread : pc[s] \in SpinPc /\ pc[t] \in SpinPc => s = t

\* What a thread holds, and where it goes on, at each place of a call.
Place(t) ==
    /\ pc[t] \in {"lock", "queue", "sleep", "p"} =>
          hold[t] = "none" /\ after[t] \in {"idle", "cond_check", "cv_return"}
    /\ pc[t] \in {"unlock", "cond_spin", "cond_release", "cond_check"} => hold[t] = mode[t]
    /\ pc[t] \in {"cond_spin", "cond_release"} => after[t] = "cond_loop"
    /\ pc[t] \in {"unlock", "scan", "respin", "wake", "v"} =>
          after[t] \in {"idle", "cond_loop", "cv_loop"}
    /\ pc[t] \in {"scan", "respin"} => hold[t] = IF scan[t].late THEN "writer" ELSE "none"
    /\ (pc[t] \in {"wake", "v"} /\ after[t] # "idle") => hold[t] = "none"
    /\ pc[t] \in {"cond_loop", "cond_p", "cond_try", "cv_loop", "cv_p"} => hold[t] = "none"
    /\ pc[t] \in {"transfer", "xfer"} => after[t] = "idle"

PlaceInv == \A t \in Thread : Place(t)

IInv == TypeInv /\ ScanInv /\ WordInv /\ SpinInv /\ PlaceInv

----------------------------------------------------------------------------
\* Adding or removing one thread changes the size of a set of threads by one.
LEMMA Counting ==
    ASSUME NEW X \in SUBSET Thread
    PROVE  /\ Cardinality(X) \in Nat
           /\ Cardinality(X) = 0 <=> X = {}
           /\ \A x \in Thread \ X : Cardinality(X \cup {x}) = Cardinality(X) + 1
           /\ \A x \in X : Cardinality(X \ {x}) = Cardinality(X) - 1
  <1>1. IsFiniteSet(X)
    BY NsyncAssumption, FS_Subset
  <1> QED BY <1>1, FS_CardinalityType, FS_EmptySet, FS_AddElement, FS_RemoveElement

\* The word shows whether a thread other than t holds the lock.
LEMMA FreeWord ==
    ASSUME TypeInv, WordInv
    PROVE  /\ "MU_WLOCK" \notin word.bits => \A u \in Thread : hold[u] # "writer"
           /\ word.readers = 0 => \A u \in Thread : hold[u] # "reader"
           /\ \A t \in Thread : (word.readers <= 1 /\ hold[t] # "none") =>
                 \A u \in Thread \ {t} : hold[u] = "none"
  <1>1. Readers \in SUBSET Thread
    BY DEF Readers
  <1>2. word.readers = 0 => \A u \in Thread : hold[u] # "reader"
    BY <1>1, Counting DEF WordInv, Readers
  <1>3. ASSUME NEW t \in Thread, word.readers <= 1, hold[t] # "none",
               NEW u \in Thread \ {t}
        PROVE  hold[u] = "none"
    <2>1. hold[u] # "writer" /\ hold[t] = "writer" => hold[u] = "none"
      BY <1>3 DEF WordInv, TypeInv, Mode
    <2>2. hold[u] # "writer"
      BY <1>3 DEF WordInv
    <2>3. CASE hold[t] = "reader"
      <3>1. SUFFICES ASSUME hold[u] = "reader" PROVE FALSE
        BY <2>2 DEF TypeInv, Mode
      <3>2. t \in Readers /\ u \in Readers \ {t}
        BY <1>3, <2>3, <3>1 DEF Readers
      <3>3. Readers \ {t} \in SUBSET Thread
        BY <1>1
      <3>4. Cardinality(Readers \ {t}) \in Nat /\ Cardinality(Readers \ {t}) # 0
        BY <3>2, <3>3, Counting
      <3>5. Cardinality(Readers \ {t}) = Cardinality(Readers) - 1 /\ Cardinality(Readers) \in Nat
        BY <1>1, <3>2, Counting
      <3> QED BY <1>3, <3>4, <3>5 DEF WordInv
    <2> QED BY <1>3, <2>1, <2>2, <2>3 DEF TypeInv, Mode
  <1> QED BY <1>2, <1>3 DEF WordInv

\* Thread t goes from hold[t] to m, and the word with it.
LEMMA HoldChange ==
    ASSUME TypeInv, WordInv, NEW t \in Thread, NEW m \in Mode \cup {"none"},
           hold' = [hold EXCEPT ![t] = m],
           word'.readers = word.readers + (IF m = "reader" THEN 1 ELSE 0)
                                        - (IF hold[t] = "reader" THEN 1 ELSE 0),
           "MU_WLOCK" \in word'.bits <=>
               m = "writer" \/ ("MU_WLOCK" \in word.bits /\ hold[t] # "writer"),
           m = "writer" => \A u \in Thread \ {t} : hold[u] = "none",
           m = "reader" => \A u \in Thread \ {t} : hold[u] # "writer"
    PROVE  WordInv'
  <1>1. hold'[t] = m /\ \A u \in Thread \ {t} : hold'[u] = hold[u]
    BY DEF TypeInv
  <1>2. (\A r, s \in Thread : hold[r] = "writer" /\ hold[s] # "none" => r = s)'
    <2> SUFFICES ASSUME NEW r \in Thread, NEW s \in Thread,
                        hold'[r] = "writer", hold'[s] # "none"
                 PROVE  r = s
      BY Zenon
    <2>1. CASE r = t \/ s = t
      BY <1>1, <2>1, Zenon DEF Mode
    <2>2. CASE r # t /\ s # t
      BY <1>1, <2>2, Zenon DEF WordInv
    <2> QED BY <2>1, <2>2
  <1>3. ("MU_WLOCK" \in word.bits <=> \E u \in Thread : hold[u] = "writer")'
    BY <1>1, Zenon DEF WordInv
  <1>4. (word.readers = Cardinality(Readers))'
    <2>1. Readers \in SUBSET Thread
      BY DEF Readers
    <2>2. Readers' = IF m = "reader" THEN Readers \cup {t} ELSE Readers \ {t}
      BY <1>1, Zenon DEF Readers
    <2>3. t \in Readers <=> hold[t] = "reader"
      BY DEF Readers
    <2>4. t \in Readers => Readers \cup {t} = Readers
      BY Zenon
    <2>5. t \notin Readers => Readers \ {t} = Readers
      BY Zenon
    <2>6. Cardinality(Readers) \in Nat
      BY <2>1, Counting
    <2>7. t \in Readers => Cardinality(Readers \ {t}) = Cardinality(Readers) - 1
      BY <2>1, Counting
    <2>8. t \notin Readers => Cardinality(Readers \cup {t}) = Cardinality(Readers) + 1
      BY <2>1, Counting
    <2>9. word.readers = Cardinality(Readers)
      BY DEF WordInv
    <2>10. CASE m = "reader"
      <3>1. Cardinality(Readers)' = Cardinality(Readers \cup {t})
        BY <2>2, <2>10, Zenon
      <3>2. t \in Readers => Cardinality(Readers)' = Cardinality(Readers)
        BY <2>4, <3>1, Zenon
      <3> QED BY <2>3, <2>6, <2>8, <2>10, <3>1, <3>2, <2>9
    <2>11. CASE m # "reader"
      <3>1. Cardinality(Readers)' = Cardinality(Readers \ {t})
        BY <2>2, <2>11, Zenon
      <3>2. t \notin Readers => Cardinality(Readers)' = Cardinality(Readers)
        BY <2>5, <3>1, Zenon
      <3> QED BY <2>3, <2>6, <2>7, <2>11, <3>1, <3>2, <2>9
    <2> QED BY <2>10, <2>11
  <1> QED BY <1>2, <1>3, <1>4 DEF WordInv

\* Steps that neither lock nor unlock.
LEMMA HoldSame ==
    ASSUME WordInv, hold' = hold, word'.readers = word.readers,
           "MU_WLOCK" \in word'.bits <=> "MU_WLOCK" \in word.bits
    PROVE  WordInv'
  BY Zenon DEF WordInv, Readers

\* Thread t goes to l, and the spinlock with it.
LEMMA SpinChange ==
    ASSUME TypeInv, SpinInv, NEW t \in Thread, NEW l, pc' = [pc EXCEPT ![t] = l],
           pc[t] \in SpinPc \/ l \notin SpinPc \/ SpinFree,
           SpinFree' <=> l \notin SpinPc /\ (SpinFree \/ pc[t] \in SpinPc)
    PROVE  SpinInv'
  <1>1. pc'[t] = l /\ \A u \in Thread \ {t} : pc'[u] = pc[u]
    BY DEF TypeInv
  <1>2. (\A r, s \in Thread : pc[r] \in SpinPc /\ pc[s] \in SpinPc => r = s)'
    BY <1>1, Zenon DEF SpinInv
  <1>3. (SpinFree <=> \A u \in Thread : pc[u] \notin SpinPc)'
    BY <1>1, Zenon DEF SpinInv
  <1> QED BY <1>2, <1>3 DEF SpinInv

\* The places of other threads stay as they are.
LEMMA PlaceChange ==
    ASSUME PlaceInv, NEW t \in Thread, Place(t)',
           \A u \in Thread \ {t} :
               /\ pc'[u] = pc[u] /\ hold'[u] = hold[u] /\ mode'[u] = mode[u]
               /\ after'[u] = after[u] /\ scan'[u] = scan[u]
    PROVE  PlaceInv'
  <1>1. ASSUME NEW u \in Thread \ {t} PROVE Place(u)'
    <2>1. Place(u)
      BY DEF PlaceInv
    <2> QED BY <2>1 DEF Place
  <1> QED BY <1>1 DEF PlaceInv

----------------------------------------------------------------------------
\* Thread t locks.
LEMMA Gain ==
    ASSUME TypeInv, WordInv, NEW t \in Thread, NEW m \in Mode, NEW clr \in SUBSET Bit,
           hold[t] = "none", "MU_WLOCK" \notin word.bits, m = "writer" => word.readers = 0,
           hold' = [hold EXCEPT ![t] = m],
           word' = Bits(Add(word, m), {}, clr), "MU_WLOCK" \notin clr, "MU_SPINLOCK" \notin clr
    PROVE  word' \in Word /\ WordInv' /\ (SpinFree' <=> SpinFree)
  <1>1. /\ word' \in Word
        /\ word'.readers = word.readers + (IF m = "reader" THEN 1 ELSE 0)
        /\ word'.bits = (word.bits \cup (IF m = "writer" THEN {"MU_WLOCK"} ELSE {})) \ clr
    BY DEF TypeInv, Word, Add, Bits, Mode, Bit
  <1>2. "MU_WLOCK" \in word'.bits <=> m = "writer"
    BY <1>1, Zenon
  <1>3. SpinFree' <=> SpinFree
    BY <1>1, Zenon DEF SpinFree
  <1>4. /\ m = "writer" => \A u \in Thread \ {t} : hold[u] = "none"
        /\ m = "reader" => \A u \in Thread \ {t} : hold[u] # "writer"
    BY FreeWord, Zenon DEF TypeInv, Mode
  <1>5. word'.readers = word.readers + (IF m = "reader" THEN 1 ELSE 0)
                                     - (IF hold[t] = "reader" THEN 1 ELSE 0)
    BY <1>1 DEF TypeInv, Word
  <1>6. WordInv'
    BY <1>2, <1>4, <1>5, HoldChange, Zenon
  <1> QED BY <1>1, <1>3, <1>6

\* Thread t unlocks.
LEMMA Lose ==
    ASSUME TypeInv, WordInv, NEW t \in Thread, NEW m \in Mode, NEW clr \in SUBSET Bit,
           hold[t] = m, hold' = [hold EXCEPT ![t] = "none"],
           word' = Bits(Sub(word, m), {}, clr), "MU_WLOCK" \notin clr
    PROVE  /\ word' \in Word /\ WordInv'
           /\ SpinFree' <=> SpinFree \/ "MU_SPINLOCK" \in clr
  <1>1. m = "reader" => word.readers > 0
    <2>1. m = "reader" => word.readers # 0
      BY FreeWord
    <2> QED BY <2>1 DEF TypeInv, Word
  <1>2. /\ word' \in Word
        /\ word'.readers = word.readers - (IF m = "reader" THEN 1 ELSE 0)
        /\ word'.bits = (word.bits \ (IF m = "writer" THEN {"MU_WLOCK"} ELSE {})) \ clr
    BY <1>1 DEF TypeInv, Word, Sub, Bits, Mode, Bit
  <1>3. "MU_WLOCK" \in word'.bits <=> "MU_WLOCK" \in word.bits /\ hold[t] # "writer"
    BY <1>2, Zenon
  <1>4. SpinFree' <=> SpinFree \/ "MU_SPINLOCK" \in clr
    BY <1>2, Zenon DEF SpinFree
  <1>5. word'.readers = word.readers + (IF "none" = "reader" THEN 1 ELSE 0)
                                     - (IF hold[t] = "reader" THEN 1 ELSE 0)
    BY <1>2 DEF TypeInv, Word
  <1>6. WordInv'
    BY <1>3, <1>5, HoldChange, Zenon
  <1> QED BY <1>2, <1>4, <1>6

\* Only bits that are not the lock change.
LEMMA Mark ==
    ASSUME TypeInv, WordInv, NEW set \in SUBSET Bit, NEW clr \in SUBSET Bit, hold' = hold,
           word' = Bits(word, set, clr), "MU_WLOCK" \notin set, "MU_WLOCK" \notin clr
    PROVE  /\ word' \in Word /\ WordInv'
           /\ SpinFree' <=> \/ "MU_SPINLOCK" \in clr
                            \/ SpinFree /\ "MU_SPINLOCK" \notin set
  <1>1. word' \in Word /\ word'.readers = word.readers /\ word'.bits = (word.bits \cup set) \ clr
    BY DEF TypeInv, Word, Bits
  <1>2. "MU_WLOCK" \in word'.bits <=> "MU_WLOCK" \in word.bits
    BY <1>1, Zenon
  <1>3. SpinFree' <=> \/ "MU_SPINLOCK" \in clr
                      \/ SpinFree /\ "MU_SPINLOCK" \notin set
    BY <1>1, Zenon DEF SpinFree
  <1> QED BY <1>1, <1>2, <1>3, HoldSame

\* The masks never touch the spinlock, and only mutual exclusion needs the lock.
LEMMA Masks ==
    /\ lock_type["writer"].zero_to_acquire = {"MU_WLOCK", "MU_RLOCK_FIELD", "MU_LONG_WAIT"}
    /\ lock_type["reader"].zero_to_acquire = {"MU_WLOCK", "MU_WRITER_WAITING", "MU_LONG_WAIT"}
    /\ \A m \in Mode : /\ lock_type[m].set_when_waiting \in SUBSET {"MU_WAITING", "MU_WRITER_WAITING"}
                       /\ lock_type[m].clear_on_acquire \in SUBSET {"MU_WRITER_WAITING"}
                       /\ lock_type[m].clear_on_uncontended_release \in SUBSET {"MU_ALL_FALSE"}
  <1>1. /\ lock_type["writer"].zero_to_acquire = {"MU_WLOCK", "MU_RLOCK_FIELD", "MU_LONG_WAIT"}
        /\ lock_type["writer"].set_when_waiting \in SUBSET {"MU_WAITING", "MU_WRITER_WAITING"}
        /\ lock_type["writer"].clear_on_acquire \in SUBSET {"MU_WRITER_WAITING"}
        /\ lock_type["writer"].clear_on_uncontended_release \in SUBSET {"MU_ALL_FALSE"}
    BY DEF lock_type
  <1>2. /\ lock_type["reader"].zero_to_acquire = {"MU_WLOCK", "MU_WRITER_WAITING", "MU_LONG_WAIT"}
        /\ lock_type["reader"].set_when_waiting \in SUBSET {"MU_WAITING", "MU_WRITER_WAITING"}
        /\ lock_type["reader"].clear_on_acquire \in SUBSET {"MU_WRITER_WAITING"}
        /\ lock_type["reader"].clear_on_uncontended_release \in SUBSET {"MU_ALL_FALSE"}
    BY DEF lock_type
  <1> QED BY <1>1, <1>2, Zenon DEF Mode

\* Whatever else a thread may overlook, the lock is free when it acquires it.
LEMMA ZeroFree ==
    ASSUME NEW m \in Mode, NEW drop \in SUBSET {"MU_WRITER_WAITING", "MU_LONG_WAIT"},
           Zero(lock_type[m].zero_to_acquire \ drop)
    PROVE  "MU_WLOCK" \notin word.bits /\ (m = "writer" => word.readers = 0)
  <1>1. "MU_WLOCK" \in lock_type[m].zero_to_acquire \ drop
    BY Masks, Zenon DEF Mode
  <1>2. m = "writer" => "MU_RLOCK_FIELD" \in lock_type[m].zero_to_acquire \ drop
    BY Masks, Zenon
  <1> QED BY <1>1, <1>2, Zenon DEF Zero

----------------------------------------------------------------------------
\* The fields of a waiter struct keep their types.
LEMMA StructFields ==
    ASSUME NEW r \in Struct
    PROVE  /\ \A m \in Mode : [r EXCEPT !.l_type = m] \in Struct
           /\ \A i \in Int : [r EXCEPT !.sem = i] \in Struct
           /\ \A b \in BOOLEAN : /\ [r EXCEPT !.waiting = b] \in Struct
                                 /\ [r EXCEPT !.removed = b] \in Struct
                                 /\ [r EXCEPT !.cond = b] \in Struct
                                 /\ [r EXCEPT !.cv_mu = b] \in Struct
  BY DEF Struct

\* Tokens come and go, here or on a struct of another thread.
LEMMA SemaphoreStep ==
    ASSUME TypeInv
    PROVE  \A w : /\ nsync_mu_semaphore_p(w) => nw' \in [Waiter -> Struct]
                  /\ nsync_mu_semaphore_v(w) \in [Waiter -> Struct]
  <1>1. \A y \in Waiter : /\ nw[y].sem - 1 \in Int
                          /\ (IF nw[y].sem < SemMax THEN nw[y].sem + 1 ELSE nw[y].sem) \in Int
    BY NsyncAssumption DEF TypeInv, Struct
  <1>2. ASSUME NEW w, nsync_mu_semaphore_p(w) PROVE nw' \in [Waiter -> Struct]
    BY <1>1, <1>2, StructFields, Zenon DEF TypeInv, nsync_mu_semaphore_p
  <1>3. ASSUME NEW w PROVE nsync_mu_semaphore_v(w) \in [Waiter -> Struct]
    BY <1>1, StructFields, Zenon DEF TypeInv, nsync_mu_semaphore_v
  <1> QED BY <1>2, <1>3, Zenon

\* What a step of t has to show: it changes the lock, the spinlock and its own
\* place together.
LEMMA Step ==
    ASSUME IInv, NEW t \in Thread, NEW l \in Label, pc' = [pc EXCEPT ![t] = l],
           word' \in Word, WordInv', ScanInv',
           hold' \in [Thread -> Mode \cup {"none"}], mode' \in [Thread -> Mode],
           after' \in [Thread -> Label], nw' \in [Waiter -> Struct],
           \A u \in Thread \ {t} : /\ hold'[u] = hold[u] /\ mode'[u] = mode[u]
                                   /\ after'[u] = after[u] /\ scan'[u] = scan[u],
           pc[t] \in SpinPc \/ l \notin SpinPc \/ SpinFree,
           SpinFree' <=> l \notin SpinPc /\ (SpinFree \/ pc[t] \in SpinPc),
           Place(t)'
    PROVE  IInv'
  <1> USE DEF IInv
  <1>1. TypeInv'
    BY Zenon DEF TypeInv
  <1>2. SpinInv'
    BY SpinChange, Zenon
  <1>3. \A u \in Thread \ {t} : pc'[u] = pc[u]
    BY Zenon DEF TypeInv
  <1>4. PlaceInv'
    BY <1>3, PlaceChange
  <1> QED BY <1>1, <1>2, <1>4

\* A step that leaves the lock and the spinlock alone only has to go to a place
\* that fits what the thread holds.
LEMMA Quiet ==
    ASSUME IInv, NEW t \in Thread, NEW l \in Label, pc[t] \notin SpinPc, l \notin SpinPc,
           pc' = [pc EXCEPT ![t] = l], word' = word, hold' = hold, scan' = scan,
           mode' \in [Thread -> Mode], after' \in [Thread -> Label], nw' \in [Waiter -> Struct],
           \A u \in Thread \ {t} : mode'[u] = mode[u] /\ after'[u] = after[u],
           Place(t)'
    PROVE  IInv'
  <1> USE DEF IInv
  <1>1. WordInv' /\ ScanInv' /\ (SpinFree' <=> SpinFree)
    BY Zenon DEF WordInv, Readers, ScanInv, SpinFree
  <1>2. SpinFree \/ \E u \in Thread : pc[u] \in SpinPc
    BY Zenon DEF SpinInv
  <1> QED BY <1>1, <1>2, Step, Zenon DEF TypeInv

----------------------------------------------------------------------------
\* A thread that locks at once, in either mode.
LEMMA LockFastStep ==
    ASSUME IInv, NEW t \in Thread, NEW m \in Modes, LockFast(t, m)
    PROVE  IInv'
  <1> USE DEF IInv
  <1>1. /\ pc[t] = "idle" /\ hold[t] = "none" /\ Zero(lock_type[m].zero_to_acquire)
        /\ word' = Bits(Add(word, m), {}, lock_type[m].clear_on_acquire)
        /\ hold' = [hold EXCEPT ![t] = m]
        /\ pc' = pc /\ mode' = mode /\ after' = after /\ nw' = nw /\ scan' = scan
    BY Zenon DEF LockFast, local
  <1>2. m \in Mode
    BY NsyncAssumption, Zenon DEF Mode
  <1>3. "MU_WLOCK" \notin word.bits /\ (m = "writer" => word.readers = 0)
    <2>1. Zero(lock_type[m].zero_to_acquire \ {})
      BY <1>1, Zenon DEF Zero
    <2>2. {} \in SUBSET {"MU_WRITER_WAITING", "MU_LONG_WAIT"}
      BY Zenon
    <2> QED BY <1>2, <2>1, <2>2, ZeroFree, Zenon
  <1>4. lock_type[m].clear_on_acquire \in SUBSET {"MU_WRITER_WAITING"}
    BY <1>2, Masks, Zenon
  <1>5. word' \in Word /\ WordInv' /\ (SpinFree' <=> SpinFree)
    BY <1>1, <1>2, <1>3, <1>4, Gain, Zenon DEF Bit
  <1>6. ScanInv' /\ SpinInv'
    BY <1>1, <1>5, Zenon DEF ScanInv, SpinInv
  <1>7. TypeInv'
    BY <1>1, <1>2, <1>5, Zenon DEF TypeInv
  <1>8. Place(t)'
    BY <1>1 DEF Place
  <1>9. PlaceInv'
    BY <1>1, <1>8, PlaceChange DEF TypeInv
  <1> QED BY <1>5, <1>6, <1>7, <1>9

\* A thread in nsync_mu_lock_slow_ gets the lock.
LEMMA AcquireStep ==
    ASSUME IInv, NEW t \in Thread, Acquire(t)
    PROVE  IInv'
  <1> USE DEF IInv
  <1>1. /\ pc[t] = "lock" /\ Zero(zero_to_acquire(t))
        /\ word' = Bits(Add(word, mode[t]), {},
                        clear_bits(t) \cup long_wait(t) \cup lock_type[mode[t]].clear_on_acquire)
        /\ hold' = [hold EXCEPT ![t] = mode[t]] /\ pc' = [pc EXCEPT ![t] = after[t]]
        /\ mode' = mode /\ after' = after /\ nw' = nw /\ scan' = scan
    BY Zenon DEF Acquire, Goto, local
  <1>2. /\ hold[t] = "none" /\ mode[t] \in Mode
        /\ after[t] \in {"idle", "cond_check", "cv_return"}
    BY <1>1 DEF PlaceInv, Place, TypeInv
  <1>3. "MU_WLOCK" \notin word.bits /\ (mode[t] = "writer" => word.readers = 0)
    BY <1>1, <1>2, ZeroFree, Zenon DEF zero_to_acquire
  <1>4. lock_type[mode[t]].clear_on_acquire \in SUBSET {"MU_WRITER_WAITING"}
    BY <1>2, Masks, Zenon
  <1>5. word' \in Word /\ WordInv' /\ (SpinFree' <=> SpinFree)
    <2>1. clear_bits(t) \cup long_wait(t) \cup lock_type[mode[t]].clear_on_acquire
              \in SUBSET {"MU_DESIG_WAKER", "MU_LONG_WAIT", "MU_WRITER_WAITING"}
      BY <1>4 DEF clear_bits, long_wait
    <2> QED BY <1>1, <1>2, <1>3, <2>1, Gain, Zenon DEF Bit
  <1>6. ScanInv'
    BY <1>1, Zenon DEF ScanInv
  <1>7. Place(t)'
    BY <1>1, <1>2 DEF Place, TypeInv
  <1>8. after[t] \in Label /\ after[t] \notin SpinPc /\ pc[t] \notin SpinPc
    BY <1>1, <1>2 DEF Label, SpinPc
  <1>9. SpinFree \/ \E u \in Thread : pc[u] \in SpinPc
    BY Zenon DEF SpinInv
  <1> QED BY <1>1, <1>2, <1>5, <1>6, <1>7, <1>8, <1>9, Step, Zenon DEF TypeInv

\* A thread takes the spinlock to queue itself.
LEMMA QueueSpinStep ==
    ASSUME IInv, NEW t \in Thread, QueueSpin(t)
    PROVE  IInv'
  <1> USE DEF IInv
  <1>1. /\ pc[t] = "lock" /\ SpinFree
        /\ word' = Bits(word, {"MU_SPINLOCK"} \cup long_wait(t) \cup lock_type[mode[t]].set_when_waiting,
                        clear_bits(t) \cup {"MU_ALL_FALSE"})
        /\ pc' = [pc EXCEPT ![t] = "queue"] /\ hold' = hold
        /\ mode' = mode /\ after' = after /\ nw' = nw /\ scan' = scan
    BY Zenon DEF QueueSpin, Goto, local
  <1>2. lock_type[mode[t]].set_when_waiting \in SUBSET {"MU_WAITING", "MU_WRITER_WAITING"}
    BY Masks, Zenon DEF TypeInv
  <1>3. word' \in Word /\ WordInv' /\ ~SpinFree'
    <2>1. /\ clear_bits(t) \cup {"MU_ALL_FALSE"} \in SUBSET {"MU_DESIG_WAKER", "MU_ALL_FALSE"}
          /\ {"MU_SPINLOCK"} \cup long_wait(t) \cup lock_type[mode[t]].set_when_waiting
                \in SUBSET {"MU_SPINLOCK", "MU_LONG_WAIT", "MU_WAITING", "MU_WRITER_WAITING"}
      BY <1>2 DEF clear_bits, long_wait
    <2> QED BY <1>1, <2>1, Mark DEF Bit
  <1>4. ScanInv'
    BY <1>1, Zenon DEF ScanInv
  <1>5. Place(t)'
    BY <1>1 DEF PlaceInv, Place, TypeInv
  <1> QED BY <1>1, <1>3, <1>4, <1>5, Step, Zenon DEF TypeInv, Label, SpinPc

\* The thread queues itself and gives the spinlock up.
LEMMA QueueStep ==
    ASSUME IInv, NEW t \in Thread, Queue(t)
    PROVE  IInv'
  <1> USE DEF IInv
  <1>1. /\ pc[t] = "queue" /\ word' = Bits(word, {}, {"MU_SPINLOCK"})
        /\ nw' = [nw EXCEPT ![me[t]].waiting = TRUE]
        /\ pc' = [pc EXCEPT ![t] = "sleep"] /\ hold' = hold
        /\ mode' = mode /\ after' = after /\ scan' = scan
    BY Zenon DEF Queue, Goto, local
  <1>2. word' \in Word /\ WordInv' /\ SpinFree'
    BY <1>1, Mark DEF Bit
  <1>3. nw' \in [Waiter -> Struct]
    BY <1>1, StructFields, Zenon DEF TypeInv
  <1>4. ScanInv'
    BY <1>1, Zenon DEF ScanInv
  <1>5. Place(t)'
    BY <1>1 DEF PlaceInv, Place, TypeInv
  <1> QED BY <1>1, <1>2, <1>3, <1>4, <1>5, Step, Zenon DEF TypeInv, Label, SpinPc

\* Entering nsync_mu_lock_slow_.
LEMMA EnterSlowStep ==
    ASSUME IInv, NEW t \in Thread, NEW w, NEW m \in Mode, NEW woken,
           NEW l \in {"idle", "cond_check", "cv_return"}, hold[t] = "none", pc[t] \notin SpinPc,
           EnterSlow(t, w, m, woken, l), word' = word, hold' = hold, scan' = scan
    PROVE  IInv'
  <1> USE DEF IInv
  <1>1. /\ pc' = [pc EXCEPT ![t] = "lock"]
        /\ mode' = [mode EXCEPT ![t] = m] /\ after' = [after EXCEPT ![t] = l]
        /\ nw' = [nw EXCEPT ![w].l_type = m, ![w].cond = FALSE, ![w].cv_mu = FALSE]
    BY Zenon DEF EnterSlow, Goto
  <1>2. nw' \in [Waiter -> Struct]
    BY <1>1, StructFields, Zenon DEF TypeInv
  <1>3. /\ mode' \in [Thread -> Mode] /\ after' \in [Thread -> Label]
        /\ \A u \in Thread \ {t} : mode'[u] = mode[u] /\ after'[u] = after[u]
    BY <1>1, Zenon DEF TypeInv, Label
  <1>4. Place(t)'
    BY <1>1 DEF Place, TypeInv
  <1> QED BY <1>1, <1>2, <1>3, <1>4, Quiet, Zenon DEF SpinPc, Label

\* The other steps of locking that leave the word alone.
LEMMA WaitSteps ==
    ASSUME IInv, NEW t \in Thread, (\E m \in Modes : LockSlow(t, m)) \/ Sleep(t) \/ SleepP(t)
    PROVE  IInv'
  <1> USE DEF IInv
  <1>1. ASSUME NEW m \in Modes, LockSlow(t, m) PROVE IInv'
    <2>1. m \in Mode
      BY NsyncAssumption, Zenon DEF Mode
    <2>2. /\ pc[t] = "idle" /\ hold[t] = "none" /\ word' = word /\ hold' = hold /\ scan' = scan
          /\ EnterSlow(t, nsync_waiter_new_(t), m, FALSE, "idle")
      BY <1>1, Zenon DEF LockSlow, mu
    <2> QED BY <2>1, <2>2, EnterSlowStep, Zenon DEF SpinPc
  <1>2. CASE Sleep(t) \/ SleepP(t)
    <2>1. PICK l \in {"sleep", "p", "lock"} :
             /\ pc[t] \in {"sleep", "p"} /\ pc' = [pc EXCEPT ![t] = l]
             /\ word' = word /\ hold' = hold /\ mode' = mode /\ after' = after /\ scan' = scan
             /\ nw' = nw \/ nsync_mu_semaphore_p(me[t])
      BY <1>2, Zenon DEF Sleep, SleepP, Goto, mu, local
    <2>2. nw' \in [Waiter -> Struct]
      BY <2>1, SemaphoreStep, Zenon DEF TypeInv
    <2>3. Place(t)'
      BY <2>1 DEF PlaceInv, Place, TypeInv
    <2> QED BY <2>1, <2>2, <2>3, Quiet, Zenon DEF TypeInv, SpinPc, Label
  <1> QED BY <1>1, <1>2

----------------------------------------------------------------------------
\* The steps of unlocking that leave the word alone.
LEMMA WakeSteps ==
    ASSUME IInv, NEW t \in Thread, UnlockCall(t) \/ WakeStore(t) \/ WakeV(t)
    PROVE  IInv'
  <1> USE DEF IInv
  <1>1. CASE UnlockCall(t)
    <2>1. /\ pc[t] = "idle" /\ hold[t] # "none" /\ pc' = [pc EXCEPT ![t] = "unlock"]
          /\ mode' = [mode EXCEPT ![t] = hold[t]] /\ after' = [after EXCEPT ![t] = "idle"]
          /\ word' = word /\ hold' = hold /\ scan' = scan /\ nw' = nw
      BY <1>1, Zenon DEF UnlockCall, Goto, mu
    <2>2. /\ mode' \in [Thread -> Mode] /\ after' \in [Thread -> Label]
          /\ \A u \in Thread \ {t} : mode'[u] = mode[u] /\ after'[u] = after[u]
      BY <2>1, Zenon DEF TypeInv, Label
    <2>3. Place(t)'
      BY <2>1 DEF Place, TypeInv
    <2> QED BY <2>1, <2>2, <2>3, Quiet, Zenon DEF TypeInv, SpinPc, Label
  <1>2. CASE WakeStore(t) \/ WakeV(t)
    <2>1. PICK l \in {"wake", "v", after[t]} :
             /\ pc[t] \in {"wake", "v"} /\ pc' = [pc EXCEPT ![t] = l]
             /\ word' = word /\ hold' = hold /\ mode' = mode /\ after' = after /\ scan' = scan
             /\ \/ nw' = [nw EXCEPT ![Head(wake[t])].waiting = FALSE]
                \/ nw' = nsync_mu_semaphore_v(Head(wake[t]))
      BY <1>2, Zenon DEF WakeStore, WakeV, Goto, mu, local
    <2>2. nw' \in [Waiter -> Struct]
      <3>1. [nw EXCEPT ![Head(wake[t])].waiting = FALSE] \in [Waiter -> Struct]
        BY StructFields, Zenon DEF TypeInv
      <3> QED BY <2>1, <3>1, SemaphoreStep, Zenon
    <2>3. after[t] \in {"idle", "cond_loop", "cv_loop"} /\ (after[t] # "idle" => hold[t] = "none")
      BY <2>1 DEF PlaceInv, Place
    <2>4. Place(t)'
      BY <2>1, <2>3 DEF Place, TypeInv
    <2> QED BY <2>1, <2>2, <2>3, <2>4, Quiet, Zenon DEF TypeInv, SpinPc, Label
  <1> QED BY <1>1, <1>2

\* A thread unlocks with nobody to wake.
LEMMA ReleaseQuickStep ==
    ASSUME IInv, NEW t \in Thread, ReleaseQuick(t)
    PROVE  IInv'
  <1> USE DEF IInv
  <1>1. /\ pc[t] = "unlock" /\ pc' = [pc EXCEPT ![t] = after[t]]
        /\ word' = Bits(Sub(word, mode[t]), {}, lock_type[mode[t]].clear_on_uncontended_release)
        /\ hold' = [hold EXCEPT ![t] = "none"]
        /\ mode' = mode /\ after' = after /\ nw' = nw /\ scan' = scan
    BY Zenon DEF ReleaseQuick, Goto, local
  <1>2. /\ mode[t] \in Mode /\ hold[t] = mode[t]
        /\ after[t] \in {"idle", "cond_loop", "cv_loop"}
    BY <1>1 DEF PlaceInv, Place, TypeInv
  <1>3. lock_type[mode[t]].clear_on_uncontended_release \in SUBSET {"MU_ALL_FALSE"}
    BY <1>2, Masks, Zenon
  <1>4. word' \in Word /\ WordInv' /\ (SpinFree' <=> SpinFree)
    BY <1>1, <1>2, <1>3, Lose, Zenon DEF Bit
  <1>5. ScanInv'
    BY <1>1, Zenon DEF ScanInv
  <1>6. Place(t)'
    BY <1>1, <1>2 DEF Place, TypeInv
  <1>7. after[t] \in Label /\ after[t] \notin SpinPc /\ pc[t] \notin SpinPc
    BY <1>1, <1>2 DEF Label, SpinPc
  <1>8. SpinFree \/ \E u \in Thread : pc[u] \in SpinPc
    BY Zenon DEF SpinInv
  <1> QED BY <1>1, <1>4, <1>5, <1>6, <1>7, <1>8, Step, Zenon DEF TypeInv

\* The last holder takes the spinlock and the queue; it keeps the lock, as a
\* writer's, only when no other thread has it.
LEMMA TakeStep ==
    ASSUME IInv, NEW t \in Thread, Take(t)
    PROVE  IInv'
  <1> DEFINE testing == "MU_CONDITION" \in word.bits
             m == IF testing THEN "writer" ELSE "none"
             s == [new |-> waiters, kept |-> <<>>, set |-> {"MU_ALL_FALSE"},
                   testing |-> testing, late |-> testing]
  <1>0. TypeInv /\ ScanInv /\ WordInv /\ SpinInv /\ PlaceInv
    BY DEF IInv
  <1>1. /\ pc[t] = "unlock" /\ ~NoneToWake /\ SpinFree
        /\ pc' = [pc EXCEPT ![t] = "scan"] /\ hold' = [hold EXCEPT ![t] = m]
        /\ mode' = mode /\ after' = after /\ nw' = nw
    BY Zenon DEF Take, Goto, local
  <1>2. /\ mode[t] \in Mode /\ hold[t] = mode[t]
        /\ after[t] \in {"idle", "cond_loop", "cv_loop"}
    BY <1>0, <1>1 DEF PlaceInv, Place, TypeInv
  <1>3. word.readers <= 1 /\ (hold[t] = "reader" => word.readers = 1)
    <2>1. hold[t] = "reader" => word.readers # 0
      BY <1>0, FreeWord
    <2> QED BY <1>0, <1>1, <2>1 DEF NoneToWake, TypeInv, Word
  <1>4. /\ word' \in Word
        /\ word'.readers = word.readers - (IF mode[t] = "reader" THEN 1 ELSE 0)
        /\ word'.bits = (IF testing THEN word.bits \cup {"MU_WLOCK"}
                         ELSE IF mode[t] = "writer" THEN word.bits \ {"MU_WLOCK"} ELSE word.bits)
                        \cup {"MU_SPINLOCK", "MU_DESIG_WAKER"}
    <2>1. word' = Bits(IF testing THEN Add(Sub(word, mode[t]), "writer") ELSE Sub(word, mode[t]),
                       {"MU_SPINLOCK", "MU_DESIG_WAKER"}, {})
      BY Zenon DEF Take
    <2> QED BY <1>0, <1>2, <1>3, <2>1 DEF TypeInv, Word, Sub, Add, Bits, Mode, Bit
  <1>5. WordInv'
    <2>1. "MU_WLOCK" \in word'.bits <=>
              m = "writer" \/ ("MU_WLOCK" \in word.bits /\ hold[t] # "writer")
      BY <1>2, <1>4, Zenon DEF Mode
    <2>2. \A u \in Thread \ {t} : hold[u] = "none"
      BY <1>0, <1>2, <1>3, FreeWord DEF Mode
    <2>3. word'.readers = word.readers + (IF m = "reader" THEN 1 ELSE 0)
                                       - (IF hold[t] = "reader" THEN 1 ELSE 0)
      BY <1>0, <1>2, <1>4 DEF TypeInv, Word
    <2>4. m \in Mode \cup {"none"} /\ m # "reader"
      BY Zenon DEF Mode
    <2> HIDE DEF m
    <2> QED BY <1>0, <1>1, <2>1, <2>2, <2>3, <2>4, HoldChange, Zenon
  <1>6. ~SpinFree'
    BY <1>4, Zenon DEF SpinFree
  <1>7. scan' = [scan EXCEPT ![t] = s]
    BY Zenon DEF Take
  <1>8. s.late = testing /\ testing \in BOOLEAN /\ s.set \subseteq Hint
    BY DEF Hint
  <1>9. DOMAIN s = {"new", "kept", "set", "testing", "late"}
    BY Zenon
  <1>10. m = (IF testing THEN "writer" ELSE "none") /\ m \in Mode \cup {"none"}
    BY Zenon DEF Mode
  <1> HIDE DEF s, testing, m
  <1>11. ScanInv' /\ scan'[t].late = testing /\ \A u \in Thread \ {t} : scan'[u] = scan[u]
    BY <1>0, <1>7, <1>8, <1>9, Zenon DEF ScanInv
  <1>12. Place(t)'
    BY <1>0, <1>1, <1>2, <1>10, <1>11 DEF Place, TypeInv
  <1> QED BY <1>0, <1>1, <1>4, <1>5, <1>6, <1>10, <1>11, <1>12, Step, Zenon DEF TypeInv, Label, SpinPc

\* A round over the waiters picked up, with and without conditions to test.
LEMMA ScanStep ==
    ASSUME IInv, NEW t \in Thread, Scan(t)
    PROVE  IInv'
  <1> USE DEF IInv
  <1> DEFINE W == {scan[t].new[i] : i \in Woken(t)}
             left == SelectSeq(scan[t].new, LAMBDA w : w \notin W)
  <1>1. /\ pc[t] = "scan" /\ hold' = hold /\ mode' = mode /\ after' = after
        /\ nw' = [w \in Waiter |-> IF w \in W THEN [nw[w] EXCEPT !.removed = TRUE] ELSE nw[w]]
        /\ \/ /\ word' = Bits(word, {}, {"MU_SPINLOCK"}) /\ pc' = [pc EXCEPT ![t] = "respin"]
              /\ scan' = [scan EXCEPT ![t].new = left, ![t].set = set_on_release(t)]
           \/ /\ word' = word /\ pc' = pc
              /\ scan' = [scan EXCEPT ![t].new = waiters, ![t].kept = @ \o left,
                                      ![t].set = set_on_release(t), ![t].testing = FALSE]
    BY Zenon DEF Scan, Goto, local
  <1>2. set_on_release(t) \subseteq Hint
    BY DEF set_on_release, ScanInv, Hint
  <1> HIDE DEF left, W
  <1>3. nw' \in [Waiter -> Struct]
    BY <1>1, StructFields, Zenon DEF TypeInv
  <1>4. ScanInv' /\ scan'[t].late = scan[t].late /\ \A u \in Thread \ {t} : scan'[u] = scan[u]
    <2>1. CASE scan' = [scan EXCEPT ![t].new = left, ![t].set = set_on_release(t)]
      BY <1>2, <2>1, Zenon DEF ScanInv
    <2>2. CASE scan' = [scan EXCEPT ![t].new = waiters, ![t].kept = @ \o left,
                                    ![t].set = set_on_release(t), ![t].testing = FALSE]
      BY <1>2, <2>2, Zenon DEF ScanInv
    <2> QED BY <1>1, <2>1, <2>2, Zenon
  <1>5. CASE word' = Bits(word, {}, {"MU_SPINLOCK"}) /\ pc' = [pc EXCEPT ![t] = "respin"]
    <2>1. word' \in Word /\ WordInv' /\ SpinFree'
      BY <1>1, <1>5, Mark, Zenon DEF Bit
    <2>2. Place(t)'
      BY <1>1, <1>4, <1>5 DEF PlaceInv, Place, TypeInv
    <2> QED BY <1>1, <1>3, <1>4, <1>5, <2>1, <2>2, Step, Zenon DEF TypeInv, Label, SpinPc
  <1>6. CASE word' = word /\ pc' = pc
    <2>1. TypeInv' /\ WordInv' /\ SpinInv'
      BY <1>1, <1>3, <1>6, Zenon DEF TypeInv, WordInv, Readers, SpinInv, SpinFree
    <2>2. Place(t)'
      BY <1>1, <1>4, <1>6 DEF PlaceInv, Place
    <2>3. PlaceInv'
      BY <1>1, <1>4, <1>6, <2>2, PlaceChange
    <2> QED BY <1>4, <2>1, <2>3
  <1> QED BY <1>1, <1>5, <1>6, Zenon

\* The spinlock is taken again after conditions were tested.
LEMMA RespinStep ==
    ASSUME IInv, NEW t \in Thread, Respin(t)
    PROVE  IInv'
  <1> USE DEF IInv
  <1>1. /\ pc[t] = "respin" /\ SpinFree /\ word' = Bits(word, {"MU_SPINLOCK"}, {})
        /\ scan' = [scan EXCEPT ![t].kept = @ \o scan[t].new, ![t].new = waiters]
        /\ pc' = [pc EXCEPT ![t] = "scan"] /\ hold' = hold /\ mode' = mode /\ after' = after
        /\ nw' = nw
    BY Zenon DEF Respin, Goto, local
  <1>2. word' \in Word /\ WordInv' /\ ~SpinFree'
    BY <1>1, Mark DEF Bit
  <1>3. ScanInv' /\ scan'[t].late = scan[t].late /\ \A u \in Thread \ {t} : scan'[u] = scan[u]
    <2>1. PICK kept : scan' = [scan EXCEPT ![t].kept = kept, ![t].new = waiters]
      BY <1>1, Zenon
    <2> QED BY <2>1, Zenon DEF ScanInv
  <1>4. Place(t)'
    BY <1>1, <1>3 DEF PlaceInv, Place, TypeInv
  <1> QED BY <1>1, <1>2, <1>3, <1>4, Step, Zenon DEF TypeInv, Label, SpinPc

\* The scan is over: the spinlock goes, and the lock that was kept to test conditions.
LEMMA FinishStep ==
    ASSUME IInv, NEW t \in Thread, Finish(t)
    PROVE  IInv'
  <1> USE DEF IInv
  <1>1. /\ pc[t] = "scan" /\ hold' = [hold EXCEPT ![t] = "none"]
        /\ word' = Bits(IF scan[t].late THEN Sub(word, "writer") ELSE word,
                        scan[t].set, clear_on_release(t))
        /\ scan' = [scan EXCEPT ![t] = NoScan] /\ mode' = mode /\ after' = after /\ nw' = nw
    BY Zenon DEF Finish, local
  <1>2. PICK l \in {after[t], "wake"} : pc' = [pc EXCEPT ![t] = l]
    BY Zenon DEF Finish, Goto
  <1>3. /\ hold[t] = IF scan[t].late THEN "writer" ELSE "none"
        /\ after[t] \in {"idle", "cond_loop", "cv_loop"}
        /\ scan[t].set \subseteq Hint /\ scan[t].late \in BOOLEAN
    BY <1>1 DEF PlaceInv, Place, ScanInv
  <1>4. /\ "MU_SPINLOCK" \in clear_on_release(t) /\ "MU_WLOCK" \notin clear_on_release(t)
        /\ clear_on_release(t) \subseteq Bit
    BY DEF clear_on_release, Bit
  <1>5. /\ word' \in Word /\ word'.readers = word.readers
        /\ word'.bits = ((IF scan[t].late THEN word.bits \ {"MU_WLOCK"} ELSE word.bits)
                            \cup scan[t].set) \ clear_on_release(t)
    BY <1>1, <1>3 DEF TypeInv, Word, Sub, Bits, Bit, Hint
  <1>6. WordInv'
    <2>1. "MU_WLOCK" \notin Hint
      BY DEF Hint
    <2>2. "MU_WLOCK" \in word'.bits <=> "MU_WLOCK" \in word.bits /\ hold[t] # "writer"
      BY <1>3, <1>4, <1>5, <2>1, Zenon
    <2>3. word'.readers = word.readers + (IF "none" = "reader" THEN 1 ELSE 0)
                                       - (IF hold[t] = "reader" THEN 1 ELSE 0)
      BY <1>3, <1>5 DEF TypeInv, Word
    <2> QED BY <1>1, <2>2, <2>3, HoldChange, Zenon
  <1>7. SpinFree'
    BY <1>4, <1>5, Zenon DEF SpinFree
  <1>8. ScanInv'
    BY <1>1, Zenon DEF ScanInv, NoScan
  <1>9. Place(t)'
    BY <1>1, <1>2, <1>3 DEF Place, TypeInv
  <1>10. l \in Label /\ l \notin SpinPc /\ pc[t] \in SpinPc
    BY <1>1, <1>2, <1>3 DEF Label, SpinPc
  <1>11. \A u \in Thread \ {t} : scan'[u] = scan[u]
    BY <1>1, Zenon DEF ScanInv
  <1> QED BY <1>1, <1>2, <1>5, <1>6, <1>7, <1>8, <1>9, <1>10, <1>11, Step, Zenon DEF TypeInv

----------------------------------------------------------------------------
\* nsync_mu_wait prepares its struct.
LEMMA PrepareStep ==
    ASSUME IInv, NEW t \in Thread, NEW first, hold[t] \in Mode, pc[t] \notin SpinPc,
           Prepare(t, hold[t], first), mode' \in [Thread -> Mode], mode'[t] = hold[t],
           \A u \in Thread \ {t} : mode'[u] = mode[u],
           after' = [after EXCEPT ![t] = "cond_loop"], word' = word, hold' = hold, scan' = scan
    PROVE  IInv'
  <1> USE DEF IInv
  <1>1. /\ pc' = [pc EXCEPT ![t] = "cond_spin"]
        /\ nw' = [nw EXCEPT ![t] = [@ EXCEPT !.waiting = TRUE, !.removed = FALSE, !.l_type = hold[t],
                                             !.cond = TRUE, !.cv_mu = FALSE]]
    BY Zenon DEF Prepare, Goto
  <1>2. nw' \in [Waiter -> Struct]
    BY <1>1, StructFields, Zenon DEF TypeInv
  <1>3. /\ after' \in [Thread -> Label] /\ \A u \in Thread \ {t} : after'[u] = after[u]
    BY Zenon DEF TypeInv, Label
  <1>4. Place(t)'
    BY <1>1 DEF Place, TypeInv
  <1> QED BY <1>1, <1>2, <1>3, <1>4, Quiet, Zenon DEF SpinPc, Label

LEMMA CondCallStep ==
    ASSUME IInv, NEW t \in Thread, CondCall(t)
    PROVE  IInv'
  <1> USE DEF IInv
  <1>1. /\ pc[t] = "idle" /\ hold[t] \in CondModes /\ Prepare(t, hold[t], TRUE)
        /\ mode' = [mode EXCEPT ![t] = hold[t]] /\ after' = [after EXCEPT ![t] = "cond_loop"]
        /\ word' = word /\ hold' = hold /\ scan' = scan
    BY Zenon DEF CondCall, mu
  <1>2. hold[t] \in Mode
    BY <1>1, NsyncAssumption, Zenon DEF Mode
  <1>3. /\ mode' \in [Thread -> Mode] /\ mode'[t] = hold[t]
        /\ \A u \in Thread \ {t} : mode'[u] = mode[u]
    BY <1>1, <1>2, Zenon DEF TypeInv
  <1> QED BY <1>1, <1>2, <1>3, PrepareStep, Zenon DEF SpinPc

\* With the lock again: return, or wait once more.
LEMMA CondCheckStep ==
    ASSUME IInv, NEW t \in Thread, CondCheck(t)
    PROVE  IInv'
  <1> USE DEF IInv
  <1>1. /\ pc[t] = "cond_check" /\ mode' = mode /\ word' = word /\ hold' = hold /\ scan' = scan
        /\ \/ pc' = [pc EXCEPT ![t] = "idle"] /\ nw' = nw /\ after' = after
           \/ after' = [after EXCEPT ![t] = "cond_loop"] /\ Prepare(t, mode[t], FALSE)
    BY Zenon DEF CondCheck, Goto, mu
  <1>2. hold[t] = mode[t] /\ mode[t] \in Mode
    BY <1>1, Zenon DEF PlaceInv, Place, TypeInv
  <1>3. CASE pc' = [pc EXCEPT ![t] = "idle"] /\ nw' = nw /\ after' = after
    <2>1. Place(t)'
      BY <1>3 DEF Place, TypeInv
    <2> QED BY <1>1, <1>3, <2>1, Quiet, Zenon DEF TypeInv, SpinPc, Label
  <1>4. CASE after' = [after EXCEPT ![t] = "cond_loop"] /\ Prepare(t, mode[t], FALSE)
    BY <1>1, <1>2, <1>4, PrepareStep, Zenon DEF TypeInv, SpinPc
  <1> QED BY <1>1, <1>3, <1>4, Zenon

\* nsync_mu_wait queues its struct, and then releases the lock, or leaves that to
\* nsync_mu_unlock_slow_.
LEMMA CondSpinStep ==
    ASSUME IInv, NEW t \in Thread, CondSpin(t)
    PROVE  IInv'
  <1> USE DEF IInv
  <1>1. /\ pc[t] = "cond_spin" /\ SpinFree
        /\ word' = Bits(word, {"MU_SPINLOCK", "MU_WAITING", "MU_CONDITION"}, {"MU_ALL_FALSE"})
        /\ pc' = [pc EXCEPT ![t] = "cond_release"] /\ hold' = hold
        /\ mode' = mode /\ after' = after /\ nw' = nw /\ scan' = scan
    BY Zenon DEF CondSpin, Goto, local
  <1>2. word' \in Word /\ WordInv' /\ ~SpinFree'
    BY <1>1, Mark DEF Bit
  <1>3. ScanInv'
    BY <1>1, Zenon DEF ScanInv
  <1>4. Place(t)'
    BY <1>1 DEF PlaceInv, Place, TypeInv
  <1> QED BY <1>1, <1>2, <1>3, <1>4, Step, Zenon DEF TypeInv, Label, SpinPc

LEMMA CondReleaseStep ==
    ASSUME IInv, NEW t \in Thread, CondRelease(t)
    PROVE  IInv'
  <1> USE DEF IInv
  <1>1. /\ pc[t] = "cond_release"
        /\ \/ /\ word' = Bits(word, {}, {"MU_SPINLOCK"}) /\ hold' = hold
              /\ pc' = [pc EXCEPT ![t] = "unlock"]
           \/ /\ word' = Bits(Sub(word, mode[t]), {}, {"MU_SPINLOCK"})
              /\ hold' = [hold EXCEPT ![t] = "none"] /\ pc' = [pc EXCEPT ![t] = "cond_loop"]
        /\ mode' = mode /\ after' = after /\ nw' = nw /\ scan' = scan
    BY Zenon DEF CondRelease, Goto, local
  <1>2. mode[t] \in Mode /\ hold[t] = mode[t] /\ after[t] = "cond_loop"
    BY <1>1 DEF PlaceInv, Place, TypeInv
  <1>3. ScanInv'
    BY <1>1, Zenon DEF ScanInv
  <1>4. CASE /\ word' = Bits(word, {}, {"MU_SPINLOCK"}) /\ hold' = hold
             /\ pc' = [pc EXCEPT ![t] = "unlock"]
    <2>1. word' \in Word /\ WordInv' /\ SpinFree'
      BY <1>4, Mark, Zenon DEF Bit
    <2>2. Place(t)'
      BY <1>1, <1>2, <1>4 DEF Place, TypeInv
    <2> QED BY <1>1, <1>3, <1>4, <2>1, <2>2, Step, Zenon DEF TypeInv, Label, SpinPc
  <1>5. CASE /\ word' = Bits(Sub(word, mode[t]), {}, {"MU_SPINLOCK"})
             /\ hold' = [hold EXCEPT ![t] = "none"] /\ pc' = [pc EXCEPT ![t] = "cond_loop"]
    <2>1. word' \in Word /\ WordInv' /\ SpinFree'
      BY <1>2, <1>5, Lose, Zenon DEF Bit
    <2>2. Place(t)'
      BY <1>1, <1>2, <1>5 DEF Place, TypeInv
    <2> QED BY <1>1, <1>3, <1>5, <2>1, <2>2, Step, Zenon DEF TypeInv, Label, SpinPc
  <1> QED BY <1>1, <1>4, <1>5, Zenon

\* Asleep in nsync_mu_wait, until woken or timed out.
LEMMA CondSleepSteps ==
    ASSUME IInv, NEW t \in Thread, CondLoop(t) \/ CondP(t) \/ CondTimeout(t)
    PROVE  IInv'
  <1> USE DEF IInv
  <1>1. CASE CondLoop(t) /\ ~nw[t].waiting
    <2>1. /\ pc[t] = "cond_loop" /\ EnterSlow(t, t, mode[t], TRUE, "cond_check")
          /\ word' = word /\ hold' = hold /\ scan' = scan
      BY <1>1, Zenon DEF CondLoop, mu
    <2>2. hold[t] = "none" /\ mode[t] \in Mode
      BY <2>1, Zenon DEF PlaceInv, Place, TypeInv
    <2> QED BY <2>1, <2>2, EnterSlowStep, Zenon DEF SpinPc
  <1>2. CASE (CondLoop(t) /\ nw[t].waiting) \/ CondP(t) \/ CondTimeout(t)
    <2>1. PICK l \in {"cond_loop", "cond_p", "cond_try"} :
             /\ pc[t] \in {"cond_loop", "cond_p"} /\ pc' = [pc EXCEPT ![t] = l]
             /\ word' = word /\ hold' = hold /\ mode' = mode /\ after' = after /\ scan' = scan
             /\ nw' = nw \/ nsync_mu_semaphore_p(t)
      BY <1>2, Zenon DEF CondLoop, CondP, CondTimeout, Goto, mu, local
    <2>2. nw' \in [Waiter -> Struct]
      BY <2>1, SemaphoreStep, Zenon DEF TypeInv
    <2>3. Place(t)'
      BY <2>1 DEF PlaceInv, Place, TypeInv
    <2> QED BY <2>1, <2>2, <2>3, Quiet, Zenon DEF TypeInv, SpinPc, Label
  <1> QED BY <1>1, <1>2, Zenon

\* A timeout asks readers to stay out, and then finds the lock free.
LEMMA TryMarkStep ==
    ASSUME IInv, NEW t \in Thread, TryMark(t)
    PROVE  IInv'
  <1> USE DEF IInv
  <1>1. /\ word' = Bits(word, {"MU_WRITER_WAITING"}, {}) /\ hold' = hold /\ pc' = pc
        /\ mode' = mode /\ after' = after /\ nw' = nw /\ scan' = scan
    BY Zenon DEF TryMark, local
  <1>2. word' \in Word /\ WordInv' /\ (SpinFree' <=> SpinFree)
    BY <1>1, Mark DEF Bit
  <1>3. TypeInv' /\ ScanInv' /\ SpinInv'
    BY <1>1, <1>2, Zenon DEF TypeInv, ScanInv, SpinInv
  <1>4. PlaceInv'
    BY <1>1, Zenon DEF PlaceInv, Place
  <1> QED BY <1>2, <1>3, <1>4

LEMMA TryConfirmStep ==
    ASSUME IInv, NEW t \in Thread, TryConfirm(t)
    PROVE  IInv'
  <1> USE DEF IInv
  <1>1. /\ pc[t] = "cond_try" /\ TryZero /\ mode' = mode /\ after' = after /\ scan' = scan
        /\ \/ /\ nw' = [nw EXCEPT ![t].waiting = FALSE, ![t].removed = TRUE]
              /\ word' = Add(word, mode[t]) /\ hold' = [hold EXCEPT ![t] = mode[t]]
              /\ pc' = [pc EXCEPT ![t] = "cond_check"]
           \/ /\ pc' = [pc EXCEPT ![t] = "cond_loop"]
              /\ word' = word /\ nw' = nw /\ hold' = hold
    BY Zenon DEF TryConfirm, Goto, mu, local
  <1>2. mode[t] \in Mode /\ hold[t] = "none"
    BY <1>1 DEF PlaceInv, Place, TypeInv
  <1>3. CASE /\ nw' = [nw EXCEPT ![t].waiting = FALSE, ![t].removed = TRUE]
             /\ word' = Add(word, mode[t]) /\ hold' = [hold EXCEPT ![t] = mode[t]]
             /\ pc' = [pc EXCEPT ![t] = "cond_check"]
    <2>1. "MU_WLOCK" \notin word.bits /\ word.readers = 0
      BY <1>1 DEF TryZero, Zero, lock_type
    <2>2. Add(word, mode[t]) = Bits(Add(word, mode[t]), {}, {})
      BY <1>2, Zenon DEF TypeInv, Word, Add, Bits, Mode
    <2>3. word' \in Word /\ WordInv' /\ (SpinFree' <=> SpinFree)
      BY <1>2, <1>3, <2>1, <2>2, Gain, Zenon DEF Bit
    <2>4. nw' \in [Waiter -> Struct]
      BY <1>3, StructFields, Zenon DEF TypeInv
    <2>5. ScanInv'
      BY <1>1, Zenon DEF ScanInv
    <2>6. Place(t)'
      BY <1>1, <1>2, <1>3 DEF Place, TypeInv
    <2>7. SpinFree \/ \E u \in Thread : pc[u] \in SpinPc
      BY Zenon DEF SpinInv
    <2> QED BY <1>1, <1>2, <1>3, <2>3, <2>4, <2>5, <2>6, <2>7, Step, Zenon DEF TypeInv, Label, SpinPc
  <1>4. CASE /\ pc' = [pc EXCEPT ![t] = "cond_loop"]
             /\ word' = word /\ nw' = nw /\ hold' = hold
    <2>1. Place(t)'
      BY <1>1, <1>2, <1>4 DEF Place, TypeInv
    <2> QED BY <1>1, <1>4, <2>1, Quiet, Zenon DEF TypeInv, SpinPc, Label
  <1> QED BY <1>1, <1>3, <1>4, Zenon

\* The client's writes, and steps that change nothing.
LEMMA IdleStep ==
    ASSUME IInv, word' = word, nw' = nw, pc' = pc, hold' = hold, mode' = mode, after' = after,
           scan' = scan
    PROVE  IInv'
  <1> USE DEF IInv
  <1>1. TypeInv' /\ ScanInv'
    BY Zenon DEF TypeInv, ScanInv
  <1>2. WordInv' /\ SpinInv'
    BY Zenon DEF WordInv, Readers, SpinInv, SpinFree
  <1>3. PlaceInv'
    BY Zenon DEF PlaceInv, Place
  <1> QED BY <1>1, <1>2, <1>3

----------------------------------------------------------------------------
\* Waiting on the condition variable, up to the call of nsync_mu_unlock.
LEMMA CvWaitStep ==
    ASSUME IInv, NEW t \in Thread, CvWait(t)
    PROVE  IInv'
  <1> USE DEF IInv
  <1>1. /\ pc[t] = "idle" /\ hold[t] # "none" /\ pc' = [pc EXCEPT ![t] = "unlock"]
        /\ nw' = [nw EXCEPT ![t] = [@ EXCEPT !.waiting = TRUE, !.removed = FALSE, !.l_type = hold[t],
                                             !.cond = FALSE, !.cv_mu = TRUE]]
        /\ mode' = [mode EXCEPT ![t] = hold[t]] /\ after' = [after EXCEPT ![t] = "cv_loop"]
        /\ word' = word /\ hold' = hold /\ scan' = scan
    BY Zenon DEF CvWait, Goto, mu
  <1>2. hold[t] \in Mode
    BY <1>1, Zenon DEF TypeInv
  <1>3. nw' \in [Waiter -> Struct]
    BY <1>1, <1>2, StructFields, Zenon DEF TypeInv
  <1>4. /\ mode' \in [Thread -> Mode] /\ after' \in [Thread -> Label]
        /\ \A u \in Thread \ {t} : mode'[u] = mode[u] /\ after'[u] = after[u]
    BY <1>1, <1>2, Zenon DEF TypeInv, Label
  <1>5. Place(t)'
    BY <1>1 DEF Place, TypeInv
  <1> QED BY <1>1, <1>3, <1>4, <1>5, Quiet, Zenon DEF SpinPc, Label

\* Asleep on the condition variable, until woken or timed out.
LEMMA CvSleepSteps ==
    ASSUME IInv, NEW t \in Thread, CvSleep(t) \/ CvP(t) \/ CvTimeout(t) \/ CvConfirm(t)
    PROVE  IInv'
  <1> USE DEF IInv
  <1>1. PICK l \in {"cv_loop", "cv_p"} :
           /\ pc[t] \in {"cv_loop", "cv_p"} /\ pc' = [pc EXCEPT ![t] = l]
           /\ word' = word /\ hold' = hold /\ mode' = mode /\ after' = after /\ scan' = scan
           /\ \/ nw' = nw \/ nsync_mu_semaphore_p(t)
              \/ nw' = [nw EXCEPT ![t].waiting = FALSE, ![t].removed = TRUE]
    <2>1. pc[t] = "cv_loop" => pc = [pc EXCEPT ![t] = "cv_loop"]
      BY DEF TypeInv
    <2> QED BY <2>1, Zenon DEF CvSleep, CvP, CvTimeout, CvConfirm, Goto, mu, local
  <1>2. nw' \in [Waiter -> Struct]
    <2>1. [nw EXCEPT ![t].waiting = FALSE, ![t].removed = TRUE] \in [Waiter -> Struct]
      BY StructFields, Zenon DEF TypeInv
    <2> QED BY <1>1, <2>1, SemaphoreStep, Zenon DEF TypeInv
  <1>3. Place(t)'
    BY <1>1 DEF PlaceInv, Place, TypeInv
  <1> QED BY <1>1, <1>2, <1>3, Quiet, Zenon DEF TypeInv, SpinPc, Label

\* The wait is over, and the thread locks again.
LEMMA CvRelockSteps ==
    ASSUME IInv, NEW t \in Thread, CvRequeued(t) \/ CvRelock(t)
    PROVE  IInv'
  <1> USE DEF IInv
  <1>1. pc[t] = "cv_loop"
    BY Zenon DEF CvRequeued, CvRelock
  <1>2. hold[t] = "none" /\ mode[t] \in Mode /\ pc[t] \notin SpinPc
    BY <1>1, Zenon DEF PlaceInv, Place, TypeInv, SpinPc
  <1>3. CASE CvRequeued(t)
    <2>1. EnterSlow(t, t, nw[t].l_type, TRUE, "cv_return") /\ word' = word /\ hold' = hold /\ scan' = scan
      BY <1>3, Zenon DEF CvRequeued, mu
    <2>2. nw[t].l_type \in Mode
      BY DEF TypeInv, Waiter, Struct
    <2> QED BY <1>2, <2>1, <2>2, EnterSlowStep, Zenon
  <1>4. CASE CvRelock(t) /\ ~Zero(lock_type[mode[t]].zero_to_acquire)
    <2>1. /\ EnterSlow(t, nsync_waiter_new_(t), mode[t], FALSE, "cv_return")
          /\ word' = word /\ hold' = hold /\ scan' = scan
      BY <1>4, Zenon DEF CvRelock
    <2> QED BY <1>2, <2>1, EnterSlowStep, Zenon
  <1>5. CASE CvRelock(t) /\ Zero(lock_type[mode[t]].zero_to_acquire)
    <2>1. /\ word' = Bits(Add(word, mode[t]), {}, lock_type[mode[t]].clear_on_acquire)
          /\ hold' = [hold EXCEPT ![t] = mode[t]] /\ pc' = [pc EXCEPT ![t] = "cv_return"]
          /\ nw' = nw /\ mode' = mode /\ after' = after /\ scan' = scan
      BY <1>5, Zenon DEF CvRelock, Goto, local
    <2>2. "MU_WLOCK" \notin word.bits /\ (mode[t] = "writer" => word.readers = 0)
      <3>1. Zero(lock_type[mode[t]].zero_to_acquire \ {})
        BY <1>5, Zenon DEF Zero
      <3>2. {} \in SUBSET {"MU_WRITER_WAITING", "MU_LONG_WAIT"}
        BY Zenon
      <3> QED BY <1>2, <3>1, <3>2, ZeroFree, Zenon
    <2>3. lock_type[mode[t]].clear_on_acquire \in SUBSET {"MU_WRITER_WAITING"}
      BY <1>2, Masks, Zenon
    <2>4. word' \in Word /\ WordInv' /\ (SpinFree' <=> SpinFree)
      BY <1>2, <2>1, <2>2, <2>3, Gain, Zenon DEF Bit
    <2>5. ScanInv'
      BY <2>1, Zenon DEF ScanInv
    <2>6. Place(t)'
      BY <2>1 DEF Place, TypeInv
    <2>7. SpinFree \/ \E u \in Thread : pc[u] \in SpinPc
      BY Zenon DEF SpinInv
    <2> QED BY <1>2, <2>1, <2>4, <2>5, <2>6, <2>7, Step, Zenon DEF TypeInv, Label, SpinPc
  <1> QED BY <1>3, <1>4, <1>5, Zenon

\* A wakeup takes waiters from the condition variable; waiters return from it.
LEMMA CvWakeSteps ==
    ASSUME IInv, NEW t \in Thread,
           CvReturn(t) \/ nsync_cv_signal(t) \/ nsync_cv_broadcast(t) \/ NoTransfer(t)
    PROVE  IInv'
  <1> USE DEF IInv
  <1>1. CASE nsync_cv_signal(t) \/ nsync_cv_broadcast(t)
    <2>1. PICK W : Dequeue(t, W)
      BY <1>1, Zenon DEF nsync_cv_signal, nsync_cv_broadcast
    <2>2. /\ pc[t] = "idle" /\ pc' = [pc EXCEPT ![t] = "transfer"]
          /\ nw' = [w \in Waiter |-> IF w \in W THEN [nw[w] EXCEPT !.removed = TRUE] ELSE nw[w]]
          /\ after' = [after EXCEPT ![t] = "idle"]
          /\ word' = word /\ hold' = hold /\ mode' = mode /\ scan' = scan
      BY <2>1, Zenon DEF Dequeue, Goto, mu
    <2>3. nw' \in [Waiter -> Struct]
      BY <2>2, StructFields, Zenon DEF TypeInv
    <2>4. after' \in [Thread -> Label] /\ \A u \in Thread \ {t} : after'[u] = after[u]
      BY <2>2, Zenon DEF TypeInv, Label
    <2>5. Place(t)'
      BY <2>2 DEF Place, TypeInv
    <2> QED BY <2>2, <2>3, <2>4, <2>5, Quiet, Zenon DEF TypeInv, SpinPc, Label
  <1>2. CASE CvReturn(t) \/ NoTransfer(t)
    <2>1. PICK l \in {"idle", "wake"} :
             /\ pc[t] = (IF l = "idle" THEN "cv_return" ELSE "transfer")
             /\ pc' = [pc EXCEPT ![t] = l] /\ word' = word /\ hold' = hold /\ mode' = mode
             /\ after' = after /\ scan' = scan /\ nw' = nw
      BY <1>2, Zenon DEF CvReturn, NoTransfer, Goto, mu, local
    <2>2. Place(t)'
      BY <2>1 DEF PlaceInv, Place, TypeInv
    <2> QED BY <2>1, <2>2, Quiet, Zenon DEF TypeInv, SpinPc, Label
  <1> QED BY <1>1, <1>2

\* wake_waiters moves waiters to the queue of the lock under its spinlock.
LEMMA TransferSteps ==
    ASSUME IInv, NEW t \in Thread, Transfer(t) \/ TransferEnd(t)
    PROVE  IInv'
  <1> USE DEF IInv
  <1>1. CASE Transfer(t)
    <2>1. /\ pc[t] = "transfer" /\ SpinFree /\ pc' = [pc EXCEPT ![t] = "xfer"]
          /\ word' = Bits(word, {"MU_SPINLOCK", "MU_WAITING"}, {"MU_ALL_FALSE"})
          /\ nw' = [w \in Waiter |-> IF w \in Moved(t) THEN [nw[w] EXCEPT !.cv_mu = FALSE] ELSE nw[w]]
          /\ hold' = hold /\ mode' = mode /\ after' = after /\ scan' = scan
      BY <1>1, Zenon DEF Transfer, ShouldTransfer, Goto, local
    <2>2. word' \in Word /\ WordInv' /\ ~SpinFree'
      <3>1. /\ {"MU_SPINLOCK", "MU_WAITING"} \in SUBSET Bit /\ {"MU_ALL_FALSE"} \in SUBSET Bit
            /\ "MU_WLOCK" \notin {"MU_SPINLOCK", "MU_WAITING"} /\ "MU_WLOCK" \notin {"MU_ALL_FALSE"}
            /\ "MU_SPINLOCK" \in {"MU_SPINLOCK", "MU_WAITING"} /\ "MU_SPINLOCK" \notin {"MU_ALL_FALSE"}
        BY DEF Bit
      <3> QED BY <2>1, <3>1, Mark, Zenon
    <2>3. nw' \in [Waiter -> Struct]
      BY <2>1, StructFields, Zenon DEF TypeInv
    <2>4. ScanInv'
      BY <2>1, Zenon DEF ScanInv
    <2>5. Place(t)'
      BY <2>1 DEF PlaceInv, Place, TypeInv
    <2> QED BY <2>1, <2>2, <2>3, <2>4, <2>5, Step, Zenon DEF TypeInv, Label, SpinPc
  <1>2. CASE TransferEnd(t)
    <2>1. /\ pc[t] = "xfer"
          /\ word' = Bits(word, IF claim[t] THEN {"MU_WRITER_WAITING"} ELSE {}, {"MU_SPINLOCK"})
          /\ hold' = hold /\ mode' = mode /\ after' = after /\ scan' = scan /\ nw' = nw
      BY <1>2, Zenon DEF TransferEnd, local
    <2>2. PICK l \in {after[t], "wake"} : pc' = [pc EXCEPT ![t] = l]
      BY <1>2, Zenon DEF TransferEnd, Goto
    <2>3. after[t] = "idle"
      BY <2>1, Zenon DEF PlaceInv, Place
    <2>4. word' \in Word /\ WordInv' /\ SpinFree'
      <3>1. (IF claim[t] THEN {"MU_WRITER_WAITING"} ELSE {}) \in SUBSET {"MU_WRITER_WAITING"}
        BY Zenon
      <3> QED BY <2>1, <3>1, Mark, Zenon DEF Bit
    <2>5. ScanInv'
      BY <2>1, Zenon DEF ScanInv
    <2>6. Place(t)'
      BY <2>1, <2>2, <2>3 DEF PlaceInv, Place, TypeInv
    <2> QED BY <2>1, <2>2, <2>3, <2>4, <2>5, <2>6, Step, Zenon DEF TypeInv, Label, SpinPc
  <1> QED BY <1>1, <1>2

----------------------------------------------------------------------------
LEMMA InitLemma == Init => IInv
  <1> SUFFICES ASSUME Init PROVE IInv
    OBVIOUS
  <1> USE DEF Init
  <1>1. TypeInv
    BY DEF TypeInv, Word, Label, Mode, Struct
  <1>2. ScanInv
    BY Zenon DEF ScanInv, NoScan
  <1>3. Readers = {} /\ Cardinality({}) = 0
    BY FS_EmptySet, Zenon DEF Readers
  <1>4. WordInv
    BY <1>3 DEF WordInv
  <1>5. SpinInv /\ PlaceInv
    BY DEF SpinInv, SpinFree, SpinPc, PlaceInv, Place
  <1> QED BY <1>1, <1>2, <1>4, <1>5 DEF IInv

LEMMA LockLemma ==
    ASSUME IInv, NEW t \in Thread, LockStep(t) \/ LockCall(t)
    PROVE  IInv'
  BY LockFastStep, AcquireStep, QueueSpinStep, QueueStep, WaitSteps, WakeSteps, ReleaseQuickStep,
     TakeStep, ScanStep, RespinStep, FinishStep, Zenon DEF LockStep, LockCall

LEMMA NextLemma == IInv /\ [Next]_vars => IInv'
  <1>1. ASSUME IInv, NEW t \in Thread, CondStep(t) PROVE IInv'
    <2>1. CASE Write(t)
      <3>1. /\ word' = word /\ nw' = nw /\ pc' = pc /\ hold' = hold /\ mode' = mode
            /\ after' = after /\ scan' = scan
        BY <2>1, Zenon DEF Write, mu, local
      <3> QED BY <1>1, <3>1, IdleStep, Zenon
    <2> QED BY <1>1, <2>1, CondCallStep, CondSpinStep, CondReleaseStep, CondSleepSteps, TryMarkStep,
               TryConfirmStep, CondCheckStep, Zenon DEF CondStep
  <1>2. ASSUME IInv, UNCHANGED vars PROVE IInv'
    BY <1>2, IdleStep, Zenon DEF vars
  <1> QED BY <1>1, <1>2, LockLemma, Zenon DEF Next

LEMMA CvNextLemma == IInv /\ [CvNext]_cvars => IInv'
  <1>1. ASSUME IInv, NEW t \in Thread, CvStep(t) PROVE IInv'
    BY <1>1, CvWaitStep, CvSleepSteps, CvRelockSteps, CvWakeSteps, TransferSteps, Zenon DEF CvStep
  <1>2. ASSUME IInv, UNCHANGED cvars PROVE IInv'
    BY <1>2, IdleStep, Zenon DEF cvars, vars
  <1> QED BY <1>1, <1>2, LockLemma, Zenon DEF CvNext

\* At most one thread: the set has as many elements as it has to.
LEMMA AtMostOne ==
    ASSUME NEW X, \A x, y \in X : x = y
    PROVE  Cardinality(X) = IF X = {} THEN 0 ELSE 1
  <1>1. CASE X = {}
    BY <1>1, FS_EmptySet
  <1>2. CASE X # {}
    <2>1. PICK x \in X : TRUE
      BY <1>2
    <2>2. X = {x}
      BY <2>1, Zenon
    <2> QED BY <1>2, <2>2, FS_Singleton
  <1> QED BY <1>1, <1>2

LEMMA WordLemma == IInv => WordTellsHolders
  <1> SUFFICES ASSUME IInv PROVE WordTellsHolders
    OBVIOUS
  <1> USE DEF IInv
  <1> DEFINE writers == {t \in Thread : hold[t] = "writer"}
             readers == {t \in Thread : hold[t] = "reader"}
  <1>1. Cardinality(writers) <= 1
    <2>1. \A x, y \in writers : x = y
      BY Zenon DEF WordInv
    <2> HIDE DEF writers
    <2> QED BY <2>1, AtMostOne
  <1>2. /\ writers # {} => readers = {}
        /\ "MU_WLOCK" \in word.bits <=> writers # {}
        /\ word.readers = Cardinality(readers)
    BY Zenon DEF WordInv, Readers
  <1>3. Cardinality(SpinHolders) = IF SpinFree THEN 0 ELSE 1
    <2>1. SpinHolders = {t \in Thread : pc[t] \in SpinPc}
      BY Zenon DEF SpinHolders, SpinPc
    <2>2. (\A x, y \in SpinHolders : x = y) /\ (SpinFree <=> SpinHolders = {})
      BY <2>1, Zenon DEF SpinInv
    <2> QED BY <2>2, AtMostOne, Zenon
  <1> QED BY <1>1, <1>2, <1>3, Zenon DEF WordTellsHolders

\* Whatever threads do with nsync_mu_lock, nsync_mu_rlock, their unlocks and
\* nsync_mu_wait, a writer has the lock alone, mu->word counts exactly the
\* readers and the writer that have it, and one thread has its spinlock.
THEOREM MuExcludes == Spec => []WordTellsHolders
  <1>1. Spec => []IInv
    BY InitLemma, NextLemma, PTL DEF Spec
  <1> QED BY <1>1, WordLemma, PTL

\* The same when waits on a condition variable give the lock up and take it
\* again, and wakeups move waiters to its queue.
THEOREM CvExcludes == CvSpec => []WordTellsHolders
  <1>1. CvInit => IInv
    BY InitLemma DEF CvInit
  <1>2. CvSpec => []IInv
    BY <1>1, CvNextLemma, PTL DEF CvSpec
  <1> QED BY <1>2, WordLemma, PTL
=============================================================================
