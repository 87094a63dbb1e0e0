----------------------------- MODULE DllProofs -----------------------------
(***************************************************************************)
(* What the operations of Dll do to a list without duplicates.             *)
(***************************************************************************)
EXTENDS Dll, TLAPS

\* u comes before v in the sequence s.
Before(s, u, v) == \E i, j \in DOMAIN s : i < j /\ s[i] = u /\ s[j] = v

NoDuplicates(s) == \A i, j \in DOMAIN s : s[i] = s[j] => i = j

Elements(s) == {s[i] : i \in DOMAIN s}

\* What dll_remove does to a list without duplicates: the element is gone, the
\* others keep their order.
LEMMA RemoveLemma ==
    ASSUME NEW S, NEW s \in Seq(S), NEW u, NoDuplicates(s)
    PROVE  LET r == dll_remove(s, u) IN
           /\ r \in Seq(S)
           /\ NoDuplicates(r)
           /\ Elements(r) = Elements(s) \ {u}
           /\ u \in Elements(s) => Len(r) = Len(s) - 1
           /\ \A x, y : Before(r, x, y) <=> (Before(s, x, y) /\ x # u /\ y # u)
  <1> DEFINE r == dll_remove(s, u)
  <1>1. CASE ~\E i \in DOMAIN s : s[i] = u
    <2>1. r = s
      BY <1>1 DEF dll_remove
    <2>2. u \notin Elements(s)
      BY <1>1 DEF Elements
    <2> QED BY <1>1, <2>1, <2>2 DEF Elements, Before
  <1>2. CASE \E i \in DOMAIN s : s[i] = u
    <2> DEFINE p == Position(s, u)
    <2>1. p \in 1..Len(s) /\ s[p] = u
      BY <1>2 DEF Position
    <2>2. \A i \in 1..Len(s) : s[i] = u => i = p
      BY <2>1 DEF NoDuplicates
    <2>3. r = [j \in 1..(Len(s) - 1) |-> IF j < p THEN s[j] ELSE s[j + 1]]
      BY <1>2 DEF dll_remove
    <2> HIDE DEF p, r
    <2>4. /\ Len(s) \in Nat /\ Len(s) - 1 \in Nat /\ p \in Int
          /\ DOMAIN s = 1..Len(s)
      BY <2>1
    <2>5. \A j \in 1..(Len(s) - 1) : r[j] \in S
      BY <2>3, <2>4, <2>1
    <2>6. r \in Seq(S) /\ Len(r) = Len(s) - 1 /\ DOMAIN r = 1..(Len(s) - 1)
      <3>1. r \in [1..(Len(s) - 1) -> S]
        BY <2>3, <2>5
      <3>2. PICK n \in Nat : n = Len(s) - 1 /\ r \in [1..n -> S]
        BY <3>1, <2>4, Zenon
      <3>3. r \in Seq(S) /\ Len(r) = n
        BY <3>2
      <3> QED BY <3>2, <3>3
    <2>7. \A j \in 1..(Len(s) - 1) : r[j] = IF j < p THEN s[j] ELSE s[j + 1]
      BY <2>3
    <2>9. \A i \in 1..Len(s) : s[i] # u => \E j \in 1..(Len(s) - 1) :
                r[j] = s[i] /\ j = IF i < p THEN i ELSE i - 1
      BY <2>7, <2>1, <2>4
    <2>10. \A j \in 1..(Len(s) - 1) : r[j] # u /\ \E i \in 1..Len(s) :
                r[j] = s[i] /\ i = IF j < p THEN j ELSE j + 1
      BY <2>7, <2>1, <2>2, <2>4
    <2>8. NoDuplicates(r)
      <3> SUFFICES ASSUME NEW i \in 1..(Len(s) - 1), NEW j \in 1..(Len(s) - 1), r[i] = r[j]
                   PROVE  i = j
        BY <2>6 DEF NoDuplicates
      <3>1. PICK a \in 1..Len(s) : r[i] = s[a] /\ a = IF i < p THEN i ELSE i + 1
        BY <2>10
      <3>2. PICK b \in 1..Len(s) : r[j] = s[b] /\ b = IF j < p THEN j ELSE j + 1
        BY <2>10
      <3>3. a = b
        BY <3>1, <3>2, <2>4, Zenon DEF NoDuplicates
      <3> QED BY <3>1, <3>2, <3>3, <2>4
    <2>11. Elements(r) = Elements(s) \ {u}
      <3>1. ASSUME NEW x \in Elements(r)
            PROVE  x \in Elements(s) \ {u}
        <4>1. PICK j \in 1..(Len(s) - 1) : r[j] = x
          BY <3>1, <2>6, Zenon DEF Elements
        <4> QED BY <4>1, <2>4, <2>10, Zenon DEF Elements
      <3>2. ASSUME NEW x \in Elements(s), x # u
            PROVE  x \in Elements(r)
        <4>1. PICK i \in 1..Len(s) : s[i] = x
          BY <2>4 DEF Elements
        <4> QED BY <4>1, <3>2, <2>6, <2>9, Zenon DEF Elements
      <3> QED BY <3>1, <3>2
    <2>12. ASSUME NEW x, NEW y
           PROVE  Before(r, x, y) <=> (Before(s, x, y) /\ x # u /\ y # u)
      <3>1. ASSUME Before(r, x, y)
            PROVE  Before(s, x, y) /\ x # u /\ y # u
        <4>1. PICK i, j \in DOMAIN r : i < j /\ r[i] = x /\ r[j] = y
          BY <3>1 DEF Before
        <4>2. i \in 1..(Len(s) - 1) /\ j \in 1..(Len(s) - 1)
          BY <2>6
        <4>3. PICK a \in 1..Len(s) : x = s[a] /\ x # u /\ a = IF i < p THEN i ELSE i + 1
          BY <2>10, <4>1, <4>2
        <4>4. PICK b \in 1..Len(s) : y = s[b] /\ y # u /\ b = IF j < p THEN j ELSE j + 1
          BY <2>10, <4>1, <4>2
        <4>5. a < b
          BY <4>1, <4>2, <4>3, <4>4, <2>4
        <4> QED BY <4>3, <4>4, <4>5, <2>4 DEF Before
      <3>2. ASSUME Before(s, x, y), x # u, y # u
            PROVE  Before(r, x, y)
        <4>1. PICK i, j \in DOMAIN s : i < j /\ s[i] = x /\ s[j] = y
          BY <3>2 DEF Before
        <4>2. i \in 1..Len(s) /\ j \in 1..Len(s) /\ i # p /\ j # p
          BY <4>1, <3>2, <2>1, <2>4
        <4>3. PICK a \in 1..(Len(s) - 1) : r[a] = x /\ a = IF i < p THEN i ELSE i - 1
          BY <4>1, <4>2, <3>2, <2>9, Zenon
        <4>4. PICK b \in 1..(Len(s) - 1) : r[b] = y /\ b = IF j < p THEN j ELSE j - 1
          BY <4>1, <4>2, <3>2, <2>9, Zenon
        <4>5. a < b
          BY <4>1, <4>2, <4>3, <4>4, <2>4
        <4> QED BY <4>3, <4>4, <4>5, <2>6 DEF Before
      <3> QED BY <3>1, <3>2
    <2> QED BY <2>6, <2>8, <2>11, <2>12 DEF r
  <1> QED BY <1>1, <1>2

\* What dll_make_first does when the element is not in the list.
LEMMA FirstLemma ==
    ASSUME NEW S, NEW s \in Seq(S), NEW u \in S, NoDuplicates(s), u \notin Elements(s)
    PROVE  LET r == dll_make_first(s, u) IN
           /\ r \in Seq(S)
           /\ NoDuplicates(r)
           /\ Elements(r) = Elements(s) \cup {u}
           /\ Len(r) = Len(s) + 1
           /\ \A x, y : Before(r, x, y) <=> (Before(s, x, y) \/ (x = u /\ y \in Elements(s)))
  <1> DEFINE r == dll_make_first(s, u)
  <1>1. r \in Seq(S) /\ Len(r) = Len(s) + 1 /\ Len(s) \in Nat
    BY DEF dll_make_first
  <1>2. \A i \in 1..(Len(s) + 1) : r[i] = IF i = 1 THEN u ELSE s[i - 1]
    BY DEF dll_make_first
  <1> HIDE DEF r
  <1>3. DOMAIN r = 1..(Len(s) + 1) /\ DOMAIN s = 1..Len(s)
    BY <1>1
  <1>4. \A i \in 1..Len(s) : r[i + 1] = s[i] /\ i + 1 \in 1..(Len(s) + 1) /\ s[i] # u
    BY <1>1, <1>2, <1>3 DEF Elements
  <1>5. NoDuplicates(r)
    <2> SUFFICES ASSUME NEW i \in 1..(Len(s) + 1), NEW j \in 1..(Len(s) + 1), r[i] = r[j]
                 PROVE  i = j
      BY <1>3 DEF NoDuplicates
    <2>1. \A k \in 1..(Len(s) + 1) : k # 1 => k - 1 \in 1..Len(s) /\ r[k] = s[k - 1]
      BY <1>1, <1>2
    <2>2. r[1] = u /\ 1 \in 1..(Len(s) + 1)
      BY <1>1, <1>2
    <2>3. CASE i = 1 \/ j = 1
      BY <2>1, <2>2, <2>3, <1>4
    <2>4. CASE i # 1 /\ j # 1
      <3>1. i - 1 = j - 1
        BY <2>1, <2>4, <1>3 DEF NoDuplicates
      <3> QED BY <3>1, <1>1
    <2> QED BY <2>3, <2>4
  <1>6. Elements(r) = Elements(s) \cup {u}
    <2>1. ASSUME NEW x \in Elements(r)
          PROVE  x \in Elements(s) \cup {u}
      <3>1. PICK i \in 1..(Len(s) + 1) : r[i] = x
        BY <1>3 DEF Elements
      <3>2. i # 1 => i - 1 \in 1..Len(s) /\ r[i] = s[i - 1]
        BY <1>1, <1>2
      <3> QED BY <3>1, <3>2, <1>2, <1>3 DEF Elements
    <2>2. ASSUME NEW x \in Elements(s)
          PROVE  x \in Elements(r)
      BY <1>3, <1>4 DEF Elements
    <2>3. u \in Elements(r)
      <3>1. r[1] = u /\ 1 \in 1..(Len(s) + 1)
        BY <1>1, <1>2
      <3> QED BY <3>1, <1>3 DEF Elements
    <2> QED BY <2>1, <2>2, <2>3
  <1>7. ASSUME NEW x, NEW y
        PROVE  Before(r, x, y) <=> (Before(s, x, y) \/ (x = u /\ y \in Elements(s)))
    <2>1. ASSUME Before(r, x, y)
          PROVE  Before(s, x, y) \/ (x = u /\ y \in Elements(s))
      <3>1. PICK i, j \in 1..(Len(s) + 1) : i < j /\ r[i] = x /\ r[j] = y
        BY <2>1, <1>3 DEF Before
      <3>2. r[j] = s[j - 1] /\ j - 1 \in 1..Len(s)
        BY <3>1, <1>1, <1>2
      <3>3. CASE i = 1
        BY <3>1, <3>2, <3>3, <1>2, <1>3 DEF Elements
      <3>4. CASE i # 1
        <4>1. r[i] = s[i - 1] /\ i - 1 \in 1..Len(s) /\ i - 1 < j - 1
          BY <3>1, <3>4, <1>1, <1>2
        <4> QED BY <3>1, <3>2, <4>1, <1>3 DEF Before
      <3> QED BY <3>3, <3>4
    <2>2. ASSUME Before(s, x, y)
          PROVE  Before(r, x, y)
      <3>1. PICK i, j \in 1..Len(s) : i < j /\ s[i] = x /\ s[j] = y
        BY <2>2, <1>3 DEF Before
      <3>2. i + 1 < j + 1
        BY <3>1
      <3> QED BY <3>1, <3>2, <1>3, <1>4 DEF Before
    <2>3. ASSUME x = u, y \in Elements(s)
          PROVE  Before(r, x, y)
      <3>1. PICK j \in 1..Len(s) : s[j] = y
        BY <2>3, <1>3 DEF Elements
      <3>2. 1 < j + 1 /\ 1 \in 1..(Len(s) + 1) /\ r[1] = u
        BY <3>1, <1>1, <1>2
      <3> QED BY <3>1, <3>2, <2>3, <1>3, <1>4 DEF Before
    <2> QED BY <2>1, <2>2, <2>3
  <1> QED BY <1>1, <1>5, <1>6, <1>7 DEF r

\* What dll_make_last does when the element is not in the list.
LEMMA LastLemma ==
    ASSUME NEW S, NEW s \in Seq(S), NEW u \in S, NoDuplicates(s), u \notin Elements(s)
    PROVE  LET r == dll_make_last(s, u) IN
           /\ r \in Seq(S)
           /\ NoDuplicates(r)
           /\ Elements(r) = Elements(s) \cup {u}
           /\ Len(r) = Len(s) + 1
           /\ \A x, y : Before(r, x, y) <=> (Before(s, x, y) \/ (y = u /\ x \in Elements(s)))
  <1> DEFINE r == dll_make_last(s, u)
  <1>1. r \in Seq(S) /\ Len(r) = Len(s) + 1 /\ Len(s) \in Nat
    BY DEF dll_make_last
  <1>2. \A i \in 1..(Len(s) + 1) : r[i] = IF i = Len(s) + 1 THEN u ELSE s[i]
    BY DEF dll_make_last
  <1> HIDE DEF r
  <1>3. DOMAIN r = 1..(Len(s) + 1) /\ DOMAIN s = 1..Len(s)
    BY <1>1
  <1>4. \A i \in 1..Len(s) : r[i] = s[i] /\ i \in 1..(Len(s) + 1) /\ s[i] # u
    BY <1>1, <1>2, <1>3 DEF Elements
  <1>5. NoDuplicates(r)
    BY <1>1, <1>2, <1>3, <1>4 DEF NoDuplicates
  <1>6. Elements(r) = Elements(s) \cup {u}
    BY <1>1, <1>2, <1>3, <1>4 DEF Elements
  <1>7. ASSUME NEW x, NEW y
        PROVE  Before(r, x, y) <=> (Before(s, x, y) \/ (y = u /\ x \in Elements(s)))
    <2>1. ASSUME Before(r, x, y)
          PROVE  Before(s, x, y) \/ (y = u /\ x \in Elements(s))
      <3>1. PICK i, j \in 1..(Len(s) + 1) : i < j /\ r[i] = x /\ r[j] = y
        BY <2>1, <1>3 DEF Before
      <3>2. i \in 1..Len(s) /\ s[i] = x
        BY <3>1, <1>1, <1>2
      <3>3. CASE j = Len(s) + 1
        BY <3>1, <3>2, <3>3, <1>2, <1>3 DEF Elements
      <3>4. CASE j # Len(s) + 1
        BY <3>1, <3>2, <3>4, <1>1, <1>2, <1>3 DEF Before
      <3> QED BY <3>3, <3>4
    <2>2. ASSUME Before(s, x, y)
          PROVE  Before(r, x, y)
      BY <2>2, <1>3, <1>4 DEF Before
    <2>3. ASSUME y = u, x \in Elements(s)
          PROVE  Before(r, x, y)
      <3>1. PICK i \in 1..Len(s) : s[i] = x
        BY <2>3, <1>3 DEF Elements
      <3>2. i < Len(s) + 1 /\ Len(s) + 1 \in 1..(Len(s) + 1) /\ r[Len(s) + 1] = u
        BY <3>1, <1>1, <1>2
      <3> QED BY <3>1, <3>2, <2>3, <1>3, <1>4 DEF Before
    <2> QED BY <2>1, <2>2, <2>3
  <1> QED BY <1>1, <1>5, <1>6, <1>7 DEF r

\* What _pthread_zombify does to the list: the element moves to the end.
LEMMA MoveLastLemma ==
    ASSUME NEW S, NEW s \in Seq(S), NEW u \in S, NoDuplicates(s), u \in Elements(s)
    PROVE  LET r == dll_make_last(dll_remove(s, u), u) IN
           /\ r \in Seq(S)
           /\ NoDuplicates(r)
           /\ Elements(r) = Elements(s)
           /\ Len(r) = Len(s)
           /\ \A x, y : Before(r, x, y) <=> \/ Before(s, x, y) /\ x # u /\ y # u
                                            \/ y = u /\ x \in Elements(s) /\ x # u
  <1> DEFINE q == dll_remove(s, u)
             r == dll_make_last(dll_remove(s, u), u)
  <1>1. /\ q \in Seq(S) /\ NoDuplicates(q) /\ Elements(q) = Elements(s) \ {u}
        /\ Len(q) = Len(s) - 1
        /\ \A x, y : Before(q, x, y) <=> (Before(s, x, y) /\ x # u /\ y # u)
    BY RemoveLemma
  <1>2. u \notin Elements(q)
    BY <1>1
  <1>0. r = dll_make_last(q, u)
    OBVIOUS
  <1> HIDE DEF q, r
  <1>3. /\ r \in Seq(S) /\ NoDuplicates(r) /\ Elements(r) = Elements(q) \cup {u}
        /\ Len(r) = Len(q) + 1
        /\ \A x, y : Before(r, x, y) <=> (Before(q, x, y) \/ (y = u /\ x \in Elements(q)))
    BY <1>0, <1>1, <1>2, LastLemma
  <1>4. Len(s) \in Nat
    OBVIOUS
  <1>5. Len(r) = Len(s)
    BY <1>1, <1>3, <1>4
  <1>6. Elements(r) = Elements(s)
    BY <1>1, <1>3
  <1>7. ASSUME NEW x, NEW y
        PROVE  Before(r, x, y) <=> \/ Before(s, x, y) /\ x # u /\ y # u
                                   \/ y = u /\ x \in Elements(s) /\ x # u
    BY <1>1, <1>3
  <1> QED BY <1>3, <1>5, <1>6, <1>7 DEF r

\* What fork() does to the list in the child: the caller moves to the front.
LEMMA MoveFirstLemma ==
    ASSUME NEW S, NEW s \in Seq(S), NEW u \in S, NoDuplicates(s), u \in Elements(s)
    PROVE  LET r == dll_make_first(dll_remove(s, u), u) IN
           /\ r \in Seq(S)
           /\ NoDuplicates(r)
           /\ Elements(r) = Elements(s)
  <1> DEFINE q == dll_remove(s, u)
             r == dll_make_first(q, u)
  <1>1. q \in Seq(S) /\ NoDuplicates(q) /\ Elements(q) = Elements(s) \ {u}
    BY RemoveLemma
  <1>2. u \notin Elements(q)
    BY <1>1
  <1> HIDE DEF q
  <1>3. r \in Seq(S) /\ NoDuplicates(r) /\ Elements(r) = Elements(q) \cup {u}
    BY <1>1, <1>2, FirstLemma
  <1> HIDE DEF r
  <1> QED BY <1>1, <1>3 DEF q, r

\* The order of a list without duplicates is total and strict.
LEMMA OrderLemma ==
    ASSUME NEW S, NEW s \in Seq(S), NoDuplicates(s)
    PROVE  /\ \A x, y \in Elements(s) : x # y => Before(s, x, y) \/ Before(s, y, x)
           /\ \A x, y : Before(s, x, y) => ~Before(s, y, x) /\ x # y
           /\ \A x, y : Before(s, x, y) => x \in Elements(s) /\ y \in Elements(s)
           /\ \A i, j \in DOMAIN s : i < j => Before(s, s[i], s[j])
  <1>1. DOMAIN s = 1..Len(s) /\ Len(s) \in Nat
    OBVIOUS
  <1>2. ASSUME NEW x \in Elements(s), NEW y \in Elements(s), x # y
        PROVE  Before(s, x, y) \/ Before(s, y, x)
    <2>1. PICK i \in 1..Len(s) : s[i] = x
      BY <1>1 DEF Elements
    <2>2. PICK j \in 1..Len(s) : s[j] = y
      BY <1>1 DEF Elements
    <2>3. i < j \/ j < i
      BY <1>2, <2>1, <2>2
    <2> QED BY <1>1, <2>1, <2>2, <2>3 DEF Before
  <1>3. ASSUME NEW x, NEW y, Before(s, x, y)
        PROVE  ~Before(s, y, x) /\ x # y
    BY <1>1, <1>3 DEF Before, NoDuplicates
  <1>4. ASSUME NEW x, NEW y, Before(s, x, y)
        PROVE  x \in Elements(s) /\ y \in Elements(s)
    BY <1>4 DEF Before, Elements
  <1>5. \A i, j \in DOMAIN s : i < j => Before(s, s[i], s[j])
    BY DEF Before
  <1> QED BY <1>2, <1>3, <1>4, <1>5

\* A list of length one holds one element (pthread_orphan_np).
LEMMA SingletonLemma ==
    ASSUME NEW S, NEW s \in Seq(S), Len(s) = 1,
           NEW x \in Elements(s), NEW y \in Elements(s)
    PROVE  x = y
  <1>1. DOMAIN s = {1}
    OBVIOUS
  <1> QED BY <1>1 DEF Elements
=============================================================================
