---------------------------- MODULE DllPointers ----------------------------
(***************************************************************************)
(* The doubly linked lists of libc/intrin/dll.c as the pointers they are:  *)
(* rings of nodes, and for every list a pointer to its last node.  The     *)
(* threads, the subprocesses and the waiters of nsync are kept in such     *)
(* lists.                                                                  *)
(***************************************************************************)
EXTENDS Integers, Sequences, FiniteSets

CONSTANTS
    Node,   \* list elements
    List,   \* list heads
    Null

ASSUME DllAssumption == IsFiniteSet(Node) /\ Null \notin Node

VARIABLES
    list,   \* the last element of every list, or Null
    next,
    prev

vars == <<list, next, prev>>

Init ==
    /\ list = [l \in List |-> Null]
    /\ next = [e \in Node |-> e]
    /\ prev = [e \in Node |-> e]

----------------------------------------------------------------------------
(***************************************************************************)
(* Reading a list.                                                         *)
(***************************************************************************)
dll_is_alone(e) == next[e] = e /\ prev[e] = e

dll_first(l) == IF list[l] = Null THEN Null ELSE next[list[l]]

dll_last(l) == list[l]

dll_next(l, e) == IF e = list[l] THEN Null ELSE next[e]

dll_prev(l, e) == IF e = next[list[l]] THEN Null ELSE prev[e]

\* The loops "for (e = dll_first(l); e; e = dll_next(l, e))" and
\* "for (e = dll_last(l); e; e = dll_prev(l, e))" over at most all nodes.
Forward(l) ==
    LET walk[n \in 0..Cardinality(Node)] ==
            IF n = 0 THEN <<dll_first(l)>>
            ELSE LET s == walk[n - 1]
                     e == s[Len(s)]
                 IN IF e = Null THEN s ELSE Append(s, dll_next(l, e))
    IN SelectSeq(walk[Cardinality(Node)], LAMBDA e : e # Null)

Backward(l) ==
    LET walk[n \in 0..Cardinality(Node)] ==
            IF n = 0 THEN <<dll_last(l)>>
            ELSE LET s == walk[n - 1]
                     e == s[Len(s)]
                 IN IF e = Null THEN s ELSE Append(s, dll_prev(l, e))
    IN SelectSeq(walk[Cardinality(Node)], LAMBDA e : e # Null)

Members(l) == {Forward(l)[i] : i \in DOMAIN Forward(l)}

Unlisted == {e \in Node : \A l \in List : e \notin Members(l)}

----------------------------------------------------------------------------
(***************************************************************************)
(* Changing a list.                                                        *)
(***************************************************************************)
dll_splice_after(elem, succ) ==
    LET tmp1 == next[elem]
        tmp2 == prev[succ]
    IN /\ next' = [next EXCEPT ![elem] = succ, ![tmp2] = tmp1]
       /\ prev' = [prev EXCEPT ![succ] = elem, ![tmp1] = tmp2]

\* The new head of a list that ends with last and loses elem.
HeadAfterRemove(last, elem) ==
    IF last # elem THEN last
    ELSE IF prev[last] = last THEN Null ELSE prev[last]

\* Mutant: reads the predecessor after it was overwritten.
Unlink_Order(elem) ==
    /\ prev' = [prev EXCEPT ![next[elem]] = elem, ![elem] = elem]
    /\ next' = [next EXCEPT ![prev[elem]] = next[elem], ![elem] = elem]

\* Mutant: leaves the links of the removed element as they were.
Unlink_Dangling(elem) ==
    /\ prev' = [prev EXCEPT ![next[elem]] = prev[elem]]
    /\ next' = [next EXCEPT ![prev[elem]] = next[elem]]

Unlink(elem) ==
    /\ prev' = [prev EXCEPT ![next[elem]] = prev[elem], ![elem] = elem]
    /\ next' = [next EXCEPT ![prev[elem]] = next[elem], ![elem] = elem]

dll_remove(l, elem) ==
    /\ list' = [list EXCEPT ![l] = HeadAfterRemove(@, elem)]
    /\ Unlink(elem)

\* The new elements: those of the ring that starts with elem.
dll_make_first(l, elem) ==
    IF list[l] = Null
    THEN list' = [list EXCEPT ![l] = prev[elem]] /\ UNCHANGED <<next, prev>>
    ELSE dll_splice_after(list[l], elem) /\ UNCHANGED list

\* Mutant: leaves the head where it was.
dll_make_last_OldHead(l, elem) ==
    /\ IF list[l] = Null
       THEN UNCHANGED <<next, prev>>
       ELSE dll_splice_after(list[l], elem)
    /\ list' = [list EXCEPT ![l] = IF list[l] = Null THEN elem ELSE list[l]]

\* The new elements: those of the ring that ends with elem.
dll_make_last(l, elem) ==
    /\ IF list[l] = Null
       THEN UNCHANGED <<next, prev>>
       ELSE dll_splice_after(list[l], next[elem])
    /\ list' = [list EXCEPT ![l] = elem]

----------------------------------------------------------------------------
Remove(l, e) == e \in Members(l) \cup Unlisted /\ dll_remove(l, e)

MakeFirst(l, e) == e \in Unlisted /\ dll_make_first(l, e)

MakeLast(l, e) == e \in Unlisted /\ dll_make_last(l, e)

\* A whole list m is handed over, as nsync does with the waiters it wakes; the
\* program clears the pointer it had.
SpliceFirst(l, m) ==
    /\ l # m
    /\ list[m] # Null
    /\ IF list[l] = Null
       THEN list' = [list EXCEPT ![l] = list[m], ![m] = Null] /\ UNCHANGED <<next, prev>>
       ELSE /\ dll_splice_after(list[l], dll_first(m))
            /\ list' = [list EXCEPT ![m] = Null]

SpliceLast(l, m) ==
    /\ l # m
    /\ list[m] # Null
    /\ IF list[l] = Null
       THEN UNCHANGED <<next, prev>>
       ELSE dll_splice_after(list[l], dll_first(m))
    /\ list' = [list EXCEPT ![l] = list[m], ![m] = Null]

Next ==
    \E l \in List :
        \/ \E e \in Node : Remove(l, e) \/ MakeFirst(l, e) \/ MakeLast(l, e)
        \/ \E m \in List : SpliceFirst(l, m) \/ SpliceLast(l, m)

Spec == Init /\ [][Next]_vars

----------------------------------------------------------------------------
\* The loop of _pthread_decimate meets the elements that the loops of the other
\* functions meet, in the opposite order.
BackwardIsReverse ==
    \A l \in List : LET f == Forward(l)
                        b == Backward(l)
                    IN /\ Len(b) = Len(f)
                       /\ \A i \in DOMAIN f : b[Len(f) + 1 - i] = f[i]

\* The test in _pthread_free's assertion, that an element is alone and is not
\* the head, holds exactly of the elements that are in no list.
AloneIsUnlisted ==
    \A e \in Node : (dll_is_alone(e) /\ \A l \in List : list[l] # e) <=> e \in Unlisted

Abstract == INSTANCE AbstractDll WITH seqs <- [l \in List |-> Forward(l)]

\* Lists start empty, and dll_remove, dll_make_first and dll_make_last do to the
\* pointers what their namesakes do to sequences, whole lists that are handed over
\* included: the pointers implement the sequences that Dll works on.
EachOperation ==
    /\ Abstract!Init
    /\ [][\A l \in List :
            /\ \A e \in Node : /\ Remove(l, e) => Abstract!Remove(l, e)
                               /\ MakeFirst(l, e) => Abstract!MakeFirst(l, e)
                               /\ MakeLast(l, e) => Abstract!MakeLast(l, e)
            /\ \A m \in List : /\ SpliceFirst(l, m) => Abstract!SpliceFirst(l, m)
                               /\ SpliceLast(l, m) => Abstract!SpliceLast(l, m)]_vars
=============================================================================
