---------------------------- MODULE AbstractDll ----------------------------
(***************************************************************************)
(* What the doubly linked lists promise: several sequences, an element in  *)
(* at most one of them, changed by the operations of Dll.                  *)
(***************************************************************************)
EXTENDS Dll

CONSTANTS Node, List

VARIABLE seqs   \* the contents of every list, first to last

Members(l) == {seqs[l][i] : i \in DOMAIN seqs[l]}

Unlisted == {e \in Node : \A l \in List : e \notin Members(l)}

Init == seqs = [l \in List |-> <<>>]

Remove(l, e) ==
    /\ e \in Members(l) \cup Unlisted
    /\ seqs' = [seqs EXCEPT ![l] = dll_remove(@, e)]

MakeFirst(l, e) ==
    /\ e \in Unlisted
    /\ seqs' = [seqs EXCEPT ![l] = dll_make_first(@, e)]

MakeLast(l, e) ==
    /\ e \in Unlisted
    /\ seqs' = [seqs EXCEPT ![l] = dll_make_last(@, e)]

\* The elements of list m go, in their order, before or after those of list l.
SpliceFirst(l, m) ==
    /\ l # m
    /\ seqs' = [seqs EXCEPT ![l] = seqs[m] \o @, ![m] = <<>>]

SpliceLast(l, m) ==
    /\ l # m
    /\ seqs' = [seqs EXCEPT ![l] = @ \o seqs[m], ![m] = <<>>]
=============================================================================
