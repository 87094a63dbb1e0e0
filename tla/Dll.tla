-------------------------------- MODULE Dll --------------------------------
(***************************************************************************)
(* The doubly linked lists of libc/intrin/dll.c, as sequences from first to*)
(* last.                                                                   *)
(***************************************************************************)
EXTENDS Integers, Sequences

Position(s, u) == CHOOSE i \in DOMAIN s : s[i] = u

\* An element that is in no list is linked to itself: removing it changes nothing.
dll_remove(s, u) ==
    IF \E i \in DOMAIN s : s[i] = u
    THEN [j \in 1..(Len(s) - 1) |-> IF j < Position(s, u) THEN s[j] ELSE s[j + 1]]
    ELSE s

dll_make_first(s, u) == <<u>> \o s

dll_make_last(s, u) == Append(s, u)
=============================================================================
