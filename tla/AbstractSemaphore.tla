------------------------- MODULE AbstractSemaphore -------------------------
(***************************************************************************)
(* What a counting semaphore promises: a wait that succeeds takes a token  *)
(* that was there, a post adds one, and nobody else changes the count; a   *)
(* semaphore that is taken down has no tokens, and is only set up again    *)
(* when no thread wants one.                                               *)
(***************************************************************************)
EXTENDS Integers

CONSTANTS Thread, Initial

VARIABLES
    up,      \* may tokens be posted?
    avail,   \* tokens that are available
    wanting  \* threads that try to get one

Init == up = TRUE /\ avail \in Initial /\ wanting = {}

Begin(t) == t \notin wanting /\ wanting' = wanting \cup {t} /\ UNCHANGED <<up, avail>>

Take(t) ==
    /\ t \in wanting
    /\ avail > 0
    /\ avail' = avail - 1
    /\ wanting' = wanting \ {t}
    /\ UNCHANGED up

GiveUp(t) == t \in wanting /\ wanting' = wanting \ {t} /\ UNCHANGED <<up, avail>>

Post == up /\ avail' = avail + 1 /\ UNCHANGED <<up, wanting>>

TakeDown == up /\ up' = FALSE /\ avail' = 0 /\ UNCHANGED wanting

SetUp == ~up /\ wanting = {} /\ up' = TRUE /\ avail' \in Initial /\ UNCHANGED wanting

Next == (\E t \in Thread : Begin(t) \/ Take(t) \/ GiveUp(t)) \/ Post \/ TakeDown \/ SetUp

Spec == Init /\ [][Next]_<<up, avail, wanting>>
=============================================================================
