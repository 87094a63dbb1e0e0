--------------------------- MODULE MC_DllPointers ---------------------------
(***************************************************************************)
(* Two lists that share four nodes.                                        *)
(***************************************************************************)
EXTENDS DllPointers
=============================================================================
