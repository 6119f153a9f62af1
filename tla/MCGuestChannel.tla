-------------------------- MODULE MCGuestChannel --------------------------
(***************************************************************************)
(* Requests of one chunk and of two.                                       *)
(***************************************************************************)
EXTENDS GuestChannel

CONSTANTS Short, Long

MCRequest == Short \cup Long
MCSize    == [r \in MCRequest |-> IF r \in Short THEN 1 ELSE 2]
==============================================================================
