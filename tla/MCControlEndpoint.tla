------------------------- MODULE MCControlEndpoint -------------------------
(***************************************************************************)
(* Two applications, one of them a launcher's child.                       *)
(***************************************************************************)
EXTENDS ControlEndpoint

MCChildOf == [l \in Launcher |-> CHOOSE a \in App : TRUE]
==============================================================================
