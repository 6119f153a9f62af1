---------------------------- MODULE MCGuestBackend ----------------------------
(***************************************************************************)
(* GuestBackend for TLC: a network, a node that is always restarted and a  *)
(* disabled node.                                                          *)
(***************************************************************************)
EXTENDS GuestBackend, TLC

MCOrder   == <<"lan", "a", "off">>
MCPolicy  == "lan" :> "never" @@ "a" :> "always" @@ "off" :> "on_failure"

\* Recipes are interchangeable.
Symmetry == Permutations(Recipes)

===============================================================================
