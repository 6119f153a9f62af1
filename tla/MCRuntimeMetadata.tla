------------------------- MODULE MCRuntimeMetadata -------------------------
(***************************************************************************)
(* Three recipes over a LAN and two nodes: with a link, with one node only *)
(* and that one disabled, and with the other node linked.                  *)
(***************************************************************************)
EXTENDS RuntimeMetadata, TLC

Lan     == [lan |-> TRUE, enabled |-> TRUE]
On      == [lan |-> FALSE, enabled |-> TRUE]
Off     == [lan |-> FALSE, enabled |-> FALSE]

MCRecipes ==
    {[elements |-> "lan" :> Lan @@ "a" :> On, links |-> {<<"a", "lan">>}, startup |-> {"a"}],
     [elements |-> "a" :> Off, links |-> {}, startup |-> {}],
     [elements |-> "lan" :> Lan @@ "b" :> On @@ "a" :> On, links |-> {<<"b", "lan">>},
      startup |-> {"lan", "a"}]}
==============================================================================
