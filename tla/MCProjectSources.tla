-------------------------- MODULE MCProjectSources --------------------------
(***************************************************************************)
(* A project with a LAN, a node attached to it and a script, edited by a   *)
(* program with a Nodes editor and by control requests; one path is free   *)
(* for a new node and one for a new script.  The LAN's file comes after    *)
(* the project file in a map's order.                                      *)
(***************************************************************************)
EXTENDS ProjectSources

MCPath == {"project", "nodes/a", "tools/lan", "nodes/node-1", "scripts/s",
           "scripts/script-1", "configs/c"}
MCWriteOrder == [p \in MCPath |-> CASE p = "configs/c" -> 1 [] p = "nodes/a" -> 2
                                    [] p = "nodes/node-1" -> 3 [] p = "scripts/s" -> 4
                                    [] p = "scripts/script-1" -> 5 [] p = "tools/lan" -> 7
                                    [] OTHER -> 6]
MCIdentifier == {"a", "b", "lan", "s", "node-1", "script-1"}
MCScriptId == [p \in {"scripts/s", "scripts/script-1"} |->
                  IF p = "scripts/s" THEN "s" ELSE "script-1"]
MCScriptTemplate == [p \in MCPath |-> IF p \in DOMAIN MCScriptId THEN "script.python"
                                                                ELSE Unsupported]
MCNodePaths == <<"nodes/node-1">>
MCNodeId == [p \in {"nodes/node-1"} |-> "node-1"]
MCScriptPaths == <<"scripts/script-1">>

LanNode == Node("lan", "network.lan", TRUE, {}, "default", EmptyBag)
ANode == Node("a", "reticulum.python.backbone", TRUE,
              {AssetSeed("configs/c", "valid", "copy")}, "default", SetToBag({"lan"}))
ProjectText == [kind |-> "project", header |-> "valid", nodes |-> <<"tools/lan", "nodes/a">>,
                scripts |-> <<"scripts/s">>, others |-> <<"configs/c">>,
                startup |-> SetToBag({"lan", "a", "s"})]
MCInitialFiles ==
    [p \in MCPath \ {"nodes/node-1", "scripts/script-1"} |->
        CASE p = "project" -> ProjectText
          [] p = "nodes/a" -> ANode
          [] p = "tools/lan" -> LanNode
          [] OTHER -> PlainText("text")]

\* A rewrite that is valid, one that breaks the recipe and one that breaks the file.
MCRewrites == {<<"nodes/a", [ANode EXCEPT !.enabled = FALSE]>>,
               <<"nodes/a", [ANode EXCEPT !.attachments = SetToBag({"s"})]>>,
               <<"project", PlainText("unfinished")>>}
==============================================================================
