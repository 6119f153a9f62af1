------------------------------- MODULE Recipe -------------------------------
(***************************************************************************)
(* What the sources of a project mean: the recipe that load_project builds *)
(* from the project file and the files it includes, the rules that make it *)
(* valid, and the rules of the guest that will run it.                     *)
(*                                                                         *)
(* `files' below is the project's directory: a function from the paths of  *)
(* its files to their texts.  A text is a record whose `kind' says what it *)
(* parses as: a project file, a node file, or any other text.  Lists whose *)
(* order no rule is about are bags: how often they name each id.           *)
(***************************************************************************)
EXTENDS Naturals, Sequences, FiniteSets, SequencesExt

CONSTANTS
    ProjectFile,    \* the path of sim-rns.project.json
    Inside,         \* paths that resolve to a place inside the project
    Identifier,     \* strings that are valid identifiers
    ScriptId,       \* the slug of a script's file stem, for each path
    ScriptTemplate, \* the template a path's extension implies, or Unsupported
    Unsupported,    \* any other extension
    MaxElements     \* the guest's limit of two hundred elements

\* The categories of the built-in templates.
base_templates ==
    [t \in {"rns.rs.backbone", "lxmf.rs.client", "reticulum.python.backbone",
            "lxmf.python.client", "script.python", "script.bash", "network.lan"} |->
        CASE t = "network.lan" -> "network"
          [] t \in {"script.python", "script.bash"} -> "script"
          [] OTHER -> "reticulum"]

\* Every project has one more template.
project_templates ==
    [t \in DOMAIN base_templates \cup {"custom.phone"} |->
        IF t = "custom.phone" THEN "reticulum" ELSE base_templates[t]]

\* The templates the guest has programs for.
SUPPORTED_TEMPLATES ==
    {"reticulum.python.backbone", "network.lan", "script.python", "script.bash"}

\* One asset: where it comes from in the project and where it goes in the
\* node's home; `destination' is "valid" for a relative path of normal parts.
AssetSeed(source, destination, mode) ==
    [source |-> source, destination |-> destination, mode |-> mode]

\* The fields of an element of the recipe.  `command' is "default", "given" or
\* "invalid" (empty, blank or with a NUL); `env' is "valid" or "invalid".
Element(id, templateId, enabled, assets, weight, command, env) ==
    [id |-> id, templateId |-> templateId, enabled |-> enabled, assets |-> assets,
     weight |-> weight, command |-> command, env |-> env]

Resolves(files, path) == path \in Inside \cap DOMAIN files

NodeElement(node) ==
    Element(node.id, node.templateId, node.enabled, node.assets, node.weight,
            node.command, node.env)

\* build_script_element: a script is an element that copies itself into the guest.
ScriptElement(path) ==
    Element(ScriptId[path], ScriptTemplate[path], TRUE,
            {AssetSeed(path, "valid", "copy")}, 20, "given", "valid")

\* The elements by their places: the nodes in the order of the includes, and scripts.
Places(file, nodes) == ({"node"} \X DOMAIN nodes) \cup ({"script"} \X DOMAIN file.scripts)

Elements(file, nodes) ==
    [k \in Places(file, nodes) |-> IF k[1] = "node" THEN NodeElement(nodes[k[2]])
                                                   ELSE ScriptElement(file.scripts[k[2]])]

\* An attachment may be listed several times.
Links(nodes) ==
    UNION {{[element |-> n.id, network |-> lan, times |-> n.attachments[lan]] :
               lan \in DOMAIN n.attachments} : n \in Range(nodes)}

\* recipe_with_nodes: without a startup order every enabled element starts.
RecipeOf(file, nodes) ==
    LET elements == Elements(file, nodes)
        enabled  == {e \in Range(elements) : e.enabled}
    IN  [header   |-> file.header,
         elements |-> elements,
         links    |-> Links(nodes),
         startup  |-> IF file.startup = EmptyBag THEN SetToBag({e.id : e \in enabled})
                                                 ELSE file.startup]

Ids(recipe) == {e.id : e \in Range(recipe.elements)}

ValidElement(e) ==
    /\ e.id \in Identifier
    /\ e.templateId \in DOMAIN project_templates
    /\ e.weight <= 10000
    /\ e.command # "invalid" /\ e.env = "valid"

ValidLink(recipe, link) ==
    /\ {link.element, link.network} \subseteq Ids(recipe)
    /\ link.element # link.network
    /\ \E e \in Range(recipe.elements) :
           e.id = link.network /\ project_templates[e.templateId] = "network"
    /\ link.times = 1

validate_recipe(recipe) ==
    /\ recipe.header = "valid"
    /\ \A e \in Range(recipe.elements) : ValidElement(e)
    /\ \A j, k \in DOMAIN recipe.elements :
           recipe.elements[j].id = recipe.elements[k].id => j = k
    /\ \A id \in DOMAIN recipe.startup : id \in Ids(recipe) /\ recipe.startup[id] = 1
    /\ \A link \in recipe.links : ValidLink(recipe, link)

\* recipe_with_nodes succeeds: the included files are there, the recipe is valid,
\* and its assets are inside the project and have somewhere to go.
Builds(files, file, nodes) ==
    LET recipe == RecipeOf(file, nodes) IN
    /\ \A p \in Range(file.others) \cup Range(file.scripts) : Resolves(files, p)
    /\ \A p \in Range(file.scripts) : ScriptTemplate[p] # Unsupported
    /\ validate_recipe(recipe)
    /\ \A e \in Range(recipe.elements) : \A asset \in e.assets :
           Resolves(files, asset.source) /\ asset.destination = "valid"

\* The texts of the node files a project file includes.
NodesOf(files, file) == [i \in DOMAIN file.nodes |-> files[file.nodes[i]]]

\* load_project succeeds.
Loads(files) ==
    /\ ProjectFile \in DOMAIN files /\ files[ProjectFile].kind = "project"
    /\ \A p \in Range(files[ProjectFile].nodes) : Resolves(files, p) /\ files[p].kind = "node"
    /\ Builds(files, files[ProjectFile], NodesOf(files, files[ProjectFile]))

ProjectRecipe(files) == RecipeOf(files[ProjectFile], NodesOf(files, files[ProjectFile]))

\* Backend.initialize in the guest takes the recipe: copied assets, templates it
\* has, not too many elements, and no link of an enabled LAN, which has no network
\* namespace, to another enabled LAN.
GuestAccepts(recipe) ==
    LET lans == {e \in Range(recipe.elements) : e.enabled /\ e.templateId = "network.lan"}
    IN  /\ \A e \in Range(recipe.elements) :
               /\ e.templateId \in SUPPORTED_TEMPLATES
               /\ \A asset \in e.assets : asset.mode = "copy"
        /\ Cardinality(DOMAIN recipe.elements) <= MaxElements
        /\ \A link \in recipe.links :
               ~({link.element, link.network} \subseteq {e.id : e \in lans})
==============================================================================
