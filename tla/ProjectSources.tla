--------------------------- MODULE ProjectSources ---------------------------
(***************************************************************************)
(* The sources of one project and everything that edits them: the Nodes    *)
(* editor, which opens a snapshot without the lock and saves against it,   *)
(* write_project_source, add_script_include and add_node_include.  Each    *)
(* save holds the project lock, but it is a sequence of file writes, any   *)
(* of which can fail, and its process can die between two of them.         *)
(***************************************************************************)
EXTENDS Recipe

CONSTANTS
    Actor,          \* processes and their workers that edit the project
    NoOne,          \* nobody holds the lock; no form is open; no free path
    Path,           \* the paths of the project's directory
    WriteOrder,     \* the place of each path in a map's order
    NodePaths,      \* nodes/node-1.node.json, nodes/node-2.node.json, ...
    ScriptPaths,    \* scripts/script-1.py, scripts/script-2.py, ...
    NodeId,         \* the id add_node_include derives from such a path
    InitialFiles,   \* the directory at the start
    Rewrites,       \* pairs of a path and a text: calls of write_project_source
    Editing,        \* the actors with a Nodes editor; others are control requests
    Running,        \* the actors that also run the project
    FormIds,        \* what the user may type as the id of a new node
    FormTemplates,  \* what the user may select as a template
    FormCommands,   \* commands the form may give a node
    ScriptTexts,    \* what the user may type as a script
    MaxSaves,       \* bound: saves of all kinds
    MaxFaults,      \* bound: writes that fail
    MaxCrashes      \* bound: processes that die

\* The parts of a text that parses, and the paths it may name.
IsNode(t) == t = [kind |-> "node", id |-> t.id, templateId |-> t.templateId,
                  enabled |-> t.enabled, assets |-> t.assets, weight |-> t.weight,
                  command |-> t.command, env |-> t.env, attachments |-> t.attachments]

IsProject(t) ==
    /\ t = [kind |-> "project", header |-> t.header, nodes |-> t.nodes,
            scripts |-> t.scripts, others |-> t.others, startup |-> t.startup]
    /\ {t.nodes, t.scripts, t.others} \subseteq Seq(Path)
    /\ Range(t.nodes) \cap Range(t.scripts) = {}

IsText(t) == (t.kind = "node" => IsNode(t)) /\ (t.kind = "project" => IsProject(t))

IsDirectory(fs) ==
    /\ fs = [p \in DOMAIN fs |-> fs[p]]
    /\ DOMAIN fs \subseteq Path /\ \A p \in DOMAIN fs : IsText(fs[p])

\* A new node or script has a path of its own in the project, before the project file
\* in the order of a map (nodes/, scripts/, sim-rns.project.json), a valid id and a
\* template.
ASSUME SourcesAssumption ==
    /\ NoOne \notin Actor \cup Path
    /\ ProjectFile \in Path /\ Inside \subseteq Path
    /\ NodePaths \in Seq(Inside \ {ProjectFile}) /\ ScriptPaths \in Seq(Inside \ {ProjectFile})
    /\ \A p \in Range(NodePaths) : NodeId[p] \in Identifier
    /\ \A p \in Range(ScriptPaths) :
           ScriptId[p] \in Identifier /\ ScriptTemplate[p] = "script.python"
    /\ ScriptTemplate \in [Path -> {"script.python", "script.bash", Unsupported}]
    /\ Unsupported \notin {"script.python", "script.bash"}
    /\ ScriptTemplate[ProjectFile] = Unsupported
    /\ WriteOrder \in [Path -> Nat]
    /\ \A p, q \in Path : WriteOrder[p] = WriteOrder[q] => p = q
    /\ \A p \in Range(NodePaths) \cup Range(ScriptPaths) : WriteOrder[p] < WriteOrder[ProjectFile]
    /\ IsDirectory(InitialFiles) /\ Loads(InitialFiles)
    /\ \A w \in Rewrites : IsText(w[2])
    /\ Editing \cup Running \subseteq Actor /\ MaxSaves \in Nat /\ MaxFaults \in Nat /\ MaxCrashes \in Nat

VARIABLES
    files,    \* the project's directory
    lock,     \* who holds .sim-rns/project.lock
    op,       \* what each actor is doing
    form,     \* the snapshot behind each actor's open editor
    vm,       \* the virtual machine: running, and a prepared disk in its place
    prepared, \* the sources the guest has initialized its disk from, and whether their
              \* project file was one that had been replaced by then
    drift,    \* other editors changed sources under a prepared disk (history)
    window,   \* a save was cut off in a way that nothing repairs (history)
    saves, faults, crashes

trackVars == <<prepared, drift, window>>
counters == <<saves, faults, crashes>>
vars     == <<files, lock, op, form, vm, trackVars, counters>>

\* `todo' is what is to be written, `changed' what may have been, `before' the
\* directory as it was.
Idle == [kind |-> "none", phase |-> "none", unread |-> <<>>, todo |-> {}, text |-> <<>>,
         changed |-> {}, before |-> <<>>, archived |-> FALSE, failed |-> FALSE]

File == files[ProjectFile]

\* A disk that no guest has initialized yet.
Blank == [sources |-> <<>>, stale |-> FALSE]

\* EditorSnapshot: the project as parsed, and the text of every source.
Sources(file) == <<ProjectFile>> \o file.nodes \o file.scripts

SnapshotOf(fs) ==
    [project |-> fs[ProjectFile],
     sources |-> [p \in Range(Sources(fs[ProjectFile])) |-> fs[p]]]

Put(fs, p, text) == [q \in DOMAIN fs \cup {p} |-> IF q = p THEN text ELSE fs[q]]

PlainText(contents) == [kind |-> "text", contents |-> contents]

Init ==
    /\ files = InitialFiles
    /\ lock = NoOne
    /\ op = [a \in Actor |-> Idle]
    /\ form = [a \in Actor |-> NoOne]
    /\ vm = [running |-> FALSE, disk |-> FALSE]
    /\ prepared = Blank /\ drift = FALSE /\ window = FALSE
    /\ saves = 0 /\ faults = 0 /\ crashes = 0

--------------------------------------------------------------------------------
\* editor::load, without the lock: load_project, then each source by itself.
OpenEditor(a) ==
    /\ a \in Editing /\ op[a].kind = "none" /\ form[a] = NoOne
    /\ Loads(files)
    /\ op' = [op EXCEPT ![a] = [Idle EXCEPT !.kind = "open", !.phase = "read",
                                            !.unread = Sources(File), !.before = File]]
    /\ UNCHANGED <<files, lock, form, vm, trackVars, counters>>

\* The form opens with the last one; a source that is gone, or a node that does not
\* parse, is an error.
ReadSource(a) ==
    /\ op[a].phase = "read"
    /\ LET p    == Head(op[a].unread)
           rest == Tail(op[a].unread)
           node == p \in Range(op[a].before.nodes)
       IN  IF p \notin DOMAIN files \/ (node /\ files[p].kind # "node")
           THEN op' = [op EXCEPT ![a] = Idle] /\ UNCHANGED form
           ELSE LET text == Put(op[a].text, p, files[p]) IN
                IF rest = <<>>
                THEN /\ op' = [op EXCEPT ![a] = Idle]
                     /\ form' = [form EXCEPT ![a] = [project |-> op[a].before, sources |-> text]]
                ELSE /\ op' = [op EXCEPT ![a] = [@ EXCEPT !.unread = rest, !.text = text]]
                     /\ UNCHANGED form
    /\ UNCHANGED <<files, lock, vm, trackVars, counters>>

CloseEditor(a) ==
    /\ op[a].kind = "none" /\ form[a] # NoOne
    /\ form' = [form EXCEPT ![a] = NoOne]
    /\ UNCHANGED <<files, lock, op, vm, trackVars, counters>>

--------------------------------------------------------------------------------
\* Every save takes the lock and loads the project; then it writes the paths of
\* todo with their new texts.
Enter(a) == op[a].kind = "none" /\ lock = NoOne /\ saves < MaxSaves /\ Loads(files)

\* Deviation: the prepared VM stays in its place.
BeginUnarchived(a, kind, phase, text) ==
    /\ lock' = a /\ saves' = saves + 1
    /\ op' = [op EXCEPT ![a] = [Idle EXCEPT !.kind = kind, !.phase = "write", !.text = text,
                                            !.todo = DOMAIN text, !.before = files]]

Begin(a, kind, phase, text) ==
    /\ lock' = a /\ saves' = saves + 1
    /\ op' = [op EXCEPT ![a] = [Idle EXCEPT !.kind = kind, !.phase = phase, !.text = text,
                                            !.todo = DOMAIN text, !.before = files]]

\* Deviation: a path is free when no element has its id, whatever file is there.
FirstUnused(paths, idOf) ==
    LET free == {i \in DOMAIN paths : idOf[paths[i]] \notin Ids(ProjectRecipe(files))}
    IN  IF free = {} THEN NoOne ELSE paths[Min(free)]

\* unique_project_entry_path: the first path that is free and whose id is unused.
FirstFree(paths, idOf) ==
    LET free == {i \in DOMAIN paths : paths[i] \notin DOMAIN files
                                      /\ idOf[paths[i]] \notin Ids(ProjectRecipe(files))}
    IN  IF free = {} THEN NoOne ELSE paths[Min(free)]

\* A new id joins a startup order that is not empty.
Joined(startup, id) ==
    IF startup = EmptyBag \/ id \in DOMAIN startup THEN startup ELSE Put(startup, id, 1)

AddScriptInclude(a) ==
    LET p == FirstFree(ScriptPaths, ScriptId) IN
    /\ Enter(a)
    /\ p # NoOne
    /\ Begin(a, "add", "write",
             [q \in {p, ProjectFile} |->
                 IF q = p THEN PlainText("stub")
                 ELSE [File EXCEPT !.scripts = Append(@, p),
                                   !.startup = Joined(@, ScriptId[p])]])
    /\ UNCHANGED <<files, form, vm, trackVars, faults, crashes>>

Node(id, templateId, enabled, assets, command, attachments) ==
    [kind |-> "node", id |-> id, templateId |-> templateId, enabled |-> enabled,
     assets |-> assets, weight |-> 100, command |-> command, env |-> "valid",
     attachments |-> attachments]

\* The new node is attached to the first enabled LAN.
FirstLan ==
    LET lans == {i \in DOMAIN File.nodes : /\ files[File.nodes[i]].enabled
                                           /\ files[File.nodes[i]].templateId = "network.lan"}
    IN  IF lans = {} THEN {} ELSE {files[File.nodes[Min(lans)]].id}

AddNodeInclude(a) ==
    LET p == FirstFree(NodePaths, NodeId) IN
    /\ Enter(a)
    /\ p # NoOne
    /\ Begin(a, "add", "write",
             [q \in {p, ProjectFile} |->
                 IF q = p THEN Node(NodeId[p], "reticulum.python.backbone", TRUE, {},
                                    "default", SetToBag(FirstLan))
                 ELSE [File EXCEPT !.nodes = Append(@, p),
                                   !.startup = Joined(@, NodeId[p])]])
    /\ UNCHANGED <<files, form, vm, trackVars, faults, crashes>>

WriteProjectSource(a, p, text) ==
    /\ Enter(a)
    /\ ~vm.running
    /\ Resolves(files, p)
    /\ Begin(a, "rewrite", "write", [q \in {p} |-> text])
    /\ UNCHANGED <<files, form, vm, trackVars, faults, crashes>>

--------------------------------------------------------------------------------
(* The Nodes editor's edits: [kind, id, node] or [kind, path, text].           *)

\* The node form: a node as it was, or a new one, with the fields the user has chosen.
Filled(node, templateId, enabled, command, lans) ==
    [node EXCEPT !.templateId = templateId, !.enabled = enabled, !.command = command,
                 !.attachments = SetToBag(lans)]

FormNodes(node, lans) ==
    {Filled(node, templateId, enabled, command, chosen) :
        templateId \in FormTemplates \cup {node.templateId}, enabled \in BOOLEAN,
        command \in FormCommands, chosen \in SUBSET lans}

NewNode(id) == Node(id, "network.lan", TRUE, {}, "default", EmptyBag)

Shown(snapshot) == {snapshot.sources[p] : p \in Range(snapshot.project.nodes)}

LanIds(nodes) == {n.id : n \in {n \in nodes : n.templateId = "network.lan"}}

Edits(snapshot) ==
    LET nodes == Shown(snapshot) IN
    [kind : {"new"},
     node : UNION {FormNodes(NewNode(id), LanIds(nodes)) : id \in FormIds}]
        \cup [kind : {"save"}, node : UNION {FormNodes(o, LanIds(nodes \ {o})) : o \in nodes}]
        \cup [kind : {"remove"}, node : nodes]
        \cup [kind : {"script"}, path : Range(snapshot.project.scripts),
              text : {PlainText(t) : t \in ScriptTexts}]

Submittable(node) ==
    /\ node.templateId \in SUPPORTED_TEMPLATES
    /\ \A asset \in node.assets : asset.mode = "copy"
    /\ node.templateId \in {"script.python", "script.bash"} => node.command # "default"

\* The directory after an edit, before any check of the result.
PlaceOf(id) == CHOOSE i \in DOMAIN File.nodes : files[File.nodes[i]].id = id

Without(bag, x) == [y \in DOMAIN bag \ {x} |-> bag[y]]

EditedScript(edit) == Put(files, edit.path, edit.text)

\* A node that is enabled joins the startup order, one that is disabled leaves it.
EditedNode(edit) ==
    LET id  == edit.node.id
        new == edit.kind = "new"
        p   == IF new THEN FirstFree(NodePaths, NodeId) ELSE File.nodes[PlaceOf(id)]
        order == CASE ~edit.node.enabled -> Without(File.startup, id)
                   [] edit.node.enabled /\ (new \/ ~files[p].enabled) -> Joined(File.startup, id)
                   [] OTHER -> File.startup
        file == [File EXCEPT !.nodes = IF new THEN Append(@, p) ELSE @, !.startup = order]
    IN  Put(Put(files, p, edit.node), ProjectFile, file)

\* The file stays; nothing is attached to the node, and it does not start, any more.
EditedRemoval(edit) ==
    LET id == edit.node.id
        i  == PlaceOf(id)
        file == [File EXCEPT !.nodes = RemoveAt(@, i), !.startup = Without(@, id)]
    IN  [q \in DOMAIN files |->
            IF q = ProjectFile THEN file
            ELSE IF q \in Range(File.nodes) \ {File.nodes[i]}
            THEN [files[q] EXCEPT !.attachments = Without(@, id)]
            ELSE files[q]]

Edited(edit) == CASE edit.kind = "script" -> EditedScript(edit)
                  [] edit.kind \in {"new", "save"} -> EditedNode(edit)
                  [] edit.kind = "remove" -> EditedRemoval(edit)

\* Deviation: no rule about links of LANs.
EditorAcceptsLans(fs) ==
    /\ Builds(fs, fs[ProjectFile], NodesOf(fs, fs[ProjectFile]))
    /\ Cardinality(DOMAIN ProjectRecipe(fs).elements) <= MaxElements

\* The editor's own rules for the result, beyond validate_recipe.
EditorAccepts(fs) ==
    LET nodes == Range(NodesOf(fs, fs[ProjectFile]))
        lans  == {n \in nodes : n.templateId = "network.lan"}
    IN  /\ Builds(fs, fs[ProjectFile], NodesOf(fs, fs[ProjectFile]))
        /\ Cardinality(DOMAIN ProjectRecipe(fs).elements) <= MaxElements
        /\ \A n \in lans : n.attachments = EmptyBag
        /\ \A n \in nodes : n.enabled =>
               DOMAIN n.attachments \subseteq {l.id : l \in {l \in lans : l.enabled}}

\* Deviation: only the project file is compared.
CurrentProject(a) == form[a] # NoOne /\ form[a].project = File

\* The editor's snapshot is the project as it is now, every text included.
Current(a) == form[a] # NoOne /\ form[a] = SnapshotOf(files)

\* editor::apply: only what changed is written, the project file with it.
Apply(a, edit, freshGuest) ==
    LET result == Edited(edit)
        writes == {ProjectFile} \cup {p \in DOMAIN result :
                                        p \in DOMAIN files => result[p] # files[p]}
    IN
    /\ Enter(a)
    /\ Current(a)
    /\ ~vm.running
    /\ vm.disk => freshGuest
    /\ edit.kind \in {"new", "save"} => Submittable(edit.node)
    /\ edit.kind = "new" => FirstFree(NodePaths, NodeId) # NoOne
    /\ EditorAccepts(result)
    /\ result # files
    /\ Begin(a, "apply", IF vm.disk THEN "archive" ELSE "write",
             [p \in writes |-> result[p]])
    /\ UNCHANGED <<files, form, vm, trackVars, faults, crashes>>

--------------------------------------------------------------------------------
\* The prepared VM is moved to previous-vm-* before anything is written.
Archive(a) ==
    /\ op[a].phase = "archive"
    /\ vm' = [vm EXCEPT !.disk = FALSE]
    /\ op' = [op EXCEPT ![a] = [@ EXCEPT !.phase = "write", !.archived = TRUE]]
    /\ UNCHANGED <<files, lock, form, trackVars, counters>>

\* The actor is done: it releases the lock; a saved form closes.
Finish(a, saved) ==
    /\ lock' = NoOne
    /\ op' = [op EXCEPT ![a] = Idle]
    /\ form' = IF saved /\ op[a].kind = "apply" THEN [form EXCEPT ![a] = NoOne] ELSE form

\* Deviation: the project file comes before the files it includes.
TurnReversed(a, p) == p \in op[a].todo /\ \A q \in op[a].todo : WriteOrder[p] >= WriteOrder[q]

\* Files are written in the order of the map; the includes, before the project file.
Turn(a, p) == p \in op[a].todo /\ \A q \in op[a].todo : WriteOrder[p] <= WriteOrder[q]

\* One atomic_write.  The includes are not validated again; the other two load the
\* project when all is written.
Write(a, p) ==
    LET last == op[a].todo = {p} IN
    /\ op[a].phase = "write" /\ Turn(a, p)
    /\ files' = Put(files, p, op[a].text[p])
    /\ IF last /\ op[a].kind = "add"
       THEN Finish(a, TRUE)
       ELSE /\ op' = [op EXCEPT ![a] =
                 [@ EXCEPT !.todo = op[a].todo \ {p}, !.changed = op[a].changed \cup {p},
                           !.phase = IF last THEN "check" ELSE "write"]]
            /\ UNCHANGED <<lock, form>>
    /\ drift' = (drift \/ (vm.disk /\ op[a].kind # "apply"))
    /\ UNCHANGED <<vm, prepared, window, counters>>

\* atomic_write fails: before it replaces the file, or when it syncs the directory
\* after.  Only editor::apply restores what it has changed.
WriteFails(a, p) ==
    /\ op[a].phase \in {"archive", "write"} /\ Turn(a, p)
    /\ faults < MaxFaults /\ faults' = faults + 1
    /\ \/ op[a].phase = "write" /\ files' = Put(files, p, op[a].text[p])
       \/ UNCHANGED files
    /\ IF op[a].kind = "apply" /\ op[a].phase = "write"
       THEN /\ op' = [op EXCEPT ![a] =
                         [@ EXCEPT !.changed = op[a].changed \cup {p}, !.phase = "undo"]]
            /\ UNCHANGED <<lock, form>>
       ELSE Finish(a, FALSE)
    /\ window' = (window \/ (op[a].kind = "rewrite" /\ files' # files))
    /\ drift' = (drift \/ (vm.disk /\ files' # files))
    /\ UNCHANGED <<vm, prepared, saves, crashes>>

\* load_project after the writes: a result that does not load is undone.
Check(a) ==
    /\ op[a].phase = "check"
    /\ IF Loads(files)
       THEN Finish(a, TRUE)
       ELSE op' = [op EXCEPT ![a] = [@ EXCEPT !.phase = "undo"]] /\ UNCHANGED <<lock, form>>
    /\ UNCHANGED <<files, vm, trackVars, counters>>

Restored(fs, before, p) ==
    IF p \in DOMAIN before THEN Put(fs, p, before[p]) ELSE [q \in DOMAIN fs \ {p} |-> fs[q]]

\* The changed files are restored in reverse, new ones removed; a restore that
\* fails is reported and the next one tried.
Undo(a, p) ==
    /\ op[a].phase = "undo" /\ p \in op[a].changed
    /\ \A q \in op[a].changed : WriteOrder[q] <= WriteOrder[p]
    /\ \/ files' = Restored(files, op[a].before, p)
          /\ op' = [op EXCEPT ![a] = [@ EXCEPT !.changed = op[a].changed \ {p}]]
          /\ UNCHANGED <<faults, window, drift>>
       \/ /\ faults < MaxFaults /\ faults' = faults + 1
          /\ op' = [op EXCEPT ![a] = [@ EXCEPT !.changed = op[a].changed \ {p},
                                                 !.failed = TRUE]]
          /\ window' = TRUE /\ drift' = TRUE
          /\ UNCHANGED files
    /\ UNCHANGED <<lock, form, vm, prepared, saves, crashes>>

\* Deviation: the archived VM stays archived.
UndoneArchived(a) ==
    /\ op[a].phase = "undo" /\ op[a].changed = {}
    /\ Finish(a, FALSE)
    /\ UNCHANGED <<files, vm, trackVars, counters>>

\* Renaming the archived VM back fails, which is reported with the error.
RenameFails(a) ==
    /\ op[a].phase = "undo" /\ op[a].changed = {} /\ op[a].archived
    /\ op' = [op EXCEPT ![a] = [@ EXCEPT !.archived = FALSE, !.failed = TRUE]]
    /\ UNCHANGED <<files, lock, form, vm, trackVars, counters>>

\* The archived VM comes back and the error is returned.
Undone(a) ==
    /\ op[a].phase = "undo" /\ op[a].changed = {}
    /\ vm' = [vm EXCEPT !.disk = @ \/ op[a].archived]
    /\ Finish(a, FALSE)
    /\ UNCHANGED <<files, trackVars, counters>>

\* A save with an included file, such as tools/x.json, that comes after the project file.
Late(text) == \E p \in DOMAIN text : WriteOrder[ProjectFile] < WriteOrder[p]

\* No prefix of what this operation still does, or undoes, is known to be good.
Fragile(r) ==
    \/ r.kind = "rewrite" /\ r.phase \in {"check", "undo"}
    \/ r.kind = "apply" /\ r.phase \in {"write", "undo"} /\ Late(r.text)

\* The actor's process dies; closing the lock file releases the lock.
Crash(a) ==
    /\ op[a].kind # "none"
    /\ crashes < MaxCrashes /\ crashes' = crashes + 1
    /\ window' = (window \/ Fragile(op[a]))
    /\ lock' = IF lock = a THEN NoOne ELSE lock
    /\ op' = [op EXCEPT ![a] = Idle]
    /\ form' = [form EXCEPT ![a] = NoOne]
    /\ UNCHANGED <<files, vm, prepared, drift, saves, faults>>

--------------------------------------------------------------------------------
(* Run and Stop, operations of VmLifecycle on the same lock.  A run has a      *)
(* Project, the parsed project file, from before its locked sections; the      *)
(* files it includes are read again in each of them.                           *)

LoadForRun(a) ==
    /\ a \in Running /\ op[a].kind = "none" /\ Loads(files)
    /\ op' = [op EXCEPT ![a] = [Idle EXCEPT !.kind = "run", !.phase = "loaded", !.before = File]]
    /\ UNCHANGED <<files, lock, form, vm, trackVars, counters>>

\* The directory as the run sees it.
Seen(a) == Put(files, ProjectFile, op[a].before)

InRun(a) == op[a].phase = "loaded" /\ lock = NoOne /\ ~vm.running /\ Loads(Seen(a))

PrepareVm(a) ==
    /\ InRun(a)
    /\ ~vm.disk
    /\ vm' = [vm EXCEPT !.disk = TRUE] /\ prepared' = Blank
    /\ UNCHANGED <<files, lock, op, form, drift, window, counters>>

\* The first boot of a disk initializes it; another one needs the recipe it has stored.
\* A boot may fail after that.
BootVm(a) ==
    /\ InRun(a)
    /\ vm.disk
    /\ \E up \in BOOLEAN : vm' = [vm EXCEPT !.running = up]
    /\ IF prepared = Blank
       THEN /\ GuestAccepts(ProjectRecipe(Seen(a)))
            /\ prepared' = [sources |-> SnapshotOf(Seen(a)).sources, stale |-> Seen(a) # files]
            /\ drift' = FALSE
       ELSE /\ ProjectRecipe(Seen(a)) = ProjectRecipe(prepared.sources)
            /\ UNCHANGED <<prepared, drift>>
    /\ op' = [op EXCEPT ![a] = Idle]
    /\ UNCHANGED <<files, lock, form, window, counters>>

\* The run fails without having initialized the disk.
RunFails(a) ==
    /\ op[a].phase = "loaded"
    /\ op' = [op EXCEPT ![a] = Idle]
    /\ UNCHANGED <<files, lock, form, vm, trackVars, counters>>

StopVm ==
    /\ lock = NoOne /\ vm.running
    /\ vm' = [vm EXCEPT !.running = FALSE]
    /\ UNCHANGED <<files, lock, op, form, trackVars, counters>>

Next ==
    \/ \E a \in Actor :
        \/ OpenEditor(a) \/ ReadSource(a) \/ CloseEditor(a)
        \/ AddScriptInclude(a) \/ AddNodeInclude(a)
        \/ \E w \in Rewrites : WriteProjectSource(a, w[1], w[2])
        \/ \E edit \in IF Enter(a) /\ Current(a) THEN Edits(form[a]) ELSE {},
              freshGuest \in BOOLEAN : Apply(a, edit, freshGuest)
        \/ Archive(a) \/ Check(a) \/ RenameFails(a) \/ Undone(a)
        \/ \E p \in op[a].todo : Write(a, p) \/ WriteFails(a, p)
        \/ \E p \in op[a].changed : Undo(a, p)
        \/ LoadForRun(a) \/ PrepareVm(a) \/ BootVm(a) \/ RunFails(a)
        \/ Crash(a)
    \/ StopVm

Spec == Init /\ [][Next]_vars

--------------------------------------------------------------------------------
(* Properties.                                                             *)

\* The type of the state: an operation under the lock, and only such a one, has
\* texts to write or files to restore.
TypeOK ==
    /\ IsDirectory(files)
    /\ lock \in Actor \cup {NoOne}
    /\ \A a \in Actor :
        /\ op[a].phase \in {"none", "read", "loaded", "archive", "write", "check", "undo"}
        /\ (lock = a) <=> op[a].phase \in {"archive", "write", "check", "undo"}
        /\ op[a].unread = <<>> <=> op[a].phase # "read"
        /\ op[a].todo = {} => op[a].phase \notin {"archive", "write"}
        /\ op[a].todo \cup op[a].changed \subseteq DOMAIN op[a].text
    /\ vm \in [running : BOOLEAN, disk : BOOLEAN]
    /\ drift \in BOOLEAN /\ window \in BOOLEAN
    /\ saves \in 0..MaxSaves /\ faults \in 0..MaxFaults /\ crashes \in 0..MaxCrashes

\* Whenever nobody holds the lock the project loads: an editor's save and an added
\* include may be cut off between any two of their writes (lib.rs:1022, editor.rs:232).
\* The exceptions are a text that was replaced and not validated after, the window of
\* "Atomically replace an existing text source, restoring it if recipe validation
\* fails" (lib.rs:402), and a save of the editor with an include that its map has after
\* the project file (editor.rs:233).
LoadableWhenFree == lock = NoOne /\ ~window => Loads(files)

\* A text is replaced or removed.
Changes(p) == p \in DOMAIN files' => files'[p] # files[p]

\* A save overwrites only texts its editor has shown: what was written since the
\* snapshot was read, file by file and without the lock, is never lost (editor.rs:75).
NoLostUpdate == [][\A a \in Actor, p \in DOMAIN files :
    (lock = a /\ op[a].phase = "write" /\ op[a].kind = "apply" /\ Changes(p)) =>
        p \in DOMAIN form[a].sources /\ files[p] = form[a].sources[p]]_vars

\* "Unreferenced source files are retained so removal never destroys custom files"
\* (editor.rs:141): a file that the project does not include is changed only by
\* write_project_source, and removed only by the save that created it.
CustomFilesKept == [][\A p \in DOMAIN files : Changes(p) => \E a \in Actor :
    /\ lock = a
    /\ \/ p \notin DOMAIN op[a].before
       \/ p \in DOMAIN files' /\ op[a].kind = "rewrite"
       \/ p \in DOMAIN files' /\ p \in Range(Sources(op[a].before[ProjectFile]))]_vars

\* A save that reports failure after its first write has put back every file and the
\* prepared VM, unless it reports a rollback error too (editor.rs:239).
FailedSaveRestores == [][\A a \in Actor :
    (op[a].phase = "undo" /\ lock' = NoOne /\ crashes' = crashes /\ ~op[a].failed) =>
        files' = op[a].before /\ (op[a].archived => vm'.disk)]_vars

\* The directory has what the guest was initialized from; its project file may be
\* another one if the run had loaded the Project before somebody replaced it.
Matches(fs) ==
    \A p \in DOMAIN prepared.sources :
        \/ p \in DOMAIN fs /\ prepared.sources[p] = fs[p]
        \/ p = ProjectFile /\ prepared.stale

\* "A prepared guest has persistent initialization.  Changes require explicit consent
\* to archive that VM" (editor.rs:69): however the editor's saves are cut off and the
\* locked sections of runs fall between them, a disk in place belongs to the sources
\* as they are, but for the project file of a run that has waited with an older one.
DiskMatchesSources == vm.disk /\ ~drift => Matches(files)

\* The editor turns no project the guest takes into one it refuses: its rules are
\* the guest's (editor.rs:153, agent.py:51).
GuestTakesEdits == [][\A a \in Actor :
    (op[a].kind = "apply" /\ op[a].phase = "check" /\ op'[a].kind = "none"
        /\ crashes' = crashes /\ GuestAccepts(ProjectRecipe(op[a].before))) =>
        GuestAccepts(ProjectRecipe(files))]_vars
==============================================================================
