-------------------------- MODULE RuntimeMetadata --------------------------
(***************************************************************************)
(* The runtime metadata of a project, .sim-rns/runtime.json: the state of  *)
(* machine and nodes, an overlay on the links of the recipe, snapshots,    *)
(* and the last events.  It outlives edits of the recipe, so whatever is   *)
(* read from it is first reconciled with the recipe of the caller, who     *)
(* loaded the Project before it waited for the lock and may have one that  *)
(* is older than the sources.                                              *)
(*                                                                         *)
(* The commands are those of FileBackedRuntime, the model of a runtime     *)
(* that the tests use; QemuRuntime shares the file and its reconciliation. *)
(* Each one runs under the project lock and replaces the file in one write,*)
(* so it is one step here, with the recipe r of its caller.                *)
(***************************************************************************)
EXTENDS Naturals, Sequences, FiniteSets, FiniteSetsExt, Functions

CONSTANTS
    Caller,      \* callers that keep a Project they have loaded
    Id,          \* element ids
    Recipes,     \* recipes the project may be edited to: elements, links, startup
    Times,       \* times the system clock may show
    SnapshotKeep,\* bound: snapshots in the file
    MaxEvents,   \* the limit of a hundred events
    MaxClock,    \* the last value of the command clock
    MaxFaults    \* bound: saves that fail

ASSUME MetadataAssumption ==
    /\ \A r \in Recipes :
          /\ DOMAIN r.elements \subseteq Id
          /\ r.elements \in [DOMAIN r.elements -> [lan : BOOLEAN, enabled : BOOLEAN]]
          /\ r.links \subseteq (DOMAIN r.elements) \X (DOMAIN r.elements)
          /\ r.startup \subseteq DOMAIN r.elements
    /\ MaxEvents \in Nat \ {0} /\ MaxClock \in Nat /\ MaxFaults \in Nat

VARIABLES
    recipe,   \* the recipe in the project's sources
    projects, \* the recipe each caller's Project had when it was loaded
    file,     \* runtime.json
    replies,  \* ids of the accepted commands, in order (history)
    wish,     \* what was last asked for each link (history)
    faults

vars == <<recipe, projects, file, replies, wish, faults>>

Link == Id \X Id

VmStates   == {"stopped", "running", "paused"}
NodeStates == {"unknown", "failed", "disabled", "stopped", "running"}

\* RuntimeState.  The backend is reachable exactly while the machine runs.  Snapshots
\* are numbered by age: the file lists the youngest, with the greatest number, first.
RuntimeState(vm, nodes) ==
    [vm |-> vm, nodes |-> nodes, additions |-> {}, removals |-> {},
     snapshots |-> <<>>, events |-> <<>>, clock |-> 0]

Elements(r) == DOMAIN r.elements

Both(r, links) == {l \in links : l[1] \in Elements(r) /\ l[2] \in Elements(r)}

\* The state of a node of recipe r, given the recorded one.
NodeState(r, e, old) ==
    CASE ~r.elements[e].enabled -> "disabled"
      [] r.elements[e].enabled /\ old = "disabled" -> "stopped"
      [] OTHER -> old

initial_state(r) == RuntimeState("stopped", [e \in Elements(r) |-> NodeState(r, e, "stopped")])

\* Nodes and overlay entries of elements that are gone are dropped, new elements
\* get a node.
reconcile_state(r, state) ==
    [state EXCEPT
        !.nodes = [e \in Elements(r) |->
                      NodeState(r, e, IF e \in DOMAIN state.nodes THEN state.nodes[e] ELSE "stopped")],
        !.additions = Both(r, @),
        !.removals = Both(r, @)]

\* What a command, or a status query, starts from.
Current(r) == reconcile_state(r, file)

effective_topology(r) == (r.links \ Current(r).removals) \cup Current(r).additions

Init ==
    /\ recipe \in Recipes
    /\ projects = [c \in Caller |-> recipe]
    /\ file = initial_state(recipe)
    /\ replies = <<>>
    /\ wish = [l \in Link |-> "none"]
    /\ faults = 0

\* The recipe is edited; the metadata is not touched.
EditRecipe ==
    /\ recipe' \in Recipes
    /\ UNCHANGED <<projects, file, replies, wish, faults>>

\* load_project: what the caller then executes and asks for has this recipe.
LoadProject(c) ==
    /\ projects' = [projects EXCEPT ![c] = recipe]
    /\ UNCHANGED <<recipe, file, replies, wish, faults>>

\* project_recipe of a Project loaded earlier: elements and startup order are those of
\* its project file; the node files, with their links, are read again.
project_recipe(project) ==
    [elements |-> [e \in Elements(project) |->
                      IF e \in Elements(recipe) THEN recipe.elements[e] ELSE project.elements[e]],
     links    |-> {l \in recipe.links : l[1] \in Elements(project)}
                     \cup {l \in project.links : l[1] \notin Elements(recipe)},
     startup  |-> project.startup]

\* The recipes that a command may come with: of a caller that has just loaded the
\* project, or of one that did so earlier; a link to no element is an error.
Held == {r \in {recipe} \cup {project_recipe(project) : project \in Range(projects)} :
            r.links \subseteq Both(r, Link)}

--------------------------------------------------------------------------------
\* Deviation: commands are numbered by the events on record.
EventCount(clock) == Len(file.events) + 1

next_command_id(clock) == IF clock < MaxClock THEN clock + 1 ELSE clock

Loaded(r) == [Current(r) EXCEPT !.clock = next_command_id(@)]

\* Deviation: events are cut from the wrong end.
PushOldest(events, id) == IF Len(events) = MaxEvents THEN events ELSE Append(events, id)

\* The event is appended and the oldest ones are dropped.
push_event(events, id) ==
    LET all == Append(events, id) IN
    SubSeq(all, 1 + (IF Len(all) > MaxEvents THEN Len(all) - MaxEvents ELSE 0), Len(all))

\* The command's end: event, save, outcome.  A save that fails, before or after it
\* replaces the file, is an error to the caller.  (The overlay entries of elements
\* that the caller's recipe does not have leave the file now, and with them what
\* was wished for.)
Commit(r, state, wished) ==
    LET saved == [state EXCEPT !.events = push_event(@, state.clock)]
        kept  == [l \in Link |-> IF l \in Both(r, Link) THEN wished[l] ELSE "none"]
    IN
    /\ \/ file' = saved /\ wish' = kept
          /\ replies' = Append(replies, state.clock)
          /\ UNCHANGED faults
       \/ /\ faults < MaxFaults /\ faults' = faults + 1
          /\ \/ file' = saved /\ wish' = kept
             \/ UNCHANGED <<file, wish>>
          /\ UNCHANGED replies
    /\ UNCHANGED <<recipe, projects>>

PrepareVm(r) == Commit(r, Loaded(r), wish)

Boot(r) ==
    LET up(e) == r.elements[e].enabled /\ e \in r.startup IN
    Commit(r, [Loaded(r) EXCEPT !.vm = "running",
                          !.nodes = [e \in Elements(r) |-> IF up(e) THEN "running" ELSE @[e]]], wish)

Shutdown(r) ==
    Commit(r, [Loaded(r) EXCEPT !.vm = "stopped",
                          !.nodes = [e \in Elements(r) |->
                              IF r.elements[e].enabled THEN "stopped" ELSE @[e]]], wish)

Pause(r)  == Current(r).vm = "running" /\ Commit(r, [Loaded(r) EXCEPT !.vm = "paused"], wish)
Resume(r) == Current(r).vm = "paused" /\ Commit(r, [Loaded(r) EXCEPT !.vm = "running"], wish)

\* Deviation: a snapshot is named by its time alone.
TimeId(time, clock) == <<time>>

snapshot_id(time, clock) == <<time, clock>>

CreateSnapshot(r, time) ==
    LET snapshot == [id |-> snapshot_id(time, Loaded(r).clock), vm |-> Loaded(r).vm]
        number   == Max({0} \cup DOMAIN file.snapshots) + 1
    IN
    /\ Cardinality(DOMAIN file.snapshots) < SnapshotKeep
    /\ Commit(r, [Loaded(r) EXCEPT !.snapshots =
                  [i \in DOMAIN file.snapshots \cup {number} |->
                      IF i = number THEN snapshot ELSE file.snapshots[i]]], wish)

\* The numbers of the snapshots with the id of the i-th.
Named(i) == {j \in DOMAIN file.snapshots : file.snapshots[j].id = file.snapshots[i].id}

\* The first snapshot of that id gives the machine's state, and nothing else.
RestoreSnapshot(r, i) ==
    Commit(r, [Loaded(r) EXCEPT !.vm = file.snapshots[Max(Named(i))].vm], wish)

DeleteSnapshot(r, i) ==
    Commit(r, [Loaded(r) EXCEPT !.snapshots =
               Restrict(file.snapshots, DOMAIN file.snapshots \ Named(i))], wish)

SetNode(r, e, state) ==
    /\ r.elements[e].enabled
    /\ Commit(r, [Loaded(r) EXCEPT !.nodes[e] = state], wish)

\* StartNode and RestartNode differ only in their message.
StartNode(r, e) == Current(r).vm = "running" /\ SetNode(r, e, "running")
StopNode(r, e)  == SetNode(r, e, "stopped")

\* Deviation: the link is added, but its removal is not taken back.
AddHidden(r, l) ==
    LET shown == r.links \cup Loaded(r).additions IN
    /\ r.elements[l[2]].lan
    /\ Commit(r, [Loaded(r) EXCEPT !.additions = IF l \in shown THEN @ ELSE @ \cup {l}],
              [wish EXCEPT ![l] = IF l \in r.links \ Loaded(r).additions THEN "shown" ELSE "added"])

AddTopologyLink(r, l) ==
    LET unhidden == Loaded(r).removals \ {l}
        shown    == (r.links \ unhidden) \cup Loaded(r).additions
    IN
    /\ r.elements[l[2]].lan
    /\ Commit(r, [Loaded(r) EXCEPT !.removals = unhidden,
                             !.additions = IF l \in shown THEN @ ELSE @ \cup {l}],
              [wish EXCEPT ![l] = IF l \in r.links \ Loaded(r).additions THEN "shown" ELSE "added"])

RemoveTopologyLink(r, l) ==
    /\ r.elements[l[2]].lan
    /\ Commit(r, [Loaded(r) EXCEPT !.additions = @ \ {l},
                             !.removals = IF l \in r.links THEN @ \cup {l} ELSE @],
              [wish EXCEPT ![l] = IF l \in Loaded(r).removals \cup r.links THEN "removed" ELSE "none"])

Command(r) ==
    \/ PrepareVm(r) \/ Boot(r) \/ Shutdown(r) \/ Pause(r) \/ Resume(r)
    \/ \E time \in Times : CreateSnapshot(r, time)
    \/ \E i \in DOMAIN file.snapshots : RestoreSnapshot(r, i) \/ DeleteSnapshot(r, i)
    \/ \E e \in Elements(r) : StartNode(r, e) \/ StopNode(r, e)
    \/ \E l \in Both(r, Link) : AddTopologyLink(r, l) \/ RemoveTopologyLink(r, l)

\* Bound: no command after the clock has stood still once.
Next ==
    \/ EditRecipe
    \/ \E c \in Caller : LoadProject(c)
    \/ /\ Len(SelectSeq(file.events, LAMBDA id : id = MaxClock)) < 2
       /\ \E r \in Held : Command(r)

Spec == Init /\ [][Next]_vars

--------------------------------------------------------------------------------
(* Properties.                                                             *)

\* An accepted command has an id greater than that of every command accepted before,
\* though events are dropped and a save may have failed in between, until the clock
\* stands still at its last value (runtime.rs:1112).
RepliesIncrease ==
    \A i, j \in DOMAIN replies : i < j => replies[i] < replies[j] \/ replies[j] = MaxClock

\* The file has the last events, in the order of their ids, the last command's
\* included, and never more than the limit (runtime.rs:1117).
NewestEventsKept ==
    /\ Len(file.events) <= MaxEvents
    /\ \A i, j \in DOMAIN file.events : i < j => file.events[i] <= file.events[j]
    /\ file.events # <<>> => file.events[Len(file.events)] = file.clock

\* RestoreSnapshot and DeleteSnapshot mean one snapshot: two have the same id only
\* when the clock stands still (runtime.rs:908).
SnapshotsDistinct ==
    \A i, j \in DOMAIN file.snapshots :
        (i # j /\ file.snapshots[i].id = file.snapshots[j].id) => file.clock = MaxClock

\* The overlay does what it was last told, for whoever reads it with whatever
\* Project, through edits of the recipe and commands of callers that know another
\* one: a link that was added is there, one that was removed is not, and one that
\* the recipe had when it was added is not hidden.  An accepted link is lost in one
\* way only: by a command whose recipe lacks one of its elements (runtime.rs:963).
OverlayHonoured ==
    \A r \in Held : \A l \in Both(r, Link) :
        /\ wish[l] = "added" => l \in effective_topology(r)
        /\ wish[l] = "shown" /\ l \in r.links => l \in effective_topology(r)
        /\ wish[l] = "removed" => l \notin effective_topology(r)

\* The reconciled overlay names elements that the caller's recipe has, and no link is
\* both added and removed (runtime.rs:818).
OverlayConsistent ==
    \A r \in Held :
        /\ Current(r).additions \cap Current(r).removals = {}
        /\ Current(r).additions \cup Current(r).removals \subseteq Elements(r) \X Elements(r)
==============================================================================
