-------------------------------- MODULE UiRuntime --------------------------------
(***************************************************************************)
(* What the application's main thread knows about the open project's       *)
(* runtime, and how it gets to know it: an operation slot that toolbar,    *)
(* control requests and dialogs share, worker threads that execute the     *)
(* operations, and a background refresh whose result is dropped when it    *)
(* has become stale.                                                       *)
(*                                                                         *)
(* Each action is one turn of the main loop or one step of a worker        *)
(* thread.  What a status query reports about a project (recipe, VM,       *)
(* nodes) is a version number that changes of any origin increment.        *)
(***************************************************************************)
EXTENDS Naturals, FiniteSets

CONSTANTS
    Project,    \* projects
    NoProject,  \* none is open, or none is shown
    Worker,     \* worker threads
    MaxTurns,   \* bound: user and control requests
    MaxVersion  \* bound: changes of each project

ASSUME ProjectsAssumption ==
    /\ NoProject \notin Project
    /\ MaxTurns \in Nat /\ MaxVersion \in Nat

VARIABLES
    active,   \* the open project's handle
    ui,       \* published snapshot, generation and background refresh
    job,      \* what each worker thread does
    version,  \* state of each project, as a status query would report it
    effect,   \* version of each project after the UI's last change of it (history)
    seen,     \* version last shown of each project (history)
    turns     \* requests so far

vars == <<active, ui, job, version, effect, seen, turns>>

\* RuntimeViewSnapshot: its project and version, whether an operation is in
\* progress, whether an error is displayed.
Snapshot == [project : Project \cup {NoProject}, version : Nat,
             busy : BOOLEAN, error : BOOLEAN]
Empty    == [project |-> NoProject, version |-> 0, busy |-> FALSE, error |-> FALSE]
Loaded(p, v) == [project |-> p, version |-> v, busy |-> FALSE, error |-> FALSE]
Failed   == [Empty EXCEPT !.error = TRUE]

\* A refresh has been spawned for a project at a generation; the status it
\* brings is there once it is loaded.
NoRefresh == [project |-> NoProject, generation |-> 0, loaded |-> FALSE, snapshot |-> Empty]
Refresh == {NoRefresh} \cup [project : Project, generation : Nat, loaded : BOOLEAN,
                             snapshot : Snapshot]

UiState == [shown : Snapshot, generation : Nat, refresh : Refresh]

\* "toolbar": Run, Pause and Stop, whose result is published.
\* "runtime": control requests about the VM, and the Nodes editor.
\* "project": control requests about the project and the creation dialog, which
\* then open goal, close the project ("close") or leave it ("stay").
Kinds  == {"idle", "toolbar", "runtime", "project"}
Phases == {"work", "load", "done"}
Job == [kind : Kinds, project : Project \cup {NoProject}, goal : Project \cup {"close", "stay"},
        phase : Phases, ok : BOOLEAN, snapshot : Snapshot]
NoJob == [kind |-> "idle", project |-> NoProject, goal |-> "stay", phase |-> "work",
          ok |-> FALSE, snapshot |-> Empty]

Init ==
    /\ active = NoProject
    /\ ui = [shown |-> Empty, generation |-> 0, refresh |-> NoRefresh]
    /\ job = [w \in Worker |-> NoJob]
    /\ version = [p \in Project |-> 1]
    /\ effect = [p \in Project |-> 0] /\ seen = [p \in Project |-> 0]
    /\ turns = 0

Busy == ui.shown.busy
Pending == ui.refresh # NoRefresh

--------------------------------------------------------------------------------
(***************************************************************************)
(* Main-thread functions, from one state of the UI to the next.            *)
(***************************************************************************)

\* refresh_runtime_async.
RefreshAsync(u, a) ==
    IF u.shown.busy \/ u.refresh # NoRefresh \/ a = NoProject THEN u
    ELSE [u EXCEPT !.refresh = [project |-> a, generation |-> u.generation,
                                loaded |-> FALSE, snapshot |-> Empty]]

\* refresh_runtime_store, and with it finish_external_operation.
RefreshStore(u, a) ==
    RefreshAsync([u EXCEPT !.generation = @ + 1, !.shown = Empty], a)

\* The store is refreshed once the shell has switched to project p.  If it makes
\* the overview while it switches, that has asked for a refresh already.
Opened(u, p) == {RefreshStore(u, p), RefreshStore(RefreshAsync(u, p), p)}

\* Deviation: a refresh in progress stays current.
BegunSameGeneration(u) == [u EXCEPT !.shown.busy = TRUE, !.shown.error = FALSE]

\* begin_operation keeps what is shown and clears the error.
Begun(u) == [u EXCEPT !.generation = @ + 1, !.shown.busy = TRUE, !.shown.error = FALSE]

PublishError(u) == [u EXCEPT !.shown.error = TRUE]

\* The main loop goes on with UI state u and open project a.
Show(u, a) ==
    /\ ui' = u
    /\ active' = a
    /\ seen' = IF u.shown.project = NoProject THEN seen
               ELSE [seen EXCEPT ![u.shown.project] = u.shown.version]

\* A request of the user or of a control client.
Turn == turns < MaxTurns /\ turns' = turns + 1

--------------------------------------------------------------------------------
(***************************************************************************)
(* Requests.                                                               *)
(***************************************************************************)

\* Deviation: the operation slot is not looked at.
BeginAnyway(w, k, goal) ==
    /\ Turn
    /\ job[w] = NoJob
    /\ active # NoProject \/ k = "project"
    /\ job' = [job EXCEPT ![w] = [NoJob EXCEPT !.kind = k, !.project = active, !.goal = goal]]
    /\ Show(Begun(ui), active)
    /\ UNCHANGED <<version, effect>>

\* spawn_runtime_command, runtime, project, submit and the creation dialog: the
\* slot is taken and a worker thread spawned.
Begin(w, k, goal) ==
    /\ Turn
    /\ ~Busy
    /\ job[w] = NoJob
    /\ active # NoProject \/ k = "project"
    /\ job' = [job EXCEPT ![w] = [NoJob EXCEPT !.kind = k, !.project = active, !.goal = goal]]
    /\ Show(Begun(ui), active)
    /\ UNCHANGED <<version, effect>>

\* Deviation: a project is opened while an operation is in progress.
OpenAnyway(p) ==
    /\ Turn
    /\ \/ \E u \in Opened(ui, p) : Show(u, p)
       \/ Show(ui, NoProject)
    /\ UNCHANGED <<job, version, effect>>

\* open_selected_project: the opener refuses while the slot is taken.  The shell
\* may fail to switch.
Open(p) ==
    /\ Turn
    /\ ~Busy
    /\ \/ \E u \in Opened(ui, p) : Show(u, p)
       \/ Show(ui, NoProject)
    /\ UNCHANGED <<job, version, effect>>

\* close_project_command.
Close ==
    /\ Turn
    /\ IF Busy THEN Show(PublishError(ui), active)
       ELSE \/ Show(RefreshStore(ui, NoProject), NoProject)
            \/ Show(PublishError(ui), NoProject)
    /\ UNCHANGED <<job, version, effect>>

\* Commands without a project, and editors that cannot load theirs.
Complain ==
    /\ Show(PublishError(ui), active)
    /\ UNCHANGED <<job, version, effect, turns>>

\* Every two seconds, while there is an overview.
Timer ==
    /\ active # NoProject
    /\ Show(RefreshAsync(ui, active), active)
    /\ UNCHANGED <<job, version, effect, turns>>

--------------------------------------------------------------------------------
(***************************************************************************)
(* Worker threads.                                                         *)
(***************************************************************************)

\* Projects a job may change.
Changes(j) == (IF j.goal \in Project THEN {j.goal} ELSE {j.project}) \ {NoProject}

Changed(p) == /\ version[p] < MaxVersion
              /\ version' = [version EXCEPT ![p] = @ + 1]
              /\ effect' = [effect EXCEPT ![p] = version[p] + 1]

\* The command runs, with or without effect, and succeeds or fails.
Work(w) ==
    /\ job[w].kind # "idle" /\ job[w].phase = "work"
    /\ \/ UNCHANGED <<version, effect>>
       \/ \E p \in Changes(job[w]) : Changed(p)
    /\ \E ok \in BOOLEAN :
          job' = [job EXCEPT ![w].ok = ok,
                             ![w].phase = IF job[w].kind = "toolbar" THEN "load" ELSE "done"]
    /\ UNCHANGED <<active, ui, seen, turns>>

\* run_runtime_command_for_handle: after the command, whatever became of it,
\* the status is loaded, with the command's error; that may fail as well.  The
\* project file shown with it is the one from before the command: a version is
\* that of VM and nodes here.
Load(w) ==
    /\ job[w].kind = "toolbar" /\ job[w].phase = "load"
    /\ LET p == job[w].project IN
          \/ job' = [job EXCEPT ![w].phase = "done", ![w].snapshot =
                        [Loaded(p, version[p]) EXCEPT !.error = ~job[w].ok], ![w].ok = TRUE]
          \/ job' = [job EXCEPT ![w].phase = "done", ![w].ok = FALSE]
    /\ UNCHANGED <<active, ui, version, effect, seen, turns>>

\* The refresh thread loads project and status.
LoadRefresh ==
    /\ Pending /\ ~ui.refresh.loaded
    /\ \E s \in {Loaded(ui.refresh.project, version[ui.refresh.project]), Failed} :
          ui' = [ui EXCEPT !.refresh.loaded = TRUE, !.refresh.snapshot = s]
    /\ UNCHANGED <<active, job, version, effect, seen, turns>>

\* Another program acts on the project, or its VM moves on.
Outside(p) ==
    /\ version[p] < MaxVersion
    /\ version' = [version EXCEPT ![p] = @ + 1]
    /\ UNCHANGED <<active, ui, job, effect, seen, turns>>

--------------------------------------------------------------------------------
(***************************************************************************)
(* Completions, on the main thread.                                        *)
(***************************************************************************)

Retire(w) == job' = [job EXCEPT ![w] = NoJob] /\ UNCHANGED <<version, effect, turns>>

\* Deviation: the callback returns once it has logged an error.
CompleteToolbarLogged(w) ==
    /\ job[w].kind = "toolbar" /\ job[w].phase = "done"
    /\ Show(IF job[w].ok /\ active = job[w].project
            THEN [ui EXCEPT !.shown = job[w].snapshot] ELSE ui, active)
    /\ Retire(w)

\* complete_operation: the result is published, or the error added to what is
\* shown.  Nothing happens when another project has been opened.
CompleteToolbar(w) ==
    /\ job[w].kind = "toolbar" /\ job[w].phase = "done"
    /\ IF active # job[w].project THEN Show(ui, active)
       ELSE Show([ui EXCEPT !.shown = IF job[w].ok THEN job[w].snapshot
                                      ELSE [@ EXCEPT !.busy = FALSE, !.error = TRUE]], active)
    /\ Retire(w)

CompleteRuntime(w) ==
    /\ job[w].kind = "runtime" /\ job[w].phase = "done"
    /\ Show(RefreshStore(ui, active), active)
    /\ Retire(w)

\* The slot is released first: the opener and the closer refuse otherwise.
\* The store is refreshed again unless the shell failed to switch.
CompleteProject(w) ==
    /\ job[w].kind = "project" /\ job[w].phase = "done"
    /\ LET u == RefreshStore(ui, active)
           goal == IF job[w].ok THEN job[w].goal ELSE "stay"
       IN CASE goal = "stay"  -> Show(IF job[w].ok THEN RefreshStore(u, active) ELSE u, active)
            [] goal = "close" -> \/ Show(RefreshStore(u, NoProject), NoProject)
                                 \/ Show(u, NoProject)
            [] OTHER          -> \/ \E v \in Opened(u, goal) : Show(v, goal)
                                 \/ Show(u, NoProject)
    /\ Retire(w)

\* Deviation: a refresh is published although it has become stale.
PublishStale ==
    /\ Pending /\ ui.refresh.loaded
    /\ Show([ui EXCEPT !.refresh = NoRefresh,
                       !.shown = IF Busy THEN @ ELSE ui.refresh.snapshot], active)
    /\ UNCHANGED <<job, version, effect, turns>>

\* Deviation: the pending flag is reset only with a published refresh.
PublishOnly ==
    /\ Pending /\ ui.refresh.loaded
    /\ active = ui.refresh.project /\ ui.refresh.generation = ui.generation /\ ~Busy
    /\ Show([ui EXCEPT !.refresh = NoRefresh, !.shown = ui.refresh.snapshot], active)
    /\ UNCHANGED <<job, version, effect, turns>>

\* The refresh is published if it is for the open project, no operation or
\* refresh of the store began since, and none is in progress.
Publish ==
    /\ Pending /\ ui.refresh.loaded
    /\ LET current == active = ui.refresh.project
                      /\ ui.refresh.generation = ui.generation /\ ~Busy
       IN Show([ui EXCEPT !.refresh = NoRefresh,
                          !.shown = IF current THEN ui.refresh.snapshot ELSE @], active)
    /\ UNCHANGED <<job, version, effect, turns>>

Thread(w) == Work(w) \/ Load(w)
Complete(w) == CompleteToolbar(w) \/ CompleteRuntime(w) \/ CompleteProject(w)

Request ==
    \/ \E w \in Worker : \/ Begin(w, "toolbar", "stay") \/ Begin(w, "runtime", "stay")
                         \/ \E goal \in Project \cup {"stay", "close"} :
                               Begin(w, "project", goal)
    \/ \E p \in Project : Open(p)
    \/ Close \/ Complain

Next ==
    \/ Request
    \/ Timer \/ LoadRefresh \/ Publish
    \/ \E w \in Worker : Thread(w) \/ Complete(w)
    \/ \E p \in Project : Outside(p)

Spec == Init /\ [][Next]_vars

\* Threads run, commands return, and the main loop serves timers and callbacks.
FairSpec ==
    /\ Spec
    /\ WF_vars(Timer) /\ WF_vars(LoadRefresh) /\ WF_vars(Publish)
    /\ \A w \in Worker : WF_vars(Thread(w)) /\ WF_vars(Complete(w))

--------------------------------------------------------------------------------
TypeOK ==
    /\ active \in Project \cup {NoProject}
    /\ ui \in UiState
    /\ job \in [Worker -> Job]
    /\ version \in [Project -> Nat]
    /\ effect \in [Project -> Nat]
    /\ seen \in [Project -> Nat]
    /\ turns \in Nat

Working == {w \in Worker : job[w] # NoJob}

\* The slot is taken exactly while one worker executes an operation: toolbar,
\* control requests and dialogs never overlap, and none leaves the slot taken
\* (begin_external_operation, spawn_runtime_command).
OneOperation ==
    /\ Busy <=> Working # {}
    /\ \A w, x \in Working : w = x

\* While an operation is in progress its project stays open: its completion is
\* never dropped.
ProjectPinned == \A w \in Working : job[w].project = active

\* What is shown about a project is about the open one.
ShownIsActive == active # NoProject => ui.shown.project \in {active, NoProject}

\* Once an operation has ended, what is shown of its project, unless an error is
\* displayed with it, includes the operation's effect: a status that was loaded
\* before is never shown after (generation).
EffectShown ==
    LET s == ui.shown IN
    ~s.busy /\ ~s.error /\ s.project # NoProject => s.version >= effect[s.project]

\* The displayed state of a project never goes back.
NeverBackwards == [][\A p \in Project : seen'[p] >= seen[p]]_vars

(***************************************************************************)
(* The inductive invariant behind the safety properties.                   *)
(***************************************************************************)

\* Nobody has seen, and nothing brings, more than there is.
VersionInv ==
    \A p \in Project : seen[p] <= version[p] /\ effect[p] <= version[p]

\* The last version shown is the version shown.
ShownInv ==
    LET s == ui.shown IN s.project # NoProject => s.version = seen[s.project]

\* A refresh that may still be published was started in the present generation,
\* after the last operation, and brings nothing older than what was shown.
RefreshInv ==
    LET r == ui.refresh IN
    /\ r.generation <= ui.generation
    /\ Pending /\ r.generation = ui.generation => ~Busy
    /\ Pending /\ r.loaded =>
          \/ r.snapshot = Failed
          \/ /\ r.snapshot = Loaded(r.project, r.snapshot.version)
             /\ r.snapshot.version <= version[r.project]
             /\ r.generation = ui.generation =>
                   /\ r.snapshot.version >= seen[r.project]
                   /\ r.snapshot.version >= effect[r.project]

\* A toolbar operation brings the status from after its effect.
JobInv ==
    \A w \in Working :
        /\ job[w].kind # "idle"
        /\ job[w].kind # "project" => active # NoProject
        /\ job[w].kind = "toolbar" /\ job[w].phase = "done" /\ job[w].ok =>
              LET s == job[w].snapshot IN
              /\ s.project = job[w].project /\ ~s.busy
              /\ s.version >= seen[s.project] /\ s.version >= effect[s.project]
              /\ s.version <= version[s.project]

\* All of it holds in every reachable state and is preserved by every turn of
\* the main loop and every step of a thread.
IInv == /\ TypeOK /\ VersionInv /\ ShownInv /\ RefreshInv /\ JobInv
        /\ OneOperation /\ ProjectPinned /\ ShownIsActive /\ EffectShown

(***************************************************************************)
(* Liveness.                                                               *)
(***************************************************************************)

\* Every operation ends, and the slot with it.
OperationEnds == Busy ~> ~Busy

\* An open project's state, or the error that prevents it, comes to be shown.
EventuallyShown ==
    \A p \in Project : active = p ~> \/ active # p
                                     \/ ui.shown.project = p \/ ui.shown.error

================================================================================
