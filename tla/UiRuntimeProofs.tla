---------------------------- MODULE UiRuntimeProofs ----------------------------
(***************************************************************************)
(* Proofs about UiRuntime, for any projects and worker threads: its        *)
(* inductive invariant, the safety properties, and NeverBackwards.         *)
(*                                                                         *)
(* The lemmas on RefreshAsync, RefreshStore and Begun say what they keep   *)
(* of a UI state; a turn that shows nothing new preserves everything about *)
(* versions and the refresh; the steps add what they do to the job.        *)
(***************************************************************************)
EXTENDS UiRuntime, TLAPS

\* RefreshInv, for a UI state that is not the present one.
RefreshOf(u) ==
    LET r == u.refresh IN
    /\ r.generation <= u.generation
    /\ r # NoRefresh /\ r.generation = u.generation => ~u.shown.busy
    /\ r # NoRefresh /\ r.loaded =>
          \/ r.snapshot = Failed
          \/ /\ r.snapshot = Loaded(r.project, r.snapshot.version)
             /\ r.snapshot.version <= version[r.project]
             /\ r.generation = u.generation =>
                   /\ r.snapshot.version >= seen[r.project]
                   /\ r.snapshot.version >= effect[r.project]

Good(u) == u \in UiState /\ RefreshOf(u)

--------------------------------------------------------------------------------
\* refresh_runtime_async shows nothing and keeps a good state good.
LEMMA AsyncLemma ==
    ASSUME NEW u, Good(u), NEW a \in Project \cup {NoProject}
    PROVE  Good(RefreshAsync(u, a)) /\ RefreshAsync(u, a).shown = u.shown
<1> DEFINE new == [project |-> a, generation |-> u.generation, loaded |-> FALSE,
                   snapshot |-> Empty]
<1> DEFINE v == [u EXCEPT !.refresh = new]
<1>1. CASE RefreshAsync(u, a) = u
  BY <1>1
<1>2. CASE ~u.shown.busy /\ a # NoProject /\ u.refresh = NoRefresh /\ RefreshAsync(u, a) = v
  <2>1. new \in Refresh
    BY <1>2 DEF Good, UiState, Refresh, Snapshot, Empty
  <2>2. v \in UiState /\ v.shown = u.shown /\ v.generation = u.generation /\ v.refresh = new
    BY <2>1 DEF Good, UiState
  <2>3. RefreshOf(v)
    BY <2>2, <1>2 DEF RefreshOf, Good, UiState
  <2> HIDE DEF v
  <2>4. QED BY <2>2, <2>3, <1>2 DEF Good
<1>3. QED BY <1>1, <1>2 DEF RefreshAsync

\* refresh_runtime_store shows nothing, and a pending refresh becomes stale.
LEMMA StoreLemma ==
    ASSUME NEW u, Good(u), NEW a \in Project \cup {NoProject}
    PROVE  Good(RefreshStore(u, a)) /\ RefreshStore(u, a).shown = Empty
<1> DEFINE v == [u EXCEPT !.generation = @ + 1, !.shown = Empty]
<1>1. Empty \in Snapshot /\ ~Empty.busy
  BY DEF Empty, Snapshot
<1>2. u.generation \in Nat /\ u.refresh.generation \in Nat /\ u.generation + 1 \in Nat
  BY DEF Good, UiState, Refresh, NoRefresh
<1>3. v \in UiState /\ v.shown = Empty /\ v.generation = u.generation + 1 /\ v.refresh = u.refresh
  BY <1>1, <1>2 DEF Good, UiState
<1> HIDE DEF v
<1>4. RefreshOf(v)
  BY <1>1, <1>2, <1>3 DEF RefreshOf, Good
<1>5. RefreshStore(u, a) = RefreshAsync(v, a)
  BY DEF RefreshStore, v
<1>6. QED BY <1>3, <1>4, <1>5, AsyncLemma DEF Good

LEMMA OpenedLemma ==
    ASSUME NEW u, Good(u), NEW p \in Project, NEW v \in Opened(u, p)
    PROVE  Good(v) /\ v.shown = Empty
<1>1. Good(RefreshAsync(u, p))
  BY AsyncLemma
<1>2. QED BY <1>1, StoreLemma DEF Opened

\* begin_operation makes a pending refresh stale as well.
LEMMA BegunLemma ==
    ASSUME NEW u, Good(u)
    PROVE  /\ Good(Begun(u)) /\ Begun(u).shown.busy
           /\ Begun(u).shown.project = u.shown.project
           /\ Begun(u).shown.version = u.shown.version
<1> DEFINE v == Begun(u)
<1>1. u.generation \in Nat /\ u.refresh.generation \in Nat /\ u.generation + 1 \in Nat
  BY DEF Good, UiState, Refresh, NoRefresh
<1>2. /\ v \in UiState /\ v.generation = u.generation + 1 /\ v.refresh = u.refresh
      /\ v.shown.busy /\ v.shown.project = u.shown.project /\ v.shown.version = u.shown.version
  BY <1>1 DEF Good, UiState, Snapshot, Begun
<1> HIDE DEF v
<1>3. RefreshOf(v)
  BY <1>1, <1>2 DEF RefreshOf, Good
<1>4. QED BY <1>2, <1>3 DEF Good, v

LEMMA ErrorLemma ==
    ASSUME NEW u, Good(u)
    PROVE  /\ Good(PublishError(u)) /\ PublishError(u).shown.error
           /\ PublishError(u).shown.project = u.shown.project
           /\ PublishError(u).shown.version = u.shown.version
           /\ PublishError(u).shown.busy = u.shown.busy
<1> DEFINE v == PublishError(u)
<1>1. /\ v \in UiState /\ v.generation = u.generation /\ v.refresh = u.refresh
      /\ v.shown.busy = u.shown.busy /\ v.shown.error
      /\ v.shown.project = u.shown.project /\ v.shown.version = u.shown.version
  BY DEF Good, UiState, Snapshot, PublishError
<1> HIDE DEF v
<1>2. RefreshOf(v)
  BY <1>1 DEF RefreshOf, Good
<1>3. QED BY <1>1, <1>2 DEF Good, v

LEMMA PresentIsGood == IInv => Good(ui)
BY DEF IInv, TypeOK, RefreshInv, RefreshOf, Good, Pending, Busy

\* A turn of the main loop that shows nothing or what was shown before, with
\* projects and their histories as they are, keeps all that is not about jobs.
LEMMA QuietTurn ==
    ASSUME IInv, NEW u, Good(u), NEW a \in Project \cup {NoProject}, Show(u, a),
           UNCHANGED <<version, effect>>,
           \/ u.shown = Empty
           \/ /\ u.shown.project = ui.shown.project /\ u.shown.version = ui.shown.version
              /\ u.shown.busy \/ u.shown.error \/ u.shown = ui.shown
              /\ a = active \/ a = NoProject
    PROVE  /\ ui' \in UiState /\ active' \in Project \cup {NoProject} /\ seen' = seen
           /\ VersionInv' /\ ShownInv' /\ RefreshInv' /\ ShownIsActive' /\ EffectShown'
<1>1. ui' = u /\ active' = a /\ u \in UiState
  BY DEF Show, Good
<1>2. seen \in [Project -> Nat] /\ ui.shown \in Snapshot
  BY DEF IInv, TypeOK, UiState
<1>3. seen' = seen
  <2>1. CASE u.shown.project = NoProject
    BY <2>1 DEF Show
  <2>2. CASE u.shown.project # NoProject
    <3>1. u.shown.project = ui.shown.project /\ u.shown.version = seen[u.shown.project]
      BY <2>2 DEF IInv, ShownInv, Empty
    <3>2. QED BY <3>1, <2>2, <1>2 DEF Show
  <2>3. QED BY <2>1, <2>2
<1>4. VersionInv' /\ ShownInv'
  BY <1>1, <1>3 DEF IInv, VersionInv, ShownInv, Empty
<1>5. RefreshInv'
  BY <1>1, <1>3 DEF Good, RefreshOf, RefreshInv, Pending, Busy
<1>6. ShownIsActive'
  BY <1>1 DEF IInv, ShownIsActive, Empty
<1>7. EffectShown'
  <2>1. CASE u.shown = Empty
    BY <2>1, <1>1 DEF EffectShown, Empty
  <2>2. CASE u.shown.busy \/ u.shown.error
    BY <2>2, <1>1 DEF EffectShown
  <2>3. CASE u.shown = ui.shown
    BY <2>3, <1>1 DEF EffectShown, IInv
  <2>4. QED BY <2>1, <2>2, <2>3
<1>8. QED BY <1>1, <1>3, <1>4, <1>5, <1>6, <1>7

--------------------------------------------------------------------------------
LEMMA InitLemma == Init => IInv
<1> SUFFICES ASSUME Init PROVE IInv
  OBVIOUS
<1>1. TypeOK
  BY ProjectsAssumption DEF Init, TypeOK, UiState, Snapshot, Refresh, Empty, NoRefresh, Job, NoJob,
     Kinds, Phases
<1>2. Working = {} /\ ~Busy /\ ~Pending
  BY DEF Init, Working, Busy, Pending, Empty
<1>3. VersionInv /\ ShownInv /\ RefreshInv
  BY DEF Init, VersionInv, ShownInv, RefreshInv, Empty, NoRefresh, Pending
<1>4. JobInv /\ OneOperation /\ ProjectPinned
  BY <1>2 DEF JobInv, OneOperation, ProjectPinned
<1>5. ShownIsActive /\ EffectShown
  BY DEF Init, ShownIsActive, EffectShown, Empty
<1>6. QED BY <1>1, <1>3, <1>4, <1>5 DEF IInv

\* A worker thread's job begins.
LEMMA BeginLemma ==
    ASSUME IInv, NEW w \in Worker, NEW k \in {"toolbar", "runtime", "project"},
           NEW goal \in Project \cup {"close", "stay"}, Begin(w, k, goal)
    PROVE  IInv' /\ seen' = seen
<1> DEFINE new == [NoJob EXCEPT !.kind = k, !.project = active, !.goal = goal]
<1>1. active \in Project \cup {NoProject} /\ job \in [Worker -> Job] /\ turns \in Nat
  BY DEF IInv, TypeOK
<1>2. Good(Begun(ui)) /\ Begun(ui).shown.busy
      /\ Begun(ui).shown.project = ui.shown.project
      /\ Begun(ui).shown.version = ui.shown.version
  BY PresentIsGood, BegunLemma
<1>3. Show(Begun(ui), active) /\ UNCHANGED <<version, effect>>
  BY DEF Begin
<1>4. /\ ui' \in UiState /\ active' \in Project \cup {NoProject} /\ seen' = seen
      /\ VersionInv' /\ ShownInv' /\ RefreshInv' /\ ShownIsActive' /\ EffectShown'
  BY <1>1, <1>2, <1>3, QuietTurn
<1>5. /\ new \in Job /\ new # NoJob /\ new.project = active /\ new.kind = k
      /\ new.phase = "work"
  BY <1>1 DEF Job, NoJob, Kinds, Phases, Snapshot, Empty
<1>6. job' = [job EXCEPT ![w] = new] /\ turns' \in Nat /\ (active # NoProject \/ k = "project")
  BY <1>1 DEF Begin, Turn
<1>7. active' = active /\ Busy'
  BY <1>2, <1>3 DEF Show, Busy
<1>8. Working = {}
  BY DEF Begin, IInv, OneOperation
<1> HIDE DEF new
<1>9. Working' = {w}
  BY <1>1, <1>5, <1>6, <1>8 DEF Working
<1>10. TypeOK'
  BY <1>1, <1>3, <1>4, <1>5, <1>6 DEF TypeOK, IInv
<1>11. OneOperation' /\ ProjectPinned' /\ JobInv'
  BY <1>1, <1>5, <1>6, <1>7, <1>9 DEF OneOperation, ProjectPinned, JobInv
<1>12. QED BY <1>4, <1>10, <1>11 DEF IInv

\* A turn without an operation in progress, or that keeps project and slot,
\* leaves the jobs as they should be.
LEMMA IdleTurn ==
    ASSUME IInv, UNCHANGED <<job, version, effect>>, seen' = seen, Busy' = Busy,
           ~Busy \/ active' = active
    PROVE  JobInv' /\ OneOperation' /\ ProjectPinned'
<1>1. Working' = Working
  BY DEF Working
<1>2. OneOperation'
  BY <1>1 DEF IInv, OneOperation
<1>3. CASE ~Busy
  BY <1>1, <1>3 DEF IInv, OneOperation, JobInv, ProjectPinned
<1>4. CASE active' = active
  BY <1>1, <1>2, <1>4 DEF IInv, JobInv, ProjectPinned
<1>5. QED BY <1>2, <1>3, <1>4

\* Opening, closing, complaining and the timer.
LEMMA TurnLemma ==
    ASSUME IInv, NEW u, Good(u), NEW a \in Project \cup {NoProject}, Show(u, a),
           UNCHANGED <<job, version, effect>>, turns' \in Nat,
           u.shown.busy = ui.shown.busy, ~Busy \/ a = active,
           \/ u.shown = Empty
           \/ /\ u.shown.project = ui.shown.project /\ u.shown.version = ui.shown.version
              /\ u.shown.busy \/ u.shown.error \/ u.shown = ui.shown
              /\ a = active \/ a = NoProject
    PROVE  IInv' /\ seen' = seen
<1>1. /\ ui' \in UiState /\ active' \in Project \cup {NoProject} /\ seen' = seen
      /\ VersionInv' /\ ShownInv' /\ RefreshInv' /\ ShownIsActive' /\ EffectShown'
  BY QuietTurn
<1>2. Busy' = Busy /\ active' = a
  BY DEF Show, Busy
<1>3. JobInv' /\ OneOperation' /\ ProjectPinned'
  BY <1>1, <1>2, IdleTurn
<1>4. TypeOK'
  BY <1>1 DEF IInv, TypeOK
<1>5. QED BY <1>1, <1>3, <1>4 DEF IInv

LEMMA OpenLemma ==
    ASSUME IInv, NEW p \in Project, Open(p)
    PROVE  IInv' /\ seen' = seen
<1>1. ~Busy /\ ~ui.shown.busy /\ turns' \in Nat /\ UNCHANGED <<job, version, effect>> /\ Good(ui)
  BY PresentIsGood DEF Open, Turn, IInv, TypeOK, Busy
<1>2. CASE Show(ui, NoProject)
  BY <1>1, <1>2, TurnLemma
<1>3. ASSUME NEW u \in Opened(ui, p), Show(u, p)
      PROVE  IInv' /\ seen' = seen
  <2>1. Good(u) /\ u.shown = Empty
    BY <1>1, OpenedLemma
  <2>2. u.shown.busy = FALSE /\ ui.shown.busy = FALSE
    BY <1>1, <2>1 DEF Empty, IInv, TypeOK, UiState, Snapshot
  <2>3. QED BY <1>1, <1>3, <2>1, <2>2, TurnLemma
<1>4. QED BY <1>2, <1>3 DEF Open

LEMMA CloseLemma ==
    ASSUME IInv, Close
    PROVE  IInv' /\ seen' = seen
<1>1. turns' \in Nat /\ UNCHANGED <<job, version, effect>> /\ Good(ui)
      /\ active \in Project \cup {NoProject} /\ ui.shown.busy \in BOOLEAN
  BY PresentIsGood DEF Close, Turn, IInv, TypeOK, UiState, Snapshot
<1>2. CASE (Busy /\ Show(PublishError(ui), active)) \/ (~Busy /\ Show(PublishError(ui), NoProject))
  <2> DEFINE u == PublishError(ui)
  <2>1. /\ Good(u) /\ u.shown.error /\ u.shown.project = ui.shown.project
        /\ u.shown.version = ui.shown.version /\ u.shown.busy = ui.shown.busy
    BY <1>1, ErrorLemma
  <2> HIDE DEF u
  <2>2. Show(u, active) \/ (~Busy /\ Show(u, NoProject))
    BY <1>2 DEF u
  <2>3. CASE Show(u, active)
    BY <1>1, <2>1, <2>3, TurnLemma
  <2>4. CASE ~Busy /\ Show(u, NoProject)
    BY <1>1, <2>1, <2>4, TurnLemma
  <2>5. QED BY <2>2, <2>3, <2>4
<1>3. CASE ~Busy /\ Show(RefreshStore(ui, NoProject), NoProject)
  <2> DEFINE u == RefreshStore(ui, NoProject)
  <2>1. Good(u) /\ u.shown = Empty
    BY <1>1, StoreLemma
  <2>2. u.shown.busy = FALSE /\ ui.shown.busy = FALSE
    BY <1>1, <1>3, <2>1 DEF Empty, Busy
  <2> HIDE DEF u
  <2>3. ~Busy /\ Show(u, NoProject)
    BY <1>3 DEF u
  <2>4. QED BY <1>1, <2>1, <2>2, <2>3, TurnLemma
<1>4. QED BY <1>2, <1>3 DEF Close

LEMMA ComplainLemma ==
    ASSUME IInv, Complain
    PROVE  IInv' /\ seen' = seen
<1> DEFINE u == PublishError(ui)
<1>1. /\ Good(u) /\ u.shown.error /\ u.shown.project = ui.shown.project
      /\ u.shown.version = ui.shown.version /\ u.shown.busy = ui.shown.busy
  BY PresentIsGood, ErrorLemma
<1>2. Show(u, active) /\ active \in Project \cup {NoProject} /\ turns' \in Nat
      /\ UNCHANGED <<job, version, effect>>
  BY DEF Complain, IInv, TypeOK
<1> HIDE DEF u
<1>3. QED BY <1>1, <1>2, TurnLemma

LEMMA TimerLemma ==
    ASSUME IInv, Timer
    PROVE  IInv' /\ seen' = seen
<1> DEFINE u == RefreshAsync(ui, active)
<1>1. active \in Project \cup {NoProject} /\ turns' \in Nat /\ UNCHANGED <<job, version, effect>>
  BY DEF Timer, IInv, TypeOK
<1>2. Good(u) /\ u.shown = ui.shown
  BY <1>1, PresentIsGood, AsyncLemma
<1>3. Show(u, active)
  BY DEF Timer
<1> HIDE DEF u
<1>4. QED BY <1>1, <1>2, <1>3, TurnLemma

--------------------------------------------------------------------------------
\* What a thread's step at its job may rely on.
LEMMA WorkerFacts ==
    ASSUME IInv, NEW w \in Worker, job[w].kind # "idle"
    PROVE  /\ job[w] # NoJob /\ job[w] \in Job /\ Working = {w} /\ Busy
           /\ job[w].project = active
           /\ job[w].kind # "project" => active \in Project
<1>1. job[w] # NoJob
  BY DEF NoJob
<1>2. w \in Working
  BY <1>1 DEF Working
<1>3. Working = {w} /\ Busy
  BY <1>2 DEF IInv, OneOperation
<1>4. job[w] \in Job /\ active \in Project \cup {NoProject}
  BY DEF IInv, TypeOK
<1>5. job[w].project = active /\ (job[w].kind # "project" => active # NoProject)
  BY <1>2 DEF IInv, ProjectPinned, JobInv
<1>6. QED BY <1>1, <1>3, <1>4, <1>5

\* The command changes at most one project, and only upwards.
LEMMA WorkLemma ==
    ASSUME IInv, NEW w \in Worker, Work(w)
    PROVE  IInv' /\ seen' = seen
<1>1. /\ job[w].kind # "idle" /\ job[w].phase = "work"
      /\ UNCHANGED <<active, ui, seen, turns>>
  BY DEF Work
<1>2. /\ job[w] # NoJob /\ job[w] \in Job /\ Working = {w} /\ Busy /\ job[w].project = active
      /\ job[w].kind # "project" => active \in Project
  BY <1>1, WorkerFacts
<1>3. PICK ok \in BOOLEAN :
        job' = [job EXCEPT ![w].ok = ok,
                           ![w].phase = IF job[w].kind = "toolbar" THEN "load" ELSE "done"]
  BY DEF Work
<1>4. /\ version \in [Project -> Nat] /\ effect \in [Project -> Nat] /\ seen \in [Project -> Nat]
      /\ job \in [Worker -> Job] /\ VersionInv
  BY DEF IInv, TypeOK
<1>5. /\ version' \in [Project -> Nat] /\ effect' \in [Project -> Nat]
      /\ \A p \in Project : /\ version'[p] \in Nat /\ version[p] \in Nat
                            /\ version'[p] >= version[p]
                            /\ effect'[p] <= version'[p]
  <2>1. CASE UNCHANGED <<version, effect>>
    BY <2>1, <1>4 DEF VersionInv
  <2>2. ASSUME NEW p \in Changes(job[w]), Changed(p)
        PROVE  /\ version' \in [Project -> Nat] /\ effect' \in [Project -> Nat]
               /\ \A q \in Project : /\ version'[q] \in Nat /\ version[q] \in Nat
                                     /\ version'[q] >= version[q]
                                     /\ effect'[q] <= version'[q]
    <3>1. p \in Project
      BY <1>2 DEF Changes, Job
    <3>2. version[p] + 1 \in Nat
      BY <3>1, <1>4
    <3>3. QED BY <2>2, <3>1, <3>2, <1>4 DEF Changed, VersionInv
  <2>3. QED BY <2>1, <2>2 DEF Work
<1>6. /\ job'[w] \in Job /\ job'[w] # NoJob /\ job'[w].project = job[w].project
      /\ job'[w].kind = job[w].kind
      /\ ~(job'[w].kind = "toolbar" /\ job'[w].phase = "done")
      /\ \A x \in Worker \ {w} : job'[x] = job[x]
      /\ job' \in [Worker -> Job]
  BY <1>1, <1>2, <1>3, <1>4 DEF Job, Phases, NoJob
<1>7. Working' = {w}
  BY <1>2, <1>6 DEF Working
<1>8. Busy'
  BY <1>1, <1>2 DEF Busy
<1>9. TypeOK'
  BY <1>1, <1>5, <1>6 DEF IInv, TypeOK
<1>10. VersionInv'
  BY <1>1, <1>4, <1>5 DEF VersionInv
<1>11. ShownInv' /\ ShownIsActive' /\ EffectShown'
  BY <1>1, <1>8 DEF IInv, ShownInv, ShownIsActive, EffectShown, Busy
<1>12. RefreshInv'
  <2>1. RefreshInv /\ ui.refresh \in Refresh
    BY DEF IInv, TypeOK, UiState
  <2>2. Pending => ui.refresh.generation # ui.generation /\ ui.refresh.project \in Project
                   /\ ui.refresh.snapshot \in Snapshot
    BY <2>1, <1>2 DEF RefreshInv, Refresh, Pending
  <2>3. Pending' = Pending
    BY <1>1 DEF Pending
  <2>4. ASSUME Pending, ui.refresh.loaded, ui.refresh.snapshot # Failed
        PROVE  ui.refresh.snapshot.version <= version'[ui.refresh.project]
    <3>1. ui.refresh.snapshot.version <= version[ui.refresh.project]
          /\ ui.refresh.snapshot.version \in Nat
      BY <2>1, <2>2, <2>4 DEF RefreshInv, Snapshot
    <3>2. QED BY <3>1, <2>2, <2>4, <1>5
  <2>5. QED BY <1>1, <1>2, <1>8, <2>1, <2>2, <2>3, <2>4 DEF RefreshInv
<1>13. JobInv' /\ OneOperation' /\ ProjectPinned'
  BY <1>1, <1>2, <1>6, <1>7, <1>8, ProjectsAssumption DEF JobInv, OneOperation, ProjectPinned
<1>14. QED BY <1>1, <1>9, <1>10, <1>11, <1>12, <1>13 DEF IInv

LEMMA LoadLemma ==
    ASSUME IInv, NEW w \in Worker, Load(w)
    PROVE  IInv' /\ seen' = seen
<1>1. /\ job[w].kind = "toolbar" /\ UNCHANGED <<active, ui, version, effect, seen, turns>>
  BY DEF Load
<1>2. /\ job[w] # NoJob /\ job[w] \in Job /\ Working = {w} /\ Busy
      /\ job[w].project = active /\ active \in Project
  BY <1>1, WorkerFacts
<1>3. /\ version \in [Project -> Nat] /\ effect \in [Project -> Nat] /\ seen \in [Project -> Nat]
      /\ job \in [Worker -> Job] /\ VersionInv
  BY DEF IInv, TypeOK
<1> DEFINE s == [Loaded(active, version[active]) EXCEPT !.error = ~job[w].ok]
<1>4. /\ s \in Snapshot /\ s.project = active /\ s.version = version[active] /\ s.busy = FALSE
  BY <1>2, <1>3 DEF Loaded, Snapshot, Job
<1> HIDE DEF s
<1>5. \/ job' = [job EXCEPT ![w].phase = "done", ![w].snapshot = s, ![w].ok = TRUE]
      \/ job' = [job EXCEPT ![w].phase = "done", ![w].ok = FALSE]
  BY <1>2 DEF Load, s
<1>6. /\ job'[w] \in Job /\ job'[w].project = active /\ job'[w].kind = "toolbar"
      /\ job'[w].ok = TRUE => job'[w].snapshot = s
      /\ \A x \in Worker \ {w} : job'[x] = job[x]
      /\ job' \in [Worker -> Job]
  <2>1. CASE job' = [job EXCEPT ![w].phase = "done", ![w].snapshot = s, ![w].ok = TRUE]
    BY <2>1, <1>1, <1>2, <1>3, <1>4 DEF Job, Phases
  <2>2. CASE job' = [job EXCEPT ![w].phase = "done", ![w].ok = FALSE]
    BY <2>2, <1>1, <1>2, <1>3 DEF Job, Phases
  <2>3. QED BY <1>5, <2>1, <2>2
<1>7. job'[w] # NoJob
  BY <1>6 DEF NoJob
<1>8. Working' = {w}
  BY <1>2, <1>6, <1>7 DEF Working
<1>9. OneOperation' /\ ProjectPinned'
  BY <1>1, <1>2, <1>6, <1>8 DEF OneOperation, ProjectPinned, Busy
<1>10. JobInv'
  <2>1. seen[active] <= version[active] /\ effect[active] <= version[active]
        /\ version[active] \in Nat
    BY <1>2, <1>3 DEF VersionInv
  <2>2. job'[w].ok \in BOOLEAN
    BY <1>6 DEF Job
  <2>3. job'[w].ok => job'[w].snapshot = s
    BY <2>2, <1>6
  <2>4. QED BY <1>1, <1>2, <1>3, <1>4, <1>6, <1>8, <2>1, <2>3, ProjectsAssumption DEF JobInv
<1>11. QED
  BY <1>1, <1>6, <1>9, <1>10 DEF IInv, TypeOK, VersionInv, ShownInv, RefreshInv, ShownIsActive,
     EffectShown, Pending, Busy

LEMMA LoadRefreshLemma ==
    ASSUME IInv, LoadRefresh
    PROVE  IInv' /\ seen' = seen
<1> DEFINE r == ui.refresh
<1>1. PICK s \in {Loaded(r.project, version[r.project]), Failed} :
         ui' = [ui EXCEPT !.refresh.loaded = TRUE, !.refresh.snapshot = s]
  BY DEF LoadRefresh
<1>2. Pending /\ UNCHANGED <<active, job, version, effect, seen, turns>>
  BY DEF LoadRefresh
<1>3. /\ ui \in UiState /\ r \in Refresh /\ version \in [Project -> Nat]
      /\ effect \in [Project -> Nat] /\ seen \in [Project -> Nat]
  BY DEF IInv, TypeOK, UiState
<1>4. r \in [project : Project, generation : Nat, loaded : BOOLEAN, snapshot : Snapshot]
  BY <1>2, <1>3 DEF Pending, Refresh
<1>5. version[r.project] \in Nat
  BY <1>3, <1>4
<1>6. s \in Snapshot
  <2>1. Loaded(r.project, version[r.project]) \in Snapshot
    BY <1>4, <1>5 DEF Loaded, Snapshot
  <2>2. Failed \in Snapshot
    BY DEF Failed, Empty, Snapshot
  <2>3. QED BY <2>1, <2>2
<1>7. /\ ui' \in UiState /\ ui'.shown = ui.shown /\ ui'.generation = ui.generation
      /\ ui'.refresh.project = r.project /\ ui'.refresh.generation = r.generation
      /\ ui'.refresh.snapshot = s
  BY <1>1, <1>3, <1>4, <1>6 DEF UiState, Refresh
<1>8. RefreshInv'
  <2>1. seen[r.project] <= version[r.project] /\ effect[r.project] <= version[r.project]
    BY <1>4 DEF IInv, VersionInv
  <2>2. \/ s = Failed
        \/ s = Loaded(r.project, s.version) /\ s.version = version[r.project]
    BY DEF Loaded
  <2>3. r.generation <= ui.generation /\ (r.generation = ui.generation => ~Busy)
    BY <1>2 DEF IInv, RefreshInv
  <2>4. Busy' = Busy
    BY <1>7 DEF Busy
  <2>5. CASE s = Failed
    BY <2>3, <2>4, <2>5, <1>7 DEF RefreshInv
  <2>6. CASE s = Loaded(r.project, s.version) /\ s.version = version[r.project]
    BY <2>1, <2>3, <2>4, <2>6, <1>2, <1>5, <1>7, <1>3, <1>4 DEF RefreshInv
  <2>7. QED BY <2>2, <2>5, <2>6
<1>9. TypeOK'
  BY <1>2, <1>7 DEF IInv, TypeOK
<1>10. VersionInv' /\ ShownInv' /\ ShownIsActive' /\ EffectShown'
  BY <1>2, <1>7 DEF IInv, VersionInv, ShownInv, ShownIsActive, EffectShown
<1>11. JobInv' /\ OneOperation' /\ ProjectPinned'
  BY <1>2, <1>7, IdleTurn DEF Busy
<1>12. QED BY <1>2, <1>8, <1>9, <1>10, <1>11 DEF IInv

\* What happens outside only makes versions grow.
LEMMA OutsideLemma ==
    ASSUME IInv, NEW p \in Project, Outside(p)
    PROVE  IInv' /\ seen' = seen
<1>1. UNCHANGED <<active, ui, job, effect, seen, turns>>
  BY DEF Outside
<1>2. /\ version \in [Project -> Nat] /\ effect \in [Project -> Nat] /\ seen \in [Project -> Nat]
      /\ ui.refresh \in Refresh /\ ui.shown \in Snapshot /\ job \in [Worker -> Job]
  BY DEF IInv, TypeOK, UiState
<1>3. version[p] + 1 \in Nat
  BY <1>2
<1>4. /\ version' \in [Project -> Nat]
      /\ \A q \in Project : /\ version'[q] \in Nat /\ version[q] \in Nat
                            /\ version'[q] >= version[q]
  BY <1>2, <1>3 DEF Outside
<1>5. TypeOK'
  BY <1>1, <1>4 DEF IInv, TypeOK
<1>6. VersionInv'
  BY <1>1, <1>2, <1>4 DEF IInv, VersionInv
<1>7. RefreshInv'
  <2>1. Pending' = Pending /\ Busy' = Busy
    BY <1>1 DEF Pending, Busy
  <2>2. Pending => ui.refresh.project \in Project /\ ui.refresh.snapshot \in Snapshot
    BY <1>2 DEF Pending, Refresh
  <2>3. ASSUME Pending, ui.refresh.loaded, ui.refresh.snapshot # Failed
        PROVE  ui.refresh.snapshot.version <= version'[ui.refresh.project]
    <3>1. ui.refresh.snapshot.version <= version[ui.refresh.project]
          /\ ui.refresh.snapshot.version \in Nat
      BY <2>2, <2>3 DEF IInv, RefreshInv, Snapshot
    <3>2. QED BY <3>1, <2>2, <2>3, <1>4
  <2>4. QED BY <1>1, <2>1, <2>3 DEF IInv, RefreshInv
<1>8. JobInv'
  <2>1. Working' = Working
    BY <1>1 DEF Working
  <2>2. ASSUME NEW w \in Working, job[w].kind = "toolbar", job[w].phase = "done", job[w].ok
        PROVE  job[w].snapshot.version <= version'[job[w].snapshot.project]
    <3>1. /\ job[w].project = active /\ active # NoProject
          /\ job[w].snapshot.project = job[w].project
          /\ job[w].snapshot.version <= version[job[w].snapshot.project]
      BY <2>2 DEF IInv, JobInv, ProjectPinned
    <3>2. active \in Project /\ job[w].snapshot.version \in Nat
      BY <3>1, <1>2 DEF IInv, TypeOK, Working, Job, Snapshot
    <3>3. QED BY <3>1, <3>2, <1>4
  <2>3. QED BY <1>1, <2>1, <2>2 DEF IInv, JobInv
<1>9. QED
  BY <1>1, <1>5, <1>6, <1>7, <1>8 DEF IInv, ShownInv, ShownIsActive, EffectShown, OneOperation,
     ProjectPinned, Working, Busy

--------------------------------------------------------------------------------
\* A completed job leaves no worker at work.
LEMMA RetireLemma ==
    ASSUME IInv, NEW w \in Worker, job[w].kind # "idle", Retire(w), Busy' = FALSE
    PROVE  JobInv' /\ OneOperation' /\ ProjectPinned' /\ job' \in [Worker -> Job]
           /\ turns' \in Nat /\ version' \in [Project -> Nat] /\ effect' \in [Project -> Nat]
<1>1. Working = {w} /\ job \in [Worker -> Job] /\ turns \in Nat
      /\ version \in [Project -> Nat] /\ effect \in [Project -> Nat]
  BY WorkerFacts DEF IInv, TypeOK
<1>2. NoJob \in Job
  BY DEF NoJob, Job, Kinds, Phases, Snapshot, Empty
<1>3. job' = [job EXCEPT ![w] = NoJob] /\ UNCHANGED <<version, effect, turns>>
  BY DEF Retire
<1>4. Working' = {}
  BY <1>1, <1>3 DEF Working
<1>5. QED BY <1>1, <1>2, <1>3, <1>4 DEF JobInv, OneOperation, ProjectPinned

\* A completion that empties the store, whatever becomes of the session.
LEMMA EmptyingLemma ==
    ASSUME IInv, NEW w \in Worker, job[w].kind # "idle", Retire(w),
           NEW u, Good(u), u.shown = Empty, NEW a \in Project \cup {NoProject}, Show(u, a)
    PROVE  IInv' /\ seen' = seen
<1>1. UNCHANGED <<version, effect>> /\ Busy' = FALSE
  BY DEF Retire, Show, Busy, Empty
<1>2. /\ ui' \in UiState /\ active' \in Project \cup {NoProject} /\ seen' = seen
      /\ VersionInv' /\ ShownInv' /\ RefreshInv' /\ ShownIsActive' /\ EffectShown'
  BY <1>1, QuietTurn
<1>3. seen \in [Project -> Nat]
  BY DEF IInv, TypeOK
<1>4. QED BY <1>1, <1>2, <1>3, RetireLemma DEF IInv, TypeOK

LEMMA CompleteRuntimeLemma ==
    ASSUME IInv, NEW w \in Worker, CompleteRuntime(w)
    PROVE  IInv' /\ seen' = seen
<1> DEFINE u == RefreshStore(ui, active)
<1>1. active \in Project \cup {NoProject}
  BY DEF IInv, TypeOK
<1>2. Good(u) /\ u.shown = Empty
  BY <1>1, PresentIsGood, StoreLemma
<1>3. job[w].kind # "idle" /\ Retire(w) /\ Show(u, active)
  BY DEF CompleteRuntime
<1> HIDE DEF u
<1>4. QED BY <1>1, <1>2, <1>3, EmptyingLemma

LEMMA CompleteProjectLemma ==
    ASSUME IInv, NEW w \in Worker, CompleteProject(w)
    PROVE  IInv' /\ seen' = seen
<1> DEFINE u == RefreshStore(ui, active)
           goal == IF job[w].ok THEN job[w].goal ELSE "stay"
           v == RefreshStore(u, active)
           closed == RefreshStore(u, NoProject)
<1>1. /\ job[w].kind = "project" /\ Retire(w)
      /\ CASE goal = "stay"  -> Show(IF job[w].ok THEN v ELSE u, active)
           [] goal = "close" -> Show(closed, NoProject) \/ Show(u, NoProject)
           [] OTHER          -> (\E x \in Opened(u, goal) : Show(x, goal)) \/ Show(u, NoProject)
  BY DEF CompleteProject
<1>2. active \in Project \cup {NoProject} /\ job[w] \in Job
  BY DEF IInv, TypeOK
<1>3. Good(u) /\ u.shown = Empty
  BY <1>2, PresentIsGood, StoreLemma
<1>4. Good(v) /\ v.shown = Empty /\ Good(closed) /\ closed.shown = Empty
  BY <1>2, <1>3, StoreLemma
<1>5. goal \in Project \cup {"stay", "close"}
  BY <1>2 DEF Job
<1>6. goal \in Project => \A x \in Opened(u, goal) : Good(x) /\ x.shown = Empty
  BY <1>3, OpenedLemma
<1>7. job[w].kind # "idle"
  BY <1>1
<1> HIDE DEF u, v, closed, goal
<1>8. CASE Show(u, active) \/ Show(v, active)
  BY <1>1, <1>2, <1>3, <1>4, <1>7, <1>8, EmptyingLemma
<1>9. CASE Show(u, NoProject) \/ Show(closed, NoProject)
  BY <1>1, <1>3, <1>4, <1>7, <1>9, EmptyingLemma
<1>10. CASE goal \in Project /\ \E x \in Opened(u, goal) : Show(x, goal)
  BY <1>1, <1>6, <1>7, <1>10, EmptyingLemma
<1>11. QED BY <1>1, <1>5, <1>8, <1>9, <1>10

\* The result of a toolbar operation, from after its effect, is shown; or its
\* error is, with what was shown before.
LEMMA CompleteToolbarLemma ==
    ASSUME IInv, NEW w \in Worker, CompleteToolbar(w)
    PROVE  IInv' /\ \A p \in Project : seen'[p] >= seen[p]
<1>1. /\ job[w].kind = "toolbar" /\ job[w].phase = "done" /\ job[w].kind # "idle" /\ Retire(w)
  BY DEF CompleteToolbar
<1>2. /\ job[w] \in Job /\ Working = {w} /\ Busy /\ job[w].project = active /\ active \in Project
  BY <1>1, WorkerFacts
<1>3. /\ ui \in UiState /\ seen \in [Project -> Nat] /\ effect \in [Project -> Nat]
      /\ version \in [Project -> Nat] /\ UNCHANGED <<version, effect>>
      /\ \A p \in Project : seen[p] \in Nat
  BY <1>1 DEF IInv, TypeOK, Retire
<1> DEFINE t == IF job[w].ok THEN job[w].snapshot
                ELSE [ui.shown EXCEPT !.busy = FALSE, !.error = TRUE]
<1>4. Show([ui EXCEPT !.shown = t], active)
  BY <1>2 DEF CompleteToolbar
<1>5. CASE job[w].ok
  <2>1. /\ t \in Snapshot /\ t.project = active /\ t.busy = FALSE
        /\ t.version >= seen[active] /\ t.version >= effect[active]
        /\ t.version <= version[active] /\ t.version \in Nat
    BY <1>1, <1>2, <1>5 DEF Job, Snapshot, IInv, JobInv
  <2> HIDE DEF t
  <2>2. /\ ui' \in UiState /\ ui'.shown = t /\ ui'.refresh = ui.refresh
        /\ ui'.generation = ui.generation /\ active' = active
    BY <1>3, <1>4, <2>1 DEF Show, UiState
  <2>3. seen' = [seen EXCEPT ![active] = t.version]
    BY <1>2, <1>3, <1>4, <2>1, ProjectsAssumption DEF Show, UiState
  <2>4. seen' \in [Project -> Nat] /\ \A p \in Project : seen'[p] >= seen[p]
    BY <1>2, <1>3, <2>1, <2>3
  <2>5. Busy' = FALSE
    BY <2>1, <2>2 DEF Busy
  <2>6. JobInv' /\ OneOperation' /\ ProjectPinned' /\ TypeOK'
    BY <1>1, <1>3, <2>2, <2>4, <2>5, RetireLemma DEF TypeOK, IInv
  <2>7. VersionInv'
    BY <1>2, <1>3, <2>1, <2>3 DEF IInv, VersionInv
  <2>8. ShownInv' /\ ShownIsActive' /\ EffectShown'
    BY <1>2, <1>3, <2>1, <2>2, <2>3 DEF ShownInv, ShownIsActive, EffectShown
  <2>9. RefreshInv'
    BY <1>2, <1>3, <2>2, <2>5 DEF IInv, RefreshInv, Pending, Busy
  <2>10. QED BY <2>4, <2>6, <2>7, <2>8, <2>9 DEF IInv
<1>6. CASE ~job[w].ok
  <2>1. /\ t \in Snapshot /\ t.project = ui.shown.project /\ t.busy = FALSE
        /\ t.version = ui.shown.version /\ t.error
    BY <1>3, <1>6 DEF UiState, Snapshot
  <2> HIDE DEF t
  <2> DEFINE u == [ui EXCEPT !.shown = t]
  <2>2. /\ u \in UiState /\ u.shown = t /\ u.refresh = ui.refresh
        /\ u.generation = ui.generation
    BY <1>3, <2>1 DEF UiState
  <2>3. Show(u, active)
    BY <1>4
  <2> HIDE DEF u
  <2>4. Good(u)
    BY <2>1, <2>2, PresentIsGood DEF Good, RefreshOf
  <2>5. /\ ui' \in UiState /\ active' \in Project \cup {NoProject} /\ seen' = seen
        /\ VersionInv' /\ ShownInv' /\ RefreshInv' /\ ShownIsActive' /\ EffectShown'
    BY <1>2, <1>3, <2>1, <2>2, <2>3, <2>4, QuietTurn
  <2>6. Busy' = FALSE
    BY <2>1, <2>2, <2>3 DEF Busy, Show
  <2>7. JobInv' /\ OneOperation' /\ ProjectPinned' /\ TypeOK'
    BY <1>1, <1>3, <2>5, <2>6, RetireLemma DEF TypeOK, IInv
  <2>8. QED BY <1>3, <2>5, <2>7 DEF IInv
<1>7. QED BY <1>2, <1>5, <1>6 DEF Job

\* A refresh that is published is newer than what was shown, and includes the
\* last operation's effect; another one disappears.
LEMMA PublishLemma ==
    ASSUME IInv, Publish
    PROVE  IInv' /\ \A p \in Project : seen'[p] >= seen[p]
<1> DEFINE r == ui.refresh
           current == active = r.project /\ r.generation = ui.generation /\ ~Busy
           t == IF current THEN r.snapshot ELSE ui.shown
           u == [ui EXCEPT !.refresh = NoRefresh, !.shown = t]
<1>1. Pending /\ r.loaded /\ Show(u, active) /\ UNCHANGED <<job, version, effect, turns>>
  BY DEF Publish
<1>2. /\ ui \in UiState /\ seen \in [Project -> Nat] /\ effect \in [Project -> Nat]
      /\ version \in [Project -> Nat] /\ active \in Project \cup {NoProject} /\ turns \in Nat
      /\ \A p \in Project : seen[p] \in Nat
  BY DEF IInv, TypeOK
<1>3. r \in [project : Project, generation : Nat, loaded : BOOLEAN, snapshot : Snapshot]
  BY <1>1, <1>2 DEF UiState, Refresh, Pending
<1>4. /\ u \in UiState /\ u.shown = t /\ u.refresh = NoRefresh /\ u.generation = ui.generation
  BY <1>2, <1>3 DEF UiState, Refresh
<1>5. Good(u)
  BY <1>2, <1>4 DEF Good, RefreshOf, NoRefresh, UiState
<1>6. ASSUME ~current \/ r.snapshot = Failed
      PROVE  IInv' /\ seen' = seen
  <2>1. \/ t = ui.shown
        \/ current /\ t = Failed
    BY <1>6
  <2>2. CASE t = ui.shown
    <3>1. u.shown = ui.shown
      BY <2>2, <1>4
    <3> HIDE DEF u, t
    <3>2. QED BY <1>1, <1>2, <1>5, <3>1, QuietTurn, TurnLemma
  <2>3. CASE current /\ t = Failed
    <3> HIDE DEF u, t
    <3>1. u.shown = Failed
      BY <2>3, <1>4
    <3>2. ui' = u /\ active' = active /\ seen' = seen
      BY <1>1, <3>1 DEF Show, Failed, Empty
    <3>3. Busy' = Busy
      BY <2>3, <3>1, <3>2, <1>2 DEF Busy, Failed, Empty, UiState, Snapshot
    <3>4. JobInv' /\ OneOperation' /\ ProjectPinned'
      BY <1>1, <3>2, <3>3, IdleTurn
    <3>5. TypeOK' /\ VersionInv'
      BY <1>1, <1>4, <3>2 DEF IInv, TypeOK, VersionInv
    <3>6. ShownInv' /\ ShownIsActive' /\ EffectShown'
      BY <3>1, <3>2 DEF ShownInv, ShownIsActive, EffectShown, Failed, Empty
    <3>7. RefreshInv'
      BY <1>1, <1>5, <3>2 DEF Good, RefreshOf, RefreshInv, Pending, Busy
    <3>8. QED BY <3>2, <3>4, <3>5, <3>6, <3>7 DEF IInv
  <2>4. QED BY <2>1, <2>2, <2>3
<1>7. ASSUME current, r.snapshot # Failed
      PROVE  IInv' /\ \A p \in Project : seen'[p] >= seen[p]
  <2>1. /\ r.snapshot = Loaded(r.project, r.snapshot.version)
        /\ r.snapshot.version <= version[r.project]
        /\ r.snapshot.version >= seen[r.project] /\ r.snapshot.version >= effect[r.project]
    BY <1>1, <1>7 DEF IInv, RefreshInv
  <2>2. /\ t = r.snapshot /\ t \in Snapshot /\ t.version \in Nat
        /\ t.project = active /\ active \in Project /\ t.busy = FALSE
    BY <1>3, <1>7, <2>1 DEF Snapshot, Loaded
  <2>3. /\ t.version <= version[active] /\ t.version >= seen[active] /\ t.version >= effect[active]
    BY <1>7, <2>1, <2>2
  <2> HIDE DEF u, t
  <2>4. ui' = u /\ active' = active /\ seen' = [seen EXCEPT ![active] = t.version]
    BY <1>1, <1>4, <2>2, ProjectsAssumption DEF Show
  <2>5. seen' \in [Project -> Nat] /\ \A p \in Project : seen'[p] >= seen[p]
    BY <1>2, <2>2, <2>3, <2>4
  <2>6. Busy' = FALSE /\ Busy = FALSE
    BY <1>2, <1>4, <1>7, <2>2, <2>4 DEF Busy, UiState, Snapshot
  <2>7. Working' = Working /\ Working = {}
    BY <1>1, <2>6 DEF Working, IInv, OneOperation
  <2>8. JobInv' /\ OneOperation' /\ ProjectPinned'
    BY <2>6, <2>7 DEF JobInv, OneOperation, ProjectPinned
  <2>9. TypeOK'
    BY <1>1, <1>2, <1>4, <2>4, <2>5 DEF IInv, TypeOK
  <2>10. VersionInv'
    BY <1>1, <1>2, <2>2, <2>3, <2>4 DEF IInv, VersionInv
  <2>11. ShownInv' /\ ShownIsActive' /\ EffectShown'
    BY <1>1, <1>2, <1>4, <2>2, <2>3, <2>4 DEF ShownInv, ShownIsActive, EffectShown
  <2>12. RefreshInv'
    BY <1>2, <1>4, <2>4 DEF RefreshInv, Pending, NoRefresh, UiState
  <2>13. QED BY <2>5, <2>8, <2>9, <2>10, <2>11, <2>12 DEF IInv
<1>8. QED BY <1>2, <1>6, <1>7

--------------------------------------------------------------------------------
\* Every step keeps the invariant and never takes back what was shown.
LEMMA StepLemma == IInv /\ [Next]_vars => IInv' /\ \A p \in Project : seen'[p] >= seen[p]
<1> SUFFICES ASSUME IInv, [Next]_vars
             PROVE  IInv' /\ \A p \in Project : seen'[p] >= seen[p]
  OBVIOUS
<1>1. \A p \in Project : seen[p] \in Nat
  BY DEF IInv, TypeOK
<1>2. CASE UNCHANGED vars
  <2>1. UNCHANGED <<active, ui, job, version, effect, seen, turns>>
    BY <1>2 DEF vars
  <2>2. IInv'
    BY <2>1 DEF IInv, TypeOK, VersionInv, ShownInv, RefreshInv, JobInv, OneOperation,
       ProjectPinned, ShownIsActive, EffectShown, Working, Busy, Pending
  <2>3. QED BY <1>1, <2>1, <2>2
<1>3. CASE Request
  <2>1. CASE \E w \in Worker :
                \/ Begin(w, "toolbar", "stay") \/ Begin(w, "runtime", "stay")
                \/ \E goal \in Project \cup {"stay", "close"} : Begin(w, "project", goal)
    BY <1>1, <2>1, BeginLemma
  <2>2. CASE (\E p \in Project : Open(p)) \/ Close \/ Complain
    BY <1>1, <2>2, OpenLemma, CloseLemma, ComplainLemma
  <2>3. QED BY <1>3, <2>1, <2>2 DEF Request
<1>4. CASE Timer \/ LoadRefresh
  BY <1>1, <1>4, TimerLemma, LoadRefreshLemma
<1>5. CASE Publish
  BY <1>5, PublishLemma
<1>6. CASE \E w \in Worker : Thread(w)
  BY <1>1, <1>6, WorkLemma, LoadLemma DEF Thread
<1>7. CASE \E w \in Worker : Complete(w)
  BY <1>1, <1>7, CompleteToolbarLemma, CompleteRuntimeLemma, CompleteProjectLemma DEF Complete
<1>8. CASE \E p \in Project : Outside(p)
  BY <1>1, <1>8, OutsideLemma
<1>9. QED BY <1>2, <1>3, <1>4, <1>5, <1>6, <1>7, <1>8 DEF Next

\* The invariant holds in every reachable state of the application's runtime
\* views (plugin lib.rs, runtime_store.rs).
THEOREM UiInvariance == Spec => []IInv
<1>1. IInv /\ [Next]_vars => IInv'
  BY StepLemma
<1>2. QED BY <1>1, InitLemma, PTL DEF Spec

\* Every variable of the UI's runtime state keeps its type.
THEOREM UiTypeAlways == Spec => []TypeOK
<1>1. IInv => TypeOK
  BY DEF IInv
<1>2. QED BY <1>1, UiInvariance, PTL

\* Operations of toolbar, control requests and dialogs never overlap, and the
\* slot is released by the last one (begin_external_operation).
THEOREM OneOperationAlways == Spec => []OneOperation
<1>1. IInv => OneOperation
  BY DEF IInv
<1>2. QED BY <1>1, UiInvariance, PTL

\* No operation loses its project, or its completion (project opener, closer).
THEOREM ProjectPinnedAlways == Spec => []ProjectPinned
<1>1. IInv => ProjectPinned
  BY DEF IInv
<1>2. QED BY <1>1, UiInvariance, PTL

\* What is shown is the open project's (refresh_runtime_async).
THEOREM ShownIsActiveAlways == Spec => []ShownIsActive
<1>1. IInv => ShownIsActive
  BY DEF IInv
<1>2. QED BY <1>1, UiInvariance, PTL

\* What is shown after an operation includes its effect (generations).
THEOREM EffectShownAlways == Spec => []EffectShown
<1>1. IInv => EffectShown
  BY DEF IInv
<1>2. QED BY <1>1, UiInvariance, PTL

\* The displayed state of a project never goes back (generations).
THEOREM NeverBackwardsAlways == Spec => NeverBackwards
<1>1. IInv /\ [Next]_vars => [\A p \in Project : seen'[p] >= seen[p]]_vars
  BY StepLemma
<1>2. QED BY <1>1, UiInvariance, PTL DEF Spec, NeverBackwards

================================================================================
