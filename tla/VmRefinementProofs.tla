-------------------------- MODULE VmRefinementProofs --------------------------
(***************************************************************************)
(* VmLifecycle implements ProjectVm: every step of the program is a step   *)
(* of the abstract machine or changes nothing it can see, for any number   *)
(* of controllers and process ids.  Includes, which are not checked against *)
(* the VM, are excluded.                                                   *)
(***************************************************************************)
EXTENDS VmSafetyProofs

Run == proc[pidfile.pid].run

AbstractStep == [Vm!Next]_(Vm!vars)

LEMMA AbstractInit == Init => Vm!Init
<1> SUFFICES ASSUME Init PROVE Vm!Init
  OBVIOUS
<1>1. ~Tracked /\ recipe = <<1, 1>> /\ saved.clock = 0
  BY ConstantsAssumption DEF Init, Tracked, Verified, InitialRuntime
<1>2. disk.gen \in Nat /\ disk.conf \in Nat \X Nat
  BY DEF Init, NoDisk, NoRecipe
<1>3. QED
  BY <1>1, <1>2 DEF Vm!Init

LEMMA TrackedFacts ==
    ASSUME IInv, Tracked
    PROVE  /\ pidfile \in Identity /\ pidfile.pid \in Pid /\ pidfile # NoFile
           /\ Live(pidfile.pid) /\ Run \in Vm!OnStates
           /\ disk.gen # 0
<1>1. pidfile \in Identity /\ pidfile.pid \in Pid /\ pidfile # NoFile
  BY ConstantsAssumption DEF Tracked, Verified, Identity
<1>2. Live(pidfile.pid)
  BY StampTracked DEF IInv, TrackedIsVm
<1>3. Run \in Vm!OnStates
  BY <1>1, <1>2 DEF IInv, RunInv, TypeOK, HostType, Process, RunStates, Run, Vm!OnStates
<1>4. QED
  BY <1>1, <1>2, <1>3 DEF IInv, DiskInv, NothingTracked

\* Steps that leave disk, sources and metadata alone: the VM stays, moves or goes.
LEMMA QuietStep ==
    ASSUME IInv, Next, UNCHANGED <<disk, recipe, saved>>,
           pidfile' = pidfile \/ (~Tracked /\ ~Tracked'),
           Tracked /\ Tracked' => Run' = Run \/ <<Run, Run'>> \in Vm!Transitions
    PROVE  AbstractStep
<1>1. CASE Tracked /\ Tracked'
  <2>1. pidfile' = pidfile /\ pidfile # NoFile
    BY <1>1, TrackedFacts
  <2>2. CASE Run' = Run
    BY <1>1, <2>1, <2>2 DEF AbstractStep, Run, Vm!vars
  <2>3. CASE <<Run, Run'>> \in Vm!Transitions
    BY <1>1, <2>1, <2>3 DEF AbstractStep, Run, Vm!Next, Vm!Move
  <2>4. QED
    BY <1>1, <2>2, <2>3
<1>2. CASE Tracked /\ ~Tracked'
  BY <1>2, TrackedFacts DEF AbstractStep, Vm!Next, Vm!TurnOff
<1>3. CASE ~Tracked
  <2>1. ~Tracked'
    BY <1>3, StaysUnverified DEF IInv
  <2>2. QED
    BY <1>3, <2>1 DEF AbstractStep, Vm!vars
<1>4. QED
  BY <1>1, <1>2, <1>3

\* QMP stop, cont and quit move the VM as ProjectVm allows.
LEMMA SetRunMoves ==
    ASSUME IInv, NEW from, NEW to, SetRun(from, to), UNCHANGED pidfile,
           \A r \in from \cap Vm!OnStates : <<r, to>> \in Vm!Transitions
    PROVE  Run' = Run \/ <<Run, Run'>> \in Vm!Transitions
<1>1. Tracked /\ pidfile.pid \in Pid /\ Run \in Vm!OnStates
  BY TrackedFacts DEF SetRun, QmpReaches
<1>2. Run' = Run \/ (Run \in from /\ Run' = to)
  BY <1>1 DEF SetRun, Run, IInv, TypeOK, HostType, Process
<1>3. QED
  BY <1>1, <1>2

LEMMA StopContQuit ==
    ASSUME IInv, Stop \/ Cont \/ Quit, UNCHANGED pidfile
    PROVE  Run' = Run \/ <<Run, Run'>> \in Vm!Transitions
  BY SetRunMoves DEF Stop, Cont, Quit, RunStates, Vm!Transitions, Vm!OnStates

LEMMA EnvironmentRefines ==
    ASSUME IInv, NEW p \in Pid, Environment(p)
    PROVE  AbstractStep
<1>1. Next
  BY DEF Next
<1>2. UNCHANGED <<disk, recipe, saved, pidfile>>
  BY EnvironmentStep DEF IInv, vmDir
<1>3. ASSUME Tracked, Tracked' PROVE Run' = Run \/ <<Run, Run'>> \in Vm!Transitions
  <2>1. pidfile.pid \in Pid /\ Live(pidfile.pid)
    BY <1>3, TrackedFacts
  <2>2. CASE QemuMoves(p)
    BY <1>2, <2>1, <2>2
    DEF QemuMoves, Run, Vm!Transitions, IInv, TypeOK, HostType, Process
  <2>3. CASE QemuExits(p)
    BY <1>2, <1>3, <2>1, <2>3
    DEF QemuExits, Run, Tracked, Verified, Exists, IInv, TypeOK, HostType, Process
  <2>4. CASE Reap(p) \/ ForeignStarts(p) \/ ForeignExits(p)
    BY <1>2, <2>1, <2>4
    DEF Reap, ForeignStarts, ForeignExits, Run, Live, IInv, TypeOK, HostType
  <2>5. QED
    BY <2>2, <2>3, <2>4 DEF Environment
<1>4. QED
  BY <1>1, <1>2, <1>3, QuietStep

\* The controllers' steps that change neither disk, sources nor metadata.
LEMMA QuietInside ==
    ASSUME IInv, NEW c \in Controller, Inside(c), ~Record(c), ~Provision(c), ~Save(c),
           ~Rename(c), ~Archive(c), ~Write(c)
    PROVE  AbstractStep
<1>1. Next
  BY DEF Next, Outside, Control, Inside
<1>2. UNCHANGED <<disk, recipe, saved>>
  BY DEF Inside, Work, DeadlinePasses, Crash, Observe, Prepare, Spawn, AwaitRunning,
         AwaitGuest, Kill, Cleanup, Shutdown, Wake, Sync, QmpQuit, AwaitExit, Check, Exec,
         Final, Guard, vmDir
<1>3. CASE Cleanup(c)
  <2>1. ~Tracked
    BY <1>3 DEF Cleanup, IInv, PhaseInv, Phase, NothingTracked
  <2>2. ~Tracked'
    BY <1>3, ConstantsAssumption DEF Cleanup, Tracked, Verified
  <2>3. QED
    BY <1>1, <1>2, <2>1, <2>2, QuietStep
<1>4. CASE ~Cleanup(c)
  <2>1. pidfile' = pidfile
    BY <1>4
    DEF Inside, Work, DeadlinePasses, Crash, Observe, Prepare, Spawn, AwaitRunning,
        AwaitGuest, Kill, Shutdown, Wake, Sync, QmpQuit, AwaitExit, Check, Exec, Final, Guard,
        vmDir
  <2>2. ASSUME Tracked, Tracked' PROVE Run' = Run \/ <<Run, Run'>> \in Vm!Transitions
    <3>0. pidfile.pid \in Pid /\ Live(pidfile.pid)
      BY <2>2, TrackedFacts
    <3>1. CASE Wake(c) \/ QmpQuit(c)
      BY <2>1, <3>1, StopContQuit DEF Wake, QmpQuit, Run
    <3>2. CASE Sync(c)
      BY <2>1, <3>0, <3>2 DEF Sync, Synced, Run, IInv, TypeOK, HostType, Process
    <3>3. CASE Exec(c)
      <4>1. ASSUME NEW k, NodeOp(k) PROVE Run' = Run
        BY <2>1, <3>0, <4>1 DEF NodeOp, Run, IInv, TypeOK, HostType, Process
      <4>2. QED
        BY <2>1, <3>3, <4>1, StopContQuit DEF Exec, Effect, Run
    <3>4. CASE Kill(c)
      <4>1. proc'[child[c]].kind = "free" /\ Replaced(child[c])
        BY <3>4, KillStep DEF IInv, FreeSlot, Ends
      <4>2. pidfile.pid # child[c]
        BY <2>1, <2>2, <4>1 DEF Tracked, Verified, Exists
      <4>3. QED
        BY <2>1, <3>0, <4>1, <4>2 DEF Replaced, Run
    <3>5. CASE Spawn(c)
      <4>1. CASE Return(c) /\ UNCHANGED hostVars
        BY <2>1, <4>1 DEF Run, hostVars
      <4>2. QED
        BY <2>2, <3>5, <4>1 DEF Spawn
    <3>6. CASE ~Wake(c) /\ ~QmpQuit(c) /\ ~Sync(c) /\ ~Exec(c) /\ ~Kill(c) /\ ~Spawn(c)
      <4>1. proc' = proc
        BY <1>4, <3>6
        DEF Inside, Work, DeadlinePasses, Crash, Observe, Prepare, AwaitRunning, AwaitGuest,
            Shutdown, AwaitExit, Check, Final, Guard, hostVars
      <4>2. QED
        BY <2>1, <4>1 DEF Run
    <3>7. QED
      BY <3>1, <3>2, <3>3, <3>4, <3>5, <3>6
  <2>3. QED
    BY <1>1, <1>2, <2>1, <2>2, QuietStep
<1>5. QED
  BY <1>3, <1>4

\* The identity is written: the project has a VM from here on.
LEMMA RecordRefines == ASSUME IInv, NEW c \in Controller, Record(c) PROVE AbstractStep
<1>1. child[c] \in Pid /\ child[c] # NoPid /\ pc[c] = "record"
  BY ConstantsAssumption DEF Record, IInv, TypeOK, CtlType, HandleInv, BootLabels
<1>2. ~Tracked /\ disk.gen # 0
  BY <1>1 DEF IInv, PhaseInv, Phase, NothingTracked, DiskInv, BootLabels
<1>3. UNCHANGED <<proc, boot, disk, recipe, saved>>
  BY DEF Record, hostVars
<1>4. CASE pidfile' = pidfile
  BY <1>2, <1>3, <1>4 DEF AbstractStep, Vm!vars, Tracked, Verified, Exists, Id
<1>5. CASE Exists(child[c]) /\ pidfile' = Id(child[c])
  <2>1. Id(child[c]) \in Identity
    BY <1>1 DEF Id, Identity, IInv, TypeOK, HostType, Process
  <2>2. Tracked' /\ pidfile'.pid = child[c]
    BY <1>3, <1>5, <2>1 DEF Tracked, Verified, Exists, Id
  <2>3. Live(child[c])
    BY <1>1, <1>5 DEF Exists, IInv, ChildInv, Live
  <2>4. proc[child[c]].run \in Vm!OnStates
    BY <1>1, <2>3 DEF IInv, RunInv, TypeOK, HostType, Process, RunStates, Vm!OnStates
  <2>5. QED
    BY <1>2, <1>3, <1>5, <2>1, <2>2, <2>4 DEF AbstractStep, Vm!Next, Vm!TurnOn
<1>6. QED
  BY <1>4, <1>5 DEF Record

\* The guest stores its first recipe, or has the one it is given already.
LEMMA ProvisionRefines == ASSUME IInv, NEW c \in Controller, Provision(c) PROVE AbstractStep
<1>1. child[c] \in Pid /\ child[c] # NoPid /\ pidfile = Id(child[c]) /\ pc[c] = "provision"
  BY ConstantsAssumption
  DEF Provision, IInv, TypeOK, CtlType, HandleInv, BootLabels, PhaseInv, Phase
<1>2. UNCHANGED <<pidfile, boot, recipe, saved>> /\ pidfile.pid = child[c]
  BY <1>1 DEF Provision, Id
<1>3. CASE UNCHANGED <<proc, disk>>
  BY <1>2, <1>3 DEF AbstractStep, Vm!vars, Tracked, Verified, Exists, Id
<1>0. Sent(c) \in (1..recipe[1]) \X {recipe[2]} /\ Sent(c) # NoRecipe
  <2>1. loaded[c] \in 1..recipe[1] /\ recipe[2] # 0
    BY RecipeType DEF IInv, TypeOK, FileType
  <2>2. QED
    BY <2>1 DEF Sent, NoRecipe
<1>4. CASE Initialized(child[c], Sent(c))
  <2>1. Live(child[c]) /\ proc[child[c]].run = "running"
    BY <1>4 DEF Initialized, GuestAnswers
  <2>2. Tracked
    BY <1>1, <2>1 DEF Tracked, Verified, Exists, Live, Id, Identity, IInv, TypeOK, HostType, Process
  <2>3. /\ proc'[child[c]].kind = proc[child[c]].kind
        /\ proc'[child[c]].ticks = proc[child[c]].ticks
        /\ proc'[child[c]].run = proc[child[c]].run
    BY <1>1, <1>4 DEF Initialized, IInv, TypeOK, HostType, Process
  <2>4. Tracked'
    BY <1>1, <1>2, <2>2, <2>3 DEF Tracked, Verified, Exists, Id
  <2>5. disk.gen = proc[child[c]].gen /\ disk.conf = proc[child[c]].conf
    BY <1>1 DEF IInv, ChildInv
  <2>6. disk'.gen = disk.gen /\ disk'.conf = Sent(c) /\ disk.conf \in {NoRecipe, Sent(c)}
    BY <1>0, <1>4, <2>5 DEF Initialized, IInv, TypeOK, FileType, Disk
  <2>7. CASE disk.conf = Sent(c)
    BY <1>2, <2>2, <2>3, <2>4, <2>6, <2>7 DEF AbstractStep, Vm!vars
  <2>8. CASE disk.conf = NoRecipe
    BY <1>0, <1>2, <2>1, <2>2, <2>3, <2>4, <2>6, <2>8
    DEF AbstractStep, Vm!Next, Vm!Store, NoRecipe
  <2>9. QED
    BY <2>6, <2>7, <2>8
<1>5. QED
  BY <1>3, <1>4 DEF Provision

\* Disks are prepared and archived, and sources replaced, while there is no VM.
LEMMA DiskRefines ==
    ASSUME IInv, NEW c \in Controller, Rename(c) \/ Archive(c) PROVE AbstractStep
<1>1. ~Tracked
  BY DEF Rename, Archive, IInv, PhaseInv, Phase, DiskInv, NoDisk, NothingTracked
<1>2. UNCHANGED <<hostVars, recipe, saved>>
  BY DEF Rename, Archive
<1>3. pidfile' \in {pidfile, NoFile}
  BY DEF Rename, Archive, vmDir
<1>4. ~Tracked'
  BY <1>1, <1>2, <1>3, ConstantsAssumption
  DEF Tracked, Verified, Exists, Id, hostVars
<1>5. CASE disk' = disk
  BY <1>1, <1>2, <1>4, <1>5 DEF AbstractStep, Vm!vars
<1>6. CASE disk' # disk
  <2>1. /\ disk'.gen \in Nat /\ disk'.conf \in Version /\ disk'.gen # disk.gen
        /\ disk.gen = 0 \/ disk'.gen = 0
    BY <1>6, FirstVersions
    DEF Rename, Archive, IInv, DiskInv, TypeOK, FileType, NoDisk, Disk, vmDir
  <2>2. QED
    BY <1>1, <1>2, <1>4, <2>1 DEF AbstractStep, Vm!Next, Vm!ReplaceDisk, Version
<1>7. QED
  BY <1>5, <1>6

LEMMA WriteRefines ==
    ASSUME "include" \notin Commands, IInv, NEW c \in Controller, Write(c) PROVE AbstractStep
<1>1. ~Tracked
  BY DEF Write, IInv, PhaseInv, Phase, NothingTracked
<1>2. UNCHANGED <<hostVars, saved>>
  BY DEF Write
<1>3. CASE /\ recipe' \in ({recipe[1], recipe[1] + 1} \X {recipe[2], recipe[2] + 1}) \ {recipe}
           /\ UNCHANGED vmDir
  <2>1. ~Tracked'
    BY <1>1, <1>2, <1>3 DEF Tracked, Verified, Exists, Id, hostVars, vmDir
  <2>2. QED
    BY <1>1, <1>2, <1>3, <2>1 DEF AbstractStep, Vm!Next, Vm!Edit, vmDir
<1>4. CASE UNCHANGED <<vmDir, recipe>>
  BY <1>2, <1>4 DEF AbstractStep, Vm!vars, Tracked, Verified, Exists, Id, hostVars, vmDir
<1>5. CASE /\ backup[c].disk # NoDisk /\ recipe' = recipe
           /\ disk' = backup[c].disk /\ pidfile' = backup[c].pidfile
  <2>1. ~Verified(backup[c].pidfile) /\ disk = NoDisk
    BY <1>5 DEF IInv, BackupInv
  <2>2. ~Tracked'
    BY <1>2, <1>5, <2>1 DEF Tracked, Verified, Exists, Id, hostVars
  <2>3. disk'.gen \in Nat /\ disk'.conf \in Version /\ disk'.gen # 0 /\ disk.gen = 0
    BY <1>5, <2>1 DEF IInv, DiskInv, TypeOK, CtlType, VmDir, Disk, NoDisk
  <2>4. QED
    BY <1>1, <1>2, <1>5, <2>2, <2>3
    DEF AbstractStep, Vm!Next, Vm!ReplaceDisk, Version
<1>6. QED
  BY <1>3, <1>4, <1>5 DEF Write

\* A command is entered in the journal.
LEMMA SaveRefines == ASSUME IInv, NEW c \in Controller, Save(c) PROVE AbstractStep
<1>1. UNCHANGED <<hostVars, vmDir, recipe>>
  BY DEF Save
<1>2. Tracked' = Tracked /\ Run' = Run /\ UNCHANGED <<pidfile, disk>>
  BY <1>1 DEF Tracked, Verified, Exists, Id, Run, hostVars, vmDir
<1>3. saved' = saved \/ saved'.clock = saved.clock + 1
  <2>1. mem[c] \in Runtime /\ mem[c].clock = saved.clock
    BY DEF Save, IInv, LoadedInv, TypeOK, CtlType
  <2>2. QED
    BY <2>1 DEF Save, Runtime
<1>4. QED
  BY <1>1, <1>2, <1>3 DEF AbstractStep, Run, Vm!vars, Vm!Next, Vm!Record

LEMMA StepRefines ==
    ASSUME "include" \notin Commands, IInv, [Next]_vars PROVE AbstractStep
<1>1. CASE UNCHANGED vars
  BY <1>1
  DEF AbstractStep, Vm!vars, Tracked, Verified, Exists, Id, vars, ctlVars, hostVars, vmDir
<1>2. ASSUME NEW c \in Controller, Inside(c) PROVE AbstractStep
  BY <1>2, QuietInside, RecordRefines, ProvisionRefines, DiskRefines, WriteRefines, SaveRefines
<1>3. ASSUME NEW c \in Controller, Outside(c) PROVE AbstractStep
  BY <1>3 DEF Outside, Load, ctlVars, Begin, AbstractStep, Vm!vars, Tracked, Verified, Exists, Id, hostVars, vmDir
<1>4. CASE HostReboots
  <2>1. ~Tracked'
    BY <1>4 DEF HostReboots, Tracked, Verified, Exists, FreeSlot, Identity
  <2>2. Next /\ UNCHANGED <<disk, recipe, saved, pidfile>>
    BY <1>4 DEF Next, HostReboots, vmDir
  <2>3. QED
    BY <2>1, <2>2, QuietStep
<1>5. CASE RemoveLegacyFile
  <2>1. ~Tracked /\ ~Tracked' /\ Next /\ UNCHANGED <<disk, recipe, saved>>
    BY <1>5, ConstantsAssumption DEF RemoveLegacyFile, Next, Tracked, Verified
  <2>2. QED
    BY <2>1, QuietStep
<1>6. QED
  BY <1>1, <1>2, <1>3, <1>4, <1>5, EnvironmentRefines, WorldSteps

\* The program, observed through its verified VM, disk, sources and journal,
\* behaves like ProjectVm as long as no include is added.
THEOREM Refinement ==
    ASSUME "include" \notin Commands PROVE Spec => ImplementsProjectVm
<1>1. IInv /\ [Next]_vars => [Vm!Next]_(Vm!vars)
  BY StepRefines DEF AbstractStep
<1>2. QED
  BY <1>1, AbstractInit, Invariance, PTL DEF Spec, ImplementsProjectVm, Vm!Spec

================================================================================
