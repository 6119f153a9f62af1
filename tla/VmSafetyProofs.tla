---------------------------- MODULE VmSafetyProofs ----------------------------
(***************************************************************************)
(* Types, the inductive invariant of VmLifecycle and the safety properties *)
(* that follow from it, for any number of controllers and process ids and  *)
(* any bounds.                                                             *)
(***************************************************************************)
EXTENDS VmLifecycle, TLAPS

--------------------------------------------------------------------------------
(***************************************************************************)
(* Types.  That the child of a controller is a process id depends on where *)
(* the controller is, so HandleInv is proved along with TypeOK.            *)
(***************************************************************************)

\* A step of a controller that does not hold the lock yet.
Outside(c) == Load(c) \/ \E k \in Commands : Begin(c, k)

\* A disk or a process may have no recipe, or the first one.
LEMMA FirstVersions == NoRecipe \in Version /\ <<1, 1>> \in Version
  BY DEF NoRecipe, Version

LEMMA FreeSlotType == FreeSlot \in Process
  BY FirstVersions DEF FreeSlot, Process, RunStates

\* Writing a process into the process table keeps the table's type.
LEMMA ProcType ==
    ASSUME HostType, NEW p \in Pid, NEW r \in Process,
           proc' = [proc EXCEPT ![p] = r], UNCHANGED <<ticks, boot>>,
           lost' \subseteq lost
    PROVE  HostType'
  BY DEF HostType

\* The two versions of the project's sources.
LEMMA RecipeType ==
    ASSUME FileType
    PROVE  /\ recipe = <<recipe[1], recipe[2]>>
           /\ recipe[1] \in Nat \ {0} /\ recipe[2] \in Nat \ {0}
  BY DEF FileType

\* What a controller sends is a recipe.
LEMMA SentType == ASSUME FileType, NEW c \in Controller PROVE Sent(c) \in Version
  <1>1. loaded[c] \in Nat
    BY RecipeType DEF FileType
  <1>2. QED
    BY <1>1, RecipeType DEF Sent, Version

\* Moving to another label outside a boot, with nothing else local changed.
LEMMA GotoType ==
    ASSUME CtlType, HandleInv, NEW c \in Controller, NEW l \in Labels, Goto(c, l),
           UNCHANGED <<lock, cmd, mem, child, backup>>,
           l \in BootLabels <=> pc[c] \in BootLabels
    PROVE  CtlType' /\ HandleInv'
  BY DEF CtlType, HandleInv, Goto

\* Returning from the locked section, or dying in it.
LEMMA ReturnType ==
    ASSUME CtlType, HandleInv, NEW c \in Controller, Return(c)
    PROVE  CtlType' /\ HandleInv'
  <1>1. InitialRuntime \in Runtime /\ NoBackup \in VmDir
    BY FirstVersions DEF InitialRuntime, Runtime, NoBackup, VmDir, NoDisk, Disk
  <1>2. QED
    BY <1>1, ConstantsAssumption
    DEF CtlType, HandleInv, Return, Labels, BootLabels, AllCommands

\* The initial states are of their types.
LEMMA TypeInit == Init => TypeOK /\ HandleInv
  <1> SUFFICES ASSUME Init PROVE TypeOK /\ HandleInv
    OBVIOUS
  <1>1. CtlType /\ HandleInv
    BY ConstantsAssumption, FirstVersions
    DEF Init, CtlType, HandleInv, Labels, BootLabels, AllCommands, Runtime, InitialRuntime,
        VmDir, NoBackup, NoDisk, Disk
  <1>2. HostType
    <2>1. ASSUME NEW p \in Pid
          PROVE  [kind |-> "qemu", ticks |-> 1, run |-> "running", gen |-> 1,
                  conf |-> <<1, 1>>, synced |-> FALSE] \in Process
      BY FirstVersions DEF Process, RunStates
    <2>2. QED
      BY <2>1, FreeSlotType DEF Init, HostType
  <1>3. FileType
    BY FirstVersions DEF Init, FileType, NoDisk, Disk, InitialRuntime, Runtime
  <1>4. QED
    BY <1>1, <1>2, <1>3 DEF TypeOK

\* Observations and node views are values runtime.json can hold.
LEMMA ObservationType ==
    ASSUME NEW vm \in VmObservation \ {"error"} PROVE vm \in {"stopped", "running", "paused"}
  BY DEF VmObservation, Reported

LEMMA NodeViewsType ==
    ASSUME NEW s \in Runtime, NEW vm, NEW n \in NodeViews(s, vm)
    PROVE  n \in {"stopped", "guest", "unknown"}
  BY DEF NodeViews, Runtime

\* A controller's step keeps the types of the controllers' own variables.
LEMMA CtlTypeStep ==
    ASSUME TypeOK, HandleInv, NEW c \in Controller, Control(c)
    PROVE  CtlType' /\ HandleInv'
<1> USE ReturnType, GotoType DEF TypeOK
<1>1. ASSUME NEW k \in Commands, Begin(c, k) PROVE CtlType' /\ HandleInv'
  <2>1. k \in AllCommands /\ saved \in Runtime
    BY ConstantsAssumption DEF FileType
  <2>2. Entry(k) \in Labels \ BootLabels
    BY <2>1 DEF Entry, AllCommands, Labels, BootLabels
  <2>3. /\ pc' = [pc EXCEPT ![c] = Entry(k)] /\ cmd' = [cmd EXCEPT ![c] = k]
        /\ mem' = [mem EXCEPT ![c] = saved] /\ lock' = c /\ UNCHANGED <<child, backup>>
    BY <1>1 DEF Begin, Goto
  <2>4. CtlType'
    BY <2>1, <2>2, <2>3 DEF CtlType
  <2>5. HandleInv'
    BY <1>1, <2>2, <2>3 DEF Begin, HandleInv, CtlType, BootLabels
  <2>6. QED
    BY <2>4, <2>5
<1>2. ASSUME Observe(c) PROVE CtlType' /\ HandleInv'
  <2>1. CASE Return(c)
    BY <2>1
  <2>2. ASSUME NEW vm \in VmObservation \ {"error"}, NEW n \in NodeViews(mem[c], vm),
               mem' = [mem EXCEPT ![c].nodes = n],
               Goto(c, IF cmd[c] = "pause" THEN "check" ELSE "shutdown"),
               UNCHANGED <<lock, cmd, child, backup>>
        PROVE  CtlType' /\ HandleInv'
    <3>1. mem[c] \in Runtime
      BY DEF CtlType
    <3>2. [mem[c] EXCEPT !.nodes = n] \in Runtime
      BY <3>1, NodeViewsType DEF Runtime
    <3>3. pc[c] = "observe"
      BY <1>2 DEF Observe
    <3>4. QED
      BY <2>2, <3>2, <3>3 DEF Goto, CtlType, HandleInv, Labels, BootLabels
  <2>3. QED
    BY <1>2, <2>1, <2>2 DEF Observe
<1>3. ASSUME Prepare(c) PROVE CtlType' /\ HandleInv'
  BY <1>3
  DEF Prepare, Labels, BootLabels
<1>4. ASSUME Rename(c) PROVE CtlType' /\ HandleInv'
  BY <1>4
  DEF Rename, Labels, BootLabels
<1>5. ASSUME Shutdown(c) PROVE CtlType' /\ HandleInv'
  BY <1>5
  DEF Shutdown, Labels, BootLabels
<1>6. ASSUME Wake(c) PROVE CtlType' /\ HandleInv'
  BY <1>6
  DEF Wake, Labels, BootLabels
<1>7. ASSUME Sync(c) PROVE CtlType' /\ HandleInv'
  BY <1>7
  DEF Sync, Labels, BootLabels
<1>8. ASSUME QmpQuit(c) PROVE CtlType' /\ HandleInv'
  BY <1>8
  DEF QmpQuit, Labels, BootLabels
<1>9. ASSUME AwaitExit(c) PROVE CtlType' /\ HandleInv'
  BY <1>9
  DEF AwaitExit, Labels, BootLabels
<1>10. ASSUME Check(c) PROVE CtlType' /\ HandleInv'
  BY <1>10
  DEF Check, Labels, BootLabels
<1>11. ASSUME Exec(c) PROVE CtlType' /\ HandleInv'
  BY <1>11
  DEF Exec, Labels, BootLabels
<1>12. ASSUME Guard(c) PROVE CtlType' /\ HandleInv'
  BY <1>12
  DEF Guard, Labels, BootLabels
<1>13. ASSUME Cleanup(c) PROVE CtlType' /\ HandleInv'
  BY <1>13
  DEF Cleanup, Labels, BootLabels
<1>14. ASSUME Record(c) PROVE CtlType' /\ HandleInv'
  BY <1>14
  DEF Record, Labels, BootLabels
<1>15. ASSUME AwaitGuest(c) PROVE CtlType' /\ HandleInv'
  BY <1>15
  DEF AwaitGuest, Labels, BootLabels
<1>16. ASSUME DeadlinePasses(c) PROVE CtlType' /\ HandleInv'
  BY <1>16
  DEF DeadlinePasses, Labels, BootLabels
<1>17. ASSUME Save(c) PROVE CtlType' /\ HandleInv'
  BY <1>17
  DEF Save, Labels, BootLabels
<1>18. ASSUME Write(c) PROVE CtlType' /\ HandleInv'
  BY <1>18
  DEF Write, Labels, BootLabels
<1>19. ASSUME Crash(c) PROVE CtlType' /\ HandleInv'
  BY <1>19
  DEF Crash, Labels, BootLabels
<1>20. ASSUME Spawn(c) PROVE CtlType' /\ HandleInv'
  BY <1>20, ConstantsAssumption
  DEF Spawn, Goto, CtlType, HandleInv, Labels, BootLabels
<1>21. ASSUME AwaitRunning(c) PROVE CtlType' /\ HandleInv'
  BY <1>21
  DEF AwaitRunning, DropChild, Goto, CtlType, HandleInv, Labels, BootLabels
<1>22. ASSUME Provision(c) PROVE CtlType' /\ HandleInv'
  BY <1>22
  DEF Provision, DropChild, Goto, CtlType, HandleInv, Labels, BootLabels
<1>23. ASSUME Kill(c) PROVE CtlType' /\ HandleInv'
  BY <1>23
  DEF Kill, DropChild, Goto, CtlType, HandleInv, Labels, BootLabels
<1>24. ASSUME Final(c) PROVE CtlType' /\ HandleInv'
  <2>1. CASE Return(c)
    BY <2>1
  <2>2. ASSUME NEW vm \in VmObservation \ {"error"}, NEW n \in NodeViews(mem[c], vm),
               mem' = [mem EXCEPT ![c].vm = vm, ![c].nodes = n],
               Goto(c, "save"), UNCHANGED <<lock, cmd, child, backup>>
        PROVE  CtlType' /\ HandleInv'
    <3>1. mem[c] \in Runtime
      BY DEF CtlType
    <3>2. [mem[c] EXCEPT !.vm = vm, !.nodes = n] \in Runtime
      BY <3>1, ObservationType, NodeViewsType DEF Runtime
    <3>3. mem' = [mem EXCEPT ![c] = [mem[c] EXCEPT !.vm = vm, !.nodes = n]]
      BY <2>2 DEF CtlType, Runtime
    <3>4. pc[c] = "final"
      BY <1>24 DEF Final
    <3>5. mem' \in [Controller -> Runtime]
      BY <3>2, <3>3 DEF CtlType
    <3>6. Goto(c, "save") /\ UNCHANGED <<lock, cmd, child, backup>>
      BY <2>2
    <3>7. QED
      BY <3>4, <3>5, <3>6 DEF Goto, CtlType, HandleInv, Labels, BootLabels
  <2>3. QED
    BY <1>24, <2>1, <2>2 DEF Final
<1>25. ASSUME Archive(c) PROVE CtlType' /\ HandleInv'
  <2>1. [pidfile |-> pidfile, disk |-> disk] \in VmDir
    BY DEF FileType, VmDir
  <2>2. QED
    BY <1>25, <2>1 DEF Archive, Goto, CtlType, HandleInv, Labels, BootLabels
<1>26. ASSUME Load(c) PROVE CtlType' /\ HandleInv'
  BY <1>26 DEF Load, ctlVars, CtlType, HandleInv
<1>27. QED
  BY <1>1, <1>2, <1>3, <1>4, <1>5, <1>6, <1>7, <1>8, <1>9, <1>10, <1>11, <1>12, <1>13,
     <1>14, <1>15, <1>16, <1>17, <1>18, <1>19, <1>20, <1>21, <1>22, <1>23, <1>24, <1>25,
     <1>26
  DEF Control, Work

\* A step outside the controllers keeps the types of their variables.
LEMMA CtlTypeEnv ==
    ASSUME TypeOK, HandleInv,
           (\E p \in Pid : Environment(p)) \/ HostReboots \/ RemoveLegacyFile
    PROVE  CtlType' /\ HandleInv'
  <1>1. CASE UNCHANGED ctlVars
    BY <1>1 DEF TypeOK, CtlType, HandleInv, ctlVars
  <1>2. CASE HostReboots
    BY <1>2, ConstantsAssumption, FirstVersions
    DEF HostReboots, CtlType, HandleInv, Labels, BootLabels, AllCommands, Runtime,
        InitialRuntime, VmDir, NoBackup, NoDisk, Disk
  <1>3. QED
    BY <1>1, <1>2
    DEF Environment, QemuMoves, QemuExits, Reap, ForeignStarts, ForeignExits, RemoveLegacyFile

\* The steps that touch the process table keep its type.
LEMMA HostTypeStep ==
    ASSUME TypeOK, HandleInv, Next
    PROVE  HostType'
<1> USE DEF TypeOK
<1>a. \A p \in Pid : proc[p] \in Process
  BY DEF HostType
<1>b. \A c \in Controller : child[c] # NoPid => child[c] \in Pid
  BY DEF CtlType
<1>c. Tracked => pidfile.pid \in Pid
  BY DEF Tracked, Verified, Identity
<1>0. CASE UNCHANGED hostVars
  BY <1>0 DEF HostType, hostVars
<1>1. ASSUME NEW p \in Pid, NEW x \in RunStates,
             proc' = [proc EXCEPT ![p].run = x], UNCHANGED <<ticks, boot, lost>>
      PROVE  HostType'
  <2>1. [proc[p] EXCEPT !.run = x] \in Process
    BY <1>a DEF Process
  <2>2. QED
    BY <1>1, <2>1, ProcType
<1>2. ASSUME NEW c \in Controller, Spawn(c) PROVE HostType'
  <2>1. SpawnedOn(disk) \in Process
    BY DEF SpawnedOn, Process, RunStates, HostType, FileType, Disk
  <2>2. QED
    BY <1>2, <2>1 DEF Spawn, HostType, hostVars
<1>3. ASSUME NEW p \in Pid, NEW r \in Version, Initialized(p, r), UNCHANGED <<ticks, boot, lost>>
      PROVE  HostType'
  <2>1. [proc[p] EXCEPT !.conf = r, !.synced = IF proc[p].conf = NoRecipe THEN FALSE ELSE @]
            \in Process
    BY <1>a DEF Process, FileType
  <2>2. proc' = [proc EXCEPT ![p] =
                   [proc[p] EXCEPT !.conf = r,
                                   !.synced = IF proc[p].conf = NoRecipe THEN FALSE ELSE @]]
    BY <1>3, <1>a DEF Initialized, Process, HostType
  <2>3. QED
    BY <1>3, <2>1, <2>2, ProcType
<1>4. ASSUME NEW c \in Controller, Provision(c) PROVE HostType'
  BY <1>4, <1>3, <1>0, <1>b, SentType DEF Provision, hostVars, BootLabels, HandleInv
<1>5. ASSUME NEW c \in Controller, Kill(c) PROVE HostType'
  BY <1>5, <1>b, ProcType, FreeSlotType DEF Kill, BootLabels, HandleInv
<1>6. ASSUME NEW from, NEW to \in RunStates, SetRun(from, to), UNCHANGED <<ticks, boot, lost>>
      PROVE  HostType'
  BY <1>6, <1>0, <1>1, <1>c DEF SetRun, QmpReaches, hostVars
<1>7. ASSUME NEW p \in Pid, NEW b \in BOOLEAN, proc' = [proc EXCEPT ![p].synced = b],
             UNCHANGED <<ticks, boot, lost>>
      PROVE  HostType'
  <2>1. [proc[p] EXCEPT !.synced = b] \in Process
    BY <1>a DEF Process
  <2>2. QED
    BY <1>7, <2>1, ProcType
<1>8. ASSUME NEW c \in Controller, Wake(c) \/ Sync(c) \/ QmpQuit(c) PROVE HostType'
  BY <1>8, <1>0, <1>6, <1>7, <1>c
  DEF Wake, Sync, QmpQuit, Cont, Quit, Synced, RunStates, hostVars
<1>9. ASSUME NEW c \in Controller, Exec(c) PROVE HostType'
  BY <1>9, <1>0, <1>6, <1>7, <1>c DEF Exec, Effect, Stop, Cont, NodeOp, RunStates, hostVars
<1>10. ASSUME NEW p \in Pid, QemuMoves(p) PROVE HostType'
  BY <1>10, <1>1 DEF QemuMoves, RunStates
<1>11. ASSUME NEW p \in Pid, QemuExits(p) PROVE HostType'
  <2>1. [proc[p] EXCEPT !.kind = "zombie", !.run = "none"] \in Process
    BY <1>a DEF Process, RunStates
  <2>2. proc' = [proc EXCEPT ![p] = [proc[p] EXCEPT !.kind = "zombie", !.run = "none"]]
    BY <1>11, <1>a DEF QemuExits, Process, HostType
  <2>3. QED
    BY <1>11, <2>1, <2>2, ProcType DEF QemuExits
<1>12. ASSUME NEW p \in Pid, Reap(p) \/ ForeignExits(p) PROVE HostType'
  BY <1>12, ProcType, FreeSlotType DEF Reap, ForeignExits
<1>13. ASSUME NEW p \in Pid, ForeignStarts(p) PROVE HostType'
  <2>1. ForeignProcess \in Process
    BY FirstVersions DEF ForeignProcess, Process, RunStates, HostType
  <2>2. QED
    BY <1>13, <2>1 DEF ForeignStarts, HostType
<1>14. ASSUME NEW c \in Controller, Crash(c) PROVE HostType'
  BY <1>14, <1>b DEF Crash, HostType, HandleInv, BootLabels
<1>15. CASE HostReboots
  BY <1>15, FreeSlotType DEF HostReboots, HostType
<1>16. ASSUME NEW c \in Controller,
              \/ Outside(c)
              \/ DeadlinePasses(c) \/ Observe(c) \/ Prepare(c) \/ Rename(c)
              \/ Record(c) \/ AwaitRunning(c) \/ AwaitGuest(c) \/ Cleanup(c)
              \/ Shutdown(c) \/ AwaitExit(c) \/ Check(c) \/ Final(c) \/ Save(c)
              \/ Guard(c) \/ Archive(c) \/ Write(c)
       PROVE UNCHANGED hostVars
  BY <1>16
  DEF Outside, Load, ctlVars, Begin, DeadlinePasses, Observe, Prepare, Rename, Record,
      AwaitRunning, AwaitGuest, Cleanup, Shutdown, AwaitExit, Check, Final, Save, Guard, Archive, Write, hostVars
<1>17. QED
  BY <1>0, <1>2, <1>4, <1>5, <1>8, <1>9, <1>10, <1>11, <1>12, <1>13, <1>14, <1>15, <1>16
  DEF Next, Outside, Control, Work, Environment, RemoveLegacyFile

\* The steps that touch the project's files keep their types.
LEMMA FileTypeStep ==
    ASSUME TypeOK, HandleInv, Next
    PROVE  FileType'
<1> USE DEF TypeOK
<1>0. CASE UNCHANGED <<vmDir, disks, recipe, loaded, saved>>
  BY <1>0 DEF FileType, vmDir
<1>1. ASSUME NEW c \in Controller, Rename(c) PROVE FileType'
  BY <1>1, FirstVersions DEF Rename, FileType, Disk
<1>2. ASSUME NEW c \in Controller, Record(c) PROVE FileType'
  <2>1. child[c] \in Pid
    BY <1>2 DEF Record, CtlType, HandleInv, BootLabels
  <2>2. Id(child[c]) \in Identity
    BY <2>1 DEF Id, Identity, HostType, Process
  <2>3. QED
    BY <1>2, <2>2 DEF Record, FileType
<1>3. ASSUME NEW p, NEW r \in Version, Initialized(p, r),
             UNCHANGED <<pidfile, disks, recipe, loaded, saved>>
      PROVE  FileType'
  BY <1>3 DEF Initialized, FileType, Disk
<1>4. ASSUME NEW c \in Controller, Provision(c) PROVE FileType'
  BY <1>4, <1>3, <1>0, SentType DEF Provision, vmDir
<1>5. ASSUME NEW c \in Controller, Cleanup(c) PROVE FileType'
  BY <1>5 DEF Cleanup, FileType
<1>6. ASSUME NEW c \in Controller, Archive(c) PROVE FileType'
  BY <1>6, FirstVersions DEF Archive, FileType, vmDir, NoDisk, Disk
<1>7. ASSUME NEW c \in Controller, Write(c) PROVE FileType'
  <2>1. backup[c].pidfile \in Identity \cup {NoFile, LegacyFile} /\ backup[c].disk \in Disk
    BY DEF CtlType, VmDir
  <2>2. loaded \in [Controller -> 1..recipe[1]] /\ loaded \in [Controller -> 1..(recipe[1] + 1)]
    <3>1. \A d \in Controller : loaded[d] \in 1..(recipe[1] + 1)
      BY RecipeType DEF FileType
    <3>2. QED
      BY <3>1 DEF FileType
  <2>3. /\ pidfile' \in Identity \cup {NoFile, LegacyFile} /\ disk' \in Disk
        /\ UNCHANGED <<disks, loaded, saved>>
    BY <1>7, <2>1 DEF Write, FileType, vmDir
  <2>4. \/ recipe' = recipe
        \/ recipe' \in {recipe[1], recipe[1] + 1} \X {recipe[2], recipe[2] + 1}
    BY <1>7 DEF Write, vmDir
  <2>5. /\ recipe' \in (Nat \ {0}) \X (Nat \ {0})
        /\ recipe'[1] = recipe[1] \/ recipe'[1] = recipe[1] + 1
    <3>1. CASE recipe' = recipe
      BY <3>1 DEF FileType
    <3>2. CASE recipe' \in {recipe[1], recipe[1] + 1} \X {recipe[2], recipe[2] + 1}
      <4>1. /\ {recipe[1], recipe[1] + 1} \subseteq Nat \ {0}
            /\ {recipe[2], recipe[2] + 1} \subseteq Nat \ {0}
        BY RecipeType
      <4>2. recipe'[1] \in {recipe[1], recipe[1] + 1}
        BY <3>2
      <4>3. QED
        BY <3>2, <4>1, <4>2
    <3>3. QED
      BY <2>4, <3>1, <3>2
  <2>6. loaded' \in [Controller -> 1..recipe'[1]]
    BY <2>2, <2>3, <2>5
  <2>7. QED
    BY <2>3, <2>5, <2>6 DEF FileType
<1>8. ASSUME NEW c \in Controller, Save(c) PROVE FileType'
  <2>1. mem[c] \in Runtime
    BY DEF CtlType
  <2>2. [mem[c] EXCEPT !.clock = @ + 1] \in Runtime
    BY <2>1 DEF Runtime
  <2>3. QED
    BY <1>8, <2>2 DEF Save, FileType, vmDir
<1>9. CASE RemoveLegacyFile
  BY <1>9 DEF RemoveLegacyFile, FileType
<1>10. ASSUME NEW c \in Controller,
              \/ \E k \in Commands : Begin(c, k)
              \/ DeadlinePasses(c) \/ Observe(c) \/ Prepare(c)
              \/ Spawn(c) \/ AwaitRunning(c) \/ AwaitGuest(c) \/ Kill(c)
              \/ Shutdown(c) \/ Wake(c) \/ Sync(c) \/ QmpQuit(c) \/ AwaitExit(c)
              \/ Check(c) \/ Exec(c) \/ Final(c) \/ Guard(c)
       PROVE UNCHANGED <<vmDir, disks, recipe, loaded, saved>>
  BY <1>10
  DEF Begin, DeadlinePasses, Observe, Prepare, Spawn, AwaitRunning, AwaitGuest, Kill,
      Shutdown, Wake, Sync, QmpQuit, AwaitExit, Check, Exec, Final, Guard
<1>11. ASSUME \E p \in Pid : Environment(p)
       PROVE  UNCHANGED <<vmDir, disks, recipe, loaded, saved>>
  BY <1>11
  DEF Environment, QemuMoves, QemuExits, Reap, ForeignStarts, ForeignExits
<1>12. ASSUME HostReboots \/ \E c \in Controller : Load(c) \/ Crash(c) PROVE FileType'
  <2>1. loaded' \in [Controller -> 1..recipe[1]]
    <3>1. loaded \in [Controller -> 1..recipe[1]] /\ recipe[1] \in 1..recipe[1]
      BY RecipeType DEF FileType
    <3>2. CASE HostReboots
      BY <3>1, <3>2 DEF HostReboots
    <3>3. ASSUME NEW c \in Controller, Load(c) \/ Crash(c) PROVE loaded' \in [Controller -> 1..recipe[1]]
      <4>1. loaded' = [loaded EXCEPT ![c] = recipe[1]]
        BY <3>3 DEF Load, Crash
      <4>2. QED
        BY <3>1, <4>1
    <3>4. QED
      BY <1>12, <3>2, <3>3
  <2>2. UNCHANGED <<vmDir, disks, recipe, saved>>
    BY <1>12 DEF HostReboots, Load, Crash
  <2>3. QED
    BY <2>1, <2>2 DEF FileType, vmDir
<1>13. QED
  BY <1>0, <1>1, <1>2, <1>4, <1>5, <1>6, <1>7, <1>8, <1>9, <1>10, <1>11, <1>12
  DEF Next, Control, Work

\* Stuttering keeps types and handles.
LEMMA TypeStutter ==
    ASSUME TypeOK, HandleInv, UNCHANGED vars PROVE TypeOK' /\ HandleInv'
  BY DEF TypeOK, HandleInv, CtlType, HostType, FileType, vars, ctlVars, hostVars, vmDir

LEMMA TypeStep == TypeOK /\ HandleInv /\ [Next]_vars => TypeOK' /\ HandleInv'
  BY CtlTypeStep, CtlTypeEnv, HostTypeStep, FileTypeStep, TypeStutter DEF TypeOK, Next

\* The variables always have the values of the code's types, and a controller
\* holds a child's handle exactly while it boots.
THEOREM TypeCorrect == Spec => [](TypeOK /\ HandleInv)
<1>1. QED
  BY TypeInit, TypeStep, PTL DEF Spec

--------------------------------------------------------------------------------
(***************************************************************************)
(* The shape of a controller's step: only its own locals move, and it      *)
(* either returns or goes on inside the locked section.                    *)
(***************************************************************************)

Inside(c) == Work(c) \/ DeadlinePasses(c) \/ Crash(c)

Elsewhere(c) ==
    \A d \in Controller \ {c} :
        /\ pc'[d] = pc[d] /\ cmd'[d] = cmd[d] /\ mem'[d] = mem[d]
        /\ child'[d] = child[d] /\ backup'[d] = backup[d]

Advance(c) ==
    /\ pc'[c] \in Labels \ {"idle"}
    /\ lock' = lock /\ cmd' = cmd

LEMMA ReturnElsewhere ==
    ASSUME CtlType, NEW c \in Controller, Return(c)
    PROVE  /\ Elsewhere(c)
           /\ lock' = NoController /\ pc'[c] = "idle" /\ cmd'[c] = "status"
           /\ child'[c] = NoPid /\ backup'[c] = NoBackup
  BY DEF Return, Elsewhere, CtlType

LEMMA GotoElsewhere ==
    ASSUME CtlType, NEW c \in Controller, NEW l \in Labels \ {"idle"}, Goto(c, l),
           UNCHANGED <<lock, cmd, mem, child, backup>>
    PROVE  Elsewhere(c) /\ Advance(c)
  BY DEF Goto, Elsewhere, Advance, CtlType

LEMMA SectionStep ==
    ASSUME TypeOK, NEW c \in Controller, Inside(c)
    PROVE  pc[c] # "idle" /\ Elsewhere(c) /\ (Return(c) \/ Advance(c))
<1> USE ReturnElsewhere, GotoElsewhere DEF TypeOK, Labels
<1>1. ASSUME Observe(c) PROVE Elsewhere(c) /\ (Return(c) \/ Advance(c))
  BY <1>1 DEF Observe, Goto, Elsewhere, Advance, CtlType
<1>2. ASSUME Prepare(c) \/ Rename(c) \/ Record(c) \/ AwaitGuest(c) \/ Cleanup(c)
      PROVE  Elsewhere(c) /\ (Return(c) \/ Advance(c))
  BY <1>2 DEF Prepare, Rename, Record, AwaitGuest, Cleanup
<1>3. ASSUME Spawn(c) PROVE Elsewhere(c) /\ (Return(c) \/ Advance(c))
  BY <1>3 DEF Spawn, Goto, Elsewhere, Advance, CtlType
<1>4. ASSUME AwaitRunning(c) PROVE Elsewhere(c) /\ (Return(c) \/ Advance(c))
  BY <1>4 DEF AwaitRunning, DropChild, Goto, Elsewhere, Advance, CtlType
<1>5. ASSUME Provision(c) PROVE Elsewhere(c) /\ (Return(c) \/ Advance(c))
  BY <1>5 DEF Provision, DropChild, Goto, Elsewhere, Advance, CtlType
<1>6. ASSUME Kill(c) PROVE Elsewhere(c) /\ (Return(c) \/ Advance(c))
  BY <1>6 DEF Kill, DropChild, Goto, Elsewhere, Advance, CtlType
<1>7. ASSUME Shutdown(c) \/ Wake(c) \/ Sync(c) \/ QmpQuit(c) \/ AwaitExit(c)
      PROVE  Elsewhere(c) /\ (Return(c) \/ Advance(c))
  BY <1>7 DEF Shutdown, Wake, Sync, QmpQuit, AwaitExit
<1>8. ASSUME Check(c) \/ Exec(c) \/ Guard(c) PROVE Elsewhere(c) /\ (Return(c) \/ Advance(c))
  BY <1>8 DEF Check, Exec, Guard
<1>9. ASSUME Final(c) PROVE Elsewhere(c) /\ (Return(c) \/ Advance(c))
  <2>1. ASSUME NEW r, mem' = [mem EXCEPT ![c] = r], Goto(c, "save"),
               UNCHANGED <<lock, cmd, child, backup>>
        PROVE  Elsewhere(c) /\ Advance(c)
    BY <2>1 DEF Goto, Elsewhere, Advance, CtlType
  <2>2. ASSUME NEW vm, NEW n
        PROVE  [mem EXCEPT ![c].vm = vm, ![c].nodes = n]
                 = [mem EXCEPT ![c] = [mem[c] EXCEPT !.vm = vm, !.nodes = n]]
    BY DEF CtlType, Runtime
  <2>3. QED
    BY <1>9, <2>1, <2>2 DEF Final
<1>10. ASSUME Archive(c) PROVE Elsewhere(c) /\ (Return(c) \/ Advance(c))
  BY <1>10 DEF Archive, Goto, Elsewhere, Advance, CtlType
<1>11. ASSUME Save(c) \/ Write(c) \/ Crash(c) PROVE Elsewhere(c) /\ (Return(c) \/ Advance(c))
  BY <1>11 DEF Save, Write, Crash
<1>12. ASSUME DeadlinePasses(c) PROVE Elsewhere(c) /\ (Return(c) \/ Advance(c))
  BY <1>12 DEF DeadlinePasses
<1>13. pc[c] # "idle"
  BY DEF Inside, Work, DeadlinePasses, Crash, Observe, Prepare, Rename, Spawn, Record,
         AwaitRunning, AwaitGuest, Provision, Kill, Cleanup, Shutdown, Wake, Sync, QmpQuit,
         AwaitExit, Check, Exec, Final, Save, Guard, Archive, Write
<1>14. QED
  BY <1>1, <1>2, <1>3, <1>4, <1>5, <1>6, <1>7, <1>8, <1>9, <1>10, <1>11, <1>12, <1>13
  DEF Inside, Work

LEMMA WorldSteps ==
    ASSUME Next
    PROVE  \/ \E c \in Controller : Outside(c)
           \/ \E c \in Controller : Inside(c)
           \/ \E p \in Pid : Environment(p)
           \/ HostReboots
           \/ RemoveLegacyFile
  BY DEF Next, Outside, Control, Inside

LEMMA EnvironmentLocals ==
    ASSUME (\E p \in Pid : Environment(p)) \/ RemoveLegacyFile
    PROVE  UNCHANGED ctlVars
  BY DEF Environment, QemuMoves, QemuExits, Reap, ForeignStarts, ForeignExits, RemoveLegacyFile

\* The lock's holder is alone inside.
LEMMA LockStep == ASSUME TypeOK, LockInv, Next PROVE LockInv'
<1>1. ASSUME NEW c \in Controller, Outside(c) PROVE LockInv'
  BY <1>1, ConstantsAssumption DEF Outside, Load, ctlVars, Begin, Goto, LockInv, TypeOK, CtlType
<1>2. ASSUME NEW c \in Controller, Inside(c) PROVE LockInv'
  BY <1>2, SectionStep, ReturnElsewhere, ConstantsAssumption
  DEF Advance, Elsewhere, LockInv, TypeOK
<1>3. CASE HostReboots
  BY <1>3 DEF HostReboots, LockInv
<1>4. QED
  BY <1>1, <1>2, <1>3, WorldSteps, EnvironmentLocals DEF ctlVars, LockInv

LEMMA Alone ==
    ASSUME TypeOK, HandleInv, LockInv, NEW c \in Controller, Inside(c),
           NEW d \in Controller \ {c}
    PROVE  /\ pc[d] = "idle" /\ pc'[d] = "idle"
           /\ child[d] = NoPid /\ child'[d] = NoPid
           /\ backup'[d] = backup[d] /\ cmd'[d] = cmd[d]
  BY SectionStep DEF Elsewhere, LockInv, HandleInv, BootLabels, TypeOK

--------------------------------------------------------------------------------
(***************************************************************************)
(* The shape of a step in the process table.                               *)
(***************************************************************************)

\* No process starts, ends or changes its identity.
Calm == /\ UNCHANGED <<ticks, boot>>
        /\ \A p \in Pid : /\ proc'[p].kind = proc[p].kind
                          /\ proc'[p].ticks = proc[p].ticks
                          /\ proc'[p].gen = proc[p].gen

\* No guest is given a recipe.
ConfKept == \A p \in Pid : proc'[p].conf = proc[p].conf

\* At one process id a process starts, or one ends.
Replaced(p) == \A q \in Pid \ {p} : proc'[q] = proc[q]
Starts(p) == /\ proc[p].kind = "free" /\ Replaced(p)
             /\ ticks' = ticks + 1 /\ boot' = boot /\ proc'[p].ticks = ticks'
Ends(p)   == /\ proc'[p].kind \in {"free", "zombie"} /\ Replaced(p)
             /\ proc'[p].ticks \in {0, proc[p].ticks}
             /\ UNCHANGED <<ticks, boot>>

LEMMA CalmStep ==
    ASSUME TypeOK, HandleInv, NEW c \in Controller, Inside(c), ~Spawn(c), ~Kill(c)
    PROVE  Calm /\ (Provision(c) \/ ConfKept)
<1> USE DEF TypeOK, HostType
<1>0. ASSUME UNCHANGED proc, UNCHANGED <<ticks, boot>> PROVE Calm /\ ConfKept
  BY <1>0 DEF Calm, ConfKept
<1>1. ASSUME NEW p, NEW r, Initialized(p, r), UNCHANGED <<ticks, boot>> PROVE Calm
  BY <1>1 DEF Calm, Initialized, Process
<1>2. ASSUME NEW from, NEW to, SetRun(from, to), UNCHANGED <<ticks, boot>>
      PROVE  Calm /\ ConfKept
  BY <1>2 DEF Calm, ConfKept, SetRun, Process
<1>3. ASSUME NEW p, NEW b, proc' = [proc EXCEPT ![p].synced = b], UNCHANGED <<ticks, boot>>
      PROVE  Calm /\ ConfKept
  BY <1>3 DEF Calm, ConfKept, Process
<1>4. ASSUME Provision(c) PROVE Calm
  BY <1>4, <1>0, <1>1 DEF Provision
<1>5. ASSUME Wake(c) \/ Sync(c) \/ QmpQuit(c) PROVE Calm /\ ConfKept
  BY <1>5, <1>0, <1>2, <1>3 DEF Wake, Sync, QmpQuit, Cont, Quit, Synced
<1>6. ASSUME Exec(c) PROVE Calm /\ ConfKept
  BY <1>6, <1>0, <1>2, <1>3 DEF Exec, Effect, Stop, Cont, NodeOp
<1>7. QED
  BY <1>0, <1>4, <1>5, <1>6
  DEF Inside, Work, DeadlinePasses, Crash, Observe, Prepare, Rename, Record, AwaitRunning,
      AwaitGuest, Cleanup, Shutdown, AwaitExit, Check, Final, Save, Guard, Archive, Write,
      hostVars

LEMMA SpawnStep ==
    ASSUME TypeOK, NEW c \in Controller, Spawn(c), ~Return(c)
    PROVE  \E p \in Pid : /\ Starts(p) /\ child'[c] = p /\ lost' = lost
                          /\ proc'[p].kind \in {"qemu", "zombie"}
                          /\ proc'[p].gen = disk.gen /\ proc'[p].conf = disk.conf
                          /\ NothingTracked /\ disk # NoDisk
                          /\ pc[c] = "boot" /\ pc'[c] = "record"
  BY DEF Spawn, Starts, Replaced, SpawnedOn, TypeOK, CtlType, HostType, NothingTracked, Goto

LEMMA KillStep ==
    ASSUME TypeOK, HandleInv, NEW c \in Controller, Kill(c)
    PROVE  /\ child[c] \in Pid /\ Ends(child[c]) /\ lost' = lost
           /\ proc'[child[c]] = FreeSlot
  BY DEF Kill, Ends, Replaced, FreeSlot, TypeOK, CtlType, HostType, HandleInv, BootLabels

LEMMA EnvironmentStep ==
    ASSUME TypeOK, NEW p \in Pid, Environment(p)
    PROVE  /\ UNCHANGED <<ctlVars, vmDir, disks, recipe, loaded, saved>>
           /\ \/ Calm /\ ConfKept /\ lost' = lost /\ Live(p)
              \/ Ends(p) /\ Live(p) /\ proc'[p].kind = "zombie" /\ lost' = lost \ {p}
                   /\ proc'[p].gen = proc[p].gen /\ proc'[p].conf = proc[p].conf
              \/ Ends(p) /\ proc[p].kind = "zombie" /\ lost' = lost
                   /\ \A c \in Controller : child[c] # p
              \/ Ends(p) /\ proc[p].kind = "foreign" /\ lost' = lost
              \/ Starts(p) /\ proc'[p].kind = "foreign" /\ lost' = lost
<1> USE DEF TypeOK, HostType, Process, Replaced
<1>1. CASE QemuMoves(p)
  BY <1>1 DEF QemuMoves, Calm, ConfKept
<1>2. CASE QemuExits(p)
  BY <1>2 DEF QemuExits, Ends
<1>3. CASE Reap(p)
  BY <1>3 DEF Reap, Ends, FreeSlot
<1>4. CASE ForeignStarts(p)
  BY <1>4 DEF ForeignStarts, ForeignProcess, Starts
<1>5. CASE ForeignExits(p)
  BY <1>5 DEF ForeignExits, Ends, FreeSlot
<1>6. QED
  BY <1>1, <1>2, <1>3, <1>4, <1>5 DEF Environment

\* Ends and starts of processes as every step shows them.
LEMMA HostSteps ==
    ASSUME TypeOK, HandleInv, Next
    PROVE  Calm \/ HostReboots \/ \E p \in Pid : Starts(p) \/ Ends(p)
<1>1. ASSUME NEW c \in Controller, Inside(c)
      PROVE  Calm \/ \E p \in Pid : Starts(p) \/ Ends(p)
  <2>1. ASSUME Spawn(c), Return(c) PROVE Calm
    BY <2>1, ConstantsAssumption
    DEF Spawn, Return, Goto, Calm, TypeOK, CtlType, Labels, hostVars
  <2>2. QED
    BY <1>1, <2>1, CalmStep, SpawnStep, KillStep
<1>2. ASSUME NEW c \in Controller, Outside(c) PROVE Calm
  BY <1>2 DEF Outside, Load, ctlVars, Begin, Calm, hostVars
<1>3. ASSUME RemoveLegacyFile PROVE Calm
  BY <1>3 DEF RemoveLegacyFile, Calm, hostVars
<1>4. QED
  BY <1>1, <1>2, <1>3, WorldSteps, EnvironmentStep

\* A process identity of the past that names no process names none later.
LEMMA StaysUnverified ==
    ASSUME TypeOK, HandleInv, StampInv, Next
    PROVE  /\ ~Tracked /\ pidfile' = pidfile => ~Tracked'
           /\ \A c \in Controller : ~Verified(backup[c].pidfile)
                 /\ backup'[c] = backup[c] => ~Verified(backup[c].pidfile)'
<1> USE DEF TypeOK, HostType, Process, StampInv, Tracked, Verified, Exists, Id, Old, Identity
<1>1. CASE Calm
  BY <1>1 DEF Calm
<1>2. CASE HostReboots
  BY <1>2 DEF HostReboots, FreeSlot
<1>3. ASSUME NEW p \in Pid, Starts(p) PROVE /\ ~Tracked /\ pidfile' = pidfile => ~Tracked'
           /\ \A c \in Controller : ~Verified(backup[c].pidfile)
                 /\ backup'[c] = backup[c] => ~Verified(backup[c].pidfile)'
  BY <1>3 DEF Starts, Replaced
<1>4. ASSUME NEW p \in Pid, Ends(p) PROVE /\ ~Tracked /\ pidfile' = pidfile => ~Tracked'
           /\ \A c \in Controller : ~Verified(backup[c].pidfile)
                 /\ backup'[c] = backup[c] => ~Verified(backup[c].pidfile)'
  BY <1>4 DEF Ends, Replaced
<1>5. QED
  BY <1>1, <1>2, <1>3, <1>4, HostSteps

--------------------------------------------------------------------------------
(***************************************************************************)
(* Identities, children and orphans.                                       *)
(***************************************************************************)

\* Every pid file there is, archived ones included, was there before.
Past(f) == f \in {NoFile, pidfile} \cup {backup[d].pidfile : d \in Controller}
FilesPast == Past(pidfile') /\ \A c \in Controller : Past(backup'[c].pidfile)

LEMMA FilesStep ==
    ASSUME TypeOK, Next
    PROVE  FilesPast \/ \E c \in Controller : Record(c)
<1> USE DEF FilesPast, Past
<1>0. CASE UNCHANGED <<pidfile, backup>>
  BY <1>0
<1>1. ASSUME NEW c \in Controller, Return(c), UNCHANGED pidfile PROVE FilesPast
  BY <1>1, ReturnElsewhere DEF TypeOK, Elsewhere, NoBackup
<1>2. ASSUME NEW c \in Controller, Cleanup(c) PROVE FilesPast
  BY <1>2, ReturnElsewhere DEF Cleanup, TypeOK, Elsewhere, NoBackup
<1>3. ASSUME NEW c \in Controller, Archive(c) PROVE FilesPast
  BY <1>3, <1>1, <1>0 DEF Archive, TypeOK, CtlType, vmDir
<1>4. ASSUME NEW c \in Controller, Write(c) PROVE FilesPast
  BY <1>4, ReturnElsewhere DEF Write, TypeOK, Elsewhere, NoBackup, vmDir
<1>5. ASSUME NEW c \in Controller, Inside(c), ~Record(c), ~Cleanup(c), ~Archive(c), ~Write(c)
      PROVE  FilesPast
  BY <1>5, <1>0, <1>1
  DEF Inside, Work, DeadlinePasses, Crash, Observe, Prepare, Rename, Spawn, AwaitRunning,
      AwaitGuest, Provision, Kill, Shutdown, Wake, Sync, QmpQuit, AwaitExit, Check, Exec,
      Final, Save, Guard, vmDir
<1>6. ASSUME NEW c \in Controller, Outside(c) PROVE FilesPast
  BY <1>6, <1>0 DEF Outside, Load, ctlVars, Begin, vmDir
<1>7. CASE HostReboots \/ RemoveLegacyFile
  BY <1>7 DEF HostReboots, RemoveLegacyFile, NoBackup, vmDir, ctlVars
<1>8. QED
  BY <1>0, <1>2, <1>3, <1>4, <1>5, <1>6, <1>7, WorldSteps, EnvironmentStep DEF vmDir, ctlVars

LEMMA StampStep ==
    ASSUME TypeOK, HandleInv, StampInv, ChildInv, Next
    PROVE  StampInv'
<1> USE DEF TypeOK, HostType, Process, StampInv, Id, Old, Identity
<1>1. ASSUME FilesPast, Calm PROVE StampInv'
  BY <1>1, ConstantsAssumption DEF FilesPast, Past, Calm
<1>2. ASSUME HostReboots PROVE StampInv'
  <2>1. /\ boot' = boot + 1 /\ ticks' = 0 /\ pidfile' = pidfile
        /\ \A p \in Pid : proc'[p].kind = "free" /\ proc'[p].ticks = 0
        /\ \A c \in Controller : backup'[c].pidfile = NoFile
    BY <1>2 DEF HostReboots, FreeSlot, NoBackup, vmDir
  <2>2. Old(pidfile)'
    BY <2>1
  <2>3. QED
    BY <2>1, <2>2, ConstantsAssumption
<1>3. ASSUME FilesPast, NEW p \in Pid, Starts(p) PROVE StampInv'
  BY <1>3, ConstantsAssumption DEF FilesPast, Past, Starts, Replaced
<1>4. ASSUME FilesPast, NEW p \in Pid, Ends(p) PROVE StampInv'
  BY <1>4, ConstantsAssumption DEF FilesPast, Past, Ends, Replaced
<1>5. ASSUME NEW c \in Controller, Record(c) PROVE StampInv'
  <2>1. child[c] \in Pid /\ child[c] # NoPid
    BY <1>5, ConstantsAssumption DEF Record, CtlType, HandleInv, BootLabels
  <2>2. QED
    BY <1>5, <2>1, ConstantsAssumption DEF Record, ChildInv, hostVars
<1>6. QED
  BY <1>1, <1>2, <1>3, <1>4, <1>5, FilesStep, HostSteps

\* What a pid file is verified against is a VM.
LEMMA StampTracked == ASSUME TypeOK, StampInv PROVE TrackedIsVm
  BY DEF StampInv, TrackedIsVm, Tracked, Verified, Exists, Live, TypeOK, HostType, Identity, Id

\* Outside a boot the guest disk in use by a child cannot be replaced.
LEMMA ChildStep ==
    ASSUME TypeOK, HandleInv, LockInv, LostInv, ChildInv, Next
    PROVE  ChildInv'
<1> USE DEF TypeOK
<1>1. ASSUME NEW c \in Controller, Outside(c) PROVE ChildInv'
  BY <1>1 DEF Outside, Load, ctlVars, Begin, ChildInv, hostVars, vmDir
<1>2. ASSUME NEW c \in Controller, Inside(c) PROVE ChildInv'
  <2>0. SUFFICES ASSUME child'[c] # NoPid
                 PROVE  /\ proc'[child'[c]].kind \in {"qemu", "zombie"}
                        /\ proc'[child'[c]].gen = disk'.gen
                        /\ proc'[child'[c]].conf = disk'.conf
                        /\ child'[c] \notin lost'
    BY <1>2, Alone DEF ChildInv
  <2>1. ~Return(c) /\ ~Crash(c)
    BY <2>0, ReturnElsewhere DEF Crash
  <2>2. CASE Spawn(c)
    BY <2>1, <2>2, SpawnStep DEF Spawn, LostInv, Live, Starts, vmDir
  <2>3. CASE ~Spawn(c)
    <3>1. ~Kill(c)
      BY <2>0 DEF Kill, DropChild, CtlType
    <3>2. child'[c] = child[c] /\ lost' = lost /\ pc[c] \in BootLabels /\ child[c] \in Pid
      BY <1>2, <2>0, <2>1, <2>3, <3>1, ConstantsAssumption
      DEF Inside, Work, DeadlinePasses, Observe, Prepare, Rename, Record, AwaitRunning,
          AwaitGuest, Provision, Cleanup, Shutdown, Wake, Sync, QmpQuit, AwaitExit, Check,
          Exec, Final, Save, Guard, Archive, Write, DropChild, CtlType, HandleInv, hostVars
    <3>3. CASE Provision(c)
      <4>1. Calm
        BY <1>2, <2>3, <3>1, CalmStep
      <4>2. /\ disk'.gen = disk.gen
            /\ proc'[child[c]].conf = disk'.conf
        BY <3>2, <3>3, ConstantsAssumption
        DEF Provision, Initialized, ChildInv, HandleInv, HostType, Process, FileType, Disk
      <4>3. QED
        BY <2>0, <3>2, <4>1, <4>2 DEF Calm, ChildInv
    <3>4. CASE ~Provision(c)
      <4>1. disk' = disk
        BY <1>2, <2>1, <2>3, <3>1, <3>2, <3>4
        DEF Inside, Work, DeadlinePasses, Record, AwaitRunning, AwaitGuest, Observe, Prepare,
            Rename, Cleanup, Shutdown, Wake, Sync, QmpQuit, AwaitExit, Check, Exec, Final, Save,
            Guard, Archive, Write, BootLabels, vmDir
      <4>2. QED
        BY <1>2, <2>0, <2>3, <3>1, <3>2, <3>4, <4>1, CalmStep DEF Calm, ConfKept, ChildInv
    <3>5. QED
      BY <3>3, <3>4
  <2>4. QED
    BY <2>2, <2>3
<1>3. ASSUME NEW p \in Pid, Environment(p) PROVE ChildInv'
  <2>1. UNCHANGED <<child, disk>> /\ \A c \in Controller : child[c] # NoPid => child[c] \in Pid
    BY <1>3, EnvironmentStep DEF CtlType, ctlVars, vmDir
  <2>2. CASE Calm /\ ConfKept /\ lost' = lost
    BY <2>1, <2>2 DEF ChildInv, Calm, ConfKept
  <2>3. CASE /\ Replaced(p) /\ proc'[p].kind = "zombie" /\ lost' = lost \ {p}
             /\ proc'[p].gen = proc[p].gen /\ proc'[p].conf = proc[p].conf
    BY <2>1, <2>3 DEF ChildInv, Replaced
  <2>4. CASE Replaced(p) /\ lost' = lost /\ \A c \in Controller : child[c] # p
    BY <2>1, <2>4 DEF ChildInv, Replaced
  <2>5. ASSUME proc[p].kind \in {"free", "foreign"}
        PROVE  \A c \in Controller : child[c] # p
    BY <2>1, <2>5, ConstantsAssumption DEF ChildInv
  <2>6. QED
    BY <1>3, <2>2, <2>3, <2>4, <2>5, EnvironmentStep DEF Ends, Starts
<1>4. CASE HostReboots
  BY <1>4 DEF HostReboots, ChildInv
<1>5. CASE RemoveLegacyFile
  BY <1>5 DEF RemoveLegacyFile, ChildInv, ctlVars, hostVars
<1>6. QED
  BY <1>1, <1>2, <1>3, <1>4, <1>5, WorldSteps

LEMMA RunStep == ASSUME TypeOK, HandleInv, RunInv, Next PROVE RunInv'
<1> USE DEF RunInv, Live, TypeOK, HostType, Process
<1>0. ASSUME UNCHANGED proc PROVE RunInv'
  BY <1>0
<1>1. ASSUME NEW c \in Controller, Spawn(c) PROVE RunInv'
  BY <1>1 DEF Spawn, SpawnedOn, hostVars
<1>2. ASSUME NEW c \in Controller, Provision(c) PROVE RunInv'
  BY <1>2 DEF Provision, Initialized
<1>3. ASSUME NEW c \in Controller, Kill(c) PROVE RunInv'
  BY <1>3, KillStep DEF Ends, Replaced
<1>4. ASSUME NEW from, NEW to \in RunStates \ {"none"}, SetRun(from, to) PROVE RunInv'
  BY <1>4 DEF SetRun
<1>5. ASSUME NEW p, NEW b, proc' = [proc EXCEPT ![p].synced = b] PROVE RunInv'
  BY <1>5
<1>6. ASSUME NEW c \in Controller, Wake(c) \/ Sync(c) \/ QmpQuit(c) PROVE RunInv'
  BY <1>0, <1>4, <1>5, <1>6 DEF Wake, Sync, QmpQuit, Cont, Quit, Synced, RunStates
<1>7. ASSUME NEW c \in Controller, Exec(c) PROVE RunInv'
  BY <1>0, <1>4, <1>5, <1>7 DEF Exec, Effect, Stop, Cont, NodeOp, RunStates
<1>8. ASSUME NEW c \in Controller, Inside(c), ~Spawn(c), ~Provision(c), ~Kill(c), ~Wake(c),
             ~Sync(c), ~QmpQuit(c), ~Exec(c)
      PROVE  RunInv'
  BY <1>0, <1>8
  DEF Inside, Work, DeadlinePasses, Crash, Observe, Prepare, Rename, Record, AwaitRunning,
      AwaitGuest, Cleanup, Shutdown, AwaitExit, Check, Final, Save, Guard, Archive, Write,
      hostVars
<1>9. ASSUME NEW p \in Pid, Environment(p) PROVE RunInv'
  BY <1>9
  DEF Environment, QemuMoves, QemuExits, Reap, ForeignStarts, ForeignExits, ForeignProcess,
      FreeSlot
<1>10. CASE HostReboots \/ RemoveLegacyFile \/ \E c \in Controller : Outside(c)
  BY <1>0, <1>10 DEF HostReboots, RemoveLegacyFile, Outside, Load, Begin, FreeSlot, hostVars
<1>11. QED
  BY <1>1, <1>2, <1>3, <1>6, <1>7, <1>8, <1>9, <1>10, WorldSteps

LEMMA LostStep ==
    ASSUME TypeOK, HandleInv, LockInv, LostInv, ChildInv, Next
    PROVE  LostInv'
<1> USE DEF LostInv, Live, TypeOK, HostType
<1>1. ASSUME NEW c \in Controller, Outside(c) PROVE LostInv'
  BY <1>1 DEF Outside, Load, ctlVars, Begin, hostVars
<1>2. ASSUME NEW c \in Controller, Spawn(c) PROVE LostInv'
  BY <1>2, SpawnStep DEF Spawn, Starts, Replaced, hostVars
<1>3. ASSUME NEW c \in Controller, Kill(c) PROVE LostInv'
  BY <1>3, KillStep, ConstantsAssumption DEF ChildInv, Ends, Replaced
<1>4. ASSUME NEW c \in Controller, Crash(c) PROVE LostInv'
  BY <1>4 DEF Crash
<1>5. ASSUME NEW c \in Controller, Inside(c), ~Spawn(c), ~Kill(c), ~Crash(c) PROVE LostInv'
  <2>1. lost' = lost
    BY <1>5
    DEF Inside, Work, DeadlinePasses, Observe, Prepare, Rename, Record, AwaitRunning,
        AwaitGuest, Provision, Cleanup, Shutdown, Wake, Sync, QmpQuit, AwaitExit, Check, Exec,
        Final, Save, Guard, Archive, Write, hostVars
  <2>2. QED
    BY <1>5, <2>1, CalmStep DEF Calm
<1>6. ASSUME NEW p \in Pid, Environment(p) PROVE LostInv'
  BY <1>6, EnvironmentStep DEF Calm, Ends, Starts, Replaced
<1>7. CASE HostReboots \/ RemoveLegacyFile
  BY <1>7 DEF HostReboots, RemoveLegacyFile, hostVars
<1>8. QED
  BY <1>1, <1>2, <1>3, <1>4, <1>5, <1>6, <1>7, WorldSteps

--------------------------------------------------------------------------------
(***************************************************************************)
(* What each label guarantees.                                             *)
(***************************************************************************)

LEMMA IdlePhase ==
    ASSUME NEW c \in Controller, pc'[c] = "idle", cmd'[c] \in Commands \cup {"status"}
    PROVE  Phase(c)'
  BY DEF Phase, BootLabels

LEMMA NothingTrackedStays ==
    ASSUME TypeOK, HandleInv, StampInv, Next, NothingTracked, pidfile' = pidfile
    PROVE  NothingTracked'
  BY StaysUnverified DEF NothingTracked

\* A child keeps its identity.
LEMMA ChildIdentity ==
    ASSUME TypeOK, HandleInv, LockInv, ChildInv, NEW c \in Controller, child[c] # NoPid,
           \/ \E d \in Controller : Inside(d) /\ ~Spawn(d) /\ ~Kill(d)
           \/ \E p \in Pid : Environment(p)
           \/ RemoveLegacyFile
    PROVE  proc'[child[c]].ticks = proc[child[c]].ticks /\ boot' = boot
<1>1. child[c] \in Pid
  BY DEF TypeOK, CtlType
<1>2. CASE \E d \in Controller : Inside(d) /\ ~Spawn(d) /\ ~Kill(d)
  BY <1>1, <1>2, CalmStep DEF Calm
<1>3. CASE RemoveLegacyFile
  BY <1>3 DEF RemoveLegacyFile, hostVars
<1>4. CASE \E p \in Pid : Environment(p)
  <2>1. PICK p \in Pid : Environment(p)
    BY <1>4
  <2>2. CASE QemuMoves(p) \/ QemuExits(p)
    BY <1>1, <2>2 DEF QemuMoves, QemuExits, TypeOK, HostType, Process
  <2>3. CASE Reap(p) \/ ForeignStarts(p) \/ ForeignExits(p)
    BY <1>1, <2>3 DEF Reap, ForeignStarts, ForeignExits, ChildInv, TypeOK, HostType
  <2>4. QED
    BY <2>1, <2>2, <2>3 DEF Environment
<1>5. QED
  BY <1>2, <1>3, <1>4


LEMMA PhaseBegin ==
    ASSUME TypeOK, HandleInv, PhaseInv, NEW c \in Controller, Outside(c)
    PROVE  PhaseInv'
<1>1. ASSUME NEW d \in Controller \ {c} PROVE Phase(d)'
  BY <1>1
  DEF Outside, Load, Begin, Goto, Phase, PhaseInv, NothingTracked, Tracked, Verified,
      Exists, Id, TypeOK, CtlType, ctlVars, hostVars, vmDir
<1>2. Phase(c)'
  <2>1. CASE Load(c)
    BY <2>1 DEF Load, ctlVars, Phase, PhaseInv, BootLabels, TypeOK, CtlType
  <2>2. ASSUME NEW k \in Commands, Begin(c, k) PROVE Phase(c)'
    <3>1. pc' = [pc EXCEPT ![c] = Entry(k)] /\ cmd' = [cmd EXCEPT ![c] = k]
      BY <2>2 DEF Begin, Goto
    <3>2. pc'[c] = Entry(k) /\ cmd'[c] = k
      BY <3>1 DEF TypeOK, CtlType
    <3>3. /\ Entry(k) \in {"final", "observe", "check", "guard", "write", "prepare", "boot"}
          /\ Entry(k) = "write" => k = "include"
          /\ Entry(k) \in {"observe", "prepare", "check"} => k # "boot"
      BY ConstantsAssumption DEF Entry, AllCommands
    <3>4. QED
      BY <3>2, <3>3 DEF Phase, BootLabels
  <2>3. QED
    BY <2>1, <2>2 DEF Outside
<1>3. QED
  BY <1>1, <1>2 DEF PhaseInv

\* The locked section, label by label.
LEMMA PhaseInside ==
    ASSUME TypeOK, HandleInv, LockInv, StampInv, ChildInv, PhaseInv,
           NEW c \in Controller, Inside(c)
    PROVE  PhaseInv'
<1>a. Next
  BY DEF Next, Outside, Control, Inside
<1>b. cmd[c] \in Commands \cup {"status"} /\ Phase(c)
  BY DEF PhaseInv, Phase
<1>c. \A d \in Controller \ {c} : Phase(d)'
  BY Alone, IdlePhase DEF PhaseInv, Phase
<1>d. Return(c) => Phase(c)'
  BY ReturnElsewhere, IdlePhase DEF TypeOK
<1>e. NothingTracked /\ pidfile' = pidfile => NothingTracked'
  BY <1>a, NothingTrackedStays
<1>f. ~Return(c) => cmd' = cmd
  BY SectionStep DEF Advance
<1> SUFFICES ASSUME ~Return(c) PROVE Phase(c)'
  BY <1>c, <1>d DEF PhaseInv
<1> DEFINE To(ls) == pc'[c] \in ls
<1>g. \A l : Goto(c, l) => pc'[c] = l
  BY DEF Goto, TypeOK, CtlType
<1>h. VmObservation \cap {"stopped"} # {} => NothingTracked
  BY ConstantsAssumption DEF VmObservation, NothingTracked, Reported
<1>0. ASSUME To({"boot", "ready", "final", "shutdown", "save", "guard"} \ BootLabels)
      PROVE  Phase(c)'
  BY <1>0, <1>b, <1>f DEF Phase, BootLabels
<1>1. CASE Observe(c)
  <2>1. pc[c] = "observe" /\ To({"check", "shutdown"})
    BY <1>1, <1>g DEF Observe
  <2>2. QED
    BY <2>1, <1>b, <1>f DEF Phase, BootLabels
<1>2. CASE Prepare(c)
  <2>1. pc[c] = "prepare" /\ To({"rename"})
    BY <1>2, <1>g DEF Prepare
  <2>2. QED
    BY <2>1, <1>b, <1>f DEF Phase, BootLabels
<1>3. CASE Rename(c) \/ Final(c)
  BY <1>3, <1>0, <1>g DEF Rename, Final, BootLabels
<1>4. CASE Spawn(c)
  <2>1. PICK p \in Pid : Starts(p) /\ child'[c] = p /\ NothingTracked /\ pc'[c] = "record"
    BY <1>4, SpawnStep
  <2>2. pidfile' = pidfile
    BY <1>4 DEF Spawn, vmDir
  <2>3. pidfile # Id(p)'
    BY <2>1, ConstantsAssumption DEF Starts, Id, StampInv, Old, Identity, TypeOK, HostType, FileType
  <2>4. QED
    BY <2>1, <2>2, <2>3, <1>b, <1>e, <1>f DEF Phase, BootLabels, Id
<1>5. CASE Record(c)
  <2>1. pc[c] = "record" /\ child' = child /\ proc' = proc /\ boot' = boot /\ To({"ready", "kill"})
    BY <1>5, <1>g DEF Record, hostVars
  <2>2. pidfile' = Id(child[c]) \/ (pidfile' = pidfile /\ pc'[c] = "kill")
    BY <1>5, <1>g DEF Record
  <2>3. QED
    BY <2>1, <2>2, <1>b, <1>e, <1>f DEF Phase, BootLabels, Id
<1>6. ASSUME AwaitRunning(c) \/ AwaitGuest(c) \/ DeadlinePasses(c) \/ Provision(c)
      PROVE Phase(c)'
  <2>1. /\ pc[c] \in BootLabels \ {"record", "kill"}
        /\ pidfile' = pidfile /\ child[c] # NoPid
        /\ \/ pc'[c] = "final"
           \/ pc'[c] \in BootLabels \ {"record"} /\ child' = child
    BY <1>6, <1>g
    DEF AwaitRunning, AwaitGuest, DeadlinePasses, Provision, BootLabels, HandleInv, vmDir
  <2>2. pidfile = Id(child[c])
    BY <2>1, <1>b DEF Phase
  <2>3. ~Spawn(c) /\ ~Kill(c)
    BY <2>1 DEF Spawn, Kill, BootLabels
  <2>4. child' = child => pidfile' = Id(child[c])'
    BY <2>1, <2>2, <2>3, ChildIdentity DEF Id
  <2>5. QED
    BY <2>1, <2>4, <1>b, <1>f DEF Phase, BootLabels
<1>7. CASE Kill(c)
  <2>1. pc[c] = "kill" /\ pc'[c] = "cleanup" /\ pidfile' = pidfile
    BY <1>7, <1>g DEF Kill, vmDir
  <2>2. NothingTracked'
    <3>1. CASE NothingTracked
      BY <2>1, <3>1, <1>e
    <3>2. CASE pidfile = Id(child[c])
      <4>1. child[c] \in Pid /\ proc'[child[c]].kind = "free"
        BY <1>7, KillStep DEF FreeSlot
      <4>2. Id(child[c]) \in Identity /\ Id(child[c]).pid = child[c]
        BY <4>1 DEF Id, Identity, TypeOK, HostType, Process
      <4>3. QED
        BY <2>1, <3>2, <4>1, <4>2, ConstantsAssumption
        DEF NothingTracked, Tracked, Verified, Exists
    <3>3. QED
      BY <2>1, <3>1, <3>2, <1>b DEF Phase
  <2>3. QED
    BY <2>1, <2>2, <1>b, <1>f DEF Phase, BootLabels
<1>8. CASE Cleanup(c) \/ Exec(c)
  BY <1>8, <1>0, <1>g DEF Cleanup, Exec, BootLabels
<1>9. CASE Shutdown(c) \/ Wake(c) \/ Sync(c) \/ QmpQuit(c) \/ AwaitExit(c)
  <2>1. pidfile # LegacyFile /\ pidfile' = pidfile
    BY <1>9, <1>b DEF Shutdown, Wake, Sync, QmpQuit, AwaitExit, Phase, vmDir
  <2>2. To({"wake", "sync", "quit", "exit"}) \/ (pc'[c] = "cleanup" /\ ~Tracked)
    BY <1>9, <1>g DEF Shutdown, Wake, Sync, QmpQuit, AwaitExit
  <2>3. QED
    BY <2>1, <2>2, <1>b, <1>e, <1>f DEF Phase, BootLabels, NothingTracked
<1>10. CASE Check(c)
  <2>1. pc[c] = "check" /\ To({"exec"})
    BY <1>10, <1>g DEF Check
  <2>2. QED
    BY <2>1, <1>b, <1>f DEF Phase, BootLabels
<1>11. CASE Guard(c)
  <2>1. To({"archive", "write"}) /\ NothingTracked /\ pidfile' = pidfile
    BY <1>11, <1>g, <1>h DEF Guard, vmDir
  <2>2. QED
    BY <2>1, <1>b, <1>e, <1>f DEF Phase, BootLabels
<1>12. CASE Archive(c)
  <2>1. pc[c] = "archive" /\ pc'[c] = "write" /\ pidfile' \in {pidfile, NoFile}
    BY <1>12, <1>g DEF Archive, vmDir
  <2>2. NothingTracked'
    BY <2>1, <1>b, <1>e, ConstantsAssumption DEF Phase, NothingTracked, Tracked, Verified
  <2>3. QED
    BY <2>1, <2>2, <1>b, <1>f DEF Phase, BootLabels
<1>13. QED
  BY <1>1, <1>2, <1>3, <1>4, <1>5, <1>6, <1>7, <1>8, <1>9, <1>10, <1>11, <1>12
  DEF Inside, Work, Crash, Save, Write

LEMMA PhaseStep ==
    ASSUME TypeOK, HandleInv, LockInv, StampInv, ChildInv, PhaseInv, Next
    PROVE  PhaseInv'
<1>1. ASSUME NEW c \in Controller,
             (\E p \in Pid : Environment(p)) \/ RemoveLegacyFile
      PROVE  Phase(c)'
  <2>1. UNCHANGED <<pc, cmd, child>> /\ Phase(c)
    BY <1>1, EnvironmentLocals DEF ctlVars, PhaseInv
  <2>2. pidfile' = pidfile \/ (pidfile = LegacyFile /\ pidfile' = NoFile)
    BY <1>1, EnvironmentStep DEF RemoveLegacyFile, vmDir
  <2>3. NothingTracked => NothingTracked' /\ pidfile' = pidfile
    BY <2>2, NothingTrackedStays DEF NothingTracked
  <2>4. child[c] # NoPid => Id(child[c])' = Id(child[c])
    BY <1>1, <2>1, ChildIdentity DEF Id
  <2>5. pc[c] \in BootLabels => child[c] # NoPid /\ Id(child[c]) # LegacyFile
    BY ConstantsAssumption
    DEF HandleInv, Id, Identity, TypeOK, CtlType, HostType, Process
  <2>6. QED
    BY <2>1, <2>2, <2>3, <2>4, <2>5 DEF Phase, BootLabels
<1>2. CASE HostReboots
  BY <1>2, IdlePhase DEF HostReboots, PhaseInv
<1>3. QED
  BY <1>1, <1>2, PhaseBegin, PhaseInside, WorldSteps DEF PhaseInv

--------------------------------------------------------------------------------
(***************************************************************************)
(* Archived directories, disks, metadata and synced guests.                *)
(***************************************************************************)

LEMMA BackupStep ==
    ASSUME TypeOK, HandleInv, LockInv, StampInv, PhaseInv, BackupInv, Next
    PROVE  BackupInv'
<1>1. ASSUME NEW c \in Controller, Outside(c) PROVE BackupInv'
  BY <1>1
  DEF Outside, Load, ctlVars, Begin, Goto, BackupInv, Verified, Exists, Id, TypeOK, CtlType,
      hostVars, vmDir
<1>2. ASSUME NEW c \in Controller, Inside(c) PROVE BackupInv'
  <2>1. \A d \in Controller \ {c} : backup'[d].disk = NoDisk
    BY <1>2, Alone DEF BackupInv
  <2>2. CASE Return(c)
    BY <2>1, <2>2, ReturnElsewhere DEF BackupInv, NoBackup, TypeOK
  <2>3. CASE Archive(c) /\ ~Return(c)
    <3>1. /\ NothingTracked /\ UNCHANGED hostVars /\ pc'[c] = "write"
          /\ \/ UNCHANGED backup
             \/ pidfile' = NoFile /\ disk' = NoDisk /\ backup'[c].pidfile = pidfile
      BY <2>3 DEF Archive, Goto, Phase, PhaseInv, TypeOK, CtlType, vmDir
    <3>2. pc[c] = "archive"
      BY <2>3 DEF Archive
    <3>3. backup[c].disk = NoDisk
      BY <3>2 DEF BackupInv
    <3>4. QED
      BY <2>1, <3>1, <3>3
      DEF BackupInv, NothingTracked, Tracked, Verified, Exists, Id, hostVars
  <2>4. CASE ~Archive(c) /\ ~Return(c)
    <3>1. backup' = backup /\ pc[c] # "write"
      BY <1>2, <2>4
      DEF Inside, Work, DeadlinePasses, Crash, Observe, Prepare, Rename, Spawn, Record,
          AwaitRunning, AwaitGuest, Provision, Kill, Cleanup, Shutdown, Wake, Sync, QmpQuit,
          AwaitExit, Check, Exec, Final, Save, Guard, Write
    <3>2. QED
      BY <2>1, <3>1 DEF BackupInv
  <2>5. QED
    BY <2>2, <2>3, <2>4
<1>3. ASSUME NEW p \in Pid, Environment(p) PROVE BackupInv'
  <2>1. UNCHANGED <<pc, backup, pidfile, disk>>
    BY <1>3, EnvironmentStep DEF ctlVars, vmDir
  <2>2. \A c \in Controller : ~Verified(backup[c].pidfile) => ~Verified(backup[c].pidfile)'
    BY <2>1, StaysUnverified
  <2>3. QED
    BY <2>1, <2>2 DEF BackupInv
<1>4. CASE HostReboots
  BY <1>4 DEF HostReboots, BackupInv, NoBackup
<1>5. CASE RemoveLegacyFile
  BY <1>5, ConstantsAssumption DEF RemoveLegacyFile, BackupInv, ctlVars
<1>6. QED
  BY <1>1, <1>2, <1>3, <1>4, <1>5, WorldSteps

LEMMA DiskStep ==
    ASSUME TypeOK, HandleInv, LockInv, StampInv, PhaseInv, BackupInv, DiskInv, Next
    PROVE  DiskInv'
<1>0. ASSUME pidfile' = pidfile PROVE NothingTracked => NothingTracked'
  BY <1>0, NothingTrackedStays
<1>1. ASSUME NEW c \in Controller, Outside(c) PROVE DiskInv'
  <2>1. /\ UNCHANGED <<pidfile, disk, backup>>
        /\ \A d \in Controller :
              pc'[d] = pc[d] \/ pc'[d] \notin BootLabels \cup {"rename"}
    BY <1>1, ConstantsAssumption
    DEF Outside, Load, ctlVars, Begin, Goto, Entry, AllCommands, BootLabels, TypeOK, CtlType, vmDir
  <2>2. QED
    BY <1>0, <2>1 DEF DiskInv
<1>2. ASSUME NEW c \in Controller, Inside(c) PROVE DiskInv'
  <2>1. \A d \in Controller \ {c} :
           backup'[d] = backup[d] /\ pc'[d] \notin BootLabels \cup {"rename"}
    BY <1>2, Alone DEF BootLabels
  <2>2. SUFFICES /\ disk'.gen = 0 => disk' = NoDisk /\ NothingTracked'
                 /\ backup'[c].disk.gen = 0 => backup'[c].disk = NoDisk
                 /\ pc'[c] = "rename" => disk' = NoDisk
                 /\ pc'[c] \in BootLabels => disk'.gen # 0
    BY <2>1 DEF DiskInv
  <2>3. disk.gen = 0 => disk = NoDisk /\ NothingTracked
    BY DEF DiskInv
  <2>a. \A l : Goto(c, l) => pc'[c] = l
    BY DEF Goto, TypeOK, CtlType
  <2>b. Return(c) => pc'[c] = "idle" /\ backup'[c].disk = NoDisk
    BY ReturnElsewhere DEF TypeOK, NoBackup
  <2>c. NoFile # LegacyFile /\ NoFile \notin Identity
    BY ConstantsAssumption
  <2>4. CASE Rename(c)
    BY <2>4, <2>3, <2>a, <2>b, <1>0
    DEF Rename, BootLabels, DiskInv, TypeOK, FileType
  <2>5. CASE Prepare(c)
    BY <2>5, <2>3, <2>a, <2>b, <1>0 DEF Prepare, BootLabels, DiskInv, vmDir
  <2>6. CASE Spawn(c)
    BY <2>6, <2>3, <2>a, <2>b, <1>0 DEF Spawn, BootLabels, DiskInv, vmDir
  <2>7. CASE Record(c)
    BY <2>7, <2>3, <2>a DEF Record, BootLabels, DiskInv
  <2>8. CASE Provision(c)
    <3>1. disk.gen # 0
      BY <2>8 DEF Provision, DiskInv, BootLabels
    <3>2. disk'.gen = disk.gen
      BY <2>8 DEF Provision, Initialized, TypeOK, FileType, Disk
    <3>3. backup' = backup /\ pc'[c] # "rename"
      BY <2>8, <2>a DEF Provision
    <3>4. QED
      BY <3>1, <3>2, <3>3 DEF DiskInv
  <2>9. CASE Cleanup(c)
    BY <2>9, <2>3, <2>a, <2>b, <2>c
    DEF Cleanup, BootLabels, DiskInv, NothingTracked, Tracked, Verified
  <2>10. CASE Archive(c)
    BY <2>10, <2>3, <2>a, <2>b, <2>c, <1>0
    DEF Archive, BootLabels, DiskInv, NothingTracked, Tracked, Verified, TypeOK, CtlType, vmDir
  <2>11. CASE Write(c)
    BY <2>11, <2>3, <2>b, <1>0 DEF Write, BootLabels, DiskInv, vmDir
  <2>12. CASE /\ ~Rename(c) /\ ~Prepare(c) /\ ~Spawn(c) /\ ~Record(c) /\ ~Provision(c)
              /\ ~Cleanup(c) /\ ~Archive(c) /\ ~Write(c)
    <3>1. /\ UNCHANGED <<pidfile, disk>>
          /\ backup' = backup \/ Return(c)
          /\ Return(c) \/ pc'[c] \notin BootLabels \cup {"rename"} \/ pc[c] \in BootLabels
      BY <1>2, <2>12, <2>a
      DEF Inside, Work, DeadlinePasses, Crash, Observe, AwaitRunning, AwaitGuest, Kill,
          Shutdown, Wake, Sync, QmpQuit, AwaitExit, Check, Exec, Final, Save, Guard,
          BootLabels, vmDir
    <3>2. pc'[c] = "rename" => Return(c)
      BY <1>2, <2>12, <2>a
      DEF Inside, Work, DeadlinePasses, Crash, Observe, AwaitRunning, AwaitGuest, Kill,
          Shutdown, Wake, Sync, QmpQuit, AwaitExit, Check, Exec, Final, Save, Guard
    <3>3. QED
      BY <3>1, <3>2, <2>3, <2>b, <1>0 DEF DiskInv, BootLabels
  <2>13. QED
    BY <2>4, <2>5, <2>6, <2>7, <2>8, <2>9, <2>10, <2>11, <2>12
<1>3. ASSUME NEW p \in Pid, Environment(p) PROVE DiskInv'
  BY <1>3, <1>0, EnvironmentStep DEF DiskInv, ctlVars, vmDir
<1>4. CASE HostReboots
  BY <1>4, <1>0 DEF HostReboots, DiskInv, NoBackup, BootLabels, vmDir
<1>5. CASE RemoveLegacyFile
  BY <1>5, ConstantsAssumption DEF RemoveLegacyFile, DiskInv, NothingTracked, ctlVars
<1>6. QED
  BY <1>1, <1>2, <1>3, <1>4, <1>5, WorldSteps

LEMMA LoadedStep ==
    ASSUME TypeOK, HandleInv, LockInv, LoadedInv, Next
    PROVE  LoadedInv'
<1>1. ASSUME NEW c \in Controller, Outside(c) PROVE LoadedInv'
  BY <1>1 DEF Outside, Load, ctlVars, Begin, Goto, LoadedInv, LockInv, TypeOK, CtlType
<1>2. ASSUME NEW c \in Controller, Inside(c) PROVE LoadedInv'
  <2>1. \A d \in Controller \ {c} : pc'[d] = "idle"
    BY <1>2, Alone
  <2>2. Return(c) => pc'[c] = "idle"
    BY ReturnElsewhere DEF TypeOK
  <2>3. ~Return(c) => saved' = saved
    BY <1>2
    DEF Inside, Work, DeadlinePasses, Crash, Observe, Prepare, Rename, Spawn, Record,
        AwaitRunning, AwaitGuest, Provision, Kill, Cleanup, Shutdown, Wake, Sync, QmpQuit,
        AwaitExit, Check, Exec, Final, Save, Guard, Archive, Write
  <2>4. mem[c] \in Runtime /\ mem \in [Controller -> Runtime]
    BY DEF TypeOK, CtlType
  <2>5. ~Return(c) => mem'[c].clock = mem[c].clock
    <3>1. CASE Observe(c) \/ Final(c)
      <4>1. ASSUME NEW n, mem' = [mem EXCEPT ![c].nodes = n] PROVE mem'[c].clock = mem[c].clock
        BY <2>4, <4>1 DEF Runtime
      <4>2. ASSUME NEW vm, NEW n, mem' = [mem EXCEPT ![c].vm = vm, ![c].nodes = n]
            PROVE  mem'[c].clock = mem[c].clock
        BY <2>4, <4>2 DEF Runtime
      <4>3. QED
        BY <3>1, <4>1, <4>2 DEF Observe, Final
    <3>2. CASE ~Observe(c) /\ ~Final(c)
      BY <1>2, <3>2
      DEF Inside, Work, DeadlinePasses, Crash, Prepare, Rename, Spawn, Record, AwaitRunning,
          AwaitGuest, Provision, Kill, Cleanup, Shutdown, Wake, Sync, QmpQuit, AwaitExit,
          Check, Exec, Save, Guard, Archive, Write
    <3>3. QED
      BY <3>1, <3>2
  <2>6. pc[c] # "idle"
    BY <1>2, SectionStep
  <2>7. QED
    BY <2>1, <2>2, <2>3, <2>5, <2>6 DEF LoadedInv
<1>3. CASE (\E p \in Pid : Environment(p)) \/ RemoveLegacyFile
  BY <1>3, EnvironmentLocals, EnvironmentStep DEF LoadedInv, RemoveLegacyFile, ctlVars
<1>4. CASE HostReboots
  BY <1>4 DEF HostReboots, LoadedInv
<1>5. QED
  BY <1>1, <1>2, <1>3, <1>4, WorldSteps

LEMMA SyncedStep ==
    ASSUME TypeOK, HandleInv, LockInv, StampInv, SyncedInv, Next
    PROVE  SyncedInv'
<1>1. ASSUME NEW c \in Controller, Outside(c) PROVE SyncedInv'
  <2>1. \A k \in Commands : Entry(k) # "quit"
    BY ConstantsAssumption DEF Entry, AllCommands
  <2>2. QED
    BY <1>1, <2>1
    DEF Outside, Load, Begin, Goto, SyncedInv, Tracked, Verified, Exists, Id, TypeOK, CtlType,
        ctlVars, hostVars, vmDir
<1>2. ASSUME NEW c \in Controller, Inside(c) PROVE SyncedInv'
  <2>1. \A d \in Controller \ {c} : pc'[d] = "idle"
    BY <1>2, Alone
  <2>2. ASSUME pc'[c] = "quit", HasInitrd PROVE Sync(c) /\ ~Return(c)
    <3>1. \A l : Goto(c, l) => l = "quit"
      BY <2>2 DEF Goto, TypeOK, CtlType
    <3>2. ~Return(c)
      BY <2>2, ReturnElsewhere DEF TypeOK
    <3>3. QED
      BY <1>2, <2>2, <3>1, <3>2
      DEF Inside, Work, DeadlinePasses, Crash, Observe, Prepare, Rename, Spawn, Record,
          AwaitRunning, AwaitGuest, Provision, Kill, Cleanup, Shutdown, Wake, Sync, QmpQuit,
          AwaitExit, Check, Exec, Final, Save, Guard, Archive, Write
  <2>3. ASSUME Sync(c), ~Return(c) PROVE pidfile' = pidfile /\ proc'[pidfile.pid].synced
    BY <2>3 DEF Sync, Synced, Tracked, Verified, TypeOK, HostType, Process, Identity, vmDir
  <2>4. QED
    BY <2>1, <2>2, <2>3 DEF SyncedInv
<1>3. ASSUME NEW p \in Pid, Environment(p) PROVE SyncedInv'
  <2>1. UNCHANGED <<pc, pidfile>> /\ (Tracked' => Tracked)
    BY <1>3, EnvironmentStep, StaysUnverified DEF ctlVars, vmDir
  <2>2. \A q \in Pid : proc[q].synced => proc'[q].synced
    BY <1>3
    DEF Environment, QemuMoves, QemuExits, Reap, ForeignStarts, ForeignExits, ForeignProcess,
        FreeSlot, TypeOK, HostType, Process
  <2>3. QED
    BY <2>1, <2>2 DEF SyncedInv, Tracked, Verified, Identity
<1>4. CASE HostReboots
  BY <1>4 DEF HostReboots, SyncedInv
<1>5. CASE RemoveLegacyFile
  BY <1>5, ConstantsAssumption DEF RemoveLegacyFile, SyncedInv, Tracked, Verified
<1>6. QED
  BY <1>1, <1>2, <1>3, <1>4, <1>5, WorldSteps

--------------------------------------------------------------------------------
(***************************************************************************)
(* No VM is forgotten, and there is one at most.                           *)
(***************************************************************************)

\* Controller c holds the only trace of p.
Holds(c, p) == child[c] = p /\ pc[c] \in {"record", "kill"}

Booted(c) == Spawn(c) /\ ~Return(c)

LEMMA NoVm ==
    ASSUME TypeOK, NoVmForgotten, NothingTracked, NEW p \in Pid \ lost,
           \A c \in Controller : ~Holds(c, p)
    PROVE  ~Live(p)
<1>1. Live(p) => Verified(Id(p))
  BY DEF Live, Verified, Exists, Id, Identity, TypeOK, HostType, Process
<1>2. QED
  BY <1>1 DEF NoVmForgotten, Holds, NothingTracked, Tracked

LEMMA ReturnsKeepHost ==
    ASSUME TypeOK, HandleInv, NEW c \in Controller, Inside(c), ~Booted(c), ~Kill(c)
    PROVE  Calm /\ lost \subseteq lost'
<1>1. CASE Spawn(c)
  BY <1>1, ConstantsAssumption
  DEF Spawn, Booted, Return, Goto, Calm, TypeOK, CtlType, Labels, hostVars
<1>2. CASE ~Spawn(c)
  <2>1. Calm
    BY <1>2, CalmStep
  <2>2. lost \subseteq lost'
    BY <1>2
    DEF Inside, Work, DeadlinePasses, Crash, Observe, Prepare, Rename, Record, AwaitRunning,
        AwaitGuest, Provision, Cleanup, Shutdown, Wake, Sync, QmpQuit, AwaitExit, Check, Exec,
        Final, Save, Guard, Archive, Write, hostVars
  <2>3. QED
    BY <2>1, <2>2
<1>3. QED
  BY <1>1, <1>2

\* Apart from a boot, a VM of the next state is one of the present state.
LEMMA LiveBefore ==
    ASSUME TypeOK, HandleInv, ChildInv, Next, \A c \in Controller : ~Booted(c),
           NEW p \in Pid \ lost', Live(p)'
    PROVE  Live(p) /\ p \notin lost /\ Id(p)' = Id(p)
<1>1. ASSUME NEW c \in Controller, Inside(c), ~Kill(c) PROVE Live(p) /\ p \notin lost /\ Id(p)' = Id(p)
  BY <1>1, ReturnsKeepHost DEF Calm, Live, Id
<1>2. ASSUME NEW c \in Controller, Kill(c) PROVE Live(p) /\ p \notin lost /\ Id(p)' = Id(p)
  BY <1>2, KillStep DEF Ends, Replaced, FreeSlot, Live, Id
<1>3. ASSUME NEW c \in Controller, Outside(c)
      PROVE  Live(p) /\ p \notin lost /\ Id(p)' = Id(p)
  BY <1>3 DEF Outside, Load, ctlVars, Begin, Live, Id, hostVars
<1>4. ASSUME NEW q \in Pid, Environment(q) PROVE Live(p) /\ p \notin lost /\ Id(p)' = Id(p)
  BY <1>4, EnvironmentStep DEF Calm, Ends, Starts, Replaced, Live, Id
<1>5. CASE HostReboots \/ RemoveLegacyFile
  BY <1>5 DEF HostReboots, RemoveLegacyFile, FreeSlot, Live, Id, hostVars
<1>6. QED
  BY <1>1, <1>2, <1>3, <1>4, <1>5, WorldSteps

LEMMA OneVmStep ==
    ASSUME TypeOK, HandleInv, LockInv, LostInv, ChildInv, NoVmForgotten, OneVm, Next
    PROVE  OneVm'
<1>1. CASE \A c \in Controller : ~Booted(c)
  BY <1>1, LiveBefore DEF OneVm
<1>2. ASSUME NEW c \in Controller, Booted(c) PROVE OneVm'
  <2>1. Inside(c)
    BY <1>2 DEF Booted, Inside, Work
  <2>2. PICK q \in Pid : Starts(q) /\ NothingTracked /\ pc[c] = "boot" /\ lost' = lost
    BY <1>2, SpawnStep DEF Booted
  <2>3. \A d \in Controller, p \in Pid : ~Holds(d, p)
    BY <2>1, <2>2, Alone DEF Holds
  <2>4. \A p \in Pid \ lost : ~Live(p)
    BY <2>2, <2>3, NoVm
  <2>5. QED
    BY <2>2, <2>4 DEF OneVm, Starts, Replaced, Live
<1>3. QED
  BY <1>1, <1>2

LEMMA NoVmForgottenStep ==
    ASSUME TypeOK, HandleInv, LockInv, LostInv, StampInv, ChildInv, PhaseInv, BackupInv,
           NoVmForgotten, OneVm, Next
    PROVE  NoVmForgotten'
<1> SUFFICES ASSUME NEW p \in Pid \ lost', Live(p)'
             PROVE  \/ pidfile' = LegacyFile
                    \/ pidfile' = Id(p)'
                    \/ \E c \in Controller : child'[c] = p /\ pc'[c] \in {"record", "kill"}
  BY DEF NoVmForgotten
<1>1. ASSUME NEW c \in Controller, Booted(c)
      PROVE  child'[c] = p /\ pc'[c] = "record"
  <2>1. Inside(c)
    BY <1>1 DEF Booted, Inside, Work
  <2>2. PICK q \in Pid : /\ Starts(q) /\ NothingTracked /\ pc[c] = "boot" /\ lost' = lost
                         /\ child'[c] = q /\ pc'[c] = "record"
    BY <1>1, SpawnStep DEF Booted
  <2>3. \A d \in Controller, r \in Pid : ~Holds(d, r)
    BY <2>1, <2>2, Alone DEF Holds
  <2>4. \A r \in Pid \ lost : ~Live(r)
    BY <2>2, <2>3, NoVm
  <2>5. QED
    BY <2>2, <2>4 DEF Starts, Replaced, Live
<1>2. CASE \A c \in Controller : ~Booted(c)
  <2>1. Live(p) /\ p \notin lost /\ Id(p)' = Id(p)
    BY <1>2, LiveBefore
  <2>2. pidfile = LegacyFile \/ pidfile = Id(p) \/ \E c \in Controller : Holds(c, p)
    BY <2>1 DEF NoVmForgotten, Holds
  <2>3. NothingTracked => \E c \in Controller : Holds(c, p)
    BY <2>1, NoVm
  <2>4. ASSUME NEW c \in Controller, Outside(c)
        PROVE  pidfile' = pidfile /\ \A d \in Controller : Holds(d, p) => Holds(d, p)'
    BY <2>4 DEF Outside, Load, ctlVars, Begin, Goto, Holds, TypeOK, CtlType, vmDir
  <2>5. ASSUME NEW c \in Controller, Inside(c)
        PROVE  \/ pidfile' = LegacyFile
               \/ pidfile' = Id(p)'
               \/ Holds(c, p)'
    <3>1. \A d \in Controller : Holds(d, p) => d = c
      BY <2>5, Alone DEF Holds
    <3>2. pidfile = LegacyFile \/ pidfile = Id(p) \/ Holds(c, p)
      BY <2>2, <3>1
    <3>3. CASE Record(c)
      <4>1. child[c] \in Pid /\ child[c] # NoPid /\ pc[c] = "record"
        BY <3>3, ConstantsAssumption DEF Record, TypeOK, CtlType, HandleInv, BootLabels
      <4>2. Exists(child[c]) => p = child[c]
        BY <2>1, <4>1 DEF Exists, ChildInv, OneVm, Live
      <4>3. child' = child /\ (pidfile' = pidfile => pc'[c] = "kill" \/ pidfile = Id(p))
        BY <3>3, <4>2 DEF Record, Goto, TypeOK, CtlType
      <4>4. QED
        BY <2>1, <3>2, <3>3, <4>2, <4>3 DEF Record, Holds
    <3>4. CASE Crash(c)
      BY <2>1, <3>2, <3>4 DEF Crash, Holds, vmDir
    <3>5. CASE Kill(c)
      <4>1. p # child[c]
        BY <3>5, KillStep DEF Live, FreeSlot
      <4>2. QED
        BY <2>1, <3>2, <3>5, <4>1 DEF Kill, Holds, vmDir
    <3>6. CASE Cleanup(c) \/ Archive(c)
      BY <2>3, <3>1, <3>6 DEF Cleanup, Archive, Holds, PhaseInv, Phase
    <3>7. CASE Write(c)
      <4>1. pc[c] = "write"
        BY <3>7 DEF Write
      <4>2. backup[c].disk # NoDisk => NothingTracked
        BY ConstantsAssumption DEF BackupInv, NothingTracked, Tracked, Verified
      <4>3. backup[c].disk = NoDisk
        BY <2>3, <3>1, <4>1, <4>2 DEF Holds
      <4>4. QED
        BY <2>1, <3>2, <3>7, <4>1, <4>3 DEF Write, Holds, vmDir
    <3>8. CASE /\ ~Record(c) /\ ~Crash(c) /\ ~Kill(c) /\ ~Cleanup(c) /\ ~Archive(c)
               /\ ~Write(c)
      <4>1. pidfile' = pidfile /\ pc[c] \notin {"record", "kill"}
        BY <2>5, <3>8
        DEF Inside, Work, DeadlinePasses, Observe, Prepare, Rename, Spawn, AwaitRunning,
            AwaitGuest, Provision, Shutdown, Wake, Sync, QmpQuit, AwaitExit, Check, Exec,
            Final, Save, Guard, vmDir
      <4>2. QED
        BY <2>1, <3>2, <4>1 DEF Holds
    <3>9. QED
      BY <3>3, <3>4, <3>5, <3>6, <3>7, <3>8
  <2>6. ASSUME NEW q \in Pid, Environment(q)
        PROVE  pidfile' = pidfile /\ \A d \in Controller : Holds(d, p) => Holds(d, p)'
    BY <2>6, EnvironmentStep DEF Holds, ctlVars, vmDir
  <2>7. ~HostReboots /\ ~RemoveLegacyFile
    BY <2>1 DEF HostReboots, RemoveLegacyFile, FreeSlot, Live
  <2>8. QED
    BY <2>1, <2>2, <2>4, <2>5, <2>6, <2>7, WorldSteps DEF Holds
<1>3. QED
  BY <1>1, <1>2

--------------------------------------------------------------------------------
(***************************************************************************)
(* What commands record, and what a boot delivers.                         *)
(***************************************************************************)

LEMMA StoppedStep ==
    ASSUME TypeOK, HandleInv, LockInv, StampInv, StoppedIsTrue, Next
    PROVE  StoppedIsTrue'
<1>1. ASSUME NEW c \in Controller, Outside(c) PROVE StoppedIsTrue'
  <2>1. \A k \in Commands : Entry(k) # "save"
    BY ConstantsAssumption DEF Entry, AllCommands
  <2>2. QED
    BY <1>1, <2>1
    DEF Outside, Load, Begin, Goto, StoppedIsTrue, Tracked, Verified, Exists, Id, TypeOK,
        CtlType, ctlVars, hostVars, vmDir
<1>2. ASSUME NEW c \in Controller, Inside(c) PROVE StoppedIsTrue'
  <2>1. \A d \in Controller \ {c} : pc'[d] = "idle"
    BY <1>2, Alone
  <2>2. ASSUME pc'[c] = "save" PROVE Final(c) /\ ~Return(c)
    <3>1. \A l : Goto(c, l) => l = "save"
      BY <2>2 DEF Goto, TypeOK, CtlType
    <3>2. ~Return(c)
      BY <2>2, ReturnElsewhere DEF TypeOK
    <3>3. QED
      BY <1>2, <2>2, <3>1, <3>2
      DEF Inside, Work, DeadlinePasses, Crash, Observe, Prepare, Rename, Spawn, Record,
          AwaitRunning, AwaitGuest, Provision, Kill, Cleanup, Shutdown, Wake, Sync, QmpQuit,
          AwaitExit, Check, Exec, Save, Guard, Archive, Write
  <2>3. ASSUME Final(c), ~Return(c), mem'[c].vm = "stopped" PROVE ~Tracked'
    <3>1. PICK vm \in VmObservation \ {"error"} :
             \E n \in NodeViews(mem[c], vm) : mem' = [mem EXCEPT ![c].vm = vm, ![c].nodes = n]
      BY <2>3 DEF Final
    <3>2. vm = "stopped"
      BY <2>3, <3>1 DEF TypeOK, CtlType, Runtime
    <3>3. ~Tracked
      BY <3>1, <3>2, ConstantsAssumption DEF VmObservation, Reported, Tracked, Verified
    <3>4. QED
      BY <2>3, <3>3 DEF Final, Tracked, Verified, Exists, Id, hostVars, vmDir
  <2>4. QED
    BY <2>1, <2>2, <2>3 DEF StoppedIsTrue
<1>3. ASSUME NEW p \in Pid, Environment(p) PROVE StoppedIsTrue'
  BY <1>3, EnvironmentStep, StaysUnverified DEF StoppedIsTrue, ctlVars, vmDir
<1>4. CASE HostReboots
  BY <1>4 DEF HostReboots, StoppedIsTrue
<1>5. CASE RemoveLegacyFile
  BY <1>5, ConstantsAssumption DEF RemoveLegacyFile, StoppedIsTrue, Tracked, Verified
<1>6. QED
  BY <1>1, <1>2, <1>3, <1>4, <1>5, WorldSteps

LEMMA DeliversStep ==
    ASSUME TypeOK, HandleInv, LockInv, StampInv, ChildInv, PhaseInv, BootDelivers, Next
    PROVE  BootDelivers'
<1>1. ASSUME NEW c \in Controller, Outside(c) PROVE BootDelivers'
  <2>1. \A k \in Commands : Entry(k) = "final" => k # "boot"
    BY ConstantsAssumption DEF Entry, AllCommands
  <2>2. QED
    BY <1>1, <2>1
    DEF Outside, Load, Begin, Goto, BootDelivers, Sent, Tracked, Verified, Exists, Id, TypeOK,
        CtlType, FileType, ctlVars, hostVars, vmDir
<1>2. ASSUME NEW c \in Controller, Inside(c) PROVE BootDelivers'
  <2>1. \A d \in Controller \ {c} : pc'[d] = "idle"
    BY <1>2, Alone
  <2>2. ASSUME pc'[c] = "final", cmd'[c] = "boot", HasInitrd
        PROVE  Provision(c) /\ Initialized(child[c], Sent(c))
    <3>1. \A l : Goto(c, l) => l = "final"
      BY <2>2 DEF Goto, TypeOK, CtlType
    <3>2. ~Return(c)
      BY <2>2, ReturnElsewhere DEF TypeOK
    <3>3. cmd[c] = "boot"
      BY <1>2, <2>2, <3>2, SectionStep DEF Advance
    <3>4. ~Rename(c) /\ ~Exec(c)
      BY <3>3 DEF Rename, Exec, PhaseInv, Phase
    <3>5. ~AwaitRunning(c) /\ ~Cleanup(c)
      BY <2>2, <3>1, <3>2, <3>3 DEF AwaitRunning, Cleanup
    <3>6. QED
      BY <1>2, <2>2, <3>1, <3>2, <3>4, <3>5
      DEF Inside, Work, DeadlinePasses, Crash, Observe, Prepare, Spawn, Record,
          AwaitGuest, Provision, Kill, Shutdown, Wake, Sync, QmpQuit, AwaitExit, Check, Final,
          Save, Guard, Archive, Write
  <2>3. ASSUME Provision(c), Initialized(child[c], Sent(c))
        PROVE  proc'[pidfile'.pid].conf = Sent(c)' /\ disk'.conf = Sent(c)'
    <3>1. child[c] # NoPid /\ child[c] \in Pid /\ pidfile = Id(child[c])
      BY <2>3, ConstantsAssumption
      DEF Provision, HandleInv, BootLabels, TypeOK, CtlType, PhaseInv, Phase
    <3>2. pidfile' = pidfile /\ pidfile.pid = child[c] /\ Sent(c)' = Sent(c)
      BY <2>3, <3>1 DEF Provision, Id, Sent
    <3>3. disk.gen = proc[child[c]].gen
      BY <3>1 DEF ChildInv
    <3>4. QED
      BY <2>3, <3>1, <3>2, <3>3 DEF Initialized, TypeOK, HostType, FileType, Process, Disk
  <2>4. QED
    BY <2>1, <2>2, <2>3 DEF BootDelivers
<1>3. ASSUME NEW p \in Pid, Environment(p) PROVE BootDelivers'
  <2>1. UNCHANGED <<pc, cmd, pidfile, disk, recipe, loaded>> /\ (Tracked' => Tracked)
    BY <1>3, EnvironmentStep, StaysUnverified DEF ctlVars, vmDir
  <2>2. \A q \in Pid : Live(q) => proc'[q].conf = proc[q].conf
    BY <1>3
    DEF Environment, QemuMoves, QemuExits, Reap, ForeignStarts, ForeignExits, Live, TypeOK,
        HostType, Process
  <2>3. Tracked => Live(pidfile.pid) /\ pidfile.pid \in Pid
    BY StampTracked DEF TrackedIsVm, Tracked, Verified, Identity
  <2>4. QED
    BY <2>1, <2>2, <2>3 DEF BootDelivers, Sent
<1>4. CASE HostReboots
  BY <1>4 DEF HostReboots, BootDelivers
<1>5. CASE RemoveLegacyFile
  BY <1>5, ConstantsAssumption DEF RemoveLegacyFile, BootDelivers, Sent, Tracked, Verified
<1>6. QED
  BY <1>1, <1>2, <1>3, <1>4, <1>5, WorldSteps

--------------------------------------------------------------------------------
(***************************************************************************)
(* The invariant and its consequences.                                     *)
(***************************************************************************)

LEMMA InvInit == Init => IInv
<1> SUFFICES ASSUME Init PROVE IInv
  OBVIOUS
<1>1. TypeOK /\ HandleInv
  BY TypeInit
<1>2. LockInv /\ ChildInv /\ LostInv /\ LoadedInv /\ SyncedInv /\ StoppedIsTrue /\ BootDelivers
  BY DEF Init, LockInv, ChildInv, LostInv, LoadedInv, SyncedInv, StoppedIsTrue, BootDelivers
<1>3. pidfile \in {NoFile, LegacyFile} /\ ~Tracked
  BY ConstantsAssumption DEF Init, Tracked, Verified
<1>4. BackupInv
  BY DEF Init, BackupInv, NoBackup
<1>5. DiskInv
  BY <1>3, ConstantsAssumption DEF Init, DiskInv, NoBackup, NoDisk, NothingTracked, BootLabels
<1>6. PhaseInv
  BY DEF Init, PhaseInv, Phase, BootLabels
<1>7. StampInv
  <2>1. /\ \A p \in Pid : proc[p].kind # "foreign" /\ proc[p].ticks <= ticks
        /\ \A c \in Controller : backup[c].pidfile = NoFile
    BY DEF Init, FreeSlot, NoBackup
  <2>2. QED
    BY <1>3, <2>1, ConstantsAssumption DEF StampInv, Old
<1>8. NoVmForgotten /\ OneVm /\ RunInv
  BY DEF Init, NoVmForgotten, OneVm, RunInv, Live, FreeSlot
<1>9. QED
  BY <1>1, <1>2, <1>4, <1>5, <1>6, <1>7, <1>8 DEF IInv

LEMMA InvStutter == ASSUME IInv, UNCHANGED vars PROVE IInv'
<1> USE DEF vars, ctlVars, hostVars, vmDir
<1>1. TypeOK' /\ HandleInv'
  BY TypeStutter DEF IInv
<1>2. LockInv' /\ ChildInv' /\ RunInv' /\ LostInv' /\ LoadedInv' /\ StampInv'
  BY DEF IInv, LockInv, ChildInv, RunInv, LostInv, Live, LoadedInv, StampInv, Old, Id
<1>3. Tracked' = Tracked /\ \A c \in Controller : Verified(backup[c].pidfile)' = Verified(backup[c].pidfile)
  BY DEF Tracked, Verified, Exists, Id
<1>4. NothingTracked' = NothingTracked
  BY <1>3 DEF NothingTracked
<1>5. PhaseInv' /\ BackupInv' /\ DiskInv' /\ SyncedInv' /\ StoppedIsTrue' /\ BootDelivers'
  BY <1>3, <1>4
  DEF IInv, PhaseInv, Phase, BackupInv, DiskInv, SyncedInv, StoppedIsTrue, BootDelivers, Sent, Id
<1>6. NoVmForgotten' /\ OneVm'
  BY DEF IInv, NoVmForgotten, OneVm, Live, Id
<1>7. QED
  BY <1>1, <1>2, <1>5, <1>6 DEF IInv

LEMMA InvStep == IInv /\ [Next]_vars => IInv'
<1>1. ASSUME IInv, Next PROVE IInv'
  <2>1. TypeOK' /\ HandleInv'
    BY <1>1, TypeStep DEF IInv
  <2>2. LockInv' /\ StampInv' /\ ChildInv' /\ RunInv' /\ LostInv' /\ PhaseInv' /\ BackupInv' /\ DiskInv'
    BY <1>1, LockStep, StampStep, ChildStep, RunStep, LostStep, PhaseStep,
       BackupStep, DiskStep DEF IInv
  <2>3. LoadedInv' /\ SyncedInv' /\ StoppedIsTrue' /\ BootDelivers'
    BY <1>1, LoadedStep, SyncedStep, StoppedStep, DeliversStep DEF IInv
  <2>4. NoVmForgotten' /\ OneVm'
    BY <1>1, NoVmForgottenStep, OneVmStep DEF IInv
  <2>5. QED
    BY <2>1, <2>2, <2>3, <2>4 DEF IInv
<1>2. QED
  BY <1>1, InvStutter

\* IInv is an inductive invariant of the specification.
THEOREM Invariance == Spec => []IInv
<1>1. QED
  BY InvInit, InvStep, PTL DEF Spec

\* A verified pid file names the QEMU it was written for, across any number of
\* process starts, pid reuses and host reboots (ProcessIdentity).
THEOREM TrackedIsVmAlways == Spec => []TrackedIsVm
<1>1. IInv => TrackedIsVm
  BY StampTracked DEF IInv
<1>2. QED
  BY <1>1, Invariance, PTL

\* Every VM is tracked by qemu.pid or held by the controller that boots it,
\* unless that controller died in the window between spawn and record.
THEOREM NoVmForgottenAlways == Spec => []NoVmForgotten
<1>1. IInv => NoVmForgotten
  BY DEF IInv
<1>2. QED
  BY <1>1, Invariance, PTL

\* Crash orphans aside, a project never has two VMs.
THEOREM OneVmAlways == Spec => []OneVm
<1>1. IInv => OneVm
  BY DEF IInv
<1>2. QED
  BY <1>1, Invariance, PTL

\* Metadata saved as "stopped" describes a VM that is gone.
THEOREM StoppedIsTrueAlways == Spec => []StoppedIsTrue
<1>1. IInv => StoppedIsTrue
  BY DEF IInv
<1>2. QED
  BY <1>1, Invariance, PTL

\* After a successful boot guest and disk have the project's recipe.
THEOREM BootDeliversAlways == Spec => []BootDelivers
<1>1. IInv => BootDelivers
  BY DEF IInv
<1>2. QED
  BY <1>1, Invariance, PTL

--------------------------------------------------------------------------------
(***************************************************************************)
(* What a step may never do.                                               *)
(***************************************************************************)

\* Sources and the identity of the disk change in three actions.
LEMMA EditSteps ==
    ASSUME TypeOK, Next, recipe' # recipe \/ disk'.gen # disk.gen
    PROVE  \E c \in Controller : Rename(c) \/ Archive(c) \/ Write(c)
<1>1. ASSUME NEW c \in Controller, Provision(c) PROVE FALSE
  BY <1>1 DEF Provision, Initialized, TypeOK, FileType, Disk
<1>2. ASSUME NEW c \in Controller, Inside(c), ~Rename(c), ~Archive(c), ~Write(c) PROVE FALSE
  BY <1>1, <1>2
  DEF Inside, Work, DeadlinePasses, Crash, Observe, Prepare, Spawn, Record, AwaitRunning,
      AwaitGuest, Kill, Cleanup, Shutdown, Wake, Sync, QmpQuit, AwaitExit, Check, Exec, Final,
      Save, Guard, vmDir
<1>3. ~HostReboots /\ ~RemoveLegacyFile /\ \A c \in Controller : ~Outside(c)
  BY DEF HostReboots, RemoveLegacyFile, Outside, Load, Begin, vmDir
<1>4. \A p \in Pid : ~Environment(p)
  BY EnvironmentStep DEF vmDir
<1>5. QED
  BY <1>2, <1>3, <1>4, WorldSteps

\* As long as no include is added, sources and disk change only while the
\* project has no VM.
THEOREM EditsOnlyWhenStoppedAlways ==
    ASSUME "include" \notin Commands PROVE Spec => EditsOnlyWhenStopped
<1>1. ASSUME IInv, Next, recipe' # recipe \/ disk'.gen # disk.gen PROVE ~Tracked
  <2>1. PICK c \in Controller : Rename(c) \/ Archive(c) \/ Write(c)
    BY <1>1, EditSteps DEF IInv
  <2>2. CASE Rename(c)
    BY <1>1, <2>2 DEF Rename, IInv, DiskInv, NoDisk, NothingTracked
  <2>3. CASE Archive(c)
    BY <1>1, <2>3 DEF Archive, IInv, PhaseInv, Phase, NothingTracked
  <2>4. CASE Write(c)
    BY <1>1, <2>4 DEF Write, IInv, PhaseInv, Phase, NothingTracked
  <2>5. QED
    BY <2>1, <2>2, <2>3, <2>4
<1>2. ASSUME IInv, [Next]_vars
      PROVE  [(recipe' # recipe \/ disk'.gen # disk.gen) => ~Tracked]_vars
  BY <1>1, <1>2
<1>3. QED
  BY <1>2, Invariance, PTL DEF Spec, EditsOnlyWhenStopped

\* No controller overwrites metadata another one saved after it had loaded its
\* own copy.
THEOREM RecordedInOrderAlways == Spec => RecordedInOrder
<1>1. ASSUME IInv, Next, saved' # saved PROVE saved'.clock = saved.clock + 1
  <2>1. PICK c \in Controller : Save(c)
    <3>1. ~HostReboots /\ ~RemoveLegacyFile /\ \A c \in Controller : ~Outside(c)
      BY <1>1 DEF HostReboots, RemoveLegacyFile, Outside, Load, Begin
    <3>2. \A p \in Pid : ~Environment(p)
      BY <1>1, EnvironmentStep DEF IInv
    <3>3. ASSUME NEW c \in Controller, Inside(c) PROVE Save(c)
      BY <1>1, <3>3
      DEF Inside, Work, DeadlinePasses, Crash, Observe, Prepare, Rename, Spawn, Record,
          AwaitRunning, AwaitGuest, Provision, Kill, Cleanup, Shutdown, Wake, Sync, QmpQuit,
          AwaitExit, Check, Exec, Final, Guard, Archive, Write
    <3>4. QED
      BY <1>1, <3>1, <3>2, <3>3, WorldSteps
  <2>2. saved' = [mem[c] EXCEPT !.clock = mem[c].clock + 1] /\ mem[c].clock = saved.clock
    BY <1>1, <2>1 DEF Save, IInv, LoadedInv
  <2>3. mem[c] \in Runtime
    BY <1>1 DEF IInv, TypeOK, CtlType
  <2>4. QED
    BY <2>2, <2>3 DEF Runtime
<1>2. ASSUME IInv, [Next]_vars
      PROVE  [saved' # saved => saved'.clock = saved.clock + 1]_vars
  BY <1>1, <1>2
<1>3. QED
  BY <1>2, Invariance, PTL DEF Spec, RecordedInOrder

\* Only QmpQuit makes a VM quit.
LEMMA QuitSteps ==
    ASSUME TypeOK, Next, NEW p \in Pid, proc'[p].run = "quitting", proc[p].run # "quitting"
    PROVE  p = pidfile.pid /\ Tracked /\ \E c \in Controller : pc[c] = "quit"
<1> USE DEF TypeOK, HostType, Process
<1>1. ASSUME NEW c \in Controller, Spawn(c) \/ Provision(c) \/ Kill(c) PROVE FALSE
  BY <1>1 DEF Spawn, SpawnedOn, Provision, Initialized, Kill, FreeSlot, hostVars
<1>2. ASSUME NEW from, SetRun(from, "paused") \/ SetRun(from, "running") PROVE FALSE
  BY <1>2 DEF SetRun
<1>3. ASSUME NEW q, NEW b, proc' = [proc EXCEPT ![q].synced = b] PROVE FALSE
  BY <1>3
<1>4. ASSUME NEW c \in Controller, Wake(c) \/ Sync(c) \/ Exec(c) PROVE FALSE
  BY <1>2, <1>3, <1>4 DEF Wake, Sync, Synced, Exec, Effect, Stop, Cont, NodeOp
<1>5. ASSUME NEW c \in Controller, Inside(c) PROVE QmpQuit(c)
  BY <1>1, <1>4, <1>5
  DEF Inside, Work, DeadlinePasses, Crash, Observe, Prepare, Rename, Record, AwaitRunning,
      AwaitGuest, Cleanup, Shutdown, AwaitExit, Check, Final, Save, Guard, Archive, Write,
      hostVars
<1>6. ASSUME NEW c \in Controller, QmpQuit(c)
      PROVE  pc[c] = "quit" /\ p = pidfile.pid /\ Tracked
  BY <1>6 DEF QmpQuit, Quit, SetRun, QmpReaches
<1>7. \A q \in Pid : ~Environment(q)
  BY DEF Environment, QemuMoves, QemuExits, Reap, ForeignStarts, ForeignExits, ForeignProcess,
         FreeSlot
<1>8. ~HostReboots /\ ~RemoveLegacyFile /\ \A c \in Controller : ~Outside(c)
  BY DEF HostReboots, RemoveLegacyFile, Outside, Load, Begin, FreeSlot, hostVars
<1>9. QED
  BY <1>5, <1>6, <1>7, <1>8, WorldSteps

\* A guest is told to quit only when it has synced.
THEOREM QuitsOnlyWhenSyncedAlways == Spec => QuitsOnlyWhenSynced
<1>1. ASSUME IInv, Next, NEW p \in Pid, proc'[p].run = "quitting", proc[p].run # "quitting"
      PROVE  ~HasInitrd \/ proc[p].synced
  BY <1>1, QuitSteps DEF IInv, SyncedInv
<1>2. ASSUME IInv, [Next]_vars
      PROVE  [\A p \in Pid : proc'[p].run = "quitting" /\ proc[p].run # "quitting"
                 => ~HasInitrd \/ proc[p].synced]_vars
  BY <1>1, <1>2
<1>3. QED
  BY <1>2, Invariance, PTL DEF Spec, QuitsOnlyWhenSynced

================================================================================
