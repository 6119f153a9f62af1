------------------------------ MODULE VmLifecycle ------------------------------
(***************************************************************************)
(* One project directory, the controllers that act on it (command-line     *)
(* invocations and the application's worker threads) and the QEMU          *)
(* processes they start.                                                   *)
(*                                                                         *)
(* A controller runs QemuRuntime::execute, QemuRuntime::status, the Nodes  *)
(* editor or a source edit as a sequence of steps between which the rest   *)
(* of the world moves: QEMU changes state or exits, control channels fail  *)
(* with or without effect, deadlines pass, the controller or the host      *)
(* crashes, process ids are reused.  A controller loads the Project before *)
(* it takes the project's file lock and keeps it for the commands it then  *)
(* issues; every other step is taken while holding the lock.               *)
(*                                                                         *)
(* A failing exchange on the QMP or guest channel may or may not have had  *)
(* its effect.  Recipes and disks are version numbers, zero meaning none.  *)
(***************************************************************************)
EXTENDS Naturals, FiniteSets

CONSTANTS
    Controller,    \* processes and worker threads that may act on the project
    Pid,           \* process ids of the host
    Commands,      \* the commands controllers issue, a subset of AllCommands
    HasInitrd,     \* TRUE for a guest bundle, FALSE for a plain bootable image
    NoController,  \* the lock is free
    NoPid,         \* the controller holds no child handle
    NoFile,        \* qemu.pid does not exist
    LegacyFile,    \* qemu.pid holds a bare number, not a process identity
    MaxTicks,      \* bound: process starts per host boot
    MaxBoots,      \* bound: host reboots
    MaxDisks,      \* bound: guest disks prepared
    MaxRecipe,     \* bound: the sum of the two versions of the sources
    MaxClock       \* bound: recorded commands

AllCommands == {"status", "prepare", "boot", "shutdown", "pause", "resume",
                "start", "stop", "edit", "write", "include"}

Identity == [pid : Pid, ticks : Nat, boot : Nat]

ASSUME ConstantsAssumption ==
    /\ Commands \subseteq AllCommands
    /\ HasInitrd \in BOOLEAN
    /\ NoController \notin Controller
    /\ NoPid \notin Pid
    /\ NoFile \notin Identity
    /\ LegacyFile \notin Identity
    /\ NoFile # LegacyFile
    /\ MaxTicks \in Nat /\ MaxBoots \in Nat /\ MaxDisks \in Nat
    /\ MaxRecipe \in Nat /\ MaxClock \in Nat

VARIABLES
    lock,     \* holder of .sim-rns/project.lock
    pc,       \* next step of each controller
    cmd,      \* command each controller is executing
    mem,      \* runtime state each controller has loaded and edits in memory
    child,    \* un-waited child process each controller holds a handle of
    backup,   \* VM directory the editor has renamed away, for its rollback
    proc,     \* host process table
    ticks,    \* start time of the youngest process since the host booted
    boot,     \* host boot id
    pidfile,  \* content of vm/qemu.pid
    disk,     \* vm/disk.qcow2: its generation and the recipe the guest stored
    disks,    \* disks prepared so far
    recipe,   \* versions of the project's sources: the project file, the node files
    loaded,   \* version of the project file each controller has in its Project
    saved,    \* .sim-rns/runtime.json
    lost      \* QEMU processes orphaned by a controller crash (history variable)

ctlVars  == <<lock, pc, cmd, mem, child, backup>>
hostVars == <<proc, ticks, boot, lost>>
vmDir    == <<pidfile, disk>>
vars     == <<ctlVars, hostVars, vmDir, disks, recipe, loaded, saved>>

Labels == {"idle", "observe", "prepare", "rename", "boot", "record", "ready",
           "readyLate", "guest", "guestLate", "provision", "kill", "shutdown",
           "wake", "sync", "quit", "exit", "cleanup", "check", "exec", "final",
           "save", "guard", "archive", "write"}

\* Labels at which a controller holds the handle of a QEMU it has spawned.
BootLabels == {"record", "ready", "readyLate", "guest", "guestLate",
               "provision", "kill"}

\* A recipe: the version of the project file and that of the node files it is built
\* from; NoRecipe on a disk that no guest has initialized.
Version  == Nat \X Nat
NoRecipe == <<0, 0>>

RunStates == {"none", "prelaunch", "running", "paused", "fault", "quitting"}
Process   == [kind : {"free", "foreign", "qemu", "zombie"}, ticks : Nat,
              run : RunStates, gen : Nat, conf : Version, synced : BOOLEAN]
Runtime   == [vm : {"stopped", "running", "paused"},
              nodes : {"stopped", "guest", "unknown"}, clock : Nat]
Disk      == [gen : Nat, conf : Version]
VmDir     == [pidfile : Identity \cup {NoFile, LegacyFile}, disk : Disk]

FreeSlot       == [kind |-> "free", ticks |-> 0, run |-> "none", gen |-> 0,
                   conf |-> NoRecipe, synced |-> TRUE]
NoDisk         == [gen |-> 0, conf |-> NoRecipe]
InitialRuntime == [vm |-> "stopped", nodes |-> "stopped", clock |-> 0]
NoBackup       == [pidfile |-> NoFile, disk |-> NoDisk]

--------------------------------------------------------------------------------
(***************************************************************************)
(* What the code can find out about the VM.                                *)
(***************************************************************************)

Live(p) == proc[p].kind = "qemu"

Id(p) == [pid |-> p, ticks |-> proc[p].ticks, boot |-> boot]

\* ProcessIdentity::read: a zombie counts as gone.
Exists(p) == proc[p].kind \in {"foreign", "qemu"}

\* Deviation: the pid alone identifies the VM.
VerifiedByPid(f) == f \in Identity /\ Exists(f.pid)

\* qemu_process_is_running returning true.
Verified(f) == /\ f \in Identity
               /\ Exists(f.pid)
               /\ f = Id(f.pid)

Tracked == Verified(pidfile)

\* Answers QMP query-status can give.  A QEMU that is quitting no longer answers.
Reported(run) == CASE run = "running"                  -> {"running"}
                   [] run \in {"paused", "prelaunch"}  -> {"paused"}
                   [] OTHER                            -> {}

\* Possible results of observed_vm_state.
VmObservation ==
    IF pidfile = LegacyFile THEN {"error"}
    ELSE IF ~Tracked THEN {"stopped"}
    ELSE {"error"} \cup Reported(proc[pidfile.pid].run)

\* Node states in the status built by observe_status from loaded state s.
NodeViews(s, vm) == CASE vm = "running" -> {"guest", "unknown"}
                      [] vm = "stopped" -> {"stopped"}
                      [] OTHER          -> {s.nodes}

--------------------------------------------------------------------------------
Init ==
    /\ lock = NoController
    /\ pc = [c \in Controller |-> "idle"]
    /\ cmd = [c \in Controller |-> "status"]
    /\ mem = [c \in Controller |-> InitialRuntime]
    /\ child = [c \in Controller |-> NoPid]
    /\ backup = [c \in Controller |-> NoBackup]
    /\ ticks = 1 /\ boot = 0 /\ lost = {}
    /\ disks = 1 /\ recipe = <<1, 1>> /\ saved = InitialRuntime
    /\ loaded = [c \in Controller |-> 1]
    /\ \/ /\ proc = [p \in Pid |-> FreeSlot]
          /\ pidfile = NoFile
          /\ disk = NoDisk
       \/ \E p \in Pid :   \* a VM left behind by a version that wrote bare pids
             /\ proc = [q \in Pid |-> IF q = p
                           THEN [kind |-> "qemu", ticks |-> 1, run |-> "running",
                                 gen |-> 1, conf |-> <<1, 1>>, synced |-> FALSE]
                           ELSE FreeSlot]
             /\ pidfile = LegacyFile
             /\ disk = [gen |-> 1, conf |-> <<1, 1>>]

Goto(c, l) == pc' = [pc EXCEPT ![c] = l]

\* Return from the locked section: the lock file is closed, locals are dropped.
Return(c) ==
    /\ lock' = NoController
    /\ pc' = [pc EXCEPT ![c] = "idle"]
    /\ cmd' = [cmd EXCEPT ![c] = "status"]
    /\ mem' = [mem EXCEPT ![c] = InitialRuntime]
    /\ child' = [child EXCEPT ![c] = NoPid]
    /\ backup' = [backup EXCEPT ![c] = NoBackup]

Entry(k) == CASE k = "status"                            -> "final"
              [] k \in {"pause", "shutdown"}             -> "observe"
              [] k \in {"resume", "start", "stop"}       -> "check"
              [] k \in {"edit", "write"}                 -> "guard"
              [] k = "include"                           -> "write"
              [] OTHER                                   -> k

\* load_project, without the lock: whoever waits for it afterwards, or issues
\* several commands, does so with the sources of this moment.
Load(c) ==
    /\ pc[c] = "idle"
    /\ loaded' = [loaded EXCEPT ![c] = recipe[1]]
    /\ UNCHANGED <<ctlVars, hostVars, vmDir, disks, recipe, saved>>

\* Deviation: the lock is not waited for.
BeginUnlocked(c, k) ==
    /\ pc[c] = "idle"
    /\ lock' = c
    /\ cmd' = [cmd EXCEPT ![c] = k]
    /\ mem' = [mem EXCEPT ![c] = saved]
    /\ Goto(c, Entry(k))
    /\ UNCHANGED <<child, backup, hostVars, vmDir, disks, recipe, loaded, saved>>

\* project_lock, then runtime.json is loaded; the recipe is the Project's.
Begin(c, k) ==
    /\ pc[c] = "idle"
    /\ lock = NoController
    /\ lock' = c
    /\ cmd' = [cmd EXCEPT ![c] = k]
    /\ mem' = [mem EXCEPT ![c] = saved]
    /\ Goto(c, Entry(k))
    /\ UNCHANGED <<child, backup, hostVars, vmDir, disks, recipe, loaded, saved>>

\* Pause and shutdown first copy the live node states into the loaded state.
Observe(c) ==
    /\ pc[c] = "observe"
    /\ \/ /\ "error" \in VmObservation
          /\ Return(c)
       \/ \E vm \in VmObservation \ {"error"} : \E n \in NodeViews(mem[c], vm) :
             /\ mem' = [mem EXCEPT ![c].nodes = n]
             /\ Goto(c, IF cmd[c] = "pause" THEN "check" ELSE "shutdown")
             /\ UNCHANGED <<lock, cmd, child, backup>>
    /\ UNCHANGED <<hostVars, vmDir, disks, recipe, loaded, saved>>

--------------------------------------------------------------------------------
(***************************************************************************)
(* PrepareVm.                                                              *)
(***************************************************************************)

\* Refuse an existing disk; otherwise convert the base image to a temporary.
Prepare(c) ==
    /\ pc[c] = "prepare"
    /\ \/ Return(c)
       \/ /\ disk = NoDisk
          /\ Goto(c, "rename")
          /\ UNCHANGED <<lock, cmd, mem, child, backup>>
    /\ UNCHANGED <<hostVars, vmDir, disks, recipe, loaded, saved>>

\* The temporary becomes disk.qcow2, with no recipe stored by a guest yet.
Rename(c) ==
    /\ pc[c] = "rename"
    /\ \/ /\ Return(c)
          /\ UNCHANGED <<disk, disks>>
       \/ /\ disks < MaxDisks
          /\ disks' = disks + 1
          /\ disk' = [gen |-> disks + 1, conf |-> NoRecipe]
          /\ Goto(c, "final")
          /\ UNCHANGED <<lock, cmd, mem, child, backup>>
    /\ UNCHANGED <<hostVars, pidfile, recipe, loaded, saved>>

--------------------------------------------------------------------------------
(***************************************************************************)
(* Boot.                                                                   *)
(***************************************************************************)

\* QEMU itself refuses a disk image another QEMU has open, and exits.
DiskInUse == \E p \in Pid : Live(p) /\ proc[p].gen = disk.gen

\* A guest whose disk holds a recipe restores it and starts its nodes.
SpawnedOn(d) ==
    [kind |-> IF DiskInUse THEN "zombie" ELSE "qemu", ticks |-> ticks + 1,
     run |-> IF DiskInUse THEN "none" ELSE "prelaunch", gen |-> d.gen,
     conf |-> d.conf, synced |-> d.conf = NoRecipe]

\* Deviation: boot does not look for a running VM.
SpawnUnchecked(c) ==
    /\ pc[c] = "boot"
    /\ disk # NoDisk /\ ticks < MaxTicks
    /\ \E p \in Pid :
          /\ proc[p].kind = "free"
          /\ proc' = [proc EXCEPT ![p] = SpawnedOn(disk)]
          /\ child' = [child EXCEPT ![c] = p]
    /\ ticks' = ticks + 1
    /\ Goto(c, "record")
    /\ UNCHANGED <<lock, cmd, mem, backup, boot, lost, vmDir, disks, recipe, loaded, saved>>

Spawn(c) ==
    /\ pc[c] = "boot"
    /\ \/ /\ Return(c)
          /\ UNCHANGED hostVars
       \/ /\ pidfile # LegacyFile
          /\ ~Tracked
          /\ disk # NoDisk
          /\ ticks < MaxTicks
          /\ \E p \in Pid :
                /\ proc[p].kind = "free"
                /\ proc' = [proc EXCEPT ![p] = SpawnedOn(disk)]
                /\ child' = [child EXCEPT ![c] = p]
          /\ ticks' = ticks + 1
          /\ Goto(c, "record")
          /\ UNCHANGED <<lock, cmd, mem, backup, boot, lost>>
    /\ UNCHANGED <<vmDir, disks, recipe, loaded, saved>>

\* The identity of the child is read and written to qemu.pid.  A write that
\* fails may still have replaced the file.
Record(c) ==
    /\ pc[c] = "record"
    /\ LET p == child[c] IN
       \/ /\ Exists(p)
          /\ pidfile' = Id(p)
          /\ \/ Goto(c, "ready")
             \/ Goto(c, "kill")
       \/ /\ UNCHANGED pidfile
          /\ Goto(c, "kill")
    /\ UNCHANGED <<lock, cmd, mem, child, backup, hostVars, disk, disks, recipe, loaded, saved>>

DropChild(c) == child' = [child EXCEPT ![c] = NoPid]

\* Poll until QEMU reports running, the child exits or five seconds pass.
AwaitRunning(c) ==
    /\ pc[c] \in {"ready", "readyLate"}
    /\ \/ /\ Exists(child[c])
          /\ "running" \in VmObservation
          /\ IF HasInitrd THEN Goto(c, "guest") /\ UNCHANGED child
                          ELSE Goto(c, "final") /\ DropChild(c)
       \/ /\ \/ ~Exists(child[c])
             \/ pc[c] = "readyLate"
          /\ Goto(c, "kill")
          /\ UNCHANGED child
    /\ UNCHANGED <<lock, cmd, mem, backup, hostVars, vmDir, disks, recipe, loaded, saved>>

DeadlinePasses(c) ==
    /\ \/ pc[c] = "ready" /\ Goto(c, "readyLate")
       \/ pc[c] = "guest" /\ Goto(c, "guestLate")
    /\ UNCHANGED <<lock, cmd, mem, child, backup, hostVars, vmDir, disks, recipe, loaded, saved>>

GuestAnswers(p) == Live(p) /\ proc[p].run = "running"

\* Poll until the guest agent answers, the child exits or sixty seconds pass.
AwaitGuest(c) ==
    /\ pc[c] \in {"guest", "guestLate"}
    /\ \/ GuestAnswers(child[c]) /\ Goto(c, "provision")
       \/ (pc[c] = "guestLate" \/ ~Exists(child[c])) /\ Goto(c, "kill")
    /\ UNCHANGED <<lock, cmd, mem, child, backup, hostVars, vmDir, disks, recipe, loaded, saved>>

\* Deviation: an initialized guest accepts, and ignores, any other recipe.
InitializedSilently(p, r) ==
    /\ GuestAnswers(p)
    /\ IF proc[p].conf = NoRecipe
       THEN /\ proc' = [proc EXCEPT ![p].conf = r, ![p].synced = FALSE]
            /\ disk' = [disk EXCEPT !.conf = r]
       ELSE UNCHANGED <<proc, disk>>

\* Deviation: a new recipe replaces the one the disk has stored.
InitializedAnew(p, r) ==
    /\ GuestAnswers(p)
    /\ proc' = [proc EXCEPT ![p].conf = r, ![p].synced = FALSE]
    /\ disk' = [disk EXCEPT !.conf = r]

\* Backend.initialize with recipe r: stored once, then only equal recipes are
\* accepted.
Initialized(p, r) ==
    /\ GuestAnswers(p)
    /\ proc[p].conf \in {NoRecipe, r}
    /\ proc' = [proc EXCEPT ![p].conf = r,
                            ![p].synced = IF proc[p].conf = NoRecipe THEN FALSE ELSE @]
    /\ disk' = IF disk.gen = proc[p].gen THEN [disk EXCEPT !.conf = r] ELSE disk

\* project_recipe, inside the lock: the project file is the one the controller has
\* loaded, the node files that it includes are read again.
Sent(c) == <<loaded[c], recipe[2]>>

\* guest::provision sends that recipe.
Provision(c) ==
    /\ pc[c] = "provision"
    /\ LET p == child[c] IN
       \/ Initialized(p, Sent(c)) /\ Goto(c, "final") /\ DropChild(c)
       \/ Initialized(p, Sent(c)) /\ Goto(c, "kill") /\ UNCHANGED child
       \/ Goto(c, "kill") /\ UNCHANGED <<proc, disk, child>>
    /\ UNCHANGED <<lock, cmd, mem, backup, ticks, boot, lost, pidfile, disks, recipe, loaded, saved>>

\* A failed boot kills and waits for its own child, then removes its files.
Kill(c) ==
    /\ pc[c] = "kill"
    /\ proc' = [proc EXCEPT ![child[c]] = FreeSlot]
    /\ DropChild(c)
    /\ Goto(c, "cleanup")
    /\ UNCHANGED <<lock, cmd, mem, backup, ticks, boot, lost, vmDir, disks, recipe, loaded, saved>>

\* cleanup_stale_vm_files: the end of a failed boot, or of a shutdown.
Cleanup(c) ==
    /\ pc[c] = "cleanup"
    /\ pidfile' = NoFile
    /\ IF cmd[c] = "boot" THEN Return(c)
                          ELSE Goto(c, "final") /\ UNCHANGED <<lock, cmd, mem, child, backup>>
    /\ UNCHANGED <<hostVars, disk, disks, recipe, loaded, saved>>

--------------------------------------------------------------------------------
(***************************************************************************)
(* Shutdown.                                                               *)
(***************************************************************************)

\* A QMP exchange with the tracked VM: the socket belongs to the last VM booted.
QmpReaches == Tracked /\ Live(pidfile.pid) /\ proc[pidfile.pid].run # "quitting"

\* The effect of QMP stop, cont and quit on the tracked VM.
SetRun(from, to) ==
    LET p == pidfile.pid IN
    /\ QmpReaches
    /\ proc' = IF proc[p].run \in from THEN [proc EXCEPT ![p].run = to] ELSE proc

Stop == SetRun({"running"}, "paused")
Cont == SetRun({"paused", "prelaunch"}, "running")
Quit == SetRun(RunStates, "quitting")

Shutdown(c) ==
    /\ pc[c] = "shutdown"
    /\ IF pidfile = LegacyFile THEN Return(c)
       ELSE /\ Goto(c, CASE ~Tracked  -> "cleanup"
                         [] HasInitrd -> "wake"
                         [] OTHER     -> "quit")
            /\ UNCHANGED <<lock, cmd, mem, child, backup>>
    /\ UNCHANGED <<hostVars, vmDir, disks, recipe, loaded, saved>>

\* A paused guest is resumed, so that it can hear the shutdown request.
Wake(c) ==
    /\ pc[c] = "wake"
    /\ \/ /\ VmObservation \cap {"running", "stopped"} # {}
          /\ Goto(c, "sync")
          /\ UNCHANGED <<lock, cmd, mem, child, backup, proc>>
       \/ /\ "paused" \in VmObservation
          /\ Cont
          /\ \/ Goto(c, "sync") /\ UNCHANGED <<lock, cmd, mem, child, backup>>
             \/ Return(c)
       \/ Return(c) /\ UNCHANGED proc
    /\ UNCHANGED <<ticks, boot, lost, vmDir, disks, recipe, loaded, saved>>

\* The guest stops its nodes and syncs its volume.
Synced(p) == GuestAnswers(p) /\ proc' = [proc EXCEPT ![p].synced = TRUE]

\* Deviation: the guest's answer to the shutdown request is not awaited.
SyncUnanswered(c) ==
    /\ pc[c] = "sync"
    /\ \/ Tracked /\ Synced(pidfile.pid)
       \/ UNCHANGED proc
    /\ Goto(c, "quit")
    /\ UNCHANGED <<lock, cmd, mem, child, backup, ticks, boot, lost, vmDir, disks, recipe, loaded, saved>>

Sync(c) ==
    /\ pc[c] = "sync"
    /\ \/ /\ Tracked
          /\ Synced(pidfile.pid)
          /\ \/ Goto(c, "quit") /\ UNCHANGED <<lock, cmd, mem, child, backup>>
             \/ Return(c)
       \/ Return(c) /\ UNCHANGED proc
    /\ UNCHANGED <<ticks, boot, lost, vmDir, disks, recipe, loaded, saved>>

QmpQuit(c) ==
    /\ pc[c] = "quit"
    /\ \/ /\ Quit
          /\ \/ Goto(c, "exit") /\ UNCHANGED <<lock, cmd, mem, child, backup>>
             \/ Return(c)
       \/ Return(c) /\ UNCHANGED proc
    /\ UNCHANGED <<ticks, boot, lost, vmDir, disks, recipe, loaded, saved>>

\* Deviation: tracking is dropped when QEMU does not exit in time.
AwaitExitForgetful(c) ==
    /\ pc[c] = "exit"
    /\ Goto(c, "cleanup")
    /\ UNCHANGED <<lock, cmd, mem, child, backup, hostVars, vmDir, disks, recipe, loaded, saved>>

\* Deviation: the wait has no limit.
AwaitExitForever(c) ==
    /\ pc[c] = "exit"
    /\ ~Tracked
    /\ Goto(c, "cleanup")
    /\ UNCHANGED <<lock, cmd, mem, child, backup, hostVars, vmDir, disks, recipe, loaded, saved>>

\* wait_for_qemu_exit: twenty polls, then tracking is retained.
AwaitExit(c) ==
    /\ pc[c] = "exit"
    /\ IF Tracked THEN Return(c)
       ELSE Goto(c, "cleanup") /\ UNCHANGED <<lock, cmd, mem, child, backup>>
    /\ UNCHANGED <<hostVars, vmDir, disks, recipe, loaded, saved>>

--------------------------------------------------------------------------------
(***************************************************************************)
(* Pause, resume and the node commands: check the observed state, then one *)
(* exchange with QEMU or the guest.                                        *)
(***************************************************************************)

Check(c) ==
    /\ pc[c] = "check"
    /\ \/ Return(c)
       \/ /\ (IF cmd[c] = "resume" THEN "paused" ELSE "running") \in VmObservation
          /\ Goto(c, "exec")
          /\ UNCHANGED <<lock, cmd, mem, child, backup>>
    /\ UNCHANGED <<hostVars, vmDir, disks, recipe, loaded, saved>>

\* Starting or restarting a node writes to the volume again; stopping does not
\* undo a sync.  A guest whose initialization failed half-way may have nodes too.
NodeOp(k) ==
    LET p == pidfile.pid IN
    /\ Tracked
    /\ GuestAnswers(p)
    /\ proc' = IF k = "start" THEN [proc EXCEPT ![p].synced = FALSE] ELSE proc

Effect(k) == CASE k = "pause"  -> Stop
               [] k = "resume" -> Cont
               [] OTHER        -> NodeOp(k)

Exec(c) ==
    /\ pc[c] = "exec"
    /\ \/ /\ Effect(cmd[c])
          /\ \/ Goto(c, "final") /\ UNCHANGED <<lock, cmd, mem, child, backup>>
             \/ Return(c)
       \/ Return(c) /\ UNCHANGED proc
    /\ UNCHANGED <<ticks, boot, lost, vmDir, disks, recipe, loaded, saved>>

--------------------------------------------------------------------------------
(***************************************************************************)
(* The end of every command: observe what came of it and record it.        *)
(***************************************************************************)

\* Deviation: a VM that cannot be observed counts as stopped.
FinalOptimistic(c) ==
    /\ pc[c] = "final"
    /\ \E vm \in VmObservation :
          mem' = [mem EXCEPT ![c].vm = IF vm = "error" THEN "stopped" ELSE vm]
    /\ Goto(c, "save")
    /\ UNCHANGED <<lock, cmd, child, backup, hostVars, vmDir, disks, recipe, loaded, saved>>

Final(c) ==
    /\ pc[c] = "final"
    /\ \/ /\ "error" \in VmObservation \/ cmd[c] = "status"
          /\ Return(c)
       \/ /\ cmd[c] # "status"
          /\ \E vm \in VmObservation \ {"error"} : \E n \in NodeViews(mem[c], vm) :
                mem' = [mem EXCEPT ![c].vm = vm, ![c].nodes = n]
          /\ Goto(c, "save")
          /\ UNCHANGED <<lock, cmd, child, backup>>
    /\ UNCHANGED <<hostVars, vmDir, disks, recipe, loaded, saved>>

\* The next command id is taken, the event appended and runtime.json replaced.
Save(c) ==
    /\ pc[c] = "save"
    /\ \/ /\ mem[c].clock < MaxClock
          /\ saved' = [mem[c] EXCEPT !.clock = @ + 1]
       \/ UNCHANGED saved
    /\ Return(c)
    /\ UNCHANGED <<hostVars, vmDir, disks, recipe, loaded>>

--------------------------------------------------------------------------------
(***************************************************************************)
(* Source edits: the Nodes editor ("edit"), write_project_source ("write") *)
(* and add_node_include or add_script_include ("include").                 *)
(***************************************************************************)

\* Stale forms and require_stopped_for_edit.
Guard(c) ==
    /\ pc[c] = "guard"
    /\ \/ Return(c)
       \/ /\ "stopped" \in VmObservation
          /\ Goto(c, IF cmd[c] = "edit" THEN "archive" ELSE "write")
          /\ UNCHANGED <<lock, cmd, mem, child, backup>>
    /\ UNCHANGED <<hostVars, vmDir, disks, recipe, loaded, saved>>

\* With the user's consent a prepared VM directory is renamed away, qemu.pid
\* included.
Archive(c) ==
    /\ pc[c] = "archive"
    /\ \/ Return(c) /\ UNCHANGED vmDir
       \/ /\ Goto(c, "write")
          /\ IF disk = NoDisk THEN UNCHANGED <<vmDir, backup>>
             ELSE /\ backup' = [backup EXCEPT ![c] = [pidfile |-> pidfile, disk |-> disk]]
                  /\ disk' = NoDisk
                  /\ pidfile' = NoFile
          /\ UNCHANGED <<lock, cmd, mem, child>>
    /\ UNCHANGED <<hostVars, disks, recipe, loaded, saved>>

\* The sources are replaced, or rolled back together with the VM directory.
Write(c) ==
    /\ pc[c] = "write"
    /\ Return(c)
    /\ \/ /\ recipe' \in ({recipe[1], recipe[1] + 1} \X {recipe[2], recipe[2] + 1}) \ {recipe}
          /\ recipe'[1] + recipe'[2] <= MaxRecipe
          /\ UNCHANGED vmDir
       \/ /\ IF backup[c].disk = NoDisk THEN UNCHANGED vmDir
             ELSE disk' = backup[c].disk /\ pidfile' = backup[c].pidfile
          /\ UNCHANGED recipe
       \/ UNCHANGED <<vmDir, recipe>>   \* the rollback fails as well
    /\ UNCHANGED <<hostVars, disks, loaded, saved>>

--------------------------------------------------------------------------------
(***************************************************************************)
(* The rest of the world.                                                  *)
(***************************************************************************)

\* A prelaunch VM begins to run; a running one meets an I/O or internal error.
QemuMoves(p) ==
    /\ Live(p)
    /\ \/ proc[p].run = "prelaunch" /\ proc' = [proc EXCEPT ![p].run = "running"]
       \/ proc[p].run = "running" /\ proc' = [proc EXCEPT ![p].run = "fault"]
    /\ UNCHANGED <<ctlVars, ticks, boot, lost, vmDir, disks, recipe, loaded, saved>>

QemuExits(p) ==
    /\ Live(p)
    /\ proc' = [proc EXCEPT ![p].kind = "zombie", ![p].run = "none"]
    /\ lost' = lost \ {p}
    /\ UNCHANGED <<ctlVars, ticks, boot, vmDir, disks, recipe, loaded, saved>>

\* A zombie's pid is free once its parent has waited for it: the reaper thread
\* after a boot, init after a crash, a failed boot itself in Kill.
Reap(p) ==
    /\ proc[p].kind = "zombie"
    /\ \A c \in Controller : child[c] # p
    /\ proc' = [proc EXCEPT ![p] = FreeSlot]
    /\ UNCHANGED <<ctlVars, ticks, boot, lost, vmDir, disks, recipe, loaded, saved>>

ForeignProcess == [kind |-> "foreign", ticks |-> ticks + 1, run |-> "none",
                   gen |-> 0, conf |-> NoRecipe, synced |-> TRUE]

\* Unrelated programs take and release process ids.
ForeignStarts(p) ==
    /\ proc[p].kind = "free"
    /\ ticks < MaxTicks
    /\ ticks' = ticks + 1
    /\ proc' = [proc EXCEPT ![p] = ForeignProcess]
    /\ UNCHANGED <<ctlVars, boot, lost, vmDir, disks, recipe, loaded, saved>>

ForeignExits(p) ==
    /\ proc[p].kind = "foreign"
    /\ proc' = [proc EXCEPT ![p] = FreeSlot]
    /\ UNCHANGED <<ctlVars, ticks, boot, lost, vmDir, disks, recipe, loaded, saved>>

\* The controller's process dies.  The kernel drops its lock; its QEMU child is
\* in a process group of its own and survives.  The process that takes its place
\* loads the project anew.
Crash(c) ==
    /\ pc[c] # "idle"
    /\ Return(c)
    /\ lost' = IF pc[c] \in {"record", "kill"} /\ Live(child[c]) /\ pidfile # Id(child[c])
                 THEN lost \cup {child[c]} ELSE lost
    /\ loaded' = [loaded EXCEPT ![c] = recipe[1]]
    /\ UNCHANGED <<proc, ticks, boot, vmDir, disks, recipe, saved>>

HostReboots ==
    /\ boot < MaxBoots
    /\ boot' = boot + 1
    /\ ticks' = 0
    /\ proc' = [p \in Pid |-> FreeSlot]
    /\ lost' = {}
    /\ lock' = NoController
    /\ pc' = [c \in Controller |-> "idle"]
    /\ cmd' = [c \in Controller |-> "status"]
    /\ mem' = [c \in Controller |-> InitialRuntime]
    /\ child' = [c \in Controller |-> NoPid]
    /\ backup' = [c \in Controller |-> NoBackup]
    /\ loaded' = [c \in Controller |-> recipe[1]]
    /\ UNCHANGED <<vmDir, disks, recipe, saved>>

\* The user removes a bare-number pid file after stopping the old VM.
RemoveLegacyFile ==
    /\ pidfile = LegacyFile
    /\ \A p \in Pid : ~Live(p)
    /\ pidfile' = NoFile
    /\ UNCHANGED <<ctlVars, hostVars, disk, disks, recipe, loaded, saved>>

--------------------------------------------------------------------------------
\* The steps a controller takes once it holds the lock.
Work(c) ==
    \/ Observe(c) \/ Prepare(c) \/ Rename(c)
    \/ Spawn(c) \/ Record(c) \/ AwaitRunning(c) \/ AwaitGuest(c) \/ Provision(c)
    \/ Kill(c) \/ Cleanup(c)
    \/ Shutdown(c) \/ Wake(c) \/ Sync(c) \/ QmpQuit(c) \/ AwaitExit(c)
    \/ Check(c) \/ Exec(c) \/ Final(c) \/ Save(c)
    \/ Guard(c) \/ Archive(c) \/ Write(c)

Control(c) ==
    \/ Load(c)
    \/ \E k \in Commands : Begin(c, k)
    \/ Work(c)
    \/ DeadlinePasses(c)
    \/ Crash(c)

Environment(p) ==
    QemuMoves(p) \/ QemuExits(p) \/ Reap(p) \/ ForeignStarts(p) \/ ForeignExits(p)

Next ==
    \/ \E c \in Controller : Control(c)
    \/ \E p \in Pid : Environment(p)
    \/ HostReboots
    \/ RemoveLegacyFile

Spec == Init /\ [][Next]_vars

\* Labels at which a controller connects to QEMU or the guest with no deadline
\* that would end the attempt.
ConnectLabels == {"observe", "readyLate", "guestLate", "provision", "wake", "sync",
                  "quit", "check", "exec", "final", "guard"}

\* The calls that may never return: qemu-img, the wait for a killed child, and
\* connecting to the socket of a QEMU that no longer accepts.
Unanswered(c) ==
    \/ pc[c] \in {"prepare", "kill"}
    \/ pc[c] \in ConnectLabels /\ Tracked

\* A controller that runs takes its next step unless it waits in one of those
\* calls, and its deadlines pass.
FairSpec ==
    /\ Spec
    /\ \A c \in Controller :
          WF_vars(~Unanswered(c) /\ Work(c)) /\ WF_vars(DeadlinePasses(c))

--------------------------------------------------------------------------------
(***************************************************************************)
(* Safety.                                                                 *)
(***************************************************************************)

\* Every variable has the values the code can give it.
CtlType ==
    /\ lock \in Controller \cup {NoController}
    /\ pc \in [Controller -> Labels]
    /\ cmd \in [Controller -> AllCommands]
    /\ mem \in [Controller -> Runtime]
    /\ child \in [Controller -> Pid \cup {NoPid}]
    /\ backup \in [Controller -> VmDir]

HostType ==
    /\ proc \in [Pid -> Process]
    /\ ticks \in Nat /\ boot \in Nat
    /\ lost \subseteq Pid

FileType ==
    /\ pidfile \in Identity \cup {NoFile, LegacyFile}
    /\ disk \in Disk
    /\ disks \in Nat /\ recipe \in (Nat \ {0}) \X (Nat \ {0})
    /\ loaded \in [Controller -> 1..recipe[1]]
    /\ saved \in Runtime

TypeOK == CtlType /\ HostType /\ FileType

\* Verification never accepts another program: the process a pid file is
\* verified against is the QEMU it was written for, across pid reuse and host
\* reboots (ProcessIdentity).
TrackedIsVm == Tracked => Live(pidfile.pid)

\* A QEMU process is forgotten in one way only: its controller dies between the
\* spawn and the write of qemu.pid, or with that write failed and the child not
\* yet killed.  Every other one is tracked by qemu.pid, or is the child of a
\* controller that still holds its handle (boot, shutdown, editor::apply).
NoVmForgotten ==
    \A p \in Pid \ lost : Live(p) =>
        \/ pidfile = LegacyFile
        \/ pidfile = Id(p)
        \/ \E c \in Controller : child[c] = p /\ pc[c] \in {"record", "kill"}

\* One project runs inside one VM, crash orphans aside (project_lock together
\* with the checks of boot, prepare_vm and editor::apply).
OneVm == \A p, q \in Pid \ lost : Live(p) /\ Live(q) => p = q

\* Runtime metadata that is about to be saved as "stopped" describes a VM that
\* is gone, whatever happened since it was observed (QemuRuntime::execute).
StoppedIsTrue ==
    \A c \in Controller : pc[c] = "save" /\ mem[c].vm = "stopped" => ~Tracked

\* When a boot succeeds with a guest bundle, the guest runs the recipe of the project
\* file the caller had loaded with the node files as they are, and its disk has
\* stored that one for the next boot.  The project file may be an older one if it
\* was replaced while the caller waited for the lock, but the guest never runs what
\* else its disk had before (guest::provision, Backend.initialize).
BootDelivers ==
    \A c \in Controller :
        pc[c] = "final" /\ cmd[c] = "boot" /\ HasInitrd /\ Tracked
            => proc[pidfile.pid].conf = Sent(c) /\ disk.conf = Sent(c)

\* Sources and guest disks change only while no VM is tracked
\* (require_stopped_for_edit under the project lock).
EditsOnlyWhenStopped ==
    [][(recipe' # recipe \/ disk'.gen # disk.gen) => ~Tracked]_vars

\* Metadata is replaced by the next command's only: nothing is lost to a
\* concurrent controller (project_lock around load and save).
RecordedInOrder == [][saved' # saved => saved'.clock = saved.clock + 1]_vars

\* A guest with a bundle is told to quit only after its nodes stopped and its
\* volume was synced, and no node started since (shutdown).
QuitsOnlyWhenSynced ==
    [][\A p \in Pid : proc'[p].run = "quitting" /\ proc[p].run # "quitting"
            => ~HasInitrd \/ proc[p].synced]_vars

(***************************************************************************)
(* The inductive invariant behind the safety properties.                   *)
(***************************************************************************)

\* Only the holder of the project lock is inside a command.
LockInv == \A c \in Controller : pc[c] # "idle" => lock = c

\* A process identity that no process to come will have.
Old(f) == f \in Identity => f.boot < boot \/ (f.boot = boot /\ f.ticks <= ticks)

\* Pid files name processes of the past or present, and never a foreign one.
StampInv ==
    /\ Old(pidfile)
    /\ \A c \in Controller : Old(backup[c].pidfile)
    /\ \A p \in Pid : /\ proc[p].ticks <= ticks
                      /\ proc[p].kind = "foreign" =>
                            /\ Id(p) # pidfile
                            /\ \A c \in Controller : Id(p) # backup[c].pidfile

\* A controller holds a child's handle exactly while it boots.
HandleInv == \A c \in Controller : child[c] # NoPid <=> pc[c] \in BootLabels

\* The child is a process nobody else has taken, started from the present disk.
ChildInv ==
    \A c \in Controller :
        child[c] # NoPid => /\ proc[child[c]].kind \in {"qemu", "zombie"}
                            /\ proc[child[c]].gen = disk.gen
                            /\ proc[child[c]].conf = disk.conf
                            /\ child[c] \notin lost

NothingTracked == pidfile # LegacyFile /\ ~Tracked

\* What a controller at its label may rely on.
Phase(c) ==
    /\ pc[c] = "record" => NothingTracked /\ pidfile # Id(child[c])
    /\ pc[c] \in BootLabels \ {"record", "kill"} => pidfile = Id(child[c])
    /\ pc[c] = "kill" => NothingTracked \/ pidfile = Id(child[c])
    /\ pc[c] \in {"cleanup", "archive"} => NothingTracked
    /\ pc[c] = "write" /\ cmd[c] # "include" => NothingTracked
    /\ pc[c] \in {"wake", "sync", "quit", "exit"} => pidfile # LegacyFile
    /\ pc[c] \in {"observe", "prepare", "rename", "check", "exec"} => cmd[c] # "boot"
    /\ cmd[c] \in Commands \cup {"status"}

PhaseInv == \A c \in Controller : Phase(c)

\* The archived directory is never that of a VM, and only its editor has it.
BackupInv ==
    \A c \in Controller :
        backup[c].disk # NoDisk =>
            /\ pc[c] = "write" /\ pidfile = NoFile /\ disk = NoDisk
            /\ backup[c].pidfile # LegacyFile /\ ~Verified(backup[c].pidfile)

\* A VM has a disk.
DiskInv ==
    /\ disk.gen = 0 => disk = NoDisk /\ NothingTracked
    /\ \A c \in Controller :
          /\ backup[c].disk.gen = 0 => backup[c].disk = NoDisk
          /\ pc[c] = "rename" => disk = NoDisk
          /\ pc[c] \in BootLabels => disk.gen # 0

\* A live QEMU is in one of its run states.
RunInv == \A p \in Pid : Live(p) => proc[p].run # "none"

\* The orphans are alive.
LostInv == \A p \in lost : Live(p)

\* The loaded metadata stays current until it is saved.
LoadedInv == \A c \in Controller : pc[c] # "idle" => mem[c].clock = saved.clock

\* The guest that is about to be told to quit has stopped its nodes.
SyncedInv ==
    \A c \in Controller :
        pc[c] = "quit" /\ HasInitrd /\ Tracked => proc[pidfile.pid].synced

\* All of it holds in every reachable state and is preserved by every step of
\* QemuRuntime::execute, of the editor and of their environment.
IInv == /\ TypeOK /\ HandleInv /\ LockInv /\ StampInv /\ ChildInv /\ PhaseInv /\ BackupInv
        /\ DiskInv /\ RunInv /\ LostInv /\ LoadedInv /\ SyncedInv
        /\ NoVmForgotten /\ OneVm /\ StoppedIsTrue /\ BootDelivers

(***************************************************************************)
(* Refinement: the verified VM, its disk, the sources and the journal       *)
(* behave like ProjectVm.                                                  *)
(***************************************************************************)

Vm == INSTANCE ProjectVm WITH
    VmIds  <- Identity,
    NoVm   <- NoFile,
    vm     <- IF Tracked THEN pidfile ELSE NoFile,
    run    <- IF Tracked THEN proc[pidfile.pid].run ELSE "off",
    disk   <- disk.gen,
    stored <- disk.conf,
    clock  <- saved.clock

\* The step-by-step program implements the abstract machine: no identity is
\* exchanged for another without an off state between, sources and disks change
\* only in the off state, a disk's recipe is written once.
ImplementsProjectVm == Vm!Spec

(***************************************************************************)
(* What the documentation promises and the code does not keep.             *)
(***************************************************************************)

\* "Each project must execute inside exactly one dedicated QEMU VM"
\* (docs/project-spec.md:107), with crash orphans counted.
SingleVm == Cardinality({p \in Pid : Live(p)}) <= 1

\* "Running and paused simulations cannot be edited" (README.md:80).
RunningNotEdited == [][recipe' # recipe => ~Tracked]_vars

(***************************************************************************)
(* Liveness.                                                               *)
(***************************************************************************)

\* Whatever QEMU and the guest do, a controller gives the lock back, unless it
\* stays for good in one of the calls that have no deadline (UnixStream::connect
\* in qmp.rs and guest.rs, output() of qemu-img, child.wait).
LockReleased ==
    \A c \in Controller : lock = c ~> (lock # c \/ []Unanswered(c))

================================================================================
