# A verification development of sim-rns

sim-rns is a desktop simulator for Reticulum networks.  A *project* is a
directory with a recipe (templates, nodes, networks, assets) and one QEMU
virtual machine that runs the recipe's nodes under a small guest agent.  The
program has no database and no server: several processes (the GTK application
and its worker threads, the `sim-rns-ctl` command line, the MCP bridge through
the application) act on the same directory.  What keeps them from harming each
other is a file lock, a pid file that holds a process identity, atomic file
replacement, and checks made under the lock.  The modules here describe these
mechanisms, TLC checks them on small instances, and TLAPS proves what matters
most for every value of the constants.

Source paths below are relative to `src/`.  `PROJECT.json` names, for every
definition that stands for code, the file and lines it translates.

## 1. Inventory of the system

| Component | Code | State it keeps | Operations |
|---|---|---|---|
| VM lifecycle | `sim-rns-core/src/runtime.rs` (`QemuRuntime`), `qmp.rs`, `persistence.rs` | `.sim-rns/project.lock`, `vm/qemu.pid`, `vm/disk.qcow2`, sockets, the QEMU process, `.sim-rns/runtime.json` | `status`, `execute(PrepareVm, Boot, Shutdown, Pause, Resume, StartNode, StopNode, ...)` |
| Runtime metadata | `runtime.rs` (`FileBackedRuntime`, the tests' backend; `QemuRuntime` shares the file) | `runtime.json`: node states, events (at most 100), snapshots, topology overlay | load, reconcile with the recipe, record, save |
| Project sources and Nodes editor | `sim-rns-core/src/lib.rs`, `editor.rs` | recipe and template files, includes, the VM directory while it is archived | `write_project_source`, `add_node_include`, `add_script_include`, `editor::apply` |
| Recipe parsing and validation | `lib.rs` | none | parse, include, validate |
| Guest agent | `guest/agent.py` (`Backend`) | recipe in memory and on the data volume, children, stopped set, backoff | initialize, start, stop, restart, shutdown, supervise |
| Guest channel | `sim-rns-core/src/guest.rs`, `agent.py` main loop | bytes in flight, request ids | request with timeout, status |
| UI runtime state | `sim-rns-plugin/src/lib.rs`, `runtime_store.rs`, `node_editor.rs` | open project, shown status, generation, pending refresh, running operation | open, close, refresh, begin/finish an operation |
| Control endpoint | `sim-rns-app/src/control.rs`, `sim-rns-control` | unix socket, client count, request queue | request, call, time out |
| Application session | `sim-rns-app/src/main.rs`, `lib.rs` | open project, recent projects | open, switch, quit |
| MCP bridge | `sim-rns-mcp/src/main.rs` | connection to the application | launch, call |
| Command line | `sim-rns-core/src/bin/sim-rns-ctl.rs` | none | one command per process |
| GTK views | `sim-rns-plugin`, `sim-rns-app` | widgets | display |
| Guest image, node program | `guest/build.py`, `guest/rns_node.py` | image files | build |

**How they interact.**  A controller is a process or a worker thread that calls
`QemuRuntime`.  It takes the project's file lock, loads the recipe and
`runtime.json`, talks to QEMU over the QMP socket and to the guest agent over a
serial line (an ISA UART behind a unix socket), and replaces `runtime.json` before
it gives the lock back.  It has parsed the project file into a *Project* before it
waits for the lock; under the lock it uses that and reads the node files again.  The
guest agent is process 1 of the VM: it answers one request at a time and
supervises the nodes between requests.  The application runs every command on
a worker thread and takes the result on GTK's main thread, where it may find
that the user has moved to another project; the MCP bridge reaches the same
operations through the application's control socket.

**What is hard.**

* *Interleaving*: controllers in different processes; QEMU and the host's
  process table change between any two steps of a controller; a UI callback
  runs long after the call that caused it.
* *Crashes*: a controller may be killed between any two steps, the host may
  reboot and reuse process ids and start times, the VM may lose power.
* *Partial failure*: a request may fail with or without having had its effect;
  a boot fails after QEMU was spawned; an edit fails after the VM directory was
  renamed away; a guest stores a recipe and then cannot start a node.
* *Stale state*: `qemu.pid` outlives its process; a Project is loaded before the
  lock is waited for and used after; a status observed before a command is shown
  after it; a scheduled restart outlives its cause.
* *Timeouts*: every wait for an answer of QEMU or the guest has a deadline, and what
  is waited for may happen just after it; connecting to them, `qemu-img` and the wait
  for a killed child have none.

**What makes each component correct.**

* VM lifecycle: one VM per project; the VM is never lost track of; another
  program is never taken for it; edits wait until it is gone; after a boot the
  guest runs the recipe its caller sent; nothing is turned off before it is synced;
  metadata is not lost between controllers; the lock is given back, whatever does not
  answer.
* Sources and editor: sources and VM directory change together or not at all,
  and only without a VM; a crash between two writes leaves a project that loads;
  a save overwrites nothing that its form has not shown, and nothing of the user's;
  what the editor accepts the guest accepts.
* Guest agent: what the host stops stays stopped; what fails is restarted, after
  its backoff; an accepted recipe survives; after shutdown nothing writes.
* Guest channel: an answer belongs to its request; a late one is never taken
  for another's; a request that timed out is executed at most once and never after
  a later one; one that was cut off spoils one other at most, and besides only what
  arrives before the agent listens is lost.
* UI runtime state: one operation at a time; what is shown is the open
  project's and never older than what was shown before; after an operation its
  effect is shown.
* Control endpoint: one application per socket, however the others start and die;
  a caller may believe the answer it gets; connection threads are not used up.
* Runtime metadata: bounded events in order, ids that are never reused, an overlay
  that means what it was last told, through edits of the recipe.
* Recipe validation: three sets of rules, in the editor, in the recipe and in the
  guest, agree where a user relies on it.

`PROJECT.json` lists the hazards one by one, each at its line and with the
properties that cover it.

## 2. Modules

| Module | What it is | Proofs |
|---|---|---|
| `ProjectVm` | abstract specification of a project's VM: no locks, steps or failures | |
| `VmLifecycle` | the VM lifecycle step by step: controllers, QEMU, host, files; implements `ProjectVm` | `VmSafetyProofs` (types, invariant, safety), `VmRefinementProofs` |
| `RemoteCall` | abstract specification of asking another program to do something: no connections, queues or deadlines | |
| `GuestBackend` | the guest agent, its nodes and its volume | `GuestBackendProofs` |
| `GuestChannel` | the line between host and agent: requests, chunks, answers, deadlines; implements `RemoteCall` | `GuestChannelProofs` |
| `UiRuntime` | operation slot, worker threads and displayed state of the application | `UiRuntimeProofs` |
| `ControlEndpoint` | the application's control socket: who owns it, threads, queue, launches; implements `RemoteCall` | `ControlEndpointProofs` |
| `Recipe` | what the files of a project mean and which of them load, as operators | |
| `ProjectSources` | the sources file by file and everything that edits them; uses `Recipe` | `ProjectSourcesProofs` |
| `RuntimeMetadata` | `runtime.json`: events, clock, snapshots, overlay, and edits of the recipe | `RuntimeMetadataProofs` |
| `MCVmLifecycle`, `MCGuestBackend`, `MCGuestChannel`, `MCControlEndpoint`, `MCProjectSources`, `MCRuntimeMetadata` | instances for TLC: symmetry and constants that a `.cfg` cannot write | |

**How they fit together.**  `VmLifecycle` has the interleaving of locked sections
and takes what is inside a section of files as two version numbers; `ProjectSources`
opens that section up, one file write at a time, and takes the VM as *running or
not, with a disk or not*.  `RuntimeMetadata` is the content of the file that
`VmLifecycle` loads and saves by stamp; `RecordedInOrder` there is why each command
is one step here.  `GuestChannel` carries requests whose execution is
`GuestBackend`'s, `ControlEndpoint` requests whose execution is `UiRuntime`'s; both
are shown to implement the same abstract `RemoteCall`: a call is executed at most once,
and its caller knows *open*, *result*, *refused* or *unknown* of it, of which only the
first and the last leave an execution possible.

Definitions introduced by a comment *Deviation:* are what the code would be
with a plausible bug (a dropped check, a missing reset, a swapped order).  They
are no part of any specification; putting one in the place of the operator they
deviate from makes TLC violate the property that guards against the bug, which
is how each property was tested.

### 2.1 VmLifecycle

One project directory and the controllers that act on it.  `Controller` stands
for every process or worker thread that calls `QemuRuntime` or the editor; each
has a label `pc`, the command it executes, the runtime state it loaded (`mem`),
the child handle it holds and the directory it archived.  The step between two
labels is a piece of code whose effect on the outside happens at one point:
one file replaced, one QMP or guest exchange, one observation.

| Model | Code |
|---|---|
| `loaded`, `Load`, `Sent` | the caller's `Project` (`load_project` before the lock); `project_recipe`, which takes the project file from it and reads the node files again |
| `lock`, `Begin`, `Return` | `project_lock` (`persistence.rs`), taken by `execute`, `status`, `editor::apply`, `write_project_source`, the include functions |
| `pidfile`, `Id`, `Verified` | `vm/qemu.pid`, `ProcessIdentity`, `qemu_process_is_running`: pid, start time and boot id must all agree |
| `proc`, `ticks`, `boot` | the host's process table; pids are reused, start times begin again after a reboot |
| `VmObservation`, `Reported` | `observed_vm_state`: a channel that fails, a QEMU state that is neither running nor paused, a legacy pid file |
| `Prepare`, `Rename` | `prepare_vm` |
| `Spawn`, `Record`, `AwaitRunning`, `AwaitGuest`, `Provision`, `Kill`, `Cleanup` | `boot`, `guest::provision`, `cleanup_stale_vm_files` |
| `Shutdown`, `Wake`, `Sync`, `QmpQuit`, `AwaitExit` | `shutdown`, `wait_for_qemu_exit` |
| `Check`, `Exec` | `pause`, `resume`, node commands |
| `Final`, `Save` | observation after the command and replacement of `runtime.json` |
| `Guard`, `Archive`, `Write` | `require_stopped_for_edit`, the archive of the VM directory, the sources and their rollback |
| `QemuMoves`, `QemuExits`, `Reap`, `ForeignStarts`, `ForeignExits`, `Crash`, `HostReboots` | the world: nothing in the code controls when they happen |

A recipe is a pair of version numbers, of the project file and of the node files, a disk
is one number; what matters about them is whether two are the same.  `Load` may come at
any time before `Begin`, so that a controller that waited for the lock has a project file
as old as that wait, or as the control request or the run of three sections it belongs to.
`Sent` is then a mixture of an older project file and present node files, which the code
sends as it is if it validates.  A request on a channel may fail with or without its
effect. Waits are two labels each (`ready`/`readyLate`, `guest`/`guestLate`): before and
after the deadline.  A guest's `recipe.json` is taken to be stored once it has been
written; the seconds in which a power cut could undo the rename are in `GuestBackend`.

### 2.2 GuestBackend

`guest/agent.py` is one thread, so a request is one action: `Initialize` with
its failures at each point (an unsupported recipe, the n-th element or network
that cannot be built, a recipe that cannot be stored, the n-th node that cannot
be started), `StartNode`, `StopNode`, `RestartNode`, `Shutdown`.  `Supervise` is
one round of `Backend.supervise`.  `PowerOn` is `Backend.__init__`, which builds
and starts what a stored recipe says.  `Off` is a power cut, a kernel panic, a
killed QEMU or the death of process 1.  `Tick` is a second; `backoff` counts the
seconds of `restart_after` that are left.  `stored`, `durable` and `dirty` are
the volume: `recipe.json` is renamed into place without a sync, so it may be
gone after a power cut until the file system commits its journal.  A node's
child may leave processes behind (`strays`).  `wish`, `halted` and `downFor` are
history variables.

The host sends `initialize` once in a boot, because `QemuRuntime::boot` kills the
machine when the request fails; later boots of the same volume send it again.

### 2.3 UiRuntime

The main thread's state is the published snapshot, the generation and the pending refresh
(`ui`), and the open project (`active`); each action is one turn of the main loop or one
step of a worker thread.  What a status query would report about a project is a version
number, incremented by the application's own operations and by anybody else.  `Begin` is
the start of every operation: `spawn_runtime_command` (toolbar), `runtime` and `project`
(control requests), `submit` (Nodes editor) and the creation dialog.  They share
`begin_operation`/`is_busy` and differ in how they end: the toolbar publishes the status
its worker loaded (the project file shown with it is the one loaded before the command;
`version` is that of machine and nodes), the others release the slot by refreshing the
store, and project requests then open or close a project.  `Open` and `Close` contain the
installed opener and closer, including the shell that fails to switch; `RefreshAsync` and
`RefreshStore` are the functions of those names as operators from one UI state to the
next, composed the way the callbacks call them.

### 2.4 GuestChannel

Both ends of one serial line (`ttyS1` in the guest, an `isa-serial` device on a unix
socket outside).  A request is written in chunks, the last of which
ends with the newline (`Write`); `Timeout` may cut it off anywhere, and QEMU gives
the line to the next connection of its backlog when the first one closes
(`Disconnect`, `line`).  The agent reads what there is (`Read`), clears a buffer
that is too long, executes one line at a time (`Serve`) and writes its answer in
two parts to whoever has the line by then (`WriteAnswer`), so that `TakeAnswer` meets
answers, and halves of answers, that belong to others.  `Restart` is a new machine
on the same socket path.  The machine takes connections before the agent listens: `Flush`
throws away what has arrived by the time of `tty.setraw`, also the first part of a
request whose rest comes later, until `Ready`.  A request that the terminal echoes
before that ends like one that times out, which `Timeout` may do at any time.
`connected`, `executed`, `lost` and `flushed` are history variables.
A `connected` request has its place in QEMU's backlog; two requests of one host
process or of several make no difference.

What QEMU does with a closed connection is not in this code (`Disconnect`): its
data may be read to the end or dropped, connections are served in their order.  A
connection to a full backlog blocks without a deadline; it has not begun here.  Ids
of requests (process id and nanoseconds) are taken to be unique.

### 2.5 ControlEndpoint

An application's endpoint thread is `TakeLock`, `RemoveStale`, `Bind`, `Stop`, `Unlink`,
`Release`: five places where the process may end (`Exit`, `Die`, or `Deadline`, the
launcher that kills its child after fifteen seconds, perhaps when another client already
uses it).  The second of two applications runs on without an endpoint, and so does one
whose `bind`, or what follows it, fails: in the latter case the path is left to a socket
that nobody serves (`Bind`), for the next one to remove.  A call is a connection with
one request: `Accept` refuses it at the limit of threads, `Receive` at the limit of the
queue, `Dispatch` is one tick of the main loop, which finds the slot taken, or refuses
for another reason, such as no open project; `Timeout` is the thread's 175 seconds,
`GiveUp` the caller's own deadline.  The five seconds of a thread that reads a request
are for each `read`, so that a slow sender lasts longer, up to the request's size limit.
An answer over four mebibytes becomes an error although the request was executed
(`Reply`).  `client` is what the caller may conclude: *result*, *refused*, or *unknown*
("operation may still be running").

### 2.6 Recipe and ProjectSources

`Recipe` reads a directory (a function from paths to contents) the way
`load_project` does: `Builds` and `RecipeOf` resolve includes and make elements of
node and script files, `validate_recipe` has the conditions of the function of that
name, `GuestAccepts` those of the agent's `initialize`.  A text is a record whose `kind`
says what it parses as: a project file, a node file or any other text, such as a script,
which is never read, or one that does not parse.  Lists whose order no rule is about
are bags of ids.

`ProjectSources` has an actor with a Nodes editor and others that send control
requests.  `OpenEditor`/`ReadSource` fill the form without the lock, file by file.
`Apply`, `AddNodeInclude`, `AddScriptInclude` and `WriteProjectSource` begin a locked
section whose writes are steps: `Archive`, `Write`, `WriteFails` (before the file is
replaced, or after, when the directory cannot be synced), `Check`, and in
`editor::apply` `Undo`, `RenameFails` (the archived directory does not come back) and
`Undone`.  `Crash` may come between any two.  `LoadForRun` is a run's `load_project`; its
locked sections, `PrepareVm` and `BootVm`, see the directory with the project file from
then (`Seen`), as often as it takes and whatever is saved in between; `StopVm` is a
shutdown.  What is inside these sections is `VmLifecycle`'s.  The form's edits are the values
that `FormNodes` allows: it may add, remove or change a node, its template, its
attachments, its command and whether it is enabled, and it may change a script.

Files are written in the order of a sorted map (`WriteOrder`, `Turn`).  The paths that the
program itself makes, under `nodes/` and `scripts/`, sort before `sim-rns.project.json`,
and this is all that the assumption on the constants says; an include written by hand, say
`tools/x.json`, comes after it, as the LAN's file does in the instance.  A save of such a
file that is cut off is an exception of `LoadableWhenFree` (`Late`, see 4).  A project
file is taken not to name a path both as a node and as a script (`IsProject`): nothing in
the program writes such a file, and one written by hand would need the extension of a
script and the text of a node.  The restoring of a file that was new is a removal, which
fails when the write never came to it; the code reports that failure and goes on, and the
model takes it for done.

### 2.7 RuntimeMetadata

The commands are those of `FileBackedRuntime`, which only the tests use: `QemuRuntime`
shares the file with its events, clock and reconciliation, and refuses snapshots and the
overlay.  One command is one step, because the project lock covers it from load to save:
`Current` is what a command finds when it loads the file, reconciled with the recipe of
its caller, and `Commit` what it saves, with a save that may fail.  The caller's Project
may be an older one (`LoadProject`, `projects`), with node files as they are
(`project_recipe`): `Held` is the set of recipes a command may come with.  `EditRecipe` is
any other recipe of a set.  Ids of commands are the clock's next value, which stands
still at its maximum; the hundred events and the clock's maximum are constants. `wish`
remembers what was last asked for each link, `replies` the ids of accepted
commands.  A snapshot's id is the millisecond and the clock's value at which it was made;
its number in the model counts snapshots from the oldest, where the code has them
newest first.

## 3. Runs

| Run | Question | States, time |
|---|---|---|
| `vm_safety` | two controllers, every lock-checked command, Projects loaded before the lock, crashes: `NoVmForgotten` `OneVm` `StoppedIsTrue` `BootDelivers` `RecordedInOrder` `QuitsOnlyWhenSynced` `ImplementsProjectVm` | 2,060,000, 160 s |
| `vm_recovery` | one controller, crashes, a host reboot, pids and start times reused: `TrackedIsVm`, and `LockReleased` under fairness | 100,000, 21 s |
| `vm_orphan` | violated: one VM at a time, crash orphans counted (`SingleVm`) | |
| `vm_include` | violated: recipes of a running VM are not edited (`RunningNotEdited`) | |
| `guest` | two recipes, a network, a supervised node and a disabled one, two boots: `StopSticks` `QuietAfterShutdown` `AcceptedIsStored` `RecipeKept` `BackoffKept`, and `KeptRunning` under fairness | 34,000, 8 s |
| `guest_forks` | violated: shutdown leaves no process (`ShutdownStopsProcesses`) | |
| `ui` | two projects, two worker threads, two turns, two versions of each project: `OneOperation` `ProjectPinned` `ShownIsActive` `EffectShown` `NeverBackwards`, and `OperationEnds` `EventuallyShown` under fairness | 57,000, 18 s |
| `sources` | an editor and a program that sends control requests and runs the project, two saves, two failing writes, one crash, an included file after the project file: `LoadableWhenFree` `DiskMatchesSources` `CustomFilesKept` `FailedSaveRestores` `NoLostUpdate` `GuestTakesEdits` | 750,000, 120 s |
| `metadata` | every metadata command between edits to three recipes, a caller with an older Project, one failing save: `RepliesIncrease` `NewestEventsKept` `SnapshotsDistinct` `OverlayHonoured` | 811,000, 170 s |
| `endpoint` | two applications, one of them launched, two calls, one thread, a queue of one, one crash: `LiveEndpointKept` `EndpointImplementsCalls`, and `ThreadsEnd` under fairness | 663,000, 48 s |
| `channel` | three requests, one of two chunks, the agent's start, a restart: `AnswerIsOwn` `LateInOrder` `LostAfterInterruption` `ChannelImplementsCalls` | 1,127,000, 80 s |
| `channel_limit` | violated: a request the host sends is not thrown away (`LostAfterInterruption`, a request of the host's limit) | |

**What the properties say.**

* `NoVmForgotten`, `OneVm`, `TrackedIsVm`, `StoppedIsTrue`: every live QEMU is
  named by `qemu.pid` or held by the controller that is booting it; there is
  only one; a verified pid file never names another program; metadata saved as
  *stopped* is true.  The exception is in `lost`: a controller that dies between
  spawn and record.
* `BootDelivers`, `RecordedInOrder`, `QuitsOnlyWhenSynced`: a successful boot leaves
  guest and disk with the recipe its caller sent, never with another that the disk had
  stored (it is not always the project's recipe of the moment, see 4); each save
  continues the metadata that was saved last; a guest is told to quit only after it
  synced.
* `LockReleased`: the lock is given back whatever QEMU and the guest do, or a controller
  stays for good in one of the calls without a deadline: `UnixStream::connect` to a QEMU
  whose backlog is full, `qemu-img`, the wait for a killed child (`Unanswered`).
* `ImplementsProjectVm`: the verified VM, its disk, the sources and the journal
  behave like the seven-action machine of `ProjectVm`, where a disk stores one recipe,
  once, with the present node files and a project file that the project has or had.
* `StopSticks`, `BackoffKept`, `KeptRunning`: the supervisor neither restarts what
  the host stopped, nor too early, nor never.
* `AcceptedIsStored`, `RecipeKept`, `QuietAfterShutdown`: the volume has an accepted
  recipe and never exchanges it for another (a power cut within the journal's interval
  may lose it, and a fresh volume takes any); after a shutdown nothing writes.
* `OneOperation`, `ProjectPinned`, `OperationEnds`: operations do not overlap, do not
  lose their project, and release the slot.
* `ShownIsActive`, `EffectShown`, `NeverBackwards`, `EventuallyShown`: what is shown is
  the open project's, includes the last operation's effect, never goes back, and
  comes.
* `LoadableWhenFree`, `FailedSaveRestores`, `DiskMatchesSources`: whenever the lock is
  free the project loads; a save of the editor that fails after its first write and reports
  no rollback error has changed nothing; a disk in place belongs to the sources it was
  initialized from, but for the project file of a run that had loaded it before it was
  replaced.  The exceptions are named in `window` (a rewritten text that was not
  validated, a cut-off save with an include that sorts after the project file) and
  `drift` (another program changed the sources of a prepared disk, which `vm_include` is
  about).  An include or a plain rewrite that fails restores less: see `AddNodeInclude`,
  `WriteProjectSource` and 4.
* `NoLostUpdate`, `CustomFilesKept`: a form read minutes ago overwrites only what it
  has shown; files that no include names are the user's.  What the user writes to a path
  between the search for a free name and the write is not covered.
* `GuestTakesEdits`: a save by the editor does not turn a recipe that the guest takes
  into one it refuses.
* `RepliesIncrease`, `NewestEventsKept`, `SnapshotsDistinct`: ids grow through dropped
  events and failing saves; the file has the last events in order; two snapshots
  never share an id, although they share a millisecond, until the clock stands still.
* `OverlayHonoured`: a link is in the effective topology after it was added, and not
  after it was removed, whatever was edited, snapshotted and restored in between, as long
  as the commands come from callers whose recipe has its two elements; one from a caller
  with a Project from before an element was added drops its links (see 4).
* `LiveEndpointKept`, `EndpointImplementsCalls`, `ThreadsEnd`: the path names the
  application that serves; calls behave like those of `RemoteCall`, so that *refused*
  means not executed, now or later, and *result* executed once; the sixteen threads are
  not used up by a hanging main loop or by callers that are gone.
* `AnswerIsOwn`, `LateInOrder`, `LostAfterInterruption`: see the guest channel in 1.
  `ChannelImplementsCalls`: requests behave like calls of `RemoteCall`, where only a
  client without a connection knows that its request was refused, and one that timed out
  or was cut off, or lost its machine, knows nothing.

**Bounds.**  Two controllers are what a race needs; each command is a single locked
section, so a third adds only a repetition.  Two pids let a process and its successor,
or a VM and an orphan, exist at once, and let a pid be reused.  `MaxTicks` 3 allows a
VM, its replacement and a foreign process in one boot; `MaxBoots` 1 is enough for a pid
file from the boot before; `MaxDisks` 2 for an old and a new one (the initial disk
counts as the first); `MaxRecipe` 3, the sum of the two versions, for one edit of either
kind of file; `MaxClock` for two saves.  In the guest, `MaxFailures` 2 covers the first
delay and a different second one (2 and 4 seconds), and `MaxDown` 4 counts as long as
these last; two boots give a restored recipe; two recipes give a wrong one.  In the UI,
two turns allow an operation and a switch of projects or a second operation that makes a
refresh stale; two versions a change before and after.  In `sources`, two saves let a
form meet the other's change; two failing writes a failing rollback; `configs/c` is a
file of the user's that an asset names, `nodes/node-1` the path that a new node takes.
In `metadata`, two events and a clock of four reach both limits; with one time of day
all snapshots share a millisecond; a second caller, one with an older Project, is what
the reconciliation needs, next to the callers that have just loaded theirs, which are
not kept; the third recipe has an element that the other two have not. In `endpoint`,
one thread and a queue of one are at their limits with the second call; two applications
let a second one come while the first starts, serves or goes. In `channel`, a request
that is cut off, the one it spoils and one after it; a buffer of three chunks holds the
longest request with its newline (the two-chunk request is sent in three pieces) and
overflows with one piece of another before it; in `channel_limit` the long request has
the host's limit exactly.  The theorems need none of these bounds: they hold for every
value of the constants.

**Symmetry.**  `vm_safety`, `vm_orphan` and `guest_forks` use it (controllers, pids,
recipes are interchangeable and no liveness is checked there); the others do not.

**Deadlock** is checked except in `sources` and in the two channel runs: there a
state without a next step is one in which all saves, or all requests, of the bound
have been made and have ended, and nothing is left to do.

**Fairness.**  `VmLifecycle`: weak fairness of a controller's next step and of its
deadlines (a controller that runs executes its next statement; time passes), but not of
a step that may wait without a deadline: connecting to the socket of a VM that lives,
`qemu-img`, and `child.wait` (`Unanswered`).  Nothing is assumed of QEMU, the guest, or
of controllers that have not begun.  Crashes may happen at any time.  `GuestBackend`:
weak fairness of `Supervise` (the agent's loop goes round at least every half second,
with or without requests) and of `Tick`.  `UiRuntime`: weak fairness of worker threads,
completions, the refresh and the two-second timer: threads run, every call they make
returns (taken for granted: `LockReleased` says that the lock comes free unless somebody
stays in one of the calls without a deadline, and then operations of this project wait
too), and GTK's main loop serves its sources.  `ControlEndpoint`: weak fairness of a
connection thread's next step, reading and writing with its socket's deadlines and
waiting with the 175 seconds; nothing is assumed of the main loop, of operations or of
callers.  `GuestChannel` has none: a client may wait without a deadline for its
connection, the agent may hang.

## 4. What was found

* A controller that dies after spawning QEMU and before writing `qemu.pid`
  (`runtime.rs:608-620`) leaves a VM that nobody tracks.  QEMU's own image lock
  keeps a second VM off the same disk, but a fresh-guest edit makes a new disk,
  and then two VMs of a project run.  `docs/project-spec.md:107` calls one VM per
  project a hard rule.  Run `vm_orphan`.
* `add_node_include` and `add_script_include` (`lib.rs:983,1026`) do not ask whether
  the VM is stopped, against `README.md:80`.  Run `vm_include`.
* The guest's shutdown kills a node's process group only while the node's own
  process lives; a background process of a script survives and may write after
  the sync, against `README.md:70`.  Run `guest_forks`.
* The host refuses requests of more than 16 MiB (`guest.rs:40`) and then adds a
  newline; the agent clears a buffer of more than 16 MiB (`agent.py:226`).  A request
  of exactly 16 MiB is sent, thrown away and never answered.  Run `channel_limit`.

Observations of which the documents say nothing, or of which the models above are
deliberately silent:

* Stale Projects: every command works with a Project that was loaded before the lock was
  waited for (`sim-rns-plugin/src/lib.rs:331,949`, `control.rs:276`), of which the node
  files are read again.  After another program's save, a boot sends a recipe with the old
  project file; if the disk has stored another one the guest refuses it and the boot is
  undone; if the disk is a fresh one it stores the mixture, and later boots with the
  present project file are refused until an edit archives the disk (`BootDelivers` and
  `DiskMatchesSources` say exactly how far disk and sources may differ).  A command with
  an older Project also drops overlay links and node states of elements that were
  added since, for good (`OverlayHonoured`; the overlay's commands are the tests' backend's).
* VM and guest: a VM in a fault state is an error for every command, shutdown
  included; a node that cannot be started when a stored recipe is restored ends the
  VM on every boot.
* UI: a refresh that the overview starts while a project is being opened belongs to
  an outdated generation and is dropped, and the view then stays empty until the
  timer's next one.
* Sources: `write_project_source` replaces the text first and validates afterwards
  (`lib.rs:402`), so a crash in between leaves a recipe that does not load, and so
  does a directory that cannot be synced; this is `window`.  It may attach a LAN to a
  LAN, which the recipe's rules allow and the agent's refuse.  `add_node_include` may
  add an element beyond the guest's two hundred.  `editor::apply` writes includes whose
  paths sort after `sim-rns.project.json` after the project file that names them or no
  longer does (editor.rs:233), so that a crash in between may leave a project that does
  not load; this is `window` too.  When renaming the archived VM back fails, the message
  says so and the VM stays in its archive.  The
  node form saves a restart policy *on failure* where the original had none.  A save
  that changes nothing closes the form like any other.
* Metadata: `RestoreSnapshot` leaves node states as they are; `AddTopologyLink` accepts
  a link from an element to itself, and one to an element that is no network any more
  stays; a removal that outlives its link hides the link when the source has it again.
* Endpoint: an application that fails after `bind` (control.rs:73-75) leaves a dead
  socket until the next one removes it; a second application without the lock runs on
  without an endpoint and does not try again; a launcher's deadline may kill an
  application that another client has attached to.

## 5. What is proved

All theorems hold for any sets of controllers, pids, elements, recipes, projects,
threads, applications, calls and requests and any bounds, from the named assumptions
on the constants only.

* **VmLifecycle.**  `IInv` is inductive.  Besides the safety properties it says: who
  is inside a command holds the lock (`LockInv`); identities in pid files are of the
  past, never of a foreign process (`StampInv`), so a later process cannot be mistaken
  for them; a child handle is held exactly while booting, and names a process started
  from the present disk (`HandleInv`, `ChildInv`); what each label may rely on about
  the pid file (`Phase`); an archived directory is not a VM's (`BackupInv`); the
  loaded metadata is still the saved one (`LoadedInv`); a guest about to be quit is
  synced (`SyncedInv`).  `Phase` is what shows that a failed boot removes no pid file
  but its own child's, `StampInv` that no new process matches an old
  file.  `EditsOnlyWhenStopped` (proved, in no run: `vm_safety` checks the refinement,
  and `ProjectVm` edits only without a VM) and the refinement are proved when
  *include* is not among the commands: with it they are false, which is the second
  finding.  They hold for both kinds of image, with a guest agent and without
  (`HasInitrd`), of which the runs have the first.
* **Refinement.**  Each step maps to a step of `ProjectVm` or a stutter.  The VM's
  identity is `qemu.pid` while it is verified; the invariant provides that it
  goes from one VM to another only through *off*.
* **GuestBackend.**  Inductive invariant: only known and runnable nodes are started
  (`KnownInv`); before the host's request the agent has what it restored
  (`RestoredInv`); what is wanted down is marked stopped (`HeldInv`); a pending
  restart belongs to a dead child, and the time it was down and the time that is
  left add up to the delay (`BackoffInv`).
* **GuestChannel.**  `AnswerIsOwn`: whatever carries a request's id, in the agent's
  output or in a client's input, was put there when that request was executed.
  `LateInOrder`: the agent reads one connection to its end before the next, so that
  the connections behind what is executed, what is in the buffer and what is on the
  line come one after another (`Ordered`: `Queue`, `Transfer`, `Buffer`, `Done`), and
  chunks of one request are in the buffer in their order.  `LostAfterInterruption` is
  proved for requests that fit the buffer with their newline (`Fits`; those of the run
  `channel` do, and at the limit it is false, run `channel_limit`): a request that
  is being read is in the buffer from its first chunk on and alone, or comes after one
  that was cut off, with nothing executed or lost in between (`Loss`), or else
  something of it was flushed at the agent's start (`Excused`, `FlushOrdered`).
* **Refinement of RemoteCall.**  `ChannelRefinement` and `EndpointRefinement`: each
  step is one call that begins, is executed, returns, is refused or given up, several
  that are given up together when the machine or the application goes, or a
  stutter.  The channel's needs that the agent never executed before what ends its
  buffer (`Done`), that a client past its connection has one (`Linked`), and
  `AnswerIsOwn`; the endpoint's that what is queued was not executed and is not known
  to be anything but open or unknown (`QueuedPending`), and `AnswersTrue`.
* **UiRuntime.**  Inductive invariant: the slot is taken exactly while one worker is
  at work; a refresh of the present generation was started after the last
  operation, and what it brings is at least as new as what was shown and as the
  last effect (`RefreshInv`); a toolbar result is from after its effect (`JobInv`);
  the open project is the operation's.  Lemmas on `RefreshAsync`, `RefreshStore`
  and `Begun` are shared by all turns.
* **ControlEndpoint.**  `LiveEndpointKept`: an application that touches the path holds
  the lock (`LockHeld`).  `RefusedMeansNot`: a request is in one queue once, and then
  it was not executed and its caller has no answer or an *unknown* one
  (`QueuedOnce`, `QueuedPending`); what a thread is about to answer is true
  (`AnswersTrue`).  It also follows from the refinement, and is in no run.
* **RuntimeMetadata.**  `OverlayHonoured`: in the file as it is, not yet reconciled,
  additions and removals are disjoint and contain what was last asked for; the lemmas
  on `reconcile_state` and `Commit` carry it through every command.  The same
  invariant gives `OverlayConsistent` (proved, in no run).  `RepliesIncrease` and
  `NewestEventsKept`: the clock in the file is the last event's id, and no reply is
  ahead of it (`Counted`).  `SnapshotsDistinct`: every snapshot has the clock of its own
  command, which is no other's unless it is the last value (`Numbered`).
* **ProjectSources.**  When a save of the editor or of an include begins, its texts
  are such that the project loads wherever the save is cut off: a *cut* is a set of
  written files that has the project file only if it has all, and the directory with
  any cut written (`Overlay`) loads (`SafeSave`).  Besides, only sources of the
  project are overwritten (`SourcesOnly`), and the guest takes the result if it took
  the project before (`GuestSafe`).  These are facts about the editor's and the
  recipe's rules, proved for any form and any project that the constants allow
  (`Plan`).  The steps of the save then keep the directory at a cut, forwards and,
  when it is undone, backwards (`Progress`), and the prepared disk away or belonging
  to the sources from before (`Disk`). `LoadableWhenFree`, `DiskMatchesSources`,
  `FailedSaveRestores`, `GuestTakesEdits`, `CustomFilesKept` and `NoLostUpdate`
  follow.  `LoadableWhenFree` has the saves with a late include as an exception (`Fragile`), for
  which `SafeSave` does not hold; the others need no order of the writes but that of the
  paths which the program makes.

The type invariants of all these modules but `RuntimeMetadata`, whose invariants
contain what is needed of types, are theorems too and therefore in no run.

**Only model-checked**: the liveness properties (`LockReleased`, `KeptRunning`,
`OperationEnds`, `EventuallyShown`, `ThreadsEnd`), because the prover
does not handle fairness and `ENABLED`, and the refuted properties of the runs that expect
a violation.  Every other property of a run is stated by a theorem.  No module uses
recursive operators.

## 6. Not modelled

* *Sessions and project creation* (`sim-rns-app/src/main.rs`, `lib.rs` `create_project`).
  `UiRuntime` has the guards of opening, closing and creating and the shell that fails
  to switch; the saved session and the recent projects are a list of paths that is
  read at the start and only offered to the user.  Read with the code: `create_project`
  takes no lock, so that two creators in one directory mix their files; a crash
  leaves a directory that is not empty, which a second attempt refuses, or a project
  with a placeholder image; a slug of more than 64 characters fails validation after
  everything was written; `session.json` keeps the old project when the switch of
  workspaces or the save fails.
* *Worker threads that panic*: they are taken not to.
* `updated_at` and messages in `runtime.json`.
* Writes of the user's own to the project's directory.
* The framing of the control socket and of MCP, tool schemas, command line parsing.
* GTK widgets, wording and layout; the image build script and the node program (no
  state of their own); QEMU, Reticulum, GTK and the shell library, which appear only
  as what this code can observe of them.

## 7. Plan

What could follow, in this order.

1. `Session`: creation of a project file by file with a crash between any two, the
   saved session and its restoration.
2. `VmLifecycle` with the volume's journal of `GuestBackend`, so that a stored recipe
   may be lost to a power cut there as well.
3. A composition of `ControlEndpoint` and `UiRuntime` in which the operation behind a call
   is the one that holds the slot, both seen through `RemoteCall`.
