-------------------------- MODULE ControlEndpoint --------------------------
(***************************************************************************)
(* The control socket: how an application comes to own it and gives it up, *)
(* how the calls of other programs travel through its connection threads   *)
(* and its request queue to the main loop and back, and how the MCP server *)
(* launches an application and waits for its socket.                       *)
(*                                                                         *)
(* What an operation does is the business of UiRuntime and VmLifecycle;    *)
(* here it takes the operation slot, for some time.                        *)
(***************************************************************************)
EXTENDS Naturals, Sequences, FiniteSets

CONSTANTS
    App,        \* application processes
    Call,       \* calls: a connection with one request each
    Launcher,   \* launches by MCP servers
    ChildOf,    \* the application that each of them starts
    None,       \* no application, no call
    MaxClients, \* the limit of sixteen connection threads
    MaxQueue,   \* the limit of sixteen queued requests
    MaxCrashes  \* bound: applications that die

ASSUME EndpointAssumption ==
    /\ None \notin App \cup Call
    /\ ChildOf \in [Launcher -> App]
    /\ MaxClients \in Nat /\ MaxQueue \in Nat /\ MaxCrashes \in Nat

VARIABLES
    app,      \* off, new, locked, clear, serving, stopping, removed, unserved
    lock,     \* the holder of control.sock.lock
    socket,   \* whose listener control.sock names, dead or alive
    queue,    \* requests on their way to each main loop
    slot,     \* the call whose operation each application runs
    client,   \* what each caller knows: idle, open, result, refused, unknown
    server,   \* the application each call is connected to
    thread,   \* each connection: none, backlog, reading, waiting, answering, ended
    answer,   \* the answer a connection thread is writing
    executed, \* how often each request was executed (history)
    launch,   \* idle, polling, attached, failed
    crashes

endpoint == <<lock, socket>>
calls    == <<client, server, thread, answer>>
vars     == <<app, endpoint, queue, slot, calls, executed, launch, crashes>>

Running  == {"new", "locked", "clear", "serving", "stopping", "removed", "unserved"}

Init ==
    /\ app = [a \in App |-> "off"]
    /\ lock = None /\ socket = None
    /\ queue = [a \in App |-> <<>>] /\ slot = [a \in App |-> None]
    /\ client = [k \in Call |-> "idle"] /\ server = [k \in Call |-> None]
    /\ thread = [k \in Call |-> "none"] /\ answer = [k \in Call |-> "none"]
    /\ executed = [k \in Call |-> 0]
    /\ launch = [l \in Launcher |-> "idle"]
    /\ crashes = 0

--------------------------------------------------------------------------------
(* The application.                                                        *)

\* An application starts: by hand, or by a launcher.
Spawn(a) ==
    /\ app[a] = "off"
    /\ app' = [app EXCEPT ![a] = "new"]

\* Deviation: the lock is not asked for.
TakeLockAnyway(a) ==
    /\ app[a] = "new"
    /\ lock' = a /\ app' = [app EXCEPT ![a] = "locked"]
    /\ UNCHANGED <<socket, queue, slot, calls, executed, launch, crashes>>

\* Without the lock the application runs on without an endpoint.
TakeLock(a) ==
    /\ app[a] = "new"
    /\ IF lock = None
       THEN lock' = a /\ app' = [app EXCEPT ![a] = "locked"]
       ELSE app' = [app EXCEPT ![a] = "unserved"] /\ UNCHANGED lock
    /\ UNCHANGED <<socket, queue, slot, calls, executed, launch, crashes>>

\* A socket left by an application that died is removed.
RemoveStale(a) ==
    /\ app[a] = "locked"
    /\ socket' = None
    /\ app' = [app EXCEPT ![a] = "clear"]
    /\ UNCHANGED <<lock, queue, slot, calls, executed, launch, crashes>>

\* The path may be taken again, or what follows the bind fail: that leaves a dead socket.
Bind(a) ==
    /\ app[a] = "clear"
    /\ socket' \in {socket, IF socket = None THEN a ELSE socket}
    /\ \/ /\ socket = None /\ socket' = a
          /\ app' = [app EXCEPT ![a] = "serving"] /\ UNCHANGED lock
       \/ app' = [app EXCEPT ![a] = "unserved"] /\ lock' = None
    /\ UNCHANGED <<queue, slot, calls, executed, launch, crashes>>

\* The accept loop sees the stop flag, or fails; it removes the path, drops the lock.
Stop(a) ==
    /\ app[a] = "serving"
    /\ app' = [app EXCEPT ![a] = "stopping"]
    /\ UNCHANGED <<endpoint, queue, slot, calls, executed, launch, crashes>>

Unlink(a) ==
    /\ app[a] = "stopping"
    /\ socket' = None
    /\ app' = [app EXCEPT ![a] = "removed"]
    /\ UNCHANGED <<lock, queue, slot, calls, executed, launch, crashes>>

Release(a) ==
    /\ app[a] = "removed" /\ lock = a
    /\ lock' = None
    /\ UNCHANGED <<app, socket, queue, slot, calls, executed, launch, crashes>>

\* The process is gone, with its lock, its threads and its connections.
Gone(a) ==
    LET mine(k) == server[k] = a /\ thread[k] # "ended" IN
    /\ app' = [app EXCEPT ![a] = "off"]
    /\ lock' = IF lock = a THEN None ELSE lock
    /\ queue' = [queue EXCEPT ![a] = <<>>] /\ slot' = [slot EXCEPT ![a] = None]
    /\ thread' = [k \in Call |-> IF mine(k) THEN "ended" ELSE thread[k]]
    /\ client' = [k \in Call |->
                     IF mine(k) /\ client[k] = "open" THEN "unknown" ELSE client[k]]
    /\ UNCHANGED <<socket, server, answer, executed>>

\* main returns without waiting for the accept loop, which may not have come to
\* removing the path; or the application ends before its window is shown.
Exit(a) ==
    /\ app[a] \in {"new", "stopping", "removed", "unserved"}
    /\ Gone(a)
    /\ UNCHANGED <<launch, crashes>>

Die(a) ==
    /\ app[a] \in Running
    /\ crashes < MaxCrashes /\ crashes' = crashes + 1
    /\ Gone(a)
    /\ UNCHANGED launch

--------------------------------------------------------------------------------
(* A call.                                                                 *)

\* A listener takes connections as long as its process has it open.
Connect(k) ==
    /\ client[k] = "idle"
    /\ IF socket # None /\ app[socket] \in {"serving", "stopping"}
       THEN /\ client' = [client EXCEPT ![k] = "open"]
            /\ server' = [server EXCEPT ![k] = socket]
            /\ thread' = [thread EXCEPT ![k] = "backlog"]
       ELSE client' = [client EXCEPT ![k] = "refused"] /\ UNCHANGED <<server, thread>>
    /\ UNCHANGED <<app, endpoint, queue, slot, answer, executed, launch, crashes>>

Threads(a) == {k \in Call : server[k] = a /\ thread[k] \in {"reading", "waiting", "answering"}}

Full(a) == Cardinality(Threads(a)) >= MaxClients

\* A connection beyond the limit is closed: its caller reads no answer.
Accept(k) ==
    /\ thread[k] = "backlog" /\ app[server[k]] = "serving"
    /\ IF Full(server[k])
       THEN /\ thread' = [thread EXCEPT ![k] = "ended"]
            /\ client' = [client EXCEPT ![k] = IF @ = "open" THEN "unknown" ELSE @]
       ELSE thread' = [thread EXCEPT ![k] = "reading"] /\ UNCHANGED client
    /\ UNCHANGED <<app, endpoint, queue, slot, server, answer, executed, launch, crashes>>

Answering(k, what) ==
    /\ thread' = [thread EXCEPT ![k] = "answering"]
    /\ answer' = [answer EXCEPT ![k] = what]

\* The request is queued, unless the queue is full; it is read even if its caller
\* has gone.
Receive(k) ==
    LET a == server[k] IN
    /\ thread[k] = "reading"
    /\ IF Len(queue[a]) < MaxQueue
       THEN /\ queue' = [queue EXCEPT ![a] = Append(@, k)]
            /\ thread' = [thread EXCEPT ![k] = "waiting"] /\ UNCHANGED answer
       ELSE Answering(k, "refused") /\ UNCHANGED queue
    /\ UNCHANGED <<app, endpoint, slot, client, server, executed, launch, crashes>>

\* No byte of a request for five seconds, or none that can be read.
ReceiveFails(k) ==
    /\ thread[k] = "reading"
    /\ Answering(k, "refused")
    /\ UNCHANGED <<app, endpoint, queue, slot, client, server, executed, launch, crashes>>

\* An answer from the main loop reaches the thread, if that still waits for it.
Deliver(k, what) ==
    IF thread[k] = "waiting" THEN Answering(k, what) ELSE UNCHANGED <<thread, answer>>

\* The main loop takes one request at each tick.  It answers at once, or the request
\* is an operation, which needs the slot, and may be refused though no call has that: no
\* project is open, or the toolbar has it.
Dispatch(a) ==
    LET k == Head(queue[a]) IN
    /\ app[a] \in {"serving", "stopping", "removed"} /\ queue[a] # <<>>
    /\ queue' = [queue EXCEPT ![a] = Tail(@)]
    /\ \/ /\ executed' = [executed EXCEPT ![k] = @ + 1]
          /\ Deliver(k, "result") /\ UNCHANGED slot
       \/ /\ slot[a] = None /\ slot' = [slot EXCEPT ![a] = k]
          /\ executed' = [executed EXCEPT ![k] = @ + 1] /\ UNCHANGED <<thread, answer>>
       \/ Deliver(k, "refused") /\ UNCHANGED <<slot, executed>>
    /\ UNCHANGED <<app, endpoint, client, server, launch, crashes>>

OperationEnds(a) ==
    /\ slot[a] # None
    /\ slot' = [slot EXCEPT ![a] = None]
    /\ Deliver(slot[a], "result")
    /\ UNCHANGED <<app, endpoint, queue, client, server, executed, launch, crashes>>

\* Deviation: a request that was not answered in time counts as refused.
TimeoutRefuses(k) ==
    /\ thread[k] = "waiting"
    /\ Answering(k, "refused")
    /\ UNCHANGED <<app, endpoint, queue, slot, client, server, executed, launch, crashes>>

\* Deviation: a thread waits for its answer as long as it takes.
TimeoutNever(k) == FALSE /\ UNCHANGED vars

\* The thread waits for 175 seconds: "operation may still be running".
Timeout(k) ==
    /\ thread[k] = "waiting"
    /\ Answering(k, "unknown")
    /\ UNCHANGED <<app, endpoint, queue, slot, client, server, executed, launch, crashes>>

\* The answer is written; to a caller that has gone, in vain.  A result of more than
\* four mebibytes is replaced by an error.
Reply(k) ==
    /\ thread[k] = "answering"
    /\ thread' = [thread EXCEPT ![k] = "ended"]
    /\ \/ client' = [client EXCEPT ![k] = IF @ = "open" THEN answer[k] ELSE @]
       \/ /\ answer[k] = "result" /\ client[k] = "open"
          /\ client' = [client EXCEPT ![k] = "unknown"]
    /\ UNCHANGED <<app, endpoint, queue, slot, server, answer, executed, launch, crashes>>

\* The caller's own timeout: 180 seconds, or 300 milliseconds of a launcher.
GiveUp(k) ==
    /\ client[k] = "open"
    /\ client' = [client EXCEPT ![k] = "unknown"]
    /\ UNCHANGED <<app, endpoint, queue, slot, server, thread, answer, executed, launch, crashes>>

--------------------------------------------------------------------------------
(* A launch.                                                               *)

Ready == socket # None /\ app[socket] = "serving"

\* Attach to an application that answers, or start one.
Launch(l) ==
    /\ launch[l] = "idle"
    /\ \/ /\ Ready
          /\ launch' = [launch EXCEPT ![l] = "attached"] /\ UNCHANGED app
       \/ /\ Spawn(ChildOf[l])
          /\ launch' = [launch EXCEPT ![l] = "polling"]
    /\ UNCHANGED <<endpoint, queue, slot, calls, executed, crashes>>

Poll(l) ==
    /\ launch[l] = "polling"
    /\ \/ Ready /\ launch' = [launch EXCEPT ![l] = "attached"]
       \/ app[ChildOf[l]] = "off" /\ launch' = [launch EXCEPT ![l] = "failed"]
    /\ UNCHANGED <<app, endpoint, queue, slot, calls, executed, crashes>>

\* Not ready after fifteen seconds: the launcher kills its child.
Deadline(l) ==
    /\ launch[l] = "polling"
    /\ IF app[ChildOf[l]] = "off"
       THEN UNCHANGED <<app, endpoint, queue, slot, calls, executed>>
       ELSE Gone(ChildOf[l])
    /\ launch' = [launch EXCEPT ![l] = "failed"]
    /\ UNCHANGED crashes

Next ==
    \/ \E a \in App :
        \/ Spawn(a) /\ UNCHANGED <<endpoint, queue, slot, calls, executed, launch, crashes>>
        \/ TakeLock(a) \/ RemoveStale(a) \/ Bind(a)
        \/ Stop(a) \/ Unlink(a) \/ Release(a) \/ Exit(a) \/ Die(a)
        \/ Dispatch(a) \/ OperationEnds(a)
    \/ \E k \in Call :
        \/ Connect(k) \/ Accept(k) \/ Receive(k) \/ ReceiveFails(k)
        \/ Timeout(k) \/ Reply(k) \/ GiveUp(k)
    \/ \E l \in Launcher : Launch(l) \/ Poll(l) \/ Deadline(l)

\* Connection threads run, and their waits have deadlines; nothing is assumed of the
\* main loop, of operations or of callers.
Fairness == \A k \in Call : WF_vars(Receive(k) \/ ReceiveFails(k) \/ Timeout(k) \/ Reply(k))

Spec == Init /\ [][Next]_vars /\ Fairness

--------------------------------------------------------------------------------
(* Properties.                                                             *)

\* Every variable has its type; no request is executed twice (control.rs:100).
TypeOK ==
    /\ app \in [App -> Running \cup {"off"}]
    /\ lock \in App \cup {None} /\ socket \in App \cup {None}
    /\ queue \in [App -> Seq(Call)] /\ slot \in [App -> Call \cup {None}]
    /\ client \in [Call -> {"idle", "open", "result", "refused", "unknown"}]
    /\ server \in [Call -> App \cup {None}]
    /\ thread \in [Call -> {"none", "backlog", "reading", "waiting", "answering", "ended"}]
    /\ answer \in [Call -> {"none", "result", "refused", "unknown"}]
    /\ executed \in [Call -> 0..1]
    /\ launch \in [Launcher -> {"idle", "polling", "attached", "failed"}]
    /\ crashes \in 0..MaxCrashes

\* "A file lock prevents a second app from replacing a live endpoint" (docs/mcp.md:74):
\* the path names the application that serves, whoever starts, stops, or dies.
LiveEndpointKept == \A a \in App : app[a] = "serving" => socket = a

\* The callers' errors can be relied on: who got a result had the request executed, and
\* who was refused can try again, as it was not executed and will not be, whereas after
\* a timeout it may be (control.rs:103).
RefusedMeansNot ==
    \A k \in Call : /\ client[k] = "result" => executed[k] = 1
                    /\ client[k] = "refused" => executed[k] = 0

Calls == INSTANCE RemoteCall WITH known <- client, done <- executed

\* Requests behave like calls of RemoteCall: a caller that was refused can try again, as
\* its request was not executed and will not be; after a timeout it may be, once, or have
\* been (control.rs:103).
EndpointImplementsCalls == Calls!Spec

\* A connection thread ends, though the main loop may be stuck, an operation take
\* forever and the caller be gone: the sixteen are not used up (control.rs:105).
ThreadsEnd == \A k \in Call :
    thread[k] \in {"reading", "waiting", "answering"} ~> thread[k] = "ended"
==============================================================================
