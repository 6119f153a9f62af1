----------------------- MODULE ControlEndpointProofs -----------------------
(***************************************************************************)
(* However many applications start, stop and die, and whoever launches     *)
(* them: the socket's path names the application that serves.  The reason  *)
(* is the lock, which is held from before the path is touched until after  *)
(* it was removed.                                                         *)
(*                                                                         *)
(* And what a caller concludes from its answer is true.  The reason is     *)
(* that a request waits in a queue only while its caller has no answer, or *)
(* was told that the outcome is unknown (Concluded).                       *)
(***************************************************************************)
EXTENDS ControlEndpoint, TLAPS

Shape ==
    /\ app \in [App -> Running \cup {"off"}]
    /\ lock \in App \cup {None}

LockHeld == \A a \in App :
    app[a] \in {"locked", "clear", "serving", "stopping"} => lock = a

IInv == Shape /\ LockHeld /\ LiveEndpointKept

LEMMA InitIInv == Init => IInv
  BY DEF Init, IInv, Shape, LockHeld, LiveEndpointKept, Running

\* The end of a process, whatever the reason.
LEMMA GoneIInv ==
    ASSUME IInv, NEW a \in App, Gone(a)
    PROVE  IInv'
<1>1. /\ app' = [app EXCEPT ![a] = "off"]
      /\ lock' = IF lock = a THEN None ELSE lock
      /\ socket' = socket
  BY DEF Gone
<1>2. Shape'
  BY <1>1 DEF IInv, Shape, Running
<1>3. LockHeld'
  BY <1>1 DEF IInv, Shape, LockHeld
<1>4. LiveEndpointKept'
  BY <1>1 DEF IInv, Shape, LiveEndpointKept
<1>5. QED
  BY <1>2, <1>3, <1>4 DEF IInv

\* A step that leaves the applications' states, the lock and the path alone.
LEMMA QuietIInv == IInv /\ UNCHANGED <<app, lock, socket>> => IInv'
  BY DEF IInv, Shape, LockHeld, LiveEndpointKept

\* The start of a process: it owns nothing yet.
LEMMA SpawnIInv ==
    ASSUME IInv, NEW a \in App, Spawn(a), UNCHANGED <<lock, socket>>
    PROVE  IInv'
  BY DEF Spawn, IInv, Shape, LockHeld, LiveEndpointKept, Running

LEMMA AppIInv ==
    ASSUME IInv, EndpointAssumption, NEW a \in App,
           \/ TakeLock(a) \/ RemoveStale(a) \/ Bind(a)
           \/ Stop(a) \/ Unlink(a) \/ Release(a) \/ Exit(a) \/ Die(a)
           \/ Dispatch(a) \/ OperationEnds(a)
    PROVE  IInv'
<1>0. None \notin App
  BY DEF EndpointAssumption
<1>1. CASE TakeLock(a)
  <2>1. CASE lock = None
    <3>1. lock' = a /\ app' = [app EXCEPT ![a] = "locked"] /\ socket' = socket
      BY <1>1, <2>1 DEF TakeLock
    <3>2. \A b \in App : app[b] \notin {"locked", "clear", "serving", "stopping"}
      BY <1>0, <2>1 DEF IInv, LockHeld
    <3>3. Shape'
      BY <3>1 DEF IInv, Shape, Running
    <3>4. LockHeld'
      BY <3>1, <3>2 DEF IInv, Shape, LockHeld
    <3>5. LiveEndpointKept'
      BY <3>1 DEF IInv, Shape, LiveEndpointKept
    <3>6. QED
      BY <3>3, <3>4, <3>5 DEF IInv
  <2>2. CASE lock # None
    <3>1. app' = [app EXCEPT ![a] = "unserved"] /\ lock' = lock /\ socket' = socket
      BY <1>1, <2>2 DEF TakeLock
    <3>2. QED
      BY <3>1 DEF IInv, Shape, LockHeld, LiveEndpointKept, Running
  <2>3. QED
    BY <2>1, <2>2
<1>2. CASE RemoveStale(a)
  <2>1. app[a] = "locked" /\ app' = [app EXCEPT ![a] = "clear"] /\ lock' = lock
    BY <1>2 DEF RemoveStale
  <2>2. \A b \in App : app[b] # "serving"
    BY <2>1 DEF IInv, LockHeld
  <2>3. QED
    BY <2>1, <2>2 DEF IInv, Shape, LockHeld, LiveEndpointKept, Running
<1>3. CASE Bind(a)
  <2>1. app[a] = "clear"
    BY <1>3 DEF Bind
  <2>2. \A b \in App \ {a} : app[b] \notin {"locked", "clear", "serving", "stopping"}
    BY <2>1 DEF IInv, LockHeld
  <2>3. CASE socket' = a /\ app' = [app EXCEPT ![a] = "serving"] /\ lock' = lock
    BY <2>1, <2>2, <2>3 DEF IInv, Shape, LockHeld, LiveEndpointKept, Running
  <2>4. CASE app' = [app EXCEPT ![a] = "unserved"] /\ lock' = None
    BY <2>2, <2>4 DEF IInv, Shape, LockHeld, LiveEndpointKept, Running
  <2>5. QED
    BY <1>3, <2>3, <2>4 DEF Bind
<1>4. CASE Stop(a)
  BY <1>4 DEF Stop, endpoint, IInv, Shape, LockHeld, LiveEndpointKept, Running
<1>5. CASE Unlink(a)
  <2>1. app[a] = "stopping" /\ app' = [app EXCEPT ![a] = "removed"] /\ lock' = lock
    BY <1>5 DEF Unlink
  <2>2. \A b \in App : app[b] # "serving"
    BY <2>1 DEF IInv, LockHeld
  <2>3. QED
    BY <2>1, <2>2 DEF IInv, Shape, LockHeld, LiveEndpointKept, Running
<1>6. CASE Release(a)
  <2>1. app[a] = "removed" /\ lock = a /\ lock' = None /\ app' = app /\ socket' = socket
    BY <1>6 DEF Release
  <2>2. \A b \in App : app[b] \notin {"locked", "clear", "serving", "stopping"}
    BY <2>1 DEF IInv, LockHeld
  <2>3. QED
    BY <2>1, <2>2 DEF IInv, Shape, LockHeld, LiveEndpointKept
<1>7. CASE Exit(a)
  BY <1>7, GoneIInv DEF Exit
<1>8. CASE Die(a)
  BY <1>8, GoneIInv DEF Die
<1>9. CASE Dispatch(a)
  BY <1>9, QuietIInv DEF Dispatch, endpoint
<1>10. CASE OperationEnds(a)
  BY <1>10, QuietIInv DEF OperationEnds, endpoint
<1>11. QED
  BY <1>1, <1>2, <1>3, <1>4, <1>5, <1>6, <1>7, <1>8, <1>9, <1>10

LEMMA CallIInv ==
    ASSUME IInv, NEW k \in Call,
           \/ Connect(k) \/ Accept(k) \/ Receive(k) \/ ReceiveFails(k)
           \/ Timeout(k) \/ Reply(k) \/ GiveUp(k)
    PROVE  IInv'
<1>1. UNCHANGED <<app, lock, socket>>
  BY DEF Connect, Accept, Receive, ReceiveFails, Timeout, Reply, GiveUp, endpoint
<1>2. QED
  BY <1>1, QuietIInv

LEMMA LaunchIInv ==
    ASSUME IInv, EndpointAssumption, NEW l \in Launcher, Launch(l) \/ Poll(l) \/ Deadline(l)
    PROVE  IInv'
<1>1. ChildOf[l] \in App
  BY DEF EndpointAssumption
<1>2. CASE Launch(l)
  <2>1. UNCHANGED <<lock, socket>> /\ (UNCHANGED app \/ Spawn(ChildOf[l]))
    BY <1>2 DEF Launch, endpoint
  <2>2. QED
    BY <1>1, <2>1, SpawnIInv, QuietIInv
<1>3. CASE Poll(l)
  BY <1>3, QuietIInv DEF Poll, endpoint
<1>4. CASE Deadline(l)
  <2>1. UNCHANGED <<app, lock, socket>> \/ Gone(ChildOf[l])
    BY <1>4 DEF Deadline, endpoint
  <2>2. QED
    BY <1>1, <2>1, GoneIInv, QuietIInv
<1>5. QED
  BY <1>2, <1>3, <1>4

LEMMA NextIInv ==
    ASSUME IInv, EndpointAssumption, [Next]_vars
    PROVE  IInv'
<1>1. CASE UNCHANGED vars
  BY <1>1, QuietIInv DEF vars, endpoint
<1>2. CASE Next
  <2>1. ASSUME NEW a \in App, Spawn(a),
               UNCHANGED <<endpoint, queue, slot, calls, executed, launch, crashes>>
        PROVE  IInv'
    BY <2>1, SpawnIInv DEF endpoint
  <2>2. QED
    BY <1>2, <2>1, AppIInv, CallIInv, LaunchIInv DEF Next
<1>3. QED
  BY <1>1, <1>2

\* No application replaces or removes the socket of one that serves, however many start,
\* stop and die (docs/mcp.md:74).
THEOREM LiveEndpointKeptThm == Spec => []LiveEndpointKept
<1>1. IInv => LiveEndpointKept
  BY DEF IInv
<1>2. QED
  BY <1>1, InitIInv, NextIInv, EndpointAssumption, PTL DEF Spec

--------------------------------------------------------------------------------
(***************************************************************************)
(* What callers may conclude.  A request is executed when it leaves the    *)
(* queue, so it is enough to know that it is queued at most once, only     *)
(* after its thread has read it, and never once it was refused.            *)
(***************************************************************************)

CallShape ==
    /\ queue \in [App -> Seq(Call)] /\ slot \in [App -> Call \cup {None}]
    /\ client \in [Call -> {"idle", "open", "result", "refused", "unknown"}]
    /\ server \in [Call -> App \cup {None}]
    /\ thread \in [Call -> {"none", "backlog", "reading", "waiting", "answering", "ended"}]
    /\ answer \in [Call -> {"none", "result", "refused", "unknown"}]
    /\ executed \in [Call -> 0..1]

\* A connection belongs to a call that was made.
Connected == \A k \in Call :
    /\ client[k] = "idle" => thread[k] = "none"
    /\ IF thread[k] = "none" THEN server[k] = None ELSE server[k] \in App
    /\ thread[k] \in {"backlog", "reading", "waiting", "answering"} =>
           client[k] \in {"open", "unknown"}

\* A request that was not read is not executed, and nothing is answered.
Unread == \A k \in Call :
    /\ thread[k] \in {"none", "backlog", "reading"} => executed[k] = 0 /\ answer[k] = "none"
    /\ thread[k] = "answering" => answer[k] # "none"

QueuedOnce == \A a \in App : \A i, j \in DOMAIN queue[a] : queue[a][i] = queue[a][j] => i = j

\* What waits in a queue may still be executed.
Pending(k) ==
    /\ executed[k] = 0
    /\ thread[k] \in {"waiting", "answering", "ended"}
    /\ answer[k] \in {"none", "unknown"}
    /\ client[k] \in {"open", "unknown"}

QueuedPending == \A a \in App : \A i \in DOMAIN queue[a] :
    Pending(queue[a][i]) /\ server[queue[a][i]] = a

SlotExecuted == \A a \in App : slot[a] # None => executed[slot[a]] = 1

AnswersTrue == \A k \in Call : /\ answer[k] = "result" => executed[k] = 1
                               /\ answer[k] = "refused" => executed[k] = 0

Concluded ==
    /\ CallShape /\ Connected /\ Unread
    /\ QueuedOnce /\ QueuedPending /\ SlotExecuted /\ AnswersTrue /\ RefusedMeansNot

LEMMA InitCall == Init => Concluded
  BY DEF Init, Concluded, CallShape, Connected, Unread, QueuedOnce, QueuedPending,
         SlotExecuted, AnswersTrue, RefusedMeansNot

\* Reading a request and answering without the main loop.
LEMMA ReceiveConcluded ==
    ASSUME Concluded, NEW k \in Call, Receive(k)
    PROVE  Concluded'
<1> DEFINE a == server[k]
<1>1. thread[k] = "reading" /\ a \in App /\ client[k] \in {"open", "unknown"}
      /\ executed[k] = 0 /\ answer[k] = "none"
  BY DEF Receive, Concluded, Connected, Unread
<1>2. UNCHANGED <<slot, client, server, executed>>
  BY DEF Receive
<1>3. \A b \in App : \A i \in DOMAIN queue[b] : queue[b][i] # k
  BY <1>1 DEF Concluded, QueuedPending, Pending
<1>4. CASE queue' = queue /\ Answering(k, "refused")
  BY <1>1, <1>2, <1>3, <1>4 DEF Answering, Concluded, CallShape, Connected, Unread, QueuedOnce,
     QueuedPending, Pending, SlotExecuted, AnswersTrue, RefusedMeansNot
<1>5. CASE /\ queue' = [queue EXCEPT ![a] = Append(@, k)]
           /\ thread' = [thread EXCEPT ![k] = "waiting"] /\ answer' = answer
  <2>1. queue[a] \in Seq(Call)
    BY <1>1 DEF Concluded, CallShape
  <2>2. /\ Append(queue[a], k) \in Seq(Call)
        /\ \A i \in DOMAIN Append(queue[a], k) :
              \/ i \in DOMAIN queue[a] /\ Append(queue[a], k)[i] = queue[a][i]
              \/ i = Len(queue[a]) + 1 /\ Append(queue[a], k)[i] = k
    BY <2>1
  <2>3. /\ queue'[a] = Append(queue[a], k)
        /\ \A b \in App : b # a => queue'[b] = queue[b]
    BY <1>1, <1>5 DEF Concluded, CallShape
  <2>4. CallShape'
    BY <1>1, <1>2, <1>5, <2>2 DEF Concluded, CallShape
  <2>5. Connected' /\ Unread' /\ SlotExecuted' /\ AnswersTrue' /\ RefusedMeansNot'
    BY <1>1, <1>2, <1>5 DEF Concluded, CallShape, Connected, Unread, SlotExecuted, AnswersTrue,
       RefusedMeansNot
  <2>6. QueuedOnce'
    <3>1. Len(queue[a]) \in Nat /\ DOMAIN queue[a] = 1 .. Len(queue[a])
      BY <2>1
    <3>2. \A i, j \in DOMAIN queue'[a] : queue'[a][i] = queue'[a][j] => i = j
      BY <1>1, <1>3, <2>2, <2>3, <3>1 DEF Concluded, QueuedOnce
    <3>3. \A b \in App : b # a => \A i, j \in DOMAIN queue'[b] :
              queue'[b][i] = queue'[b][j] => i = j
      BY <2>3 DEF Concluded, QueuedOnce
    <3>4. QED
      BY <3>2, <3>3 DEF QueuedOnce
  <2>7. QueuedPending'
    BY <1>1, <1>2, <1>5, <2>1, <2>2, <2>3 DEF Concluded, CallShape, QueuedPending, Pending
  <2>8. QED
    BY <2>4, <2>5, <2>6, <2>7 DEF Concluded
<1>6. QED
  BY <1>2, <1>4, <1>5 DEF Receive

\* The steps of a connection that leave the queue alone.
LEMMA ConnectionConcluded ==
    ASSUME Concluded, EndpointAssumption, NEW k \in Call,
           Connect(k) \/ Accept(k) \/ ReceiveFails(k) \/ Timeout(k) \/ Reply(k) \/ GiveUp(k),
           socket \in App \cup {None}
    PROVE  Concluded'
<1>1. UNCHANGED <<queue, slot, executed>>
  BY DEF Connect, Accept, ReceiveFails, Timeout, Reply, GiveUp
<1>2. QueuedOnce' /\ SlotExecuted'
  BY <1>1 DEF Concluded, QueuedOnce, SlotExecuted
<1>3. CASE Connect(k)
  <2>1. thread[k] = "none" /\ client[k] = "idle" /\ answer' = answer
    BY <1>3 DEF Connect, Concluded, Connected
  <2>2. CASE /\ socket \in App /\ client' = [client EXCEPT ![k] = "open"]
             /\ server' = [server EXCEPT ![k] = socket]
             /\ thread' = [thread EXCEPT ![k] = "backlog"]
    BY <1>1, <1>2, <2>1, <2>2 DEF Concluded, CallShape, Connected, Unread, QueuedPending, Pending,
       AnswersTrue, RefusedMeansNot
  <2>3. CASE client' = [client EXCEPT ![k] = "refused"] /\ server' = server /\ thread' = thread
    BY <1>1, <1>2, <2>1, <2>3 DEF Concluded, CallShape, Connected, Unread, QueuedPending, Pending,
       AnswersTrue, RefusedMeansNot
  <2>4. QED
    BY <1>3, <2>2, <2>3 DEF Connect
<1>4. CASE Accept(k)
  <2>1. CallShape'
    BY <1>1, <1>4 DEF Accept, Concluded, CallShape
  <2>2. Connected'
    BY <1>1, <1>4 DEF Accept, Concluded, CallShape, Connected
  <2>3. Unread'
    BY <1>1, <1>4 DEF Accept, Concluded, CallShape, Unread, Connected, AnswersTrue
  <2>4. QueuedPending'
    BY <1>1, <1>4 DEF Accept, Concluded, CallShape, QueuedPending, Pending, Connected, Unread, AnswersTrue
  <2>5. AnswersTrue'
    BY <1>1, <1>4 DEF Accept, Concluded, CallShape, AnswersTrue, Connected, Unread
  <2>6. RefusedMeansNot'
    BY <1>1, <1>4 DEF Accept, Concluded, CallShape, RefusedMeansNot, Connected, Unread, AnswersTrue
  <2>7. QED
    BY <1>2, <2>1, <2>2, <2>3, <2>4, <2>5, <2>6 DEF Concluded
<1>5. CASE ReceiveFails(k)
  BY <1>1, <1>2, <1>5 DEF ReceiveFails, Answering, Concluded, CallShape, Connected, Unread,
     QueuedPending, Pending, AnswersTrue, RefusedMeansNot
<1>6. CASE Timeout(k)
  BY <1>1, <1>2, <1>6 DEF Timeout, Answering, Concluded, CallShape, Connected, Unread,
     QueuedPending, Pending, AnswersTrue, RefusedMeansNot
<1>7. CASE Reply(k)
  <2>1. CallShape'
    BY <1>1, <1>7 DEF Reply, Concluded, CallShape, Unread
  <2>2. Connected'
    BY <1>1, <1>7 DEF Reply, Concluded, CallShape, Connected
  <2>3. Unread'
    BY <1>1, <1>7 DEF Reply, Concluded, CallShape, Unread, Connected, AnswersTrue
  <2>4. QueuedPending'
    <3>1. \A c \in Call : Pending(c) => Pending(c)'
      BY <1>1, <1>7, <2>1 DEF Reply, Pending, Concluded, CallShape, Unread
    <3>2. \A a \in App : \A i \in DOMAIN queue[a] : queue[a][i] \in Call
      BY DEF Concluded, CallShape
    <3>3. server' = server
      BY <1>7 DEF Reply
    <3>4. QED
      BY <1>1, <3>1, <3>2, <3>3 DEF Concluded, QueuedPending
  <2>5. AnswersTrue'
    BY <1>1, <1>7 DEF Reply, Concluded, CallShape, AnswersTrue, Connected, Unread
  <2>6. RefusedMeansNot'
    BY <1>1, <1>7 DEF Reply, Concluded, CallShape, RefusedMeansNot, Connected, Unread, AnswersTrue
  <2>7. QED
    BY <1>2, <2>1, <2>2, <2>3, <2>4, <2>5, <2>6 DEF Concluded
<1>8. CASE GiveUp(k)
  BY <1>1, <1>2, <1>8 DEF GiveUp, Concluded, CallShape, Connected, Unread, QueuedPending, Pending,
     AnswersTrue, RefusedMeansNot
<1>9. QED
  BY <1>3, <1>4, <1>5, <1>6, <1>7, <1>8

\* The head of a queue leaves it: nothing else in a queue is that request.
LEMMA HeadLeaves ==
    ASSUME Concluded, NEW a \in App, queue[a] # <<>>,
           queue' = [queue EXCEPT ![a] = Tail(@)]
    PROVE  /\ queue' \in [App -> Seq(Call)] /\ QueuedOnce'
           /\ Head(queue[a]) \in Call /\ Pending(Head(queue[a]))
           /\ \A b \in App : \A i \in DOMAIN queue'[b] :
                 /\ queue'[b][i] \in Call \ {Head(queue[a])}
                 /\ Pending(queue'[b][i]) /\ server[queue'[b][i]] = b
<1> DEFINE q == queue[a]
<1>1. q \in Seq(Call) /\ q # <<>>
  BY DEF Concluded, CallShape
<1>2. /\ Tail(q) \in Seq(Call) /\ Head(q) = q[1] /\ 1 \in DOMAIN q /\ Head(q) \in Call
      /\ \A i \in DOMAIN Tail(q) : i \in Nat \ {0} /\ i + 1 \in DOMAIN q /\ Tail(q)[i] = q[i + 1]
  BY <1>1
<1>3. queue'[a] = Tail(q) /\ \A b \in App : b # a => queue'[b] = queue[b]
  BY DEF Concluded, CallShape
<1>4. queue' \in [App -> Seq(Call)]
  BY <1>2 DEF Concluded, CallShape
<1>5. Pending(Head(q)) /\ server[Head(q)] = a
  BY <1>2 DEF Concluded, QueuedPending
<1>6. QueuedOnce'
  BY <1>2, <1>3 DEF Concluded, QueuedOnce
<1>7. ASSUME NEW b \in App, NEW i \in DOMAIN queue'[b]
      PROVE  /\ queue'[b][i] \in Call \ {Head(q)}
             /\ Pending(queue'[b][i]) /\ server[queue'[b][i]] = b
  <2>1. CASE b = a
    <3>1. i \in DOMAIN Tail(q) /\ queue'[b][i] = Tail(q)[i]
      BY <1>3, <1>7, <2>1
    <3>2. i + 1 \in DOMAIN q /\ queue'[b][i] = q[i + 1] /\ i + 1 # 1
      BY <1>2, <3>1
    <3>3. q[i + 1] # q[1]
      BY <1>2, <3>2 DEF Concluded, QueuedOnce
    <3>4. QED
      BY <1>1, <1>2, <2>1, <3>2, <3>3 DEF Concluded, QueuedPending
  <2>2. CASE b # a
    <3>1. queue'[b] = queue[b] /\ queue[b] \in Seq(Call)
      BY <1>3, <2>2 DEF Concluded, CallShape
    <3>2. Pending(queue[b][i]) /\ server[queue[b][i]] = b
      BY <1>7, <3>1 DEF Concluded, QueuedPending
    <3>3. QED
      BY <1>5, <1>7, <2>2, <3>1, <3>2
  <2>3. QED
    BY <2>1, <2>2
<1>8. QED
  BY <1>2, <1>4, <1>5, <1>6, <1>7

LEMMA DispatchConcluded ==
    ASSUME Concluded, EndpointAssumption, NEW a \in App, Dispatch(a)
    PROVE  Concluded'
<1> DEFINE k == Head(queue[a])
<1>1. queue[a] # <<>> /\ queue' = [queue EXCEPT ![a] = Tail(@)] /\ UNCHANGED <<client, server>>
  BY DEF Dispatch
<1>2. /\ queue' \in [App -> Seq(Call)] /\ QueuedOnce'
      /\ k \in Call /\ Pending(k)
      /\ \A b \in App : \A i \in DOMAIN queue'[b] :
            /\ queue'[b][i] \in Call \ {k}
            /\ Pending(queue'[b][i]) /\ server[queue'[b][i]] = b
  BY <1>1, HeadLeaves
<1>3. None \notin Call
  BY DEF EndpointAssumption
<1> HIDE DEF k
<1>4. ASSUME executed' = [executed EXCEPT ![k] = @ + 1], Deliver(k, "result"), slot' = slot
      PROVE  Concluded'
  <2>1. CallShape'
    <3>1. /\ thread' \in [Call -> {"none", "backlog", "reading", "waiting", "answering", "ended"}]
          /\ answer' \in [Call -> {"none", "result", "refused", "unknown"}]
      <4>1. CASE thread[k] = "waiting"
        BY <1>4, <4>1 DEF Deliver, Answering, Concluded, CallShape
      <4>2. CASE thread[k] # "waiting"
        BY <1>4, <4>2 DEF Deliver, Concluded, CallShape
      <4>3. QED
        BY <4>1, <4>2
    <3>2. executed' \in [Call -> 0..1]
      BY <1>2, <1>4 DEF Pending, Concluded, CallShape
    <3>3. QED
      BY <1>1, <1>2, <1>4, <3>1, <3>2 DEF Concluded, CallShape
  <2>2. Connected'
    BY <1>1, <1>2, <1>3, <1>4 DEF Deliver, Answering, Pending, Concluded, CallShape, Connected
  <2>3. Unread'
    BY <1>1, <1>2, <1>3, <1>4 DEF Deliver, Answering, Pending, Concluded, CallShape, Unread
  <2>4. QueuedPending'
    <3>1. \A c \in Call \ {k} : Pending(c) => Pending(c)'
      BY <1>1, <1>4 DEF Deliver, Answering, Pending, Concluded, CallShape
    <3>2. QED
      BY <1>1, <1>2, <3>1 DEF QueuedPending
  <2>5. SlotExecuted'
    BY <1>1, <1>2, <1>3, <1>4 DEF Deliver, Answering, Pending, Concluded, CallShape, SlotExecuted
  <2>6. AnswersTrue'
    BY <1>1, <1>2, <1>3, <1>4 DEF Deliver, Answering, Pending, Concluded, CallShape, AnswersTrue
  <2>7. RefusedMeansNot'
    BY <1>1, <1>2, <1>3, <1>4 DEF Deliver, Answering, Pending, Concluded, CallShape, RefusedMeansNot
  <2>8. QED
    BY <1>2, <2>1, <2>2, <2>3, <2>4, <2>5, <2>6, <2>7 DEF Concluded
<1>5. ASSUME slot' = [slot EXCEPT ![a] = k], executed' = [executed EXCEPT ![k] = @ + 1],
             UNCHANGED <<thread, answer>>
      PROVE  Concluded'
  BY <1>1, <1>2, <1>3, <1>5 DEF Pending, Concluded, CallShape, Connected, Unread,
     QueuedPending, SlotExecuted, AnswersTrue, RefusedMeansNot
<1>6. ASSUME Deliver(k, "refused"), UNCHANGED <<slot, executed>>
      PROVE  Concluded'
  <2>1. CallShape'
    <3>1. /\ thread' \in [Call -> {"none", "backlog", "reading", "waiting", "answering", "ended"}]
          /\ answer' \in [Call -> {"none", "result", "refused", "unknown"}]
      <4>1. CASE thread[k] = "waiting"
        BY <1>6, <4>1 DEF Deliver, Answering, Concluded, CallShape
      <4>2. CASE thread[k] # "waiting"
        BY <1>6, <4>2 DEF Deliver, Concluded, CallShape
      <4>3. QED
        BY <4>1, <4>2
    <3>2. executed' \in [Call -> 0..1]
      BY <1>2, <1>6 DEF Pending, Concluded, CallShape
    <3>3. QED
      BY <1>1, <1>2, <1>6, <3>1, <3>2 DEF Concluded, CallShape
  <2>2. Connected'
    BY <1>1, <1>2, <1>3, <1>6 DEF Deliver, Answering, Pending, Concluded, CallShape, Connected
  <2>3. Unread'
    BY <1>1, <1>2, <1>3, <1>6 DEF Deliver, Answering, Pending, Concluded, CallShape, Unread
  <2>4. QueuedPending'
    <3>1. \A c \in Call \ {k} : Pending(c) => Pending(c)'
      BY <1>1, <1>6 DEF Deliver, Answering, Pending, Concluded, CallShape
    <3>2. QED
      BY <1>1, <1>2, <3>1 DEF QueuedPending
  <2>5. SlotExecuted'
    BY <1>1, <1>2, <1>3, <1>6 DEF Deliver, Answering, Pending, Concluded, CallShape, SlotExecuted
  <2>6. AnswersTrue'
    BY <1>1, <1>2, <1>3, <1>6 DEF Deliver, Answering, Pending, Concluded, CallShape, AnswersTrue
  <2>7. RefusedMeansNot'
    BY <1>1, <1>2, <1>3, <1>6 DEF Deliver, Answering, Pending, Concluded, CallShape, RefusedMeansNot
  <2>8. QED
    BY <1>2, <2>1, <2>2, <2>3, <2>4, <2>5, <2>6, <2>7 DEF Concluded
<1>7. QED
  BY <1>4, <1>5, <1>6 DEF Dispatch, k


LEMMA OperationEndsConcluded ==
    ASSUME Concluded, EndpointAssumption, NEW a \in App, OperationEnds(a)
    PROVE  Concluded'
<1> DEFINE k == slot[a]
<1>1. UNCHANGED <<queue, client, server, executed>> /\ Deliver(k, "result")
  BY DEF OperationEnds
<1>2. k \in Call /\ executed[k] = 1
  BY DEF OperationEnds, Concluded, CallShape, SlotExecuted
<1>3. slot' = [slot EXCEPT ![a] = None]
  BY DEF OperationEnds
<1> HIDE DEF k
<1>4. \/ UNCHANGED <<thread, answer>>
      \/ /\ thread[k] = "waiting"
         /\ thread' = [thread EXCEPT ![k] = "answering"]
         /\ answer' = [answer EXCEPT ![k] = "result"]
  BY <1>1 DEF Deliver, Answering
<1>5. CallShape'
  BY <1>1, <1>2, <1>3, <1>4 DEF Concluded, CallShape
<1>6. Connected' /\ Unread' /\ AnswersTrue' /\ RefusedMeansNot'
  <2>1. Connected'
    BY <1>1, <1>2, <1>4 DEF Concluded, CallShape, Connected
  <2>2. Unread'
    BY <1>1, <1>2, <1>4 DEF Concluded, CallShape, Unread
  <2>3. AnswersTrue' /\ RefusedMeansNot'
    BY <1>1, <1>2, <1>4 DEF Concluded, CallShape, AnswersTrue, RefusedMeansNot
  <2>4. QED
    BY <2>1, <2>2, <2>3
<1>7. SlotExecuted' /\ QueuedOnce'
  BY <1>1, <1>3 DEF Concluded, CallShape, SlotExecuted, QueuedOnce
<1>8. QueuedPending'
  <2>1. \A c \in Call : Pending(c) => Pending(c)'
    BY <1>1, <1>2, <1>4 DEF Pending, Concluded, CallShape
  <2>2. \A b \in App : \A i \in DOMAIN queue[b] : queue[b][i] \in Call
    BY DEF Concluded, CallShape
  <2>3. QED
    BY <1>1, <2>1, <2>2 DEF Concluded, QueuedPending
<1>9. QED
  BY <1>5, <1>6, <1>7, <1>8 DEF Concluded

\* A process that ends takes its queue along: its requests will not be executed.
LEMMA GoneConcluded ==
    ASSUME Concluded, EndpointAssumption, NEW a \in App, Gone(a)
    PROVE  Concluded'
<1> DEFINE mine(k) == server[k] = a /\ thread[k] # "ended"
<1>1. /\ queue' = [queue EXCEPT ![a] = <<>>] /\ slot' = [slot EXCEPT ![a] = None]
      /\ thread' = [k \in Call |-> IF mine(k) THEN "ended" ELSE thread[k]]
      /\ client' = [k \in Call |->
                       IF mine(k) /\ client[k] = "open" THEN "unknown" ELSE client[k]]
      /\ UNCHANGED <<server, answer, executed>>
  BY DEF Gone
<1>2. ASSUME NEW k \in Call
      PROVE  /\ thread'[k] = thread[k] \/ (thread'[k] = "ended" /\ server[k] = a)
             /\ client'[k] = client[k] \/ (client'[k] = "unknown" /\ client[k] = "open")
  BY <1>1
<1>3. CallShape'
  BY <1>1 DEF Concluded, CallShape
<1>4. Connected'
  <2>1. ASSUME NEW k \in Call, client'[k] = "idle" PROVE thread'[k] = "none"
    <3>1. client[k] = "idle" /\ thread[k] = "none"
      BY <1>2, <2>1 DEF Concluded, Connected
    <3>2. server[k] # a
      BY <3>1 DEF Concluded, Connected, EndpointAssumption
    <3>3. QED
      BY <1>1, <3>1, <3>2
  <2>2. ASSUME NEW k \in Call
        PROVE  /\ IF thread'[k] = "none" THEN server'[k] = None ELSE server'[k] \in App
               /\ thread'[k] \in {"backlog", "reading", "waiting", "answering"} =>
                      client'[k] \in {"open", "unknown"}
    BY <1>1, <1>2 DEF Concluded, CallShape, Connected
  <2>3. QED
    BY <2>1, <2>2 DEF Connected
<1>5. Unread' /\ AnswersTrue' /\ RefusedMeansNot'
  BY <1>1, <1>2 DEF Concluded, CallShape, Unread, AnswersTrue, RefusedMeansNot
<1>6. SlotExecuted'
  BY <1>1 DEF Concluded, CallShape, SlotExecuted
<1>7. QueuedOnce'
  BY <1>1 DEF Concluded, CallShape, QueuedOnce
<1>8. QueuedPending'
  <2>1. \A c \in Call : Pending(c) => Pending(c)'
    BY <1>1, <1>2 DEF Pending
  <2>2. \A b \in App : \A i \in DOMAIN queue'[b] : b # a /\ queue'[b] = queue[b]
    BY <1>1 DEF Concluded, CallShape
  <2>3. \A b \in App : \A i \in DOMAIN queue[b] : queue[b][i] \in Call
    BY DEF Concluded, CallShape
  <2>4. QED
    BY <1>1, <2>1, <2>2, <2>3 DEF Concluded, QueuedPending
<1>9. QED
  BY <1>3, <1>4, <1>5, <1>6, <1>7, <1>8 DEF Concluded

LEMMA NoCallConcluded ==
    Concluded /\ UNCHANGED <<queue, slot, client, server, thread, answer, executed>> => Concluded'
  BY DEF Concluded, CallShape, Connected, Unread, QueuedOnce, QueuedPending, Pending,
     SlotExecuted, AnswersTrue, RefusedMeansNot


LEMMA NextConcluded ==
    ASSUME Concluded, EndpointAssumption, socket \in App \cup {None}, [Next]_vars
    PROVE  Concluded'
<1>1. CASE UNCHANGED vars
  BY <1>1, NoCallConcluded DEF vars, calls
<1>2. ASSUME NEW a \in App,
             \/ Spawn(a) /\ UNCHANGED <<endpoint, queue, slot, calls, executed, launch, crashes>>
             \/ TakeLock(a) \/ RemoveStale(a) \/ Bind(a) \/ Stop(a) \/ Unlink(a) \/ Release(a)
      PROVE  Concluded'
  BY <1>2, NoCallConcluded DEF TakeLock, RemoveStale, Bind, Stop, Unlink, Release, calls
<1>3. ASSUME NEW a \in App, Exit(a) \/ Die(a)
      PROVE  Concluded'
  BY <1>3, GoneConcluded DEF Exit, Die
<1>4. ASSUME NEW a \in App, Dispatch(a) \/ OperationEnds(a)
      PROVE  Concluded'
  BY <1>4, DispatchConcluded, OperationEndsConcluded
<1>5. ASSUME NEW k \in Call,
             \/ Connect(k) \/ Accept(k) \/ Receive(k) \/ ReceiveFails(k)
             \/ Timeout(k) \/ Reply(k) \/ GiveUp(k)
      PROVE  Concluded'
  BY <1>5, ReceiveConcluded, ConnectionConcluded
<1>6. ASSUME NEW l \in Launcher, Launch(l) \/ Poll(l) \/ Deadline(l)
      PROVE  Concluded'
  <2>1. ChildOf[l] \in App
    BY DEF EndpointAssumption
  <2>2. \/ UNCHANGED <<queue, slot, client, server, thread, answer, executed>>
        \/ Gone(ChildOf[l])
    BY <1>6 DEF Launch, Poll, Deadline, calls
  <2>3. QED
    BY <2>1, <2>2, NoCallConcluded, GoneConcluded
<1>7. QED
  BY <1>1, <1>2, <1>3, <1>4, <1>5, <1>6 DEF Next

\* Where the path points to is an application or nothing.
LEMMA SocketType ==
    ASSUME socket \in App \cup {None}, [Next]_vars
    PROVE  socket' \in App \cup {None}
<1>1. CASE UNCHANGED vars
  BY <1>1 DEF vars, endpoint
<1>2. ASSUME NEW a \in App,
             \/ Spawn(a) /\ UNCHANGED <<endpoint, queue, slot, calls, executed, launch, crashes>>
             \/ TakeLock(a) \/ RemoveStale(a) \/ Bind(a) \/ Stop(a) \/ Unlink(a) \/ Release(a)
             \/ Exit(a) \/ Die(a) \/ Dispatch(a) \/ OperationEnds(a)
      PROVE  socket' \in {socket, None, a}
  <2>1. CASE TakeLock(a) \/ RemoveStale(a) \/ Unlink(a)
    BY <2>1 DEF TakeLock, RemoveStale, Unlink
  <2>2. CASE Bind(a)
    BY <2>2 DEF Bind
  <2>3. CASE \/ Spawn(a) /\ UNCHANGED <<endpoint, queue, slot, calls, executed, launch, crashes>>
             \/ Stop(a) \/ Release(a) \/ Dispatch(a) \/ OperationEnds(a)
    BY <2>3 DEF Stop, Release, Dispatch, OperationEnds, endpoint
  <2>4. CASE Exit(a) \/ Die(a)
    BY <2>4 DEF Exit, Die, Gone
  <2>5. QED
    BY <1>2, <2>1, <2>2, <2>3, <2>4
<1>3. ASSUME NEW k \in Call,
             \/ Connect(k) \/ Accept(k) \/ Receive(k) \/ ReceiveFails(k)
             \/ Timeout(k) \/ Reply(k) \/ GiveUp(k)
      PROVE  socket' = socket
  BY <1>3 DEF Connect, Accept, Receive, ReceiveFails, Timeout, Reply, GiveUp, endpoint
<1>4. ASSUME NEW l \in Launcher, Launch(l) \/ Poll(l) \/ Deadline(l)
      PROVE  socket' = socket
  BY <1>4 DEF Launch, Poll, Deadline, Gone, endpoint
<1>5. QED
  BY <1>1, <1>2, <1>3, <1>4 DEF Next

\* Who got a result had the request executed, once; who was refused had it not, and will
\* not: whatever times out, crashes or gives up on the way (control.rs:103).
THEOREM RefusedMeansNotThm == Spec => []RefusedMeansNot
<1> DEFINE Inv == Concluded /\ socket \in App \cup {None}
<1>1. Init => Inv
  BY InitCall DEF Init
<1>2. Inv /\ [Next]_vars => Inv'
  BY NextConcluded, SocketType, EndpointAssumption
<1>3. Inv => RefusedMeansNot
  BY DEF Concluded
<1> HIDE DEF Inv
<1>4. QED
  BY <1>1, <1>2, <1>3, PTL DEF Spec

--------------------------------------------------------------------------------
(***************************************************************************)
(* Calls are those of RemoteCall.  What executes a request is Dispatch,    *)
(* for one that waits in a queue; what answers it is Reply; and a caller   *)
(* gives up by itself, or with all others whose application ends.          *)
(***************************************************************************)

CallStep == [Calls!Next]_(Calls!vars)

LEMMA OneGivesUp ==
    ASSUME CallShape, NEW k \in Call, client[k] = "open",
           client' = [client EXCEPT ![k] = "unknown"], executed' = executed
    PROVE  CallStep
<1>1. Calls!GiveUp({k})
  BY DEF Calls!GiveUp, CallShape
<1>2. QED
  BY <1>1 DEF CallStep, Calls!Next

LEMMA GoneCalls ==
    ASSUME CallShape, NEW a \in App, Gone(a)
    PROVE  CallStep
<1> DEFINE S == {k \in Call : server[k] = a /\ thread[k] # "ended" /\ client[k] = "open"}
<1>1. \A k \in S : client[k] = "open"
  OBVIOUS
<1>2. client' = [k \in Call |-> IF k \in S THEN "unknown" ELSE client[k]] /\ executed' = executed
  BY DEF Gone
<1>3. S \in SUBSET Call
  OBVIOUS
<1> HIDE DEF S
<1>4. Calls!GiveUp(S)
  BY <1>1, <1>2 DEF Calls!GiveUp
<1>5. QED
  BY <1>3, <1>4 DEF CallStep, Calls!Next

LEMMA ConnectionCalls ==
    ASSUME Concluded, NEW k \in Call,
           Connect(k) \/ Accept(k) \/ Receive(k) \/ ReceiveFails(k) \/ Timeout(k) \/ GiveUp(k)
    PROVE  CallStep
<1>1. CallShape
  BY DEF Concluded
<1>2. CASE Connect(k)
  <2>1. Calls!Begin(k) \/ Calls!Refuse(k)
    <3>1. executed[k] = 0
      BY <1>2 DEF Connect, Concluded, Connected, Unread
    <3>2. QED
      BY <1>2, <3>1 DEF Connect, Calls!Begin, Calls!Refuse
  <2>2. QED
    BY <2>1 DEF CallStep, Calls!Next
<1>3. CASE Accept(k)
  <2>1. CASE client[k] = "open" /\ client' = [client EXCEPT ![k] = "unknown"]
    BY <1>1, <1>3, <2>1, OneGivesUp DEF Accept
  <2>2. CASE client' = client
    BY <1>3, <2>2 DEF Accept, CallStep, Calls!vars
  <2>3. QED
    BY <1>1, <1>3, <2>1, <2>2 DEF Accept, CallShape
<1>4. CASE Receive(k) \/ ReceiveFails(k) \/ Timeout(k)
  BY <1>4 DEF Receive, ReceiveFails, Timeout, CallStep, Calls!vars
<1>5. CASE GiveUp(k)
  BY <1>1, <1>5, OneGivesUp DEF GiveUp
<1>6. QED
  BY <1>2, <1>3, <1>4, <1>5

LEMMA ReplyCalls ==
    ASSUME Concluded, NEW k \in Call, Reply(k)
    PROVE  CallStep
<1>1. CallShape /\ executed' = executed
  BY DEF Concluded, Reply
<1>2. answer[k] \in {"result", "refused", "unknown"}
  BY DEF Concluded, CallShape, Unread, Reply
<1>3. /\ answer[k] = "result" => executed[k] = 1
      /\ answer[k] = "refused" => executed[k] = 0
  BY DEF Concluded, AnswersTrue
<1>4. CASE client[k] = "open" /\ client' = [client EXCEPT ![k] = answer[k]]
  <2>1. CASE answer[k] = "unknown"
    BY <1>1, <1>4, <2>1, OneGivesUp
  <2>2. CASE answer[k] \in {"result", "refused"}
    <3>1. Calls!Return(k) \/ Calls!Refuse(k)
      BY <1>1, <1>3, <1>4, <2>2 DEF Calls!Return, Calls!Refuse
    <3>2. QED
      BY <3>1 DEF CallStep, Calls!Next
  <2>3. QED
    BY <1>2, <2>1, <2>2
<1>5. CASE client[k] = "open" /\ client' = [client EXCEPT ![k] = "unknown"]
  BY <1>1, <1>5, OneGivesUp
<1>6. CASE client' = client
  BY <1>1, <1>6 DEF CallStep, Calls!vars
<1>7. QED
  BY <1>1, <1>4, <1>5, <1>6 DEF Reply, CallShape

LEMMA DispatchCalls ==
    ASSUME Concluded, NEW a \in App, Dispatch(a)
    PROVE  CallStep
<1>1. PICK k \in Call : k = Head(queue[a]) /\ Pending(k)
  <2>1. queue[a] \in Seq(Call) /\ queue[a] # <<>>
    BY DEF Dispatch, Concluded, CallShape
  <2>2. 1 \in DOMAIN queue[a] /\ Head(queue[a]) = queue[a][1] /\ Head(queue[a]) \in Call
    BY <2>1
  <2>3. QED
    BY <2>2 DEF Concluded, QueuedPending
<1>2. client' = client
  BY DEF Dispatch
<1>3. CASE executed' = [executed EXCEPT ![k] = @ + 1]
  <2>1. Calls!Execute(k)
    BY <1>1, <1>2, <1>3 DEF Pending, Concluded, CallShape, Calls!Execute
  <2>2. QED
    BY <2>1 DEF CallStep, Calls!Next
<1>4. CASE executed' = executed
  BY <1>2, <1>4 DEF CallStep, Calls!vars
<1>5. QED
  BY <1>1, <1>3, <1>4 DEF Dispatch

LEMMA NextCalls ==
    ASSUME Concluded, EndpointAssumption, [Next]_vars
    PROVE  CallStep
<1>1. CallShape
  BY DEF Concluded
<1>2. CASE UNCHANGED <<client, executed>>
  BY <1>2 DEF CallStep, Calls!vars
<1>3. CASE UNCHANGED vars
  BY <1>2, <1>3 DEF vars, calls
<1>4. ASSUME NEW a \in App,
             \/ Spawn(a) /\ UNCHANGED <<endpoint, queue, slot, calls, executed, launch, crashes>>
             \/ TakeLock(a) \/ RemoveStale(a) \/ Bind(a) \/ Stop(a) \/ Unlink(a) \/ Release(a)
             \/ OperationEnds(a)
      PROVE  CallStep
  BY <1>2, <1>4 DEF TakeLock, RemoveStale, Bind, Stop, Unlink, Release, OperationEnds, calls
<1>5. ASSUME NEW a \in App, Exit(a) \/ Die(a)
      PROVE  CallStep
  BY <1>1, <1>5, GoneCalls DEF Exit, Die
<1>6. ASSUME NEW l \in Launcher, Launch(l) \/ Poll(l) \/ Deadline(l)
      PROVE  CallStep
  <2>1. ChildOf[l] \in App
    BY DEF EndpointAssumption
  <2>2. UNCHANGED <<client, executed>> \/ Gone(ChildOf[l])
    BY <1>6 DEF Launch, Poll, Deadline, calls
  <2>3. QED
    BY <1>1, <1>2, <2>1, <2>2, GoneCalls
<1>7. QED
  BY <1>3, <1>4, <1>5, <1>6, ConnectionCalls, ReplyCalls, DispatchCalls DEF Next

\* The calls of any number of programs to any number of applications, which may die, are
\* executed at most once, and what their callers conclude is true (control.rs:103).
THEOREM EndpointRefinement == Spec => EndpointImplementsCalls
<1> DEFINE Inv == Concluded /\ socket \in App \cup {None}
<1>1. Init => Inv
  BY InitCall DEF Init
<1>2. Inv /\ [Next]_vars => Inv'
  BY NextConcluded, SocketType, EndpointAssumption
<1>3. Init => Calls!Init
  BY DEF Init, Calls!Init
<1>4. Inv /\ [Next]_vars => [Calls!Next]_(Calls!vars)
  BY NextCalls, EndpointAssumption DEF CallStep
<1> HIDE DEF Inv
<1>5. QED
  BY <1>1, <1>2, <1>3, <1>4, PTL DEF Spec, EndpointImplementsCalls, Calls!Spec

LEMMA LaunchTypes ==
    ASSUME EndpointAssumption, [Next]_vars,
           launch \in [Launcher -> {"idle", "polling", "attached", "failed"}],
           crashes \in 0..MaxCrashes
    PROVE  /\ launch' \in [Launcher -> {"idle", "polling", "attached", "failed"}]
           /\ crashes' \in 0..MaxCrashes
<1>1. CASE UNCHANGED vars
  BY <1>1 DEF vars
<1>2. ASSUME NEW a \in App, Die(a)
      PROVE  launch' = launch /\ crashes' \in 0..MaxCrashes
  BY <1>2 DEF Die, EndpointAssumption
<1>3. ASSUME NEW a \in App,
             \/ Spawn(a) /\ UNCHANGED <<endpoint, queue, slot, calls, executed, launch, crashes>>
             \/ TakeLock(a) \/ RemoveStale(a) \/ Bind(a) \/ Stop(a) \/ Unlink(a) \/ Release(a)
             \/ Exit(a) \/ Dispatch(a) \/ OperationEnds(a)
      PROVE  launch' = launch /\ crashes' = crashes
  <2>1. CASE TakeLock(a) \/ RemoveStale(a) \/ Bind(a) \/ Stop(a) \/ Unlink(a) \/ Release(a)
    BY <2>1 DEF TakeLock, RemoveStale, Bind, Stop, Unlink, Release
  <2>2. QED
    BY <1>3, <2>1 DEF Exit, Dispatch, OperationEnds
<1>4. ASSUME NEW k \in Call,
             \/ Connect(k) \/ Accept(k) \/ Receive(k) \/ ReceiveFails(k)
             \/ Timeout(k) \/ Reply(k) \/ GiveUp(k)
      PROVE  launch' = launch /\ crashes' = crashes
  BY <1>4 DEF Connect, Accept, Receive, ReceiveFails, Timeout, Reply, GiveUp
<1>5. ASSUME NEW l \in Launcher, Launch(l) \/ Poll(l) \/ Deadline(l)
      PROVE  /\ launch' \in [Launcher -> {"idle", "polling", "attached", "failed"}]
             /\ crashes' = crashes
  BY <1>5 DEF Launch, Poll, Deadline
<1>6. QED
  BY <1>1, <1>2, <1>3, <1>4, <1>5 DEF Next

\* Every variable keeps its type, and no request is executed twice (control.rs:100).
THEOREM EndpointTypes == Spec => []TypeOK
<1> DEFINE Inv == /\ IInv /\ Concluded /\ socket \in App \cup {None}
                  /\ launch \in [Launcher -> {"idle", "polling", "attached", "failed"}]
                  /\ crashes \in 0..MaxCrashes
<1>1. Init => Inv
  BY InitIInv, InitCall, EndpointAssumption DEF Init, EndpointAssumption
<1>2. Inv /\ [Next]_vars => Inv'
  BY NextIInv, NextConcluded, SocketType, LaunchTypes, EndpointAssumption
<1>3. Inv => TypeOK
  BY DEF IInv, Shape, Concluded, CallShape, TypeOK
<1> HIDE DEF Inv
<1>4. QED
  BY <1>1, <1>2, <1>3, PTL DEF Spec
==============================================================================
