---------------------------- MODULE GuestChannel ----------------------------
(***************************************************************************)
(* The channel between the host's processes and the guest agent: a socket  *)
(* of the virtual machine, one connection per request, and behind it one   *)
(* serial line for all of them.  Connections wait for their turn in the    *)
(* order in which they were made (an external queue); what a connection    *)
(* wrote is read even after its client has gone, or dropped.  A request of *)
(* size n travels as n chunks and a newline; an answer as a head and a     *)
(* tail.  The machine takes connections before its agent listens, and what *)
(* arrives until then is thrown away.  What a request does is the business *)
(* of GuestBackend.                                                        *)
(***************************************************************************)
EXTENDS Naturals, Sequences, FiniteSets, SequencesExt

CONSTANTS
    Request,     \* requests, each with its own id: process and nanoseconds
    Size,        \* the chunks of each, without the newline
    NoId,        \* the id in an answer to what was not a request
    Limit,       \* sixteen mebibytes
    MaxRestarts  \* bound: restarts of the machine

ASSUME ChannelAssumption ==
    /\ Size \in [Request -> Nat \ {0}] /\ NoId \notin Request
    /\ Limit \in Nat /\ MaxRestarts \in Nat

VARIABLES
    client,    \* idle, writing, waiting, ok, error (the agent's answers), failed
    line,      \* the connections; the first one has the serial line
    sent,      \* chunks that each client has written
    read,      \* chunks of each that the agent has read
    ready,     \* the agent has opened its end
    pending,   \* the agent's buffer
    output,    \* what the agent is writing
    inbox,     \* what each connection has received and not yet read
    executed,  \* the requests that the agent executed, with the outcome (history)
    lost,      \* requests whose newline arrived and that it never saw (history)
    flushed,   \* requests of which it threw something away at its start (history)
    connected, \* the requests in the order of their connections (history)
    restarts

hostVars  == <<client, sent, connected>>
agentVars == <<pending, output, executed, lost>>
startVars == <<ready, flushed>>
vars      == <<hostVars, line, read, agentVars, startVars, inbox, restarts>>

Init ==
    /\ client = [r \in Request |-> "idle"]
    /\ line = <<>>
    /\ sent = [r \in Request |-> 0] /\ read = [r \in Request |-> 0]
    /\ pending = <<>> /\ output = <<>>
    /\ inbox = [r \in Request |-> <<>>]
    /\ executed = <<>> /\ lost = {} /\ connected = <<>>
    /\ ready = FALSE /\ flushed = {}
    /\ restarts = 0

Open == {r \in Request : client[r] \in {"writing", "waiting"}}

--------------------------------------------------------------------------------
(* The host: guest::request.                                               *)

\* There may be no socket; a request that is too large is not written.
Connect(r) ==
    /\ client[r] = "idle"
    /\ \/ /\ Size[r] <= Limit
          /\ client' = [client EXCEPT ![r] = "writing"]
          /\ line' = Append(line, r) /\ connected' = Append(connected, r)
       \/ client' = [client EXCEPT ![r] = "failed"] /\ UNCHANGED <<line, connected>>
    /\ UNCHANGED <<sent, read, agentVars, inbox, restarts, startVars>>

\* As much of the request as the socket takes.
Write(r) ==
    /\ client[r] = "writing"
    /\ \E n \in sent[r] + 1 .. Size[r] + 1 :
          /\ sent' = [sent EXCEPT ![r] = n]
          /\ client' = [client EXCEPT ![r] = IF n = Size[r] + 1 THEN "waiting" ELSE @]
    /\ UNCHANGED <<connected, line, read, agentVars, inbox, restarts, startVars>>

\* A write takes longer than three seconds, an answer longer than three, or twenty for
\* initialize and shutdown; or the client's process ends.
Timeout(r) ==
    /\ r \in Open
    /\ client' = [client EXCEPT ![r] = "failed"]
    /\ UNCHANGED <<sent, connected, line, read, agentVars, inbox, restarts, startVars>>

\* Deviation: the first answer is taken for the request's own.
TakeAnswerAny(r) ==
    /\ client[r] = "waiting" /\ Len(inbox[r]) >= 2
    /\ client' = [client EXCEPT ![r] = inbox[r][1].outcome]
    /\ inbox' = [inbox EXCEPT ![r] = <<>>]
    /\ UNCHANGED <<sent, connected, line, read, agentVars, restarts, startVars>>

\* One line: the end of an answer to somebody else is not JSON and ends the request, a
\* whole answer to somebody else is skipped.
TakeAnswer(r) ==
    LET in == inbox[r] IN
    /\ client[r] = "waiting" /\ in # <<>>
    /\ \/ /\ in[1].part = "tail"
          /\ client' = [client EXCEPT ![r] = "failed"] /\ UNCHANGED inbox
       \/ /\ in[1].part = "head" /\ Len(in) >= 2
          /\ client' = [client EXCEPT ![r] = IF in[1].id = r THEN in[1].outcome ELSE @]
          /\ inbox' = [inbox EXCEPT ![r] = SubSeq(in, 3, Len(in))]
    /\ UNCHANGED <<sent, connected, line, read, agentVars, restarts, startVars>>

\* The machine notices that its client has gone, and turns to the next.
Disconnect ==
    /\ line # <<>> /\ Head(line) \notin Open
    /\ line' = Tail(line)
    /\ UNCHANGED <<hostVars, read, agentVars, inbox, restarts, startVars>>

--------------------------------------------------------------------------------
(* The agent: its start and its main loop.                                 *)

\* What arrives before setraw is flushed; if it is echoed first, its client fails, as
\* by Timeout.
Flush ==
    /\ ~ready /\ line # <<>>
    /\ LET r == Head(line) IN
       \E n \in read[r] + 1 .. sent[r] :
          /\ read' = [read EXCEPT ![r] = n]
          /\ flushed' = flushed \cup {r}
          /\ lost' = lost \cup {q \in {r} : n = Size[r] + 1}
    /\ UNCHANGED <<hostVars, line, ready, pending, output, executed, inbox, restarts>>

Ready ==
    /\ ~ready /\ ready' = TRUE
    /\ UNCHANGED <<hostVars, line, read, agentVars, flushed, inbox, restarts>>

Chunks(r, first, last) == [i \in 1 .. last - first + 1 |-> <<r, first + i - 1>>]

Newline(chunk) == chunk[2] = Size[chunk[1]] + 1

HasLine == \E i \in DOMAIN pending : Newline(pending[i])

\* Deviation: the limit is taken for exclusive.
ReadBelow ==
    /\ ready /\ line # <<>> /\ ~HasLine /\ output = <<>>
    /\ LET r == Head(line) IN
       \E n \in read[r] + 1 .. sent[r] :
          LET new == pending \o Chunks(r, read[r] + 1, n) IN
          /\ read' = [read EXCEPT ![r] = n]
          /\ IF Len(new) >= Limit
             THEN pending' = <<>> /\ lost' = lost \cup {q \in {r} : n = Size[r] + 1}
             ELSE pending' = new /\ UNCHANGED lost
    /\ UNCHANGED <<hostVars, line, output, executed, inbox, restarts, startVars>>

\* os.read gets what there is; a buffer that has become too long is cleared.
Read ==
    /\ ready /\ line # <<>> /\ ~HasLine /\ output = <<>>
    /\ LET r == Head(line) IN
       \E n \in read[r] + 1 .. sent[r] :
          LET new == pending \o Chunks(r, read[r] + 1, n) IN
          /\ read' = [read EXCEPT ![r] = n]
          /\ IF Len(new) > Limit
             THEN pending' = <<>> /\ lost' = lost \cup {q \in {r} : n = Size[r] + 1}
             ELSE pending' = new /\ UNCHANGED lost
    /\ UNCHANGED <<hostVars, line, output, executed, inbox, restarts, startVars>>

Answer(id, outcome) ==
    <<[id |-> id, outcome |-> outcome, part |-> "head"],
      [id |-> id, outcome |-> outcome, part |-> "tail"]>>

FirstLine(end) == Newline(pending[end]) /\ \A j \in 1 .. end - 1 : ~Newline(pending[j])

\* Deviation: the line stays in the buffer.
ServeKeeps ==
    /\ output = <<>>
    /\ \E end \in DOMAIN pending : LET r == pending[end][1] IN
          /\ FirstLine(end)
          /\ executed' = Append(executed, <<r, "ok">>) /\ output' = Answer(r, "ok")
    /\ UNCHANGED <<hostVars, line, read, pending, lost, inbox, restarts, startVars>>

\* Lines in their order.  One that does not parse is answered with an error, as is a
\* request that the backend fails; the answer has the request's id if there is one.
Serve ==
    /\ output = <<>>
    /\ \E end \in DOMAIN pending : LET r == pending[end][1] IN
          /\ FirstLine(end)
          /\ pending' = SubSeq(pending, end + 1, Len(pending))
          /\ IF SubSeq(pending, 1, end) = Chunks(r, 1, Size[r] + 1)
             THEN /\ \E outcome \in {"ok", "error"} :
                        /\ executed' = Append(executed, <<r, outcome>>)
                        /\ output' = Answer(r, outcome)
                  /\ UNCHANGED lost
             ELSE /\ lost' = lost \cup {r} /\ output' = Answer(NoId, "error")
                  /\ UNCHANGED executed
    /\ UNCHANGED <<hostVars, line, read, inbox, restarts, startVars>>

\* A part of the answer goes out: to the connection that has the line now.
WriteAnswer ==
    /\ output # <<>>
    /\ output' = Tail(output)
    /\ IF line # <<>> /\ Head(line) \in Open
       THEN inbox' = [inbox EXCEPT ![Head(line)] = Append(@, Head(output))]
       ELSE UNCHANGED inbox
    /\ UNCHANGED <<hostVars, line, read, pending, executed, lost, restarts, startVars>>

\* The machine goes off, with all connections, and comes up again.
Restart ==
    /\ restarts < MaxRestarts /\ restarts' = restarts + 1
    /\ ready' = FALSE
    /\ pending' = <<>> /\ output' = <<>> /\ line' = <<>>
    /\ client' = [r \in Request |-> IF r \in Open THEN "failed" ELSE client[r]]
    /\ UNCHANGED <<sent, connected, read, executed, lost, flushed, inbox>>

Next ==
    \/ \E r \in Request : Connect(r) \/ Write(r) \/ Timeout(r) \/ TakeAnswer(r)
    \/ Disconnect \/ Flush \/ Ready \/ Read \/ Serve \/ WriteAnswer \/ Restart

\* Nothing has to happen: a client may wait for the machine without a deadline.
Spec == Init /\ [][Next]_vars

--------------------------------------------------------------------------------
(* Properties.                                                             *)

Before(q, r) == \E i, j \in DOMAIN connected : i < j /\ connected[i] = q /\ connected[j] = r

Parts == [id : Request \cup {NoId}, outcome : {"ok", "error"}, part : {"head", "tail"}]

\* Every variable has its type, and the agent's buffer its limit.
TypeOK ==
    /\ client \in [Request -> {"idle", "writing", "waiting", "ok", "error", "failed"}]
    /\ line \in Seq(Request) /\ connected \in Seq(Request)
    /\ sent \in [Request -> Nat] /\ read \in [Request -> Nat]
    /\ \A r \in Request : read[r] <= sent[r] /\ sent[r] <= Size[r] + 1
    /\ pending \in Seq(Request \X Nat) /\ Len(pending) <= Limit
    /\ output \in Seq(Parts) /\ inbox \in [Request -> Seq(Parts)]
    /\ executed \in Seq(Request \X {"ok", "error"})
    /\ lost \subseteq Request /\ flushed \subseteq Request /\ ready \in BOOLEAN
    /\ restarts \in 0..MaxRestarts

\* What a client knows of its request; one without a connection was refused.
Known(r) ==
    CASE client[r] = "idle" -> "idle"
      [] r \in Open -> "open"
      [] client[r] \in {"ok", "error"} -> "result"
      [] client[r] = "failed" -> IF r \in ToSet(connected) THEN "unknown" ELSE "refused"

Executions(r) == Cardinality({i \in DOMAIN executed : executed[i][1] = r})

Calls == INSTANCE RemoteCall WITH
    Call <- Request, known <- [r \in Request |-> Known(r)],
    done <- [r \in Request |-> Executions(r)]

\* Requests behave like calls of RemoteCall: a client that timed out may conclude
\* nothing, one with an answer that its request was executed, once (guest.rs:24).
ChannelImplementsCalls == Calls!Spec

\* A client that reports an answer reports the agent's answer to its own request,
\* whatever was left on the line by requests that timed out (guest.rs:64).
AnswerIsOwn == \A r \in Request :
    client[r] \in {"ok", "error"} => \E i \in DOMAIN executed : executed[i] = <<r, client[r]>>

\* A request that timed out may still be executed, but not twice, and not after one
\* that was made later: what the user did last is what is done last (agent.py:229).
LateInOrder ==
    \A i, j \in DOMAIN executed : i < j => Before(executed[i][1], executed[j][1])

\* The connections that went away in the middle of their request.
Interrupted == {r \in Request : read[r] \in 1 .. Size[r] /\ r \notin ToSet(line)}

\* The agent's start loses what it flushed, a request that was cut off one more: any
\* other that is lost follows one that was cut off, with none executed or lost in
\* between (agent.py:215, 226).
LostAfterInterruption == \A r \in lost \ flushed : \E q \in Interrupted :
    /\ Before(q, r)
    /\ \A x \in Request : Before(q, x) /\ Before(x, r) =>
           x \notin lost /\ \A i \in DOMAIN executed : executed[i][1] # x
==============================================================================
