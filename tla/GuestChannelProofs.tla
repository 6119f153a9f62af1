------------------------- MODULE GuestChannelProofs -------------------------
(***************************************************************************)
(* However many requests share the line and time out, and wherever they    *)
(* are cut off: the answer that a client reports is the agent's answer to  *)
(* its own request.  Whatever is on its way to a client with the id of a   *)
(* request was put there when that request was executed.                   *)
(*                                                                         *)
(* And requests are executed at most once, in the order in which their     *)
(* connections came.  The agent reads one connection to its end before it  *)
(* reads the next, so that what it has executed, what it has in its buffer *)
(* and what is still on the line follow one another (Ordered).             *)
(*                                                                         *)
(* And a request that the agent never saw, although its end arrived, was   *)
(* flushed when the agent started or comes after one that was cut off,     *)
(* when every request fits the buffer (Loss).                              *)
(***************************************************************************)
EXTENDS GuestChannel, SequenceTheorems, FiniteSetTheorems, TLAPS

Outcome == {"ok", "error"}

Shape ==
    /\ client \in [Request -> {"idle", "writing", "waiting", "ok", "error", "failed"}]
    /\ line \in Seq(Request)
    /\ sent \in [Request -> Nat] /\ read \in [Request -> Nat]
    /\ pending \in Seq(Request \X Nat)
    /\ output \in Seq(Parts) /\ inbox \in [Request -> Seq(Parts)]
    /\ executed \in Seq(Request \X Outcome)

\* A piece of an answer names a request only after that was executed so.
Honest(p, done) == p.id # NoId =>
    \E j \in DOMAIN done : done[j] = <<p.id, p.outcome>>

HonestLine ==
    /\ \A i \in DOMAIN output : Honest(output[i], executed)
    /\ \A r \in Request : \A i \in DOMAIN inbox[r] : Honest(inbox[r][i], executed)

IInv == Shape /\ HonestLine /\ AnswerIsOwn

LEMMA InitIInv == ChannelAssumption /\ Init => IInv
  BY DEF ChannelAssumption, Init, IInv, Shape, HonestLine, AnswerIsOwn

LEMMA ChunksAreChunks ==
    ASSUME NEW r \in Request, NEW first \in Nat, NEW last \in Nat
    PROVE  Chunks(r, first, last) \in Seq(Request \X Nat)
<1>1. CASE last < first
  BY <1>1 DEF Chunks
<1>2. CASE first <= last
  <2>1. last - first + 1 \in Nat
    BY <1>2
  <2>2. \A i \in 1 .. last - first + 1 : <<r, first + i - 1>> \in Request \X Nat
    OBVIOUS
  <2>3. QED
    BY <2>1, <2>2, IsASeq DEF Chunks
<1>3. QED
  BY <1>1, <1>2

\* A step that executes nothing, writes nothing and delivers nothing.
LEMMA QuietIInv ==
    ASSUME IInv, UNCHANGED <<output, inbox, executed>>,
           Shape', \A r \in Request : client'[r] \in Outcome => client'[r] = client[r]
    PROVE  IInv'
  BY DEF IInv, HonestLine, Honest, AnswerIsOwn, Outcome

LEMMA HostIInv ==
    ASSUME IInv, ChannelAssumption, NEW r \in Request, Connect(r) \/ Write(r) \/ Timeout(r)
    PROVE  IInv'
<1>1. CASE Connect(r)
  <2>1. UNCHANGED <<output, inbox, executed, pending, sent, read>>
    BY <1>1 DEF Connect, agentVars
  <2>2. \/ client' = [client EXCEPT ![r] = "writing"] /\ line' = Append(line, r)
        \/ client' = [client EXCEPT ![r] = "failed"] /\ line' = line
    BY <1>1 DEF Connect
  <2>3. line' \in Seq(Request)
    <3>1. line \in Seq(Request)
      BY DEF IInv, Shape
    <3>2. Append(line, r) \in Seq(Request)
      BY <3>1, AppendProperties
    <3>3. QED
      BY <2>2, <3>1, <3>2
  <2>4. Shape'
    BY <2>1, <2>2, <2>3 DEF IInv, Shape
  <2>5. \A q \in Request : client'[q] \in Outcome => client'[q] = client[q]
    BY <2>2 DEF IInv, Shape, Outcome
  <2>6. QED
    BY <2>1, <2>4, <2>5, QuietIInv
<1>2. CASE Write(r)
  <2>1. UNCHANGED <<output, inbox, executed, pending, line, read>>
    BY <1>2 DEF Write, agentVars
  <2>2. PICK n \in sent[r] + 1 .. Size[r] + 1 :
            /\ sent' = [sent EXCEPT ![r] = n]
            /\ client' = [client EXCEPT ![r] = IF n = Size[r] + 1 THEN "waiting" ELSE @]
    BY <1>2 DEF Write
  <2>3. n \in Nat
    BY <2>2 DEF IInv, Shape, ChannelAssumption
  <2>4. Shape'
    BY <2>1, <2>2, <2>3 DEF IInv, Shape
  <2>5. \A q \in Request : client'[q] \in Outcome => client'[q] = client[q]
    BY <2>2 DEF IInv, Shape, Outcome
  <2>6. QED
    BY <2>1, <2>4, <2>5, QuietIInv
<1>3. CASE Timeout(r)
  <2>1. UNCHANGED <<output, inbox, executed, pending, line, sent, read>>
    BY <1>3 DEF Timeout, agentVars
  <2>2. client' = [client EXCEPT ![r] = "failed"]
    BY <1>3 DEF Timeout
  <2>3. Shape'
    BY <2>1, <2>2 DEF IInv, Shape
  <2>4. \A q \in Request : client'[q] \in Outcome => client'[q] = client[q]
    BY <2>2 DEF IInv, Shape, Outcome
  <2>5. QED
    BY <2>1, <2>3, <2>4, QuietIInv
<1>4. QED
  BY <1>1, <1>2, <1>3

\* The client compares the id.
LEMMA TakeAnswerIInv ==
    ASSUME IInv, ChannelAssumption, NEW r \in Request, TakeAnswer(r)
    PROVE  IInv'
<1>1. UNCHANGED <<output, executed, pending, line, sent, read>>
  BY DEF TakeAnswer, agentVars
<1>2. inbox[r] \in Seq(Parts)
  BY DEF IInv, Shape
<1>3. CASE client' = [client EXCEPT ![r] = "failed"] /\ inbox' = inbox
  <2>1. Shape'
    BY <1>1, <1>3 DEF IInv, Shape
  <2>2. \A q \in Request : client'[q] \in Outcome => client'[q] = client[q]
    BY <1>3 DEF IInv, Shape, Outcome
  <2>3. QED
    BY <1>1, <1>3, <2>1, <2>2, QuietIInv
<1>4. ASSUME Len(inbox[r]) >= 2,
             client' = [client EXCEPT ![r] = IF inbox[r][1].id = r
                                             THEN inbox[r][1].outcome ELSE @],
             inbox' = [inbox EXCEPT ![r] = SubSeq(inbox[r], 3, Len(inbox[r]))]
      PROVE  IInv'
  <2>1. 1 \in DOMAIN inbox[r] /\ inbox[r][1] \in Parts
    BY <1>2, <1>4
  <2>2. /\ SubSeq(inbox[r], 3, Len(inbox[r])) \in Seq(Parts)
        /\ \A i \in DOMAIN SubSeq(inbox[r], 3, Len(inbox[r])) :
               \E j \in DOMAIN inbox[r] : SubSeq(inbox[r], 3, Len(inbox[r]))[i] = inbox[r][j]
    BY <1>2, <1>4
  <2>3. inbox[r][1].outcome \in Outcome
    BY <2>1 DEF Parts, Outcome
  <2>4. Shape'
    BY <1>1, <1>4, <2>2, <2>3 DEF IInv, Shape, Outcome
  <2>5. HonestLine'
    BY <1>1, <1>4, <2>2, SMTT(30) DEF IInv, Shape, HonestLine, Honest
  <2>6. inbox[r][1].id = r => \E j \in DOMAIN executed : executed[j] = <<r, inbox[r][1].outcome>>
    BY <2>1 DEF IInv, HonestLine, Honest, ChannelAssumption
  <2>7. AnswerIsOwn'
    BY <1>1, <1>4, <2>6 DEF IInv, Shape, AnswerIsOwn
  <2>8. QED
    BY <2>4, <2>5, <2>7 DEF IInv
<1>5. QED
  BY <1>3, <1>4 DEF TakeAnswer

\* An answer goes onto the line when its request is executed.
LEMMA ServeIInv ==
    ASSUME IInv, Serve
    PROVE  IInv'
<1>1. PICK end \in DOMAIN pending :
          /\ pending' = SubSeq(pending, end + 1, Len(pending))
          /\ \/ \E outcome \in Outcome :
                   /\ executed' = Append(executed, <<pending[end][1], outcome>>)
                   /\ output' = Answer(pending[end][1], outcome)
             \/ output' = Answer(NoId, "error") /\ executed' = executed
  BY DEF Serve, Outcome
<1>2. UNCHANGED <<client, line, sent, read, inbox>>
  BY DEF Serve, hostVars
<1>3. pending[end][1] \in Request
  BY DEF IInv, Shape
<1>4. pending' \in Seq(Request \X Nat)
  <2>1. pending \in Seq(Request \X Nat)
    BY DEF IInv, Shape
  <2>2. \A i \in end + 1 .. Len(pending) : pending[i] \in Request \X Nat
    BY <2>1
  <2>3. SubSeq(pending, end + 1, Len(pending)) \in Seq(Request \X Nat)
    BY <2>1, <2>2, SubSeqProperties
  <2>4. QED
    BY <1>1, <2>3
<1>5. CASE output' = Answer(NoId, "error") /\ executed' = executed
  <2>1. output' \in Seq(Parts)
    BY <1>5 DEF Answer, Parts
  <2>2. Shape'
    BY <1>2, <1>4, <1>5, <2>1 DEF IInv, Shape
  <2>3. \A i \in DOMAIN output' : output'[i].id = NoId
    BY <1>5 DEF Answer
  <2>4. HonestLine' /\ AnswerIsOwn'
    BY <1>2, <1>5, <2>3 DEF IInv, HonestLine, Honest, AnswerIsOwn
  <2>5. QED
    BY <2>2, <2>4 DEF IInv
<1>6. ASSUME NEW outcome \in Outcome,
             executed' = Append(executed, <<pending[end][1], outcome>>),
             output' = Answer(pending[end][1], outcome)
      PROVE  IInv'
  <2>1. /\ executed' \in Seq(Request \X Outcome)
        /\ \A j \in DOMAIN executed : j \in DOMAIN executed' /\ executed'[j] = executed[j]
        /\ \E j \in DOMAIN executed' : executed'[j] = <<pending[end][1], outcome>>
    <3>1. executed \in Seq(Request \X Outcome) /\ <<pending[end][1], outcome>> \in Request \X Outcome
      BY <1>3 DEF IInv, Shape
    <3>2. /\ executed' \in Seq(Request \X Outcome) /\ Len(executed') = Len(executed) + 1
          /\ \A j \in 1 .. Len(executed) : executed'[j] = executed[j]
          /\ executed'[Len(executed) + 1] = <<pending[end][1], outcome>>
      BY <1>6, <3>1, AppendProperties
    <3>3. Len(executed) \in Nat /\ DOMAIN executed = 1 .. Len(executed)
      BY <3>1
    <3>4. DOMAIN executed' = 1 .. Len(executed) + 1
      BY <3>2
    <3>5. QED
      BY <3>2, <3>3, <3>4
  <2>2. output' \in Seq(Parts)
    BY <1>3, <1>6 DEF Answer, Parts, Outcome
  <2>3. \A i \in DOMAIN output' : output'[i].id = pending[end][1] /\ output'[i].outcome = outcome
    BY <1>6 DEF Answer
  <2>4. Shape'
    BY <1>2, <1>4, <2>1, <2>2 DEF IInv, Shape
  <2>5. HonestLine'
    BY <1>2, <2>1, <2>3 DEF IInv, HonestLine, Honest
  <2>6. AnswerIsOwn'
    BY <1>2, <2>1 DEF IInv, AnswerIsOwn
  <2>7. QED
    BY <2>4, <2>5, <2>6 DEF IInv
<1>7. QED
  BY <1>1, <1>5, <1>6

LEMMA WriteAnswerIInv ==
    ASSUME IInv, WriteAnswer
    PROVE  IInv'
<1>1. output # <<>> /\ output' = Tail(output) /\ UNCHANGED <<client, line, sent, read, pending, executed>>
  BY DEF WriteAnswer, hostVars
<1>2. /\ Head(output) \in Parts /\ Tail(output) \in Seq(Parts) /\ Head(output) = output[1]
      /\ 1 \in DOMAIN output
      /\ \A i \in DOMAIN Tail(output) : i + 1 \in DOMAIN output /\ Tail(output)[i] = output[i + 1]
  BY <1>1 DEF IInv, Shape
<1>3. Honest(Head(output), executed)
  BY <1>2 DEF IInv, HonestLine
<1>4. \A i \in DOMAIN output' : Honest(output'[i], executed')
  BY <1>1, <1>2 DEF IInv, HonestLine, Honest
<1>5. AnswerIsOwn'
  BY <1>1 DEF IInv, AnswerIsOwn
<1>6. CASE inbox' = inbox
  <2>1. Shape'
    BY <1>1, <1>2, <1>6 DEF IInv, Shape
  <2>2. HonestLine'
    BY <1>1, <1>4, <1>6 DEF IInv, HonestLine, Honest
  <2>3. QED
    BY <1>5, <2>1, <2>2 DEF IInv
<1>7. CASE line # <<>> /\ inbox' = [inbox EXCEPT ![Head(line)] = Append(@, Head(output))]
  <2> DEFINE q == Head(line)
  <2>1. q \in Request
    BY <1>7 DEF IInv, Shape
  <2>2. /\ Append(inbox[q], Head(output)) \in Seq(Parts)
        /\ \A i \in DOMAIN Append(inbox[q], Head(output)) :
               \/ i \in DOMAIN inbox[q] /\ Append(inbox[q], Head(output))[i] = inbox[q][i]
               \/ Append(inbox[q], Head(output))[i] = Head(output)
    BY <1>2, <2>1 DEF IInv, Shape
  <2>3. Shape'
    BY <1>1, <1>2, <1>7, <2>1, <2>2 DEF IInv, Shape
  <2>4. ASSUME NEW r \in Request, NEW i \in DOMAIN inbox'[r]
        PROVE  Honest(inbox'[r][i], executed')
    <3>1. CASE r # q
      <4>1. inbox'[r] = inbox[r]
        BY <1>7, <3>1 DEF IInv, Shape
      <4>2. QED
        BY <1>1, <2>4, <4>1 DEF IInv, HonestLine, Honest
    <3>2. CASE r = q
      <4>1. inbox'[r] = Append(inbox[q], Head(output))
        BY <1>7, <2>1, <3>2 DEF IInv, Shape
      <4>2. Honest(inbox'[r][i], executed)
        BY <1>3, <2>1, <2>2, <2>4, <4>1 DEF IInv, HonestLine
      <4>3. QED
        BY <1>1, <4>2 DEF Honest
    <3>3. QED
      BY <3>1, <3>2
  <2>5. HonestLine'
    BY <1>4, <2>4 DEF HonestLine
  <2>6. QED
    BY <1>5, <2>3, <2>5 DEF IInv
<1>8. QED
  BY <1>6, <1>7 DEF WriteAnswer

LEMMA OtherIInv ==
    ASSUME IInv, ChannelAssumption, Disconnect \/ Flush \/ Ready \/ Read
    PROVE  IInv'
<1>1. UNCHANGED <<client, sent, output, inbox, executed>>
  BY DEF Disconnect, Flush, Ready, Read, hostVars, agentVars
<1>2. CASE Disconnect
  <2>1. line' \in Seq(Request)
    BY <1>2 DEF Disconnect, IInv, Shape
  <2>2. Shape'
    BY <1>1, <1>2, <2>1 DEF Disconnect, agentVars, IInv, Shape
  <2>3. QED
    BY <1>1, <2>2, QuietIInv
<1>3. CASE Read
  <2> DEFINE r == Head(line)
  <2>1. line' = line /\ r \in Request
    BY <1>3 DEF Read, IInv, Shape
  <2>2. PICK n \in read[r] + 1 .. sent[r] :
            /\ read' = [read EXCEPT ![r] = n]
            /\ \/ pending' = <<>>
               \/ pending' = pending \o Chunks(r, read[r] + 1, n)
    BY <1>3 DEF Read
  <2>3. n \in Nat /\ read[r] + 1 \in Nat
    <3>1. read \in [Request -> Nat] /\ sent \in [Request -> Nat]
      BY DEF IInv, Shape
    <3>2. QED
      BY <2>1, <2>2, <3>1
  <2>4. Chunks(r, read[r] + 1, n) \in Seq(Request \X Nat)
    BY <2>1, <2>3, ChunksAreChunks
  <2>5. pending' \in Seq(Request \X Nat)
    <3>1. pending \in Seq(Request \X Nat)
      BY DEF IInv, Shape
    <3>2. pending \o Chunks(r, read[r] + 1, n) \in Seq(Request \X Nat)
      BY <2>4, <3>1, ConcatProperties
    <3>3. pending' = <<>> \/ pending' = pending \o Chunks(r, read[r] + 1, n)
      BY <2>2
    <3>4. CASE pending' = <<>>
      BY <3>4
    <3>5. QED
      BY <3>2, <3>3, <3>4
  <2>6. Shape'
    BY <1>1, <2>1, <2>2, <2>3, <2>5 DEF IInv, Shape
  <2>7. QED
    BY <1>1, <2>6, QuietIInv
<1>4. CASE Flush
  <2>1. Head(line) \in Request
    BY <1>4 DEF Flush, IInv, Shape
  <2>2. /\ line' = line /\ pending' = pending
        /\ \E n \in read[Head(line)] + 1 .. sent[Head(line)] :
               read' = [read EXCEPT ![Head(line)] = n]
    BY <1>4 DEF Flush
  <2>3. Shape'
    BY <1>1, <2>1, <2>2 DEF IInv, Shape
  <2>4. QED
    BY <1>1, <2>3, QuietIInv
<1>5. CASE Ready
  <2>1. Shape'
    BY <1>5 DEF Ready, hostVars, agentVars, IInv, Shape
  <2>2. QED
    BY <1>1, <2>1, QuietIInv
<1>6. QED
  BY <1>2, <1>3, <1>4, <1>5

LEMMA RestartIInv ==
    ASSUME IInv, Restart
    PROVE  IInv'
  BY DEF Restart, IInv, Shape, HonestLine, Honest, AnswerIsOwn

LEMMA NextIInv ==
    ASSUME IInv, ChannelAssumption, [Next]_vars
    PROVE  IInv'
<1>1. CASE UNCHANGED vars
  BY <1>1 DEF vars, hostVars, agentVars, IInv, Shape, HonestLine, Honest, AnswerIsOwn
<1>2. CASE Next
  BY <1>2, HostIInv, TakeAnswerIInv, ServeIInv, WriteAnswerIInv, OtherIInv, RestartIInv DEF Next
<1>3. QED
  BY <1>1, <1>2

\* The answer a client reports is the agent's answer to its own request, for any number
\* of requests of any size on one line (guest.rs:64).
THEOREM AnswerIsOwnThm == Spec => []AnswerIsOwn
<1>1. IInv => AnswerIsOwn
  BY DEF IInv
<1>2. QED
  BY <1>1, InitIInv, NextIInv, ChannelAssumption, PTL DEF Spec

--------------------------------------------------------------------------------
(***************************************************************************)
(* Late requests.  The line is the end of the sequence of connections, and *)
(* what the agent has buffered and executed comes from connections up to   *)
(* the line's first one, in their order.                                   *)
(***************************************************************************)

\* The place of the connection that has the line, or had it last.
Turn == Len(connected) - Len(line) + 1

\* The p-th connection was that of r, and had its turn.
Place(p, r) == p \in DOMAIN connected /\ connected[p] = r /\ p <= Turn

Queue ==
    /\ connected \in Seq(Request)
    /\ \A i, j \in DOMAIN connected : connected[i] = connected[j] => i = j
    /\ \A i \in DOMAIN connected : client[connected[i]] # "idle"
    /\ Len(line) <= Len(connected)
    /\ \A i \in DOMAIN line : line[i] = connected[Turn + i - 1]

Transfer == \A r \in Request : read[r] <= sent[r] /\ sent[r] <= Size[r] + 1

Buffer ==
    /\ \A i \in DOMAIN pending : /\ \E p : Place(p, pending[i][1])
                                 /\ pending[i][2] <= read[pending[i][1]]
    /\ \A i, j \in DOMAIN pending : i < j =>
           \A p, q : Place(p, pending[i][1]) /\ Place(q, pending[j][1]) =>
               p < q \/ (p = q /\ pending[i][2] < pending[j][2])

Done ==
    /\ \A i \in DOMAIN executed : /\ \E p : Place(p, executed[i][1])
                                  /\ read[executed[i][1]] = Size[executed[i][1]] + 1
    /\ \A i, j \in DOMAIN executed : i < j =>
           \A p, q : Place(p, executed[i][1]) /\ Place(q, executed[j][1]) => p < q
    /\ \A i \in DOMAIN executed : \A j \in DOMAIN pending :
           \A p, q : Place(p, executed[i][1]) /\ Place(q, pending[j][1]) => p < q

Ordered == Shape /\ Queue /\ Transfer /\ Buffer /\ Done

LEMMA InitOrdered == ChannelAssumption /\ Init => Ordered
<1> SUFFICES ASSUME ChannelAssumption, Init PROVE Ordered
  OBVIOUS
<1>1. Shape
  BY InitIInv DEF IInv
<1>2. Queue /\ Transfer /\ Buffer /\ Done
  BY DEF Init, ChannelAssumption, Queue, Transfer, Buffer, Done
<1>3. QED
  BY <1>1, <1>2 DEF Ordered

LEMMA OrderedMeans == Ordered => LateInOrder
<1> SUFFICES ASSUME Ordered, NEW i \in DOMAIN executed, NEW j \in DOMAIN executed, i < j
             PROVE  Before(executed[i][1], executed[j][1])
  BY DEF LateInOrder
<1>1. PICK p : Place(p, executed[i][1])
  BY DEF Ordered, Done
<1>2. PICK q : Place(q, executed[j][1])
  BY DEF Ordered, Done
<1>3. p < q
  BY <1>1, <1>2 DEF Ordered, Done
<1>4. QED
  BY <1>1, <1>2, <1>3 DEF Place, Before

\* A step that leaves the line, the buffer and the executions alone.
LEMMA StillOrdered ==
    ASSUME Ordered, UNCHANGED <<connected, line, read, pending, executed>>,
           Shape', Transfer',
           \A r \in Request : client'[r] = "idle" => client[r] = "idle"
    PROVE  Ordered'
<1>1. Queue'
  BY DEF Ordered, Queue, Turn
<1>2. \A p, r : Place(p, r)' <=> Place(p, r)
  BY DEF Place, Turn
<1>3. Buffer'
  BY <1>2 DEF Ordered, Buffer
<1>4. Done'
  BY <1>2 DEF Ordered, Done
<1>5. QED
  BY <1>1, <1>3, <1>4 DEF Ordered

LEMMA ConnectOrdered ==
    ASSUME Ordered, ChannelAssumption, NEW r \in Request, Connect(r), Shape'
    PROVE  Ordered'
<1>1. UNCHANGED <<sent, read, pending, executed>> /\ client[r] = "idle"
  BY DEF Connect, agentVars
<1>2. Transfer'
  BY <1>1 DEF Ordered, Transfer
<1>3. CASE client' = [client EXCEPT ![r] = "failed"] /\ UNCHANGED <<line, connected>>
  BY <1>1, <1>2, <1>3, StillOrdered DEF Ordered, Shape
<1>4. CASE /\ client' = [client EXCEPT ![r] = "writing"]
           /\ line' = Append(line, r) /\ connected' = Append(connected, r)
  <2>1. /\ connected \in Seq(Request) /\ line \in Seq(Request)
        /\ Len(connected) \in Nat /\ DOMAIN connected = 1 .. Len(connected)
        /\ Len(line) \in Nat /\ DOMAIN line = 1 .. Len(line)
        /\ Len(line) <= Len(connected)
    BY SMTT(30) DEF Ordered, Shape, Queue
  <2>2. /\ connected' \in Seq(Request) /\ Len(connected') = Len(connected) + 1
        /\ DOMAIN connected' = 1 .. Len(connected) + 1
        /\ connected'[Len(connected) + 1] = r
        /\ \A i \in 1 .. Len(connected) : connected'[i] = connected[i]
    BY <1>4, <2>1
  <2>3. /\ Len(line') = Len(line) + 1 /\ DOMAIN line' = 1 .. Len(line) + 1
        /\ line'[Len(line) + 1] = r
        /\ \A i \in 1 .. Len(line) : line'[i] = line[i]
    BY <1>4, <2>1
  <2>4. Turn' = Turn /\ Turn \in 1 .. Len(connected) + 1
    BY <2>1, <2>2, <2>3 DEF Turn
  <2>5. \A i \in DOMAIN connected : connected[i] # r
    BY <1>1 DEF Ordered, Queue
  <2>6. Queue'
    <3>0. \A i \in DOMAIN connected' :
              \/ i \in DOMAIN connected /\ connected'[i] = connected[i] /\ connected[i] \in Request
              \/ i = Len(connected) + 1 /\ connected'[i] = r
      BY <2>1, <2>2
    <3>1. \A i, k \in DOMAIN connected' : connected'[i] = connected'[k] => i = k
      BY <2>5, <3>0 DEF Ordered, Queue
    <3>2. ASSUME NEW i \in DOMAIN connected'
          PROVE  client'[connected'[i]] # "idle"
      <4>1. CASE connected'[i] = r
        BY <1>4, <4>1 DEF Ordered, Shape
      <4>2. CASE connected'[i] # r
        <5>1. i \in DOMAIN connected /\ connected'[i] = connected[i]
          BY <3>0, <4>2
        <5>2. client[connected[i]] # "idle"
          BY <5>1 DEF Ordered, Queue
        <5>3. client'[connected'[i]] = client[connected[i]]
          BY <1>4, <3>0, <4>2, <5>1 DEF Ordered, Shape
        <5>4. QED
          BY <5>2, <5>3
      <4>3. QED
        BY <4>1, <4>2
    <3>3. ASSUME NEW i \in DOMAIN line'
          PROVE  line'[i] = connected'[Turn + i - 1]
      <4>1. CASE i = Len(line) + 1
        <5>1. Turn + i - 1 = Len(connected) + 1
          BY <2>1, <4>1 DEF Turn
        <5>2. QED
          BY <2>2, <2>3, <4>1, <5>1
      <4>2. CASE i # Len(line) + 1
        <5>1. i \in DOMAIN line /\ line'[i] = line[i] /\ line[i] = connected[Turn + i - 1]
          BY <2>1, <2>3, <4>2 DEF Ordered, Queue
        <5>2. Turn + i - 1 \in 1 .. Len(connected)
          BY <2>1, <5>1, SMTT(30) DEF Turn
        <5>3. QED
          BY <2>2, <5>1, <5>2
      <4>3. QED
        BY <4>1, <4>2
    <3>4. QED
      BY <2>1, <2>2, <2>3, <2>4, <3>1, <3>2, <3>3 DEF Queue
  \* Only the new connection has a new place, and nothing is buffered of it.
  <2>7. \A p, x : Place(p, x) => Place(p, x)'
    BY <2>1, <2>2, <2>4 DEF Place
  <2>8. \A p, x : (\E q : Place(q, x)) /\ Place(p, x)' => Place(p, x)
    BY <2>1, <2>2, <2>4, <2>5 DEF Place
  <2>9. Buffer'
    BY <1>1, <2>7, <2>8 DEF Ordered, Buffer
  <2>10. Done'
    BY <1>1, <2>7, <2>8 DEF Ordered, Buffer, Done
  <2>11. QED
    BY <1>2, <2>6, <2>9, <2>10 DEF Ordered
<1>5. QED
  BY <1>3, <1>4 DEF Connect

LEMMA DisconnectOrdered ==
    ASSUME Ordered, Disconnect, Shape'
    PROVE  Ordered'
<1>1. UNCHANGED <<client, sent, connected, read, pending, executed>>
      /\ line # <<>> /\ line' = Tail(line)
  BY DEF Disconnect, hostVars, agentVars
<1>2. /\ line \in Seq(Request) /\ Len(line) \in Nat /\ DOMAIN line = 1 .. Len(line)
      /\ Len(connected) \in Nat /\ Len(line) <= Len(connected)
  BY DEF Ordered, Shape, Queue
<1>3. /\ Len(line') = Len(line) - 1 /\ DOMAIN line' = 1 .. Len(line) - 1
      /\ \A i \in DOMAIN line' : i + 1 \in DOMAIN line /\ line'[i] = line[i + 1]
  BY <1>1, <1>2
<1>4. Turn' = Turn + 1 /\ Turn \in Nat
  BY <1>1, <1>2, <1>3 DEF Turn
<1>5. Queue'
  <2>1. ASSUME NEW i \in DOMAIN line'
        PROVE  line'[i] = connected'[Turn' + i - 1]
    <3>1. line'[i] = line[i + 1] /\ line[i + 1] = connected[Turn + (i + 1) - 1]
      BY <1>3 DEF Ordered, Queue
    <3>2. Turn + (i + 1) - 1 = Turn' + i - 1
      BY <1>3, <1>4
    <3>3. QED
      BY <1>1, <3>1, <3>2
  <2>2. QED
    BY <1>1, <1>2, <1>3, <2>1 DEF Ordered, Queue
<1>6. \A p, x : Place(p, x) => Place(p, x)'
  BY <1>1, <1>2, <1>4 DEF Place, Ordered, Queue
<1>7. \A p, q, x : Place(p, x) /\ Place(q, x)' => p = q
  BY <1>1 DEF Place, Ordered, Queue
<1>8. Buffer'
  BY <1>1, <1>6, <1>7 DEF Ordered, Buffer
<1>9. Done'
  BY <1>1, <1>6, <1>7 DEF Ordered, Buffer, Done
<1>10. Transfer'
  BY <1>1 DEF Ordered, Transfer
<1>11. QED
  BY <1>5, <1>8, <1>9, <1>10 DEF Ordered

LEMMA RestartOrdered ==
    ASSUME Ordered, Restart, Shape'
    PROVE  Ordered'
<1>1. /\ UNCHANGED <<sent, connected, read, executed>>
      /\ line' = <<>> /\ pending' = <<>>
      /\ \A r \in Request : client'[r] = "idle" => client[r] = "idle"
  BY DEF Restart, Open
<1>2. Len(line) \in Nat /\ Len(connected) \in Nat /\ connected \in Seq(Request)
  BY DEF Ordered, Shape, Queue
<1>3. Turn <= Turn' /\ Turn' \in Nat
  BY <1>1, <1>2 DEF Turn
<1>4. Queue'
  BY <1>1, <1>2 DEF Ordered, Queue
<1>5. \A p, x : Place(p, x) => Place(p, x)'
  BY <1>1, <1>2, <1>3 DEF Place, Turn
<1>6. \A p, q, x : Place(p, x) /\ Place(q, x)' => p = q
  BY <1>1 DEF Place, Ordered, Queue
<1>7. Done'
  BY <1>1, <1>5, <1>6 DEF Ordered, Done
<1>8. Buffer' /\ Transfer'
  BY <1>1 DEF Ordered, Buffer, Transfer
<1>9. QED
  BY <1>4, <1>7, <1>8 DEF Ordered

\* What the client does to the answers is no matter of order, nor is what the agent
\* writes.
LEMMA AnswersOrdered ==
    ASSUME Ordered, Shape', ChannelAssumption,
           WriteAnswer \/ \E r \in Request : Write(r) \/ Timeout(r) \/ TakeAnswer(r)
    PROVE  Ordered'
<1>1. UNCHANGED <<connected, line, read, pending, executed>>
  BY DEF WriteAnswer, Write, Timeout, TakeAnswer, hostVars, agentVars
<1>2. \A r \in Request : client'[r] = "idle" => client[r] = "idle"
  <2>1. CASE WriteAnswer
    BY <2>1 DEF WriteAnswer, hostVars
  <2>2. ASSUME NEW r \in Request, Write(r) \/ Timeout(r)
        PROVE  \A q \in Request : client'[q] = "idle" => client[q] = "idle"
    BY <2>2 DEF Write, Timeout, Open, Ordered, Shape
  <2>3. ASSUME NEW r \in Request, TakeAnswer(r)
        PROVE  \A q \in Request : client'[q] = "idle" => client[q] = "idle"
    <3>1. client[r] = "waiting" /\ \A q \in Request \ {r} : client'[q] = client[q]
      BY <2>3 DEF TakeAnswer, Ordered, Shape
    <3>2. client'[r] # "idle"
      <4>1. \/ client' = [client EXCEPT ![r] = "failed"]
            \/ /\ Len(inbox[r]) >= 2
               /\ client' = [client EXCEPT ![r] = IF inbox[r][1].id = r
                                                  THEN inbox[r][1].outcome ELSE @]
        BY <2>3 DEF TakeAnswer
      <4>2. Len(inbox[r]) >= 2 => inbox[r][1].outcome \in {"ok", "error"}
        <5>1. inbox[r] \in Seq(Parts)
          BY DEF Ordered, Shape
        <5>2. Len(inbox[r]) >= 2 => inbox[r][1] \in Parts
          BY <5>1
        <5>3. QED
          BY <5>2 DEF Parts
      <4>3. QED
        BY <3>1, <4>1, <4>2 DEF Ordered, Shape
    <3>3. QED
      BY <3>1, <3>2
  <2>4. QED
    BY <2>1, <2>2, <2>3
<1>3. Transfer'
  <2>1. CASE sent' = sent
    BY <1>1, <2>1 DEF Ordered, Transfer
  <2>2. ASSUME NEW r \in Request, Write(r)
        PROVE  Transfer'
    <3>1. PICK n \in sent[r] + 1 .. Size[r] + 1 : sent' = [sent EXCEPT ![r] = n]
      BY <2>2 DEF Write
    <3>2. sent[r] \in Nat /\ read[r] \in Nat /\ Size[r] \in Nat /\ read[r] <= sent[r]
      BY DEF Ordered, Shape, Transfer, ChannelAssumption
    <3>3. sent'[r] = n /\ \A q \in Request \ {r} : sent'[q] = sent[q]
      BY <3>1 DEF Ordered, Shape
    <3>4. QED
      BY <1>1, <3>1, <3>2, <3>3 DEF Ordered, Transfer
  <2>3. sent' = sent \/ \E r \in Request : Write(r)
    BY DEF WriteAnswer, Timeout, TakeAnswer, hostVars
  <2>4. QED
    BY <2>1, <2>2, <2>3
<1>4. QED
  BY <1>1, <1>2, <1>3, StillOrdered

\* What is read comes from the connection that has the line, and follows what was read
\* of it before.
LEMMA ReadOrdered ==
    ASSUME Ordered, ChannelAssumption, Read, Shape'
    PROVE  Ordered'
<1> DEFINE r == Head(line)
           L == Len(pending)
<1>1. UNCHANGED <<client, sent, connected, line, executed>> /\ line # <<>>
  BY DEF Read, hostVars
<1>2. /\ line \in Seq(Request) /\ r \in Request /\ r = line[1] /\ 1 \in DOMAIN line
      /\ Len(line) \in Nat \ {0}
  <2>1. line \in Seq(Request) /\ line # <<>>
    BY <1>1 DEF Ordered, Shape
  <2>2. QED
    BY <2>1
<1>3. PICK n \in read[r] + 1 .. sent[r] :
          /\ read' = [read EXCEPT ![r] = n]
          /\ \/ pending' = <<>>
             \/ pending' = pending \o Chunks(r, read[r] + 1, n)
  BY DEF Read
<1> HIDE DEF r, L
<1>4. /\ read[r] \in Nat /\ n \in Nat /\ n > read[r] /\ read[r] < Size[r] + 1
      /\ n <= sent[r] /\ Size[r] \in Nat
  <2>1. read[r] \in Nat /\ sent[r] \in Nat /\ Size[r] \in Nat
    BY <1>2 DEF Ordered, Shape, ChannelAssumption
  <2>2. sent[r] <= Size[r] + 1
    BY <1>2 DEF Ordered, Transfer
  <2>3. n \in Int /\ read[r] + 1 <= n /\ n <= sent[r]
    BY <1>3, <2>1
  <2>4. QED
    BY <2>1, <2>2, <2>3
<1>5. read'[r] = n /\ \A q \in Request \ {r} : read'[q] = read[q]
  BY <1>2, <1>3 DEF Ordered, Shape
<1>6. Place(Turn, r) /\ \A p : Place(p, r) => p = Turn
  <2>1. connected[Turn] = r
    <3>1. line[1] = connected[Turn + 1 - 1] /\ Turn \in Int
      BY <1>2 DEF Ordered, Queue, Turn
    <3>2. QED
      BY <1>2, <3>1
  <2>2. Turn \in DOMAIN connected
    BY <1>2 DEF Ordered, Queue, Turn
  <2>3. QED
    BY <2>1, <2>2 DEF Place, Ordered, Queue, Turn
<1>7. Queue' /\ (\A p, x : Place(p, x)' <=> Place(p, x))
  BY <1>1 DEF Ordered, Queue, Turn, Place
<1>8. Transfer'
  BY <1>1, <1>4, <1>5 DEF Ordered, Transfer
<1>9. \A i \in DOMAIN executed : executed[i][1] # r /\ executed[i][1] \in Request
  <2>1. \A i \in DOMAIN executed : executed[i] \in Request \X Outcome
    BY DEF Ordered, Shape
  <2>2. QED
    BY <1>4, <2>1 DEF Ordered, Done
<1>10. CASE pending' = <<>>
  <2>1. Buffer'
    BY <1>10 DEF Buffer
  <2>2. Done'
    BY <1>1, <1>5, <1>7, <1>9, <1>10 DEF Ordered, Done
  <2>3. QED
    BY <1>7, <1>8, <2>1, <2>2 DEF Ordered
<1>11. CASE pending' = pending \o Chunks(r, read[r] + 1, n)
  <2> DEFINE new == Chunks(r, read[r] + 1, n)
  <2>1. /\ pending \in Seq(Request \X Nat) /\ L \in Nat /\ DOMAIN pending = 1 .. L
        /\ new \in Seq(Request \X Nat) /\ Len(new) = n - read[r]
        /\ \A i \in 1 .. n - read[r] : new[i] = <<r, read[r] + i>>
    <3>1. pending \in Seq(Request \X Nat)
      BY DEF Ordered, Shape
    <3>2. new \in Seq(Request \X Nat)
      <4>1. read[r] + 1 \in Nat
        BY <1>4
      <4>2. QED
        BY <1>2, <1>4, <4>1, ChunksAreChunks
    <3>3. n - (read[r] + 1) + 1 = n - read[r] /\ n - read[r] \in Nat
      BY <1>4
    <3>4. new = [i \in 1 .. n - read[r] |-> <<r, read[r] + 1 + i - 1>>]
      BY <3>3 DEF Chunks
    <3>5. \A i \in 1 .. n - read[r] : read[r] + 1 + i - 1 = read[r] + i
      BY <1>4
    <3>6. Len(new) = n - read[r]
      BY <3>2, <3>3, <3>4
    <3>7. L \in Nat /\ DOMAIN pending = 1 .. L
      BY <3>1 DEF L
    <3> HIDE DEF new
    <3>8. QED
      BY <3>1, <3>2, <3>4, <3>5, <3>6, <3>7
  <2> HIDE DEF new
  <2>2. /\ Len(pending') = L + (n - read[r]) /\ DOMAIN pending' = 1 .. L + (n - read[r])
        /\ \A i \in 1 .. L : pending'[i] = pending[i]
        /\ \A i \in L + 1 .. L + (n - read[r]) : pending'[i] = <<r, read[r] + (i - L)>>
    <3>1. /\ pending \o new \in Seq(Request \X Nat)
          /\ Len(pending \o new) = L + Len(new)
          /\ \A i \in 1 .. L + Len(new) :
                (pending \o new)[i] = IF i <= L THEN pending[i] ELSE new[i - L]
      <4>1. pending \in Seq(Request \X Nat) /\ new \in Seq(Request \X Nat)
        BY <2>1
      <4>2. /\ pending \o new \in Seq(Request \X Nat)
            /\ Len(pending \o new) = Len(pending) + Len(new)
            /\ \A i \in 1 .. Len(pending) + Len(new) :
                  (pending \o new)[i] = IF i <= Len(pending) THEN pending[i]
                                        ELSE new[i - Len(pending)]
        BY <4>1, ConcatProperties
      <4>3. QED
        BY <4>2 DEF L
    <3>2. pending' = pending \o new
      BY <1>11 DEF new
    <3>3. n - read[r] \in Nat
      BY <1>4
    <3>4. \A i \in L + 1 .. L + (n - read[r]) : i - L \in 1 .. n - read[r] /\ ~(i <= L)
      BY <2>1, <3>3
    <3>5. /\ pending' \in Seq(Request \X Nat) /\ Len(pending') = L + (n - read[r])
          /\ DOMAIN pending' = 1 .. L + (n - read[r])
      BY <2>1, <3>1, <3>2
    <3>6. \A i \in 1 .. L : i \in 1 .. L + Len(new) /\ i <= L
      BY <2>1, <3>3
    <3>7. \A i \in L + 1 .. L + (n - read[r]) : i \in 1 .. L + Len(new)
      BY <2>1, <3>3
    <3>8. \A i \in 1 .. L : pending'[i] = pending[i]
      BY <3>1, <3>2, <3>6
    <3>9. \A i \in L + 1 .. L + (n - read[r]) : pending'[i] = new[i - L]
      BY <3>1, <3>2, <3>4, <3>7
    <3>10. QED
      BY <2>1, <3>4, <3>5, <3>8, <3>9
  \* An old chunk is where it was, a new one is the line's and above what was read of it.
  <2>3. ASSUME NEW i \in DOMAIN pending'
        PROVE  \/ i \in DOMAIN pending /\ pending'[i] = pending[i]
               \/ /\ i \in Nat /\ i > L /\ pending'[i][1] = r
                  /\ pending'[i][2] = read[r] + (i - L) /\ pending'[i][2] <= n
    <3>1. i \in Nat /\ 1 <= i /\ i <= L + (n - read[r]) /\ L \in Nat
      BY <1>4, <2>1, <2>2
    <3>2. CASE i <= L
      BY <2>1, <2>2, <3>1, <3>2
    <3>3. CASE ~(i <= L)
      <4>1. pending'[i] = <<r, read[r] + (i - L)>>
        BY <1>4, <2>2, <3>1, <3>3
      <4>2. read[r] + (i - L) <= n
        BY <1>4, <3>1
      <4>3. QED
        BY <3>1, <3>3, <4>1, <4>2
    <3>4. QED
      BY <3>2, <3>3
  <2>4. ASSUME NEW i \in DOMAIN pending
        PROVE  /\ pending[i][1] \in Request /\ pending[i][2] \in Nat
               /\ \E p : Place(p, pending[i][1])
               /\ pending[i][2] <= read[pending[i][1]]
    BY <2>1 DEF Ordered, Buffer
  <2>5. Buffer'
    <3>1. ASSUME NEW i \in DOMAIN pending'
          PROVE  /\ \E p : Place(p, pending'[i][1])
                 /\ pending'[i][2] <= read'[pending'[i][1]]
      <4>1. CASE i \in DOMAIN pending /\ pending'[i] = pending[i]
        <5>1. CASE pending[i][1] = r
          BY <1>4, <1>5, <2>4, <4>1, <5>1
        <5>2. CASE pending[i][1] # r
          BY <1>5, <2>4, <4>1, <5>2
        <5>3. QED
          BY <5>1, <5>2
      <4>2. CASE pending'[i][1] = r /\ pending'[i][2] <= n
        BY <1>5, <1>6, <4>2
      <4>3. QED
        BY <2>3, <4>1, <4>2
    <3>2. ASSUME NEW i \in DOMAIN pending', NEW j \in DOMAIN pending', i < j,
                 NEW p, NEW q, Place(p, pending'[i][1]), Place(q, pending'[j][1])
          PROVE  p < q \/ (p = q /\ pending'[i][2] < pending'[j][2])
      <4>1. CASE j \in DOMAIN pending /\ pending'[j] = pending[j]
        <5>1. i \in DOMAIN pending /\ pending'[i] = pending[i]
          BY <2>1, <2>2, <3>2, <4>1, SMTT(30)
        <5>2. QED
          BY <3>2, <4>1, <5>1 DEF Ordered, Buffer
      <4>2. CASE /\ j \in Nat /\ j > L /\ pending'[j][1] = r
                 /\ pending'[j][2] = read[r] + (j - L)
        <5>1. q = Turn /\ p \in Nat /\ p <= Turn /\ Turn \in Nat
          <6>1. q = Turn
            BY <1>6, <3>2, <4>2
          <6>2. DOMAIN connected \subseteq Nat
            BY DEF Ordered, Queue
          <6>3. QED
            BY <3>2, <6>1, <6>2 DEF Place
        <5>2. CASE i \in DOMAIN pending /\ pending'[i] = pending[i]
          <6>1. CASE p = q
            <7>1. pending[i][1] = r
              BY <1>6, <3>2, <5>1, <5>2, <6>1 DEF Place
            <7>2. pending[i][2] <= read[r] /\ pending[i][2] \in Nat
              BY <2>4, <5>2, <7>1
            <7>3. QED
              BY <1>4, <2>1, <4>2, <5>2, <6>1, <7>2, SMTT(30)
          <6>2. QED
            BY <5>1, <6>1
        <5>3. CASE /\ i \in Nat /\ i > L /\ pending'[i][1] = r
                   /\ pending'[i][2] = read[r] + (i - L)
          <6>1. p = q
            BY <1>6, <3>2, <5>1, <5>3
          <6>2. QED
            BY <1>4, <2>1, <3>2, <4>2, <5>3, <6>1
        <5>4. QED
          BY <2>3, <5>2, <5>3
      <4>3. QED
        BY <2>3, <4>1, <4>2
    <3>3. QED
      BY <1>7, <3>1, <3>2 DEF Buffer
  <2>6. Done'
    <3>1. ASSUME NEW i \in DOMAIN executed, NEW j \in DOMAIN pending',
                 NEW p, NEW q, Place(p, executed[i][1]), Place(q, pending'[j][1])
          PROVE  p < q
      <4>1. CASE j \in DOMAIN pending /\ pending'[j] = pending[j]
        BY <3>1, <4>1 DEF Ordered, Done
      <4>2. CASE pending'[j][1] = r
        <5>1. q = Turn /\ p \in Nat /\ p <= Turn /\ Turn \in Nat
          BY <1>6, <3>1, <4>2 DEF Place, Ordered, Queue
        <5>2. p # Turn
          BY <1>6, <1>9, <3>1 DEF Place
        <5>3. QED
          BY <5>1, <5>2
      <4>3. QED
        BY <2>3, <4>1, <4>2
    <3>2. QED
      BY <1>1, <1>5, <1>7, <1>9, <3>1 DEF Ordered, Done
  <2>7. QED
    BY <1>7, <1>8, <2>5, <2>6 DEF Ordered
<1>12. QED
  BY <1>3, <1>10, <1>11

\* What is flushed is counted as read of the connection that has the line.
LEMMA FlushOrdered ==
    ASSUME Ordered, ChannelAssumption, Flush \/ Ready, Shape'
    PROVE  Ordered'
<1>1. CASE Ready
  <2>1. UNCHANGED <<client, sent, connected, line, read, pending, executed>>
    BY <1>1 DEF Ready, hostVars, agentVars
  <2>2. Transfer'
    BY <2>1 DEF Ordered, Transfer
  <2>3. QED
    BY <2>1, <2>2, StillOrdered
<1>2. CASE Flush
  <2>1. UNCHANGED <<client, sent, connected, line, pending, executed>> /\ line # <<>>
    BY <1>2 DEF Flush, hostVars
  <2>2. PICK r \in Request :
            r = Head(line) /\ \E n \in read[r] + 1 .. sent[r] : read' = [read EXCEPT ![r] = n]
    <3>1. Head(line) \in Request
      BY <2>1 DEF Ordered, Shape
    <3>2. QED
      BY <1>2, <3>1 DEF Flush
  <2>3. PICK n \in read[r] + 1 .. sent[r] : read' = [read EXCEPT ![r] = n]
    BY <2>2
  <2>4. /\ read[r] \in Nat /\ sent[r] \in Nat /\ Size[r] \in Nat
        /\ sent[r] <= Size[r] + 1 /\ n > read[r] /\ n <= sent[r]
    BY <2>3 DEF Ordered, Shape, Transfer, ChannelAssumption
  <2>5. read'[r] = n /\ \A q \in Request \ {r} : read'[q] = read[q]
    BY <2>3 DEF Ordered, Shape
  <2>6. Queue' /\ (\A p, x : Place(p, x)' <=> Place(p, x))
    BY <2>1 DEF Ordered, Queue, Turn, Place
  <2>7. Transfer'
    BY <2>1, <2>4, <2>5 DEF Ordered, Transfer
  <2>8. \A i \in DOMAIN executed : executed[i][1] # r /\ executed[i][1] \in Request
    <3>1. \A i \in DOMAIN executed : executed[i] \in Request \X Outcome
      BY SMTT(30) DEF Ordered, Shape
    <3>2. ~(read[r] = Size[r] + 1)
      BY <2>4
    <3>3. QED
      BY <3>1, <3>2 DEF Ordered, Done
  <2>9. Done'
    BY <2>1, <2>5, <2>6, <2>8 DEF Ordered, Done
  <2>10. ASSUME NEW i \in DOMAIN pending PROVE pending[i][2] <= read'[pending[i][1]]
    <3>1. pending \in Seq(Request \X Nat)
      BY DEF Ordered, Shape
    <3>2. pending[i][1] \in Request /\ pending[i][2] \in Nat
      BY <3>1
    <3>3. pending[i][2] <= read[pending[i][1]]
      BY DEF Ordered, Buffer
    <3>4. QED
      BY <2>4, <2>5, <3>2, <3>3
  <2>11. Buffer'
    BY <2>1, <2>6, <2>10 DEF Ordered, Buffer
  <2>12. QED
    BY <2>6, <2>7, <2>9, <2>11 DEF Ordered
<1>3. QED
  BY <1>1, <1>2

\* A line is served when its last chunk is there: nothing of its request follows.
LEMMA ServeOrdered ==
    ASSUME Ordered, ChannelAssumption, Serve, Shape'
    PROVE  Ordered'
<1>1. UNCHANGED <<client, sent, connected, line, read>>
  BY DEF Serve, hostVars
<1>2. PICK end \in DOMAIN pending :
          /\ Newline(pending[end])
          /\ pending' = SubSeq(pending, end + 1, Len(pending))
          /\ \/ \E outcome \in Outcome : executed' = Append(executed, <<pending[end][1], outcome>>)
             \/ executed' = executed
  BY DEF Serve, FirstLine, Outcome
<1> DEFINE r == pending[end][1]
<1>3. /\ pending \in Seq(Request \X Nat) /\ Len(pending) \in Nat
      /\ DOMAIN pending = 1 .. Len(pending) /\ end \in 1 .. Len(pending)
  <2>1. pending \in Seq(Request \X Nat)
    BY DEF Ordered, Shape
  <2>2. end \in DOMAIN pending
    OBVIOUS
  <2>3. QED
    BY <2>1, <2>2
<1>4. \A j \in DOMAIN pending' : /\ end + j \in DOMAIN pending /\ end < end + j
                                 /\ pending'[j] = pending[end + j] /\ j \in Nat
  <2>1. \A i \in end + 1 .. Len(pending) : pending[i] \in Request \X Nat
    BY <1>3
  <2>2. end + 1 \in Int /\ Len(pending) \in Int
    BY <1>3
  <2>3. /\ SubSeq(pending, end + 1, Len(pending)) \in Seq(Request \X Nat)
        /\ Len(SubSeq(pending, end + 1, Len(pending))) =
              IF end + 1 <= Len(pending) THEN Len(pending) - (end + 1) + 1 ELSE 0
        /\ \A i \in 1 .. Len(pending) - (end + 1) + 1 :
              SubSeq(pending, end + 1, Len(pending))[i] = pending[end + 1 + i - 1]
    BY <2>1, <2>2, SubSeqProperties, SMTT(30)
  <2>4. pending' \in Seq(Request \X Nat) /\ Len(pending') = Len(pending) - end
    BY <1>2, <1>3, <2>3
  <2>5. ASSUME NEW j \in DOMAIN pending'
        PROVE  /\ end + j \in DOMAIN pending /\ end < end + j
               /\ pending'[j] = pending[end + j] /\ j \in Nat
    <3>1. j \in 1 .. Len(pending) - end
      BY <2>4
    <3>2. end \in Nat /\ Len(pending) \in Nat /\ j \in Nat /\ 1 <= j /\ j <= Len(pending) - end
      BY <1>3, <3>1, SMTT(30)
    <3>3. /\ j \in 1 .. Len(pending) - (end + 1) + 1 /\ end + 1 + j - 1 = end + j
          /\ end + j \in 1 .. Len(pending) /\ end < end + j
      BY <3>2
    <3>4. pending'[j] = SubSeq(pending, end + 1, Len(pending))[j]
      BY <1>2
    <3>5. SubSeq(pending, end + 1, Len(pending))[j] = pending[end + j]
      BY <2>3, <3>3
    <3>6. QED
      BY <1>3, <3>2, <3>3, <3>4, <3>5
  <2>6. QED
    BY <2>5
<1>5. /\ r \in Request /\ pending[end][2] = Size[r] + 1 /\ Size[r] \in Nat
      /\ read[r] \in Nat /\ sent[r] \in Nat
  BY <1>2, <1>3 DEF Newline, Ordered, Shape, ChannelAssumption
<1>6. read[r] = Size[r] + 1 /\ \E p : Place(p, r)
  <2>1. pending[end][2] <= read[r] /\ \E p : Place(p, r)
    BY <1>2 DEF Ordered, Buffer
  <2>2. read[r] <= sent[r] /\ sent[r] <= Size[r] + 1
    BY <1>5 DEF Ordered, Transfer
  <2>3. QED
    BY <1>5, <2>1, <2>2
<1> HIDE DEF r
<1>7. Queue' /\ Transfer' /\ (\A p, x : Place(p, x)' <=> Place(p, x))
  BY <1>1 DEF Ordered, Queue, Transfer, Turn, Place
<1>8. Buffer'
  <2>1. ASSUME NEW i \in DOMAIN pending', NEW j \in DOMAIN pending', i < j,
               NEW p, NEW q, Place(p, pending'[i][1]), Place(q, pending'[j][1])
        PROVE  p < q \/ (p = q /\ pending'[i][2] < pending'[j][2])
    <3>1. /\ end + i \in DOMAIN pending /\ end + j \in DOMAIN pending /\ end + i < end + j
          /\ pending'[i] = pending[end + i] /\ pending'[j] = pending[end + j]
      BY <1>3, <1>4, <2>1
    <3>2. QED
      BY <2>1, <3>1 DEF Ordered, Buffer
  <2>2. \A i \in DOMAIN pending' : /\ \E p : Place(p, pending'[i][1])
                                   /\ pending'[i][2] <= read'[pending'[i][1]]
    BY <1>1, <1>4 DEF Ordered, Buffer
  <2>3. QED
    BY <1>7, <2>1, <2>2 DEF Buffer
\* What remains comes after the request.
<1>9. ASSUME NEW j \in DOMAIN pending', NEW p, NEW q, Place(p, r), Place(q, pending'[j][1])
      PROVE  p < q
  <2>1. p < q \/ (p = q /\ pending[end][2] < pending'[j][2])
    BY <1>2, <1>4, <1>9 DEF Ordered, Buffer, r
  <2>2. ASSUME p = q PROVE FALSE
    <3>1. pending'[j][1] = r
      BY <1>9, <2>2 DEF Place
    <3>2. pending'[j][2] <= read[r]
      BY <1>4, <3>1 DEF Ordered, Buffer
    <3>3. pending'[j][2] \in Nat /\ p \in Nat
      <4>1. DOMAIN connected \subseteq Nat
        BY DEF Ordered, Queue
      <4>2. QED
        BY <1>3, <1>4, <1>9, <4>1 DEF Place
    <3>4. pending[end][2] < pending'[j][2]
      BY <2>1, <2>2, <3>3
    <3>5. QED
      BY <1>5, <1>6, <3>2, <3>3, <3>4
  <2>3. QED
    BY <2>1, <2>2
<1>10. ASSUME NEW i \in DOMAIN executed, NEW j \in DOMAIN pending',
              NEW p, NEW q, Place(p, executed[i][1]), Place(q, pending'[j][1])
       PROVE  p < q
  BY <1>4, <1>10 DEF Ordered, Done
<1>11. CASE executed' = executed
  <2>1. Done'
    BY <1>1, <1>7, <1>10, <1>11 DEF Ordered, Done
  <2>2. QED
    BY <1>7, <1>8, <2>1 DEF Ordered
<1>12. ASSUME NEW outcome \in Outcome, executed' = Append(executed, <<r, outcome>>)
       PROVE  Ordered'
  <2>1. executed \in Seq(Request \X Outcome) /\ Len(executed) \in Nat
        /\ DOMAIN executed = 1 .. Len(executed)
    BY DEF Ordered, Shape
  <2>2. /\ DOMAIN executed' = 1 .. Len(executed) + 1
        /\ executed'[Len(executed) + 1] = <<r, outcome>>
        /\ \A i \in 1 .. Len(executed) : executed'[i] = executed[i]
    <3>1. <<r, outcome>> \in Request \X Outcome
      BY <1>5, <1>12
    <3>2. QED
      BY <1>12, <2>1, <3>1
  <2>3. ASSUME NEW i \in DOMAIN executed'
        PROVE  \/ i \in DOMAIN executed /\ executed'[i] = executed[i]
               \/ i = Len(executed) + 1 /\ executed'[i][1] = r
    BY <2>1, <2>2
  <2>4. ASSUME NEW i \in DOMAIN executed'
        PROVE  /\ \E p : Place(p, executed'[i][1])
               /\ read[executed'[i][1]] = Size[executed'[i][1]] + 1
    BY <1>6, <2>3 DEF Ordered, Done
  <2>5. ASSUME NEW i \in DOMAIN executed', NEW j \in DOMAIN pending',
               NEW p, NEW q, Place(p, executed'[i][1]), Place(q, pending'[j][1])
        PROVE  p < q
    BY <1>9, <1>10, <2>3, <2>5
  <2>6. ASSUME NEW i \in DOMAIN executed', NEW j \in DOMAIN executed', i < j,
               NEW p, NEW q, Place(p, executed'[i][1]), Place(q, executed'[j][1])
        PROVE  p < q
    <3>1. i \in DOMAIN executed /\ executed'[i] = executed[i]
      BY <2>1, <2>2, <2>6
    <3>2. CASE j \in DOMAIN executed /\ executed'[j] = executed[j]
      BY <2>6, <3>1, <3>2 DEF Ordered, Done
    <3>3. CASE executed'[j][1] = r
      <4>1. Place(q, pending[end][1])
        BY <2>6, <3>3 DEF r
      <4>2. QED
        BY <1>2, <2>6, <3>1, <4>1 DEF Ordered, Done
    <3>4. QED
      BY <2>3, <3>2, <3>3
  <2>7. Done'
    BY <1>1, <1>7, <2>4, <2>5, <2>6 DEF Done
  <2>8. QED
    BY <1>7, <1>8, <2>7 DEF Ordered
<1>13. QED
  BY <1>2, <1>11, <1>12 DEF r

LEMMA NextOrdered ==
    ASSUME IInv, Ordered, ChannelAssumption, [Next]_vars
    PROVE  IInv' /\ Ordered'
<1>1. IInv'
  BY NextIInv
<1>2. Shape'
  BY <1>1 DEF IInv
<1>3. CASE UNCHANGED vars
  <2>1. Transfer'
    BY <1>3 DEF vars, hostVars, Ordered, Transfer
  <2>2. QED
    BY <1>1, <1>2, <1>3, <2>1, StillOrdered DEF vars, hostVars, agentVars
<1>4. CASE Next
  BY <1>1, <1>2, <1>4, ConnectOrdered, AnswersOrdered, DisconnectOrdered, FlushOrdered,
     ReadOrdered, ServeOrdered, RestartOrdered DEF Next
<1>5. QED
  BY <1>3, <1>4

\* A late request is executed once, and not after a later one, wherever requests are cut
\* off and however often the machine restarts (agent.py:229).
THEOREM LateInOrderThm == Spec => []LateInOrder
<1> DEFINE Inv == IInv /\ Ordered
<1>1. Init => Inv
  BY InitIInv, InitOrdered, ChannelAssumption
<1>2. Inv /\ [Next]_vars => Inv'
  BY NextOrdered, ChannelAssumption
<1>3. Inv => LateInOrder
  BY OrderedMeans
<1> HIDE DEF Inv
<1>4. QED
  BY <1>1, <1>2, <1>3, PTL DEF Spec

\* The parts of the type invariant that nothing else rests on.
Limits ==
    /\ Len(pending) <= Limit /\ restarts \in 0..MaxRestarts
    /\ lost \subseteq Request /\ flushed \subseteq Request /\ ready \in BOOLEAN

LEMMA NextLimits ==
    ASSUME Shape, Limits, ChannelAssumption, [Next]_vars
    PROVE  Limits'
<1>1. /\ pending \in Seq(Request \X Nat) /\ line \in Seq(Request)
      /\ Limit \in Nat /\ MaxRestarts \in Nat
  BY DEF Shape, ChannelAssumption
<1>2. CASE UNCHANGED vars
  BY <1>2 DEF vars, agentVars, startVars, Limits
<1>3. ASSUME UNCHANGED <<pending, lost, restarts, startVars>> PROVE Limits'
  BY <1>3 DEF startVars, Limits
<1>4. CASE Disconnect \/ WriteAnswer \/ \E r \in Request :
               Connect(r) \/ Write(r) \/ Timeout(r) \/ TakeAnswer(r)
  BY <1>3, <1>4 DEF Disconnect, WriteAnswer, Connect, Write, Timeout, TakeAnswer, agentVars
<1>5. CASE Read
  <2>1. Head(line) \in Request
    BY <1>1, <1>5 DEF Read
  <2>2. /\ pending' = <<>> \/ ~(Len(pending') > Limit)
        /\ lost' \subseteq lost \cup {Head(line)}
        /\ UNCHANGED <<restarts, ready, flushed>>
    BY <1>5 DEF Read, startVars
  <2>3. pending' = <<>> \/ pending' \in Seq(Request \X Nat)
    <3>1. PICK n \in read[Head(line)] + 1 .. sent[Head(line)] :
              pending' = <<>> \/ pending' = pending \o Chunks(Head(line), read[Head(line)] + 1, n)
      BY <1>5 DEF Read
    <3>2. n \in Nat /\ read[Head(line)] + 1 \in Nat
      BY <2>1, <3>1, SMTT(30) DEF Shape
    <3>3. Chunks(Head(line), read[Head(line)] + 1, n) \in Seq(Request \X Nat)
      BY <2>1, <3>2, ChunksAreChunks
    <3> DEFINE c == Chunks(Head(line), read[Head(line)] + 1, n)
    <3> HIDE DEF c
    <3>4. c \in Seq(Request \X Nat)
      BY <3>3 DEF c
    <3>5. pending \o c \in Seq(Request \X Nat)
      BY <1>1, <3>4, ConcatProperties
    <3>6. pending' = <<>> \/ pending' = pending \o c
      BY <3>1 DEF c
    <3>7. QED
      BY <3>5, <3>6
  <2>4. Len(pending') <= Limit
    BY <1>1, <2>2, <2>3
  <2>5. QED
    BY <2>1, <2>2, <2>4 DEF Limits
<1>6. CASE Serve
  <2>1. PICK end \in DOMAIN pending :
            /\ pending' = SubSeq(pending, end + 1, Len(pending))
            /\ lost' \subseteq lost \cup {pending[end][1]}
    BY <1>6 DEF Serve
  <2>2. end \in 1 .. Len(pending) /\ Len(pending) \in Nat /\ pending[end][1] \in Request
    BY <1>1, <2>1
  <2>3. Len(pending') <= Len(pending)
    <3>1. \A i \in end + 1 .. Len(pending) : pending[i] \in Request \X Nat
      BY <1>1, <2>2
    <3>2. Len(SubSeq(pending, end + 1, Len(pending))) =
             IF end + 1 <= Len(pending) THEN Len(pending) - (end + 1) + 1 ELSE 0
      BY <2>2, <3>1, SubSeqProperties
    <3>3. QED
      BY <2>1, <2>2, <3>2
  <2>4. Len(pending') \in Nat
    <3>1. \A i \in end + 1 .. Len(pending) : pending[i] \in Request \X Nat
      BY <1>1, <2>2
    <3>2. SubSeq(pending, end + 1, Len(pending)) \in Seq(Request \X Nat)
      BY <2>2, <3>1, SubSeqProperties
    <3>3. pending' \in Seq(Request \X Nat)
      BY <2>1, <3>2
    <3>4. QED
      BY <3>3
  <2>5. UNCHANGED <<restarts, ready, flushed>>
    BY <1>6 DEF Serve, startVars
  <2>6. Len(pending') <= Limit
    BY <1>1, <2>2, <2>3, <2>4 DEF Limits
  <2>7. lost' \subseteq Request
    BY <2>1, <2>2 DEF Limits
  <2>8. QED
    BY <2>5, <2>6, <2>7 DEF Limits
<1>7. CASE Restart
  <2>1. restarts' = restarts + 1 /\ restarts < MaxRestarts /\ restarts \in 0..MaxRestarts
    BY <1>7 DEF Restart, Limits
  <2>2. restarts' \in 0..MaxRestarts
    BY <1>1, <2>1
  <2>3. pending' = <<>> /\ UNCHANGED <<lost, flushed>> /\ ready' \in BOOLEAN
    BY <1>7 DEF Restart
  <2>4. Len(pending') <= Limit
    BY <1>1, <2>3
  <2>5. lost' \subseteq Request /\ flushed' \subseteq Request
    BY <2>3 DEF Limits
  <2>6. QED
    BY <2>2, <2>3, <2>4, <2>5 DEF Limits
<1>8. CASE Ready
  BY <1>8 DEF Ready, agentVars, Limits
<1>9. CASE Flush
  <2>1. Head(line) \in Request
    BY <1>1, <1>9 DEF Flush
  <2>2. /\ UNCHANGED <<pending, restarts, ready>>
        /\ lost' \subseteq lost \cup {Head(line)} /\ flushed' = flushed \cup {Head(line)}
    BY <1>9 DEF Flush
  <2>3. QED
    BY <2>1, <2>2 DEF Limits
<1>10. QED
  BY <1>2, <1>4, <1>5, <1>6, <1>7, <1>8, <1>9 DEF Next

\* Every variable keeps its type, and the agent's buffer its limit (agent.py:226).
THEOREM ChannelTypes == Spec => []TypeOK
<1> DEFINE Inv == IInv /\ Ordered /\ Limits
<1>1. Init => Inv
  <2>1. Init => Limits
    <3>1. Init => Len(pending) <= Limit /\ restarts \in 0..MaxRestarts
      BY ChannelAssumption DEF Init, ChannelAssumption
    <3>2. Init => lost \subseteq Request /\ flushed \subseteq Request /\ ready \in BOOLEAN
      BY DEF Init
    <3>3. QED
      BY <3>1, <3>2 DEF Limits
  <2>2. QED
    BY <2>1, InitIInv, InitOrdered, ChannelAssumption
<1>2. Inv /\ [Next]_vars => Inv'
  BY NextOrdered, NextLimits, ChannelAssumption DEF IInv
<1>3. Inv => TypeOK
  BY DEF IInv, Shape, Outcome, Ordered, Queue, Transfer, Limits, TypeOK
<1> HIDE DEF Inv
<1>4. QED
  BY <1>1, <1>2, <1>3, PTL DEF Spec
--------------------------------------------------------------------------------
(***************************************************************************)
(* Lost requests, when each fits the agent's buffer with its newline.  The *)
(* buffer begins with what was left by the last connections that were cut  *)
(* off; with the first newline it is empty again.  So the request that has *)
(* the line is in the buffer from its first chunk on and alone, unless it  *)
(* was flushed or comes after one that was cut off, with nothing executed  *)
(* or lost in between.                                                     *)
(***************************************************************************)

Fits == \A r \in Request : Size[r] < Limit

Settled(x) == x \in lost \/ \E i \in DOMAIN executed : executed[i][1] = x

Blames(q, r) ==
    /\ q \in Interrupted /\ Before(q, r)
    /\ \A x \in Request : Before(q, x) /\ Before(x, r) => ~Settled(x)

Excused(r) == r \in flushed \/ \E q \in Request : Blames(q, r)

\* The newline of r is in the buffer; r is being read.
Ended(r)   == \E i \in DOMAIN pending : pending[i][1] = r /\ Newline(pending[i])
Reading(r) == line # <<>> /\ r = Head(line) /\ ~HasLine /\ read[r] \in 1 .. Size[r]

Whole(r) == pending = Chunks(r, 1, read[r])

NewlineLast == \A i \in DOMAIN pending : Newline(pending[i]) => i = Len(pending)

\* Only the request that ends the buffer is there with all of its chunks.
Begun ==
    /\ \A i \in DOMAIN pending :
          /\ pending[i][2] >= 1
          /\ read[pending[i][1]] <= Size[pending[i][1]] \/ Ended(pending[i][1])
    /\ \A r \in Request : read[r] > 0 => \E p : Place(p, r)

LostBefore == \A x \in lost :
    /\ x \in Request /\ read[x] = Size[x] + 1
    /\ \A j \in DOMAIN pending :
          \A p, q : Place(p, x) /\ Place(q, pending[j][1]) => p < q

\* While a line waits to be served, nothing else is read.
NextUnread == HasLine /\ line # <<>> => Ended(Head(line)) \/ read[Head(line)] = 0

Spoilt == \A r \in Request : Reading(r) \/ Ended(r) => Whole(r) \/ Excused(r)

LostExcused == \A r \in lost : Excused(r)

\* Until the agent is ready, nothing is in its buffer.
Starting == ready \/ pending = <<>>

Loss == Starting /\ NewlineLast /\ Begun /\ LostBefore /\ NextUnread /\ Spoilt /\ LostExcused

LEMMA InitLoss == ChannelAssumption /\ Init => Loss
  BY DEF Init, ChannelAssumption, Loss, Starting, NewlineLast, Begun, LostBefore, NextUnread, Spoilt,
         LostExcused, HasLine, Ended, Reading

LEMMA LossMeans == Loss => LostAfterInterruption
  BY DEF Loss, LostExcused, Excused, Blames, Settled, LostAfterInterruption, LostBefore

LEMMA PlacesOrder ==
    ASSUME Queue, NEW p, NEW q, NEW x, NEW y, Place(p, x), Place(q, y)
    PROVE  Before(x, y) <=> p < q
  BY DEF Queue, Place, Before

LEMMA StillExcused ==
    ASSUME NEW r \in Request, Excused(r), flushed \subseteq flushed',
           connected' = connected, Interrupted \subseteq Interrupted',
           \A x \in Request : Settled(x)' => Settled(x) \/ ~Before(x, r)
    PROVE  Excused(r)'
<1>1. CASE r \in flushed
  BY <1>1 DEF Excused
<1>2. ASSUME NEW q \in Request, Blames(q, r) PROVE Blames(q, r)'
  BY <1>2 DEF Blames, Before
<1>3. QED
  BY <1>1, <1>2 DEF Excused

LEMMA StillLoss ==
    ASSUME Loss, UNCHANGED <<connected, line, read, pending, executed, lost, flushed>>,
           ready => ready'
    PROVE  Loss'
<1>1. \A r : /\ Ended(r)' <=> Ended(r)
             /\ Whole(r)' <=> Whole(r)
             /\ \A p : Place(p, r)' <=> Place(p, r)
  BY DEF Ended, Whole, Place, Turn
<1>2. HasLine' <=> HasLine
  BY DEF HasLine
<1>3. \A r : Reading(r)' <=> Reading(r)
  BY <1>2 DEF Reading
<1>4. \A r : Excused(r)' <=> Excused(r)
  BY DEF Excused, Blames, Interrupted, Before, Settled
<1>5. Starting' /\ NewlineLast' /\ Begun' /\ LostBefore' /\ NextUnread' /\ Spoilt' /\ LostExcused'
  BY <1>1, <1>2, <1>3, <1>4
  DEF Loss, Starting, NewlineLast, Begun, LostBefore, NextUnread, Spoilt, LostExcused
<1>6. QED
  BY <1>5 DEF Loss

\* The connection that has the line is at Turn, and alone there.
LEMMA HeadPlace ==
    ASSUME Ordered, line # <<>>
    PROVE  /\ Head(line) \in Request /\ Head(line) \in ToSet(line)
           /\ Turn \in Nat /\ Place(Turn, Head(line))
           /\ \A p : Place(p, Head(line)) => p = Turn
           /\ \A p, x : Place(p, x) /\ x \in ToSet(line) => x = Head(line)
<1>1. /\ line \in Seq(Request) /\ Head(line) = line[1] /\ Head(line) \in Request
      /\ 1 \in DOMAIN line /\ Len(line) \in Nat \ {0} /\ DOMAIN line = 1 .. Len(line)
      /\ Len(connected) \in Nat /\ DOMAIN connected = 1 .. Len(connected)
      /\ Len(line) <= Len(connected)
  <2>1. line \in Seq(Request) /\ connected \in Seq(Request) /\ Len(line) <= Len(connected)
    BY DEF Ordered, Shape, Queue
  <2>2. Len(line) \in Nat \ {0} /\ DOMAIN line = 1 .. Len(line)
    BY <2>1
  <2>3. Head(line) = line[1] /\ Head(line) \in Request
    BY <2>1
  <2>4. QED
    BY <2>1, <2>2, <2>3
<1>2. Turn \in Nat /\ Turn \in DOMAIN connected
  BY <1>1 DEF Turn
<1>3. connected[Turn] = Head(line)
  <2>1. line[1] = connected[Turn + 1 - 1]
    BY <1>1 DEF Ordered, Queue
  <2>2. QED
    BY <1>1, <1>2, <2>1
<1>4. Place(Turn, Head(line)) /\ \A p : Place(p, Head(line)) => p = Turn
  BY <1>2, <1>3 DEF Place, Ordered, Queue
<1>5. ASSUME NEW p, NEW x, Place(p, x), x \in ToSet(line)
      PROVE  x = Head(line)
  <2>1. PICK i \in DOMAIN line : x = line[i]
    BY <1>5 DEF ToSet
  <2>2. x = connected[Turn + i - 1] /\ Turn + i - 1 \in DOMAIN connected
    BY <1>1, <1>2, <2>1 DEF Ordered, Queue, Turn
  <2>3. p = Turn + i - 1 /\ p <= Turn
    BY <1>5, <2>2 DEF Place, Ordered, Queue
  <2>4. i = 1
    BY <1>1, <1>2, <2>1, <2>3
  <2>5. QED
    BY <1>1, <2>1, <2>4
<1>6. QED
  BY <1>1, <1>2, <1>4, <1>5 DEF ToSet

LEMMA ChunkShape ==
    ASSUME NEW r \in Request, NEW first \in Nat, NEW last \in Nat, first <= last + 1
    PROVE  /\ Chunks(r, first, last) \in Seq(Request \X Nat)
           /\ Len(Chunks(r, first, last)) = last - first + 1
           /\ \A i \in 1 .. last - first + 1 : Chunks(r, first, last)[i] = <<r, first + i - 1>>
<1>1. Chunks(r, first, last) \in Seq(Request \X Nat)
  BY ChunksAreChunks
<1>2. last - first + 1 \in Nat
  OBVIOUS
<1>3. QED
  BY <1>1, <1>2 DEF Chunks

LEMMA ChunksFromOne ==
    ASSUME NEW r \in Request, NEW n \in Nat
    PROVE  /\ Chunks(r, 1, n) \in Seq(Request \X Nat)
           /\ Len(Chunks(r, 1, n)) = n
           /\ \A i \in 1 .. n : Chunks(r, 1, n)[i] = <<r, i>>
<1>1. 1 \in Nat /\ 1 <= n + 1 /\ n - 1 + 1 = n /\ \A i \in 1 .. n : 1 + i - 1 = i
  OBVIOUS
<1>2. /\ Chunks(r, 1, n) \in Seq(Request \X Nat)
      /\ Len(Chunks(r, 1, n)) = n - 1 + 1
      /\ \A i \in 1 .. n - 1 + 1 : Chunks(r, 1, n)[i] = <<r, 1 + i - 1>>
  BY <1>1, ChunkShape
<1>3. QED
  BY <1>1, <1>2

LEMMA ChunksJoin ==
    ASSUME NEW r \in Request, NEW m \in Nat, NEW n \in Nat, m < n
    PROVE  Chunks(r, 1, m) \o Chunks(r, m + 1, n) = Chunks(r, 1, n)
<1> DEFINE a == Chunks(r, 1, m)
           b == Chunks(r, m + 1, n)
           c == Chunks(r, 1, n)
<1>1. a \in Seq(Request \X Nat) /\ Len(a) = m /\ \A i \in 1 .. m : a[i] = <<r, i>>
  BY ChunksFromOne
<1>2. /\ b \in Seq(Request \X Nat) /\ Len(b) = n - m
      /\ \A i \in 1 .. n - m : b[i] = <<r, m + 1 + i - 1>>
  <2>1. m + 1 \in Nat /\ m + 1 <= n + 1 /\ n - (m + 1) + 1 = n - m
    OBVIOUS
  <2>2. QED
    BY <2>1, ChunkShape
<1>3. c \in Seq(Request \X Nat) /\ Len(c) = n /\ \A i \in 1 .. n : c[i] = <<r, i>>
  BY ChunksFromOne
<1> HIDE DEF a, b, c
<1>4. /\ a \o b \in Seq(Request \X Nat) /\ Len(a \o b) = Len(a) + Len(b)
      /\ \A i \in 1 .. Len(a) + Len(b) :
            (a \o b)[i] = IF i <= Len(a) THEN a[i] ELSE b[i - Len(a)]
  BY <1>1, <1>2, ConcatProperties
<1>5. /\ Len(a \o b) = n
      /\ \A i \in 1 .. n : (a \o b)[i] = IF i <= m THEN a[i] ELSE b[i - m]
  <2>1. Len(a) + Len(b) = n /\ Len(a) = m
    BY <1>1, <1>2
  <2>2. QED
    BY <1>4, <2>1
<1>6. ASSUME NEW i \in 1 .. n PROVE (a \o b)[i] = c[i]
  <2>1. CASE i <= m
    <3>1. i \in 1 .. m
      BY <2>1
    <3>2. QED
      BY <1>1, <1>3, <1>5, <2>1, <3>1
  <2>2. CASE ~(i <= m)
    <3>1. i - m \in 1 .. n - m /\ m + 1 + (i - m) - 1 = i
      BY <2>2
    <3>2. (a \o b)[i] = b[i - m]
      BY <1>5, <2>2
    <3>3. QED
      BY <1>2, <1>3, <3>1, <3>2
  <2>3. QED
    BY <2>1, <2>2
<1>7. a \o b = c
  BY <1>3, <1>4, <1>5, <1>6, SeqEqual
<1>8. QED
  BY <1>7 DEF a, b, c

LEMMA ConnectLoss ==
    ASSUME Ordered, Loss, ChannelAssumption, NEW r \in Request, Connect(r)
    PROVE  Loss'
<1>1. UNCHANGED <<read, pending, executed, lost, startVars>> /\ client[r] = "idle"
  BY DEF Connect, agentVars
<1>2. CASE UNCHANGED <<line, connected>>
  BY <1>1, <1>2, StillLoss DEF startVars
<1>3. CASE line' = Append(line, r) /\ connected' = Append(connected, r)
  <2>1. /\ connected \in Seq(Request) /\ line \in Seq(Request)
        /\ Len(connected) \in Nat /\ DOMAIN connected = 1 .. Len(connected)
        /\ Len(line) \in Nat /\ DOMAIN line = 1 .. Len(line)
        /\ Len(line) <= Len(connected)
    BY DEF Ordered, Shape, Queue
  <2>2. /\ DOMAIN connected' = 1 .. Len(connected) + 1 /\ Len(connected') = Len(connected) + 1
        /\ connected'[Len(connected) + 1] = r
        /\ \A i \in 1 .. Len(connected) : connected'[i] = connected[i]
    BY <1>3, <2>1
  <2>3. /\ Len(line') = Len(line) + 1 /\ DOMAIN line' = 1 .. Len(line) + 1
        /\ line'[Len(line) + 1] = r
        /\ \A i \in 1 .. Len(line) : line'[i] = line[i]
    BY <1>3, <2>1
  <2>4. Turn' = Turn /\ Turn \in 1 .. Len(connected) + 1
    BY <2>1, <2>2, <2>3 DEF Turn
  \* The new connection is behind all others, and nothing is read of it.
  <2>5. \A i \in DOMAIN connected : connected[i] # r
    BY <1>1 DEF Ordered, Queue
  <2>6. \A p, x : Place(p, x) => Place(p, x)' /\ x # r
    BY <2>1, <2>2, <2>4, <2>5 DEF Place
  <2>7. \A p, x : x # r /\ Place(p, x)' => Place(p, x)
    BY <2>1, <2>2, <2>4 DEF Place
  <2>8. read[r] = 0
    <3>1. ~(\E p : Place(p, r))
      BY <2>5 DEF Place
    <3>2. read[r] \in Nat /\ (read[r] > 0 => \E p : Place(p, r))
      BY DEF Loss, Begun, Ordered, Shape
    <3>3. QED
      BY <3>1, <3>2
  <2>9. ASSUME NEW x, NEW y, y # r
        PROVE  Before(x, y)' <=> Before(x, y) /\ x # r
    <3>1. ASSUME Before(x, y)'
          PROVE  Before(x, y) /\ x # r
      <4>1. PICK i \in DOMAIN connected', j \in DOMAIN connected' :
                i < j /\ connected'[i] = x /\ connected'[j] = y
        BY <3>1 DEF Before
      <4>2. j # Len(connected) + 1 /\ j \in 1 .. Len(connected) + 1 /\ i \in 1 .. Len(connected) + 1
        BY <2>2, <2>9, <4>1
      <4>3. j \in 1 .. Len(connected) /\ i \in 1 .. Len(connected)
        <5>1. Len(connected) \in Nat /\ i < j
          BY <2>1, <4>1
        <5>2. QED
          BY <4>2, <5>1
      <4>4. connected[i] = x /\ connected[j] = y
        BY <2>2, <4>1, <4>3
      <4>5. QED
        BY <2>1, <2>5, <4>1, <4>3, <4>4 DEF Before
    <3>2. ASSUME Before(x, y) PROVE Before(x, y)'
      <4>1. PICK i \in DOMAIN connected, j \in DOMAIN connected :
                i < j /\ connected[i] = x /\ connected[j] = y
        BY <3>2 DEF Before
      <4>2. /\ i \in DOMAIN connected' /\ j \in DOMAIN connected'
            /\ connected'[i] = x /\ connected'[j] = y
        BY <2>1, <2>2, <4>1
      <4>3. QED
        BY <4>1, <4>2 DEF Before
    <3>3. QED
      BY <3>1, <3>2
  <2>10. Interrupted' = Interrupted
    <3>1. \A x : x \in ToSet(line') <=> x \in ToSet(line) \/ x = r
      <4>1. Len(line) \in Nat /\ DOMAIN line = 1 .. Len(line)
        BY <2>1
      <4>2. 1 .. Len(line) + 1 = (1 .. Len(line)) \cup {Len(line) + 1}
        BY <4>1
      <4>3. QED
        BY <2>3, <4>1, <4>2 DEF ToSet
    <3>2. 0 \notin 1 .. Size[r]
      OBVIOUS
    <3>3. QED
      BY <1>1, <2>8, <3>1, <3>2 DEF Interrupted
  <2>11. ASSUME NEW x \in Request, x # r, Excused(x) PROVE Excused(x)'
    <3>1. CASE x \in flushed
      BY <1>1, <3>1 DEF Excused, startVars
    <3>2. ASSUME NEW q \in Request, Blames(q, x) PROVE Blames(q, x)'
      <4>1. q \in Interrupted /\ Before(q, x)
        BY <3>2 DEF Blames
      <4>2. q # r
        BY <2>8, <4>1 DEF Interrupted
      <4>3. Before(q, x)'
        BY <2>9, <2>11, <4>1, <4>2
      <4>4. ASSUME NEW y \in Request, Before(q, y)', Before(y, x)'
            PROVE  ~Settled(y)'
        <5>1. Before(y, x) /\ y # r
          BY <2>9, <2>11, <4>4
        <5>2. Before(q, y)
          BY <2>9, <4>4, <5>1
        <5>3. ~Settled(y)
          BY <3>2, <4>4, <5>1, <5>2 DEF Blames
        <5>4. QED
          BY <1>1, <5>3 DEF Settled
      <4>5. QED
        BY <2>10, <4>1, <4>3, <4>4 DEF Blames
    <3>3. QED
      BY <2>11, <3>1, <3>2 DEF Excused
  <2>12. \A x : (Ended(x)' <=> Ended(x)) /\ (Whole(x)' <=> Whole(x))
    BY <1>1 DEF Ended, Whole
  <2>13. HasLine' <=> HasLine
    BY <1>1 DEF HasLine
  <2>14. line # <<>> => Head(line') = Head(line)
    BY <2>1, <2>3
  <2>15. line = <<>> => Head(line') = r
    BY <2>1, <2>3
  <2>16. ASSUME NEW x \in Request, Reading(x)' PROVE Reading(x)
    <3>1. x = Head(line') /\ ~HasLine /\ read[x] \in 1 .. Size[x]
      BY <1>1, <2>13, <2>16 DEF Reading
    <3>2. x # r
      BY <2>8, <3>1
    <3>3. QED
      BY <2>14, <2>15, <3>1, <3>2 DEF Reading
  <2>17. ASSUME NEW x \in Request, Ended(x) \/ Reading(x) PROVE x # r
    <3>1. CASE Ended(x)
      <4>1. PICK i \in DOMAIN pending : pending[i][1] = x
        BY <3>1 DEF Ended
      <4>2. \E p : Place(p, x)
        BY <4>1 DEF Ordered, Buffer
      <4>3. QED
        BY <2>6, <4>2
    <3>2. CASE Reading(x)
      BY <2>8, <3>2 DEF Reading
    <3>3. QED
      BY <2>17, <3>1, <3>2
  <2>18. Spoilt'
    BY <2>11, <2>12, <2>16, <2>17 DEF Loss, Spoilt
  \* Of a request that was lost, something was read.
  <2>19. ASSUME NEW x \in lost
         PROVE  x \in Request /\ x # r /\ Excused(x) /\ \E p : Place(p, x)
    <3>1. x \in Request /\ read[x] = Size[x] + 1 /\ Excused(x) /\ Size[x] \in Nat
      BY DEF Loss, LostBefore, LostExcused, ChannelAssumption
    <3>2. \E p : Place(p, x)
      BY <3>1 DEF Loss, Begun
    <3>3. QED
      BY <2>6, <3>1, <3>2
  <2>20. NewlineLast'
    BY <1>1 DEF Loss, NewlineLast, Newline
  <2>21. Begun'
    BY <1>1, <2>6, <2>12 DEF Loss, Begun
  <2>22. LostBefore'
    <3>1. ASSUME NEW x \in lost, NEW j \in DOMAIN pending, NEW p, NEW q,
                 Place(p, x)', Place(q, pending[j][1])'
          PROVE  p < q
      <4>1. \E s : Place(s, pending[j][1])
        BY DEF Ordered, Buffer
      <4>2. x # r /\ pending[j][1] # r
        BY <2>6, <2>19, <4>1
      <4>3. Place(p, x) /\ Place(q, pending[j][1])
        BY <1>1, <2>7, <3>1, <4>2
      <4>4. QED
        BY <4>3 DEF Loss, LostBefore
    <3>2. QED
      BY <1>1, <3>1 DEF Loss, LostBefore
  <2>23. NextUnread'
    BY <1>1, <2>8, <2>12, <2>13, <2>14, <2>15 DEF Loss, NextUnread
  <2>24. LostExcused'
    BY <1>1, <2>11, <2>19 DEF LostExcused
  <2>25. Starting'
    BY <1>1 DEF Loss, Starting, startVars
  <2>26. QED
    BY <2>18, <2>20, <2>21, <2>22, <2>23, <2>24, <2>25 DEF Loss
<1>4. QED
  BY <1>2, <1>3 DEF Connect

\* The line's next connection has not been read.
LEMMA DisconnectLoss ==
    ASSUME Ordered, Loss, ChannelAssumption, Disconnect
    PROVE  Loss'
<1>1. /\ UNCHANGED <<connected, read, pending, executed, lost, startVars>>
      /\ line # <<>> /\ line' = Tail(line)
  BY DEF Disconnect, hostVars, agentVars
<1>2. /\ line \in Seq(Request) /\ Len(line) \in Nat /\ DOMAIN line = 1 .. Len(line)
      /\ Len(connected) \in Nat /\ Len(line) <= Len(connected)
      /\ DOMAIN connected = 1 .. Len(connected)
  BY DEF Ordered, Shape, Queue
<1>3. /\ Len(line') = Len(line) - 1 /\ DOMAIN line' = 1 .. Len(line) - 1
      /\ \A i \in DOMAIN line' : i + 1 \in DOMAIN line /\ line'[i] = line[i + 1]
  BY <1>1, <1>2
<1>4. Turn' = Turn + 1 /\ Turn \in Nat
  BY <1>1, <1>2, <1>3 DEF Turn
<1>5. \A p, x : Place(p, x) => Place(p, x)'
  BY <1>1, <1>2, <1>4 DEF Place
<1>6. \A p, q, x : Place(p, x) /\ Place(q, x)' => p = q
  BY <1>1 DEF Place, Ordered, Queue
<1>7. Interrupted \subseteq Interrupted'
  BY <1>1, <1>3 DEF Interrupted, ToSet
<1>8. ASSUME NEW x \in Request, Excused(x) PROVE Excused(x)'
  <2>1. (\A y \in Request : Settled(y)' => Settled(y)) /\ flushed' = flushed
    BY <1>1 DEF Settled, startVars
  <2>2. QED
    BY <1>1, <1>7, <1>8, <2>1, StillExcused
<1>9. ASSUME line' # <<>> PROVE Head(line') \in Request /\ read[Head(line')] = 0
  <2>1. Head(line') = line'[1] /\ line'[1] = line[2] /\ 2 \in DOMAIN line /\ line[2] \in Request
    BY <1>1, <1>2, <1>3, <1>9
  <2>2. line[2] = connected[Turn + 2 - 1] /\ Turn + 2 - 1 = Turn + 1
    BY <1>4, <2>1 DEF Ordered, Queue
  <2>3. Turn + 1 \in DOMAIN connected
    BY <1>2, <2>1 DEF Turn
  <2>4. ~(\E p : Place(p, line[2]))
    <3>1. ASSUME NEW p, Place(p, line[2]) PROVE p = Turn + 1 /\ p <= Turn
      BY <2>2, <2>3, <3>1 DEF Place, Ordered, Queue
    <3>2. QED
      BY <1>4, <3>1
  <2>5. read[line[2]] \in Nat /\ (read[line[2]] > 0 => \E p : Place(p, line[2]))
    BY <2>1 DEF Loss, Begun, Ordered, Shape
  <2>6. QED
    BY <2>1, <2>4, <2>5
<1>10. HasLine' <=> HasLine
  BY <1>1 DEF HasLine
<1>11. \A x : (Ended(x)' <=> Ended(x)) /\ (Whole(x)' <=> Whole(x))
  BY <1>1 DEF Ended, Whole
<1>12. NewlineLast' /\ Begun'
  BY <1>1, <1>5, <1>11 DEF Loss, NewlineLast, Newline, Begun
<1>13. LostBefore'
  <2>1. ASSUME NEW x \in lost, NEW j \in DOMAIN pending, NEW p, NEW q,
               Place(p, x)', Place(q, pending[j][1])'
        PROVE  p < q
    <3>1. x \in Request /\ read[x] = Size[x] + 1
      BY DEF Loss, LostBefore
    <3>2. read[x] > 0
      BY <3>1 DEF ChannelAssumption
    <3>3. \E s1 : Place(s1, x)
      BY <3>1, <3>2 DEF Loss, Begun
    <3>4. \E s1 : Place(s1, pending[j][1])
      BY DEF Ordered, Buffer
    <3>5. Place(p, x) /\ Place(q, pending[j][1])
      BY <1>1, <1>6, <2>1, <3>3, <3>4
    <3>6. QED
      BY <3>5 DEF Loss, LostBefore
  <2>2. QED
    BY <1>1, <2>1 DEF Loss, LostBefore
<1>14. NextUnread'
  BY <1>1, <1>9 DEF NextUnread
<1>15. \A x \in Request : ~Reading(x)'
  <2>1. ASSUME NEW x \in Request, Reading(x)' PROVE FALSE
    <3>1. line' # <<>> /\ x = Head(line') /\ read[x] \in 1 .. Size[x]
      BY <1>1, <2>1 DEF Reading
    <3>2. QED
      BY <1>9, <3>1
  <2>2. QED
    BY <2>1
<1>16. Spoilt'
  BY <1>8, <1>11, <1>15 DEF Loss, Spoilt
<1>17. LostExcused'
  BY <1>1, <1>8 DEF Loss, LostBefore, LostExcused
<1>18. Starting'
  BY <1>1 DEF Loss, Starting, startVars
<1>19. QED
  BY <1>12, <1>13, <1>14, <1>16, <1>17, <1>18 DEF Loss

LEMMA RestartLoss ==
    ASSUME Ordered, Loss, Restart
    PROVE  Loss'
<1>1. UNCHANGED <<connected, read, executed, lost, flushed>> /\ line' = <<>> /\ pending' = <<>>
  BY DEF Restart
<1>2. Interrupted \subseteq Interrupted'
  BY <1>1 DEF Interrupted, ToSet
<1>3. ASSUME NEW x \in Request, Excused(x) PROVE Excused(x)'
  <2>1. \A y \in Request : Settled(y)' => Settled(y)
    BY <1>1 DEF Settled
  <2>2. QED
    BY <1>1, <1>2, <1>3, <2>1, StillExcused
<1>4. \A p, x : Place(p, x) => Place(p, x)'
  <2>1. Turn <= Turn' /\ Turn \in Int /\ Turn' \in Int /\ DOMAIN connected \subseteq Nat
    BY <1>1, SMTT(30) DEF Turn, Ordered, Shape, Queue
  <2>2. QED
    BY <1>1, <2>1 DEF Place
<1>5. LostExcused'
  BY <1>1, <1>3 DEF Loss, LostBefore, LostExcused
<1>6. Starting' /\ NewlineLast' /\ Begun' /\ LostBefore' /\ NextUnread' /\ Spoilt'
  BY <1>1, <1>4
  DEF Loss, Starting, NewlineLast, Begun, LostBefore, NextUnread, Spoilt, Reading, Ended
<1>7. QED
  BY <1>5, <1>6 DEF Loss

\* Who has the line is in the buffer alone and from its first chunk on, or comes after
\* one that was cut off.
LEMMA HeadSpoilt ==
    ASSUME Ordered, Loss, ChannelAssumption, line # <<>>, ~HasLine,
           read[Head(line)] <= Size[Head(line)]
    PROVE  Whole(Head(line)) \/ Excused(Head(line))
<1> DEFINE h == Head(line)
<1>1. /\ h \in Request /\ h \in ToSet(line) /\ Turn \in Nat /\ Place(Turn, h)
      /\ \A p, x : Place(p, x) /\ x \in ToSet(line) => x = h
      /\ read[h] \in Nat /\ Size[h] \in Nat
  BY HeadPlace DEF Ordered, Shape, ChannelAssumption
<1>2. line # <<>> /\ ~HasLine /\ read[h] <= Size[h] /\ h = Head(line)
  OBVIOUS
<1> HIDE DEF h
<1>3. CASE read[h] > 0
  <2>1. Reading(h)
    BY <1>1, <1>2, <1>3 DEF Reading
  <2>2. QED
    BY <1>1, <1>2, <2>1 DEF Loss, Spoilt
<1>4. CASE read[h] = 0
  <2>1. CASE pending = <<>>
    <3>1. Chunks(h, 1, 0) = <<>>
      <4>1. Chunks(h, 1, 0) \in Seq(Request \X Nat) /\ Len(Chunks(h, 1, 0)) = 0
        BY <1>1, ChunksFromOne
      <4>2. QED
        BY <4>1
    <3>2. QED
      BY <1>2, <1>4, <2>1, <3>1 DEF Whole
  <2>2. CASE pending # <<>>
    <3> DEFINE q == pending[1][1]
    <3>1. 1 \in DOMAIN pending /\ q \in Request /\ pending[1][2] \in Nat
      <4>1. pending \in Seq(Request \X Nat)
        BY DEF Ordered, Shape
      <4>2. 1 \in DOMAIN pending /\ pending[1] \in Request \X Nat
        BY <2>2, <4>1
      <4>3. QED
        BY <4>2
    <3>2. PICK p : Place(p, q)
      BY <3>1 DEF Ordered, Buffer
    <3>3. read[q] \in 1 .. Size[q]
      <4>1. pending[1][2] <= read[q] /\ pending[1][2] >= 1 /\ (read[q] <= Size[q] \/ Ended(q))
        BY <3>1 DEF Ordered, Buffer, Loss, Begun
      <4>2. ~Ended(q)
        BY <1>2 DEF HasLine, Ended
      <4>3. read[q] \in Nat /\ Size[q] \in Nat
        BY <3>1 DEF Ordered, Shape, ChannelAssumption
      <4>4. QED
        BY <3>1, <4>1, <4>2, <4>3
    <3> HIDE DEF q
    <3>4. q # h
      BY <1>4, <3>3
    <3>5. q \in Interrupted
      BY <1>1, <3>1, <3>2, <3>3, <3>4 DEF Interrupted
    <3>6. Before(q, h)
      <4>1. p <= Turn /\ p # Turn /\ p \in Nat
        BY <1>1, <3>2, <3>4 DEF Place, Ordered, Queue
      <4>2. p < Turn
        BY <1>1, <4>1
      <4>3. QED
        BY <1>1, <3>2, <4>2 DEF Place, Before
    <3>7. ASSUME NEW x \in Request, Before(q, x), Settled(x) PROVE FALSE
      <4>1. PICK s : Place(s, x) /\ s < p
        <5>1. CASE x \in lost
          <6>1. read[x] = Size[x] + 1 /\ Size[x] \in Nat
            BY <5>1 DEF Loss, LostBefore, ChannelAssumption
          <6>2. PICK s : Place(s, x)
            BY <3>7, <6>1 DEF Loss, Begun
          <6>3. s < p
            BY <3>1, <3>2, <5>1, <6>2 DEF Loss, LostBefore, q
          <6>4. QED
            BY <6>2, <6>3
        <5>2. ASSUME NEW i \in DOMAIN executed, executed[i][1] = x
              PROVE  \E s : Place(s, x) /\ s < p
          BY <3>1, <3>2, <5>2 DEF Ordered, Done, q
        <5>3. QED
          BY <3>7, <5>1, <5>2 DEF Settled
      <4>2. p < s
        BY <3>2, <3>7, <4>1, PlacesOrder DEF Ordered
      <4>3. p \in Nat /\ s \in Nat
        BY <3>2, <4>1 DEF Place, Ordered, Queue
      <4>4. QED
        BY <4>1, <4>2, <4>3
    <3>8. Blames(q, h)
      BY <3>5, <3>6, <3>7 DEF Blames
    <3>9. QED
      BY <1>2, <3>1, <3>8 DEF Excused
  <2>3. QED
    BY <2>1, <2>2
<1>5. QED
  BY <1>1, <1>3, <1>4

\* What is read is appended to the buffer, or clears it.
LEMMA ReadFacts ==
    ASSUME Ordered, ChannelAssumption, Read
    PROVE  LET r == Head(line) IN
           /\ UNCHANGED <<connected, line, executed, startVars>> /\ ready
           /\ line # <<>> /\ ~HasLine
           /\ read[r] \in Nat /\ Size[r] \in Nat
           /\ \E n \in Nat :
                 /\ read[r] < n /\ n <= Size[r] + 1
                 /\ read' = [read EXCEPT ![r] = n]
                 /\ \/ /\ Len(pending \o Chunks(r, read[r] + 1, n)) > Limit
                       /\ pending' = <<>> /\ lost' = lost \cup {q \in {r} : n = Size[r] + 1}
                    \/ /\ pending' = pending \o Chunks(r, read[r] + 1, n)
                       /\ lost' = lost
<1> DEFINE r == Head(line)
<1>1. UNCHANGED <<connected, line, executed, startVars>> /\ ready /\ line # <<>> /\ ~HasLine
  BY DEF Read, hostVars
<1>2. r \in Request
  BY <1>1, HeadPlace
<1>3. PICK n \in read[r] + 1 .. sent[r] :
          /\ read' = [read EXCEPT ![r] = n]
          /\ \/ /\ Len(pending \o Chunks(r, read[r] + 1, n)) > Limit
                /\ pending' = <<>> /\ lost' = lost \cup {q \in {r} : n = Size[r] + 1}
             \/ /\ pending' = pending \o Chunks(r, read[r] + 1, n)
                /\ lost' = lost
  BY DEF Read
<1> HIDE DEF r
<1>4. read[r] \in Nat /\ sent[r] \in Nat /\ Size[r] \in Nat /\ sent[r] <= Size[r] + 1
  BY <1>2 DEF Ordered, Shape, Transfer, ChannelAssumption
<1>5. n \in Nat /\ read[r] < n /\ n <= Size[r] + 1
  BY <1>3, <1>4
<1>6. QED
  BY <1>1, <1>3, <1>4, <1>5 DEF r

\* An old chunk is where it was; a new one is the line's and above what was read of it.
LEMMA Appended ==
    ASSUME NEW s \in Seq(Request \X Nat), NEW r \in Request, NEW m \in Nat, NEW n \in Nat, m < n
    PROVE  LET new == s \o Chunks(r, m + 1, n) IN
           /\ Len(new) = Len(s) + (n - m) /\ DOMAIN new = 1 .. Len(s) + (n - m)
           /\ new[Len(s) + (n - m)] = <<r, n>>
           /\ \A i \in DOMAIN new :
                 \/ i \in DOMAIN s /\ new[i] = s[i]
                 \/ /\ i > Len(s) /\ new[i] = <<r, m + (i - Len(s))>>
                    /\ i <= Len(s) + (n - m)
<1> DEFINE c   == Chunks(r, m + 1, n)
           L   == Len(s)
<1>1. c \in Seq(Request \X Nat) /\ Len(c) = n - m /\ \A i \in 1 .. n - m : c[i] = <<r, m + i>>
  <2>1. /\ m + 1 \in Nat /\ m + 1 <= n + 1 /\ n - (m + 1) + 1 = n - m
        /\ \A i \in 1 .. n - m : m + 1 + i - 1 = m + i
    OBVIOUS
  <2>2. /\ c \in Seq(Request \X Nat) /\ Len(c) = n - (m + 1) + 1
        /\ \A i \in 1 .. n - (m + 1) + 1 : c[i] = <<r, m + 1 + i - 1>>
    BY <2>1, ChunkShape
  <2> HIDE DEF c
  <2>3. QED
    BY <2>1, <2>2
<1> HIDE DEF c
<1>2. /\ s \o c \in Seq(Request \X Nat) /\ Len(s \o c) = L + (n - m)
      /\ \A i \in 1 .. L + (n - m) : (s \o c)[i] = IF i <= L THEN s[i] ELSE c[i - L]
  <2>1. /\ s \o c \in Seq(Request \X Nat) /\ Len(s \o c) = Len(s) + Len(c)
        /\ \A i \in 1 .. Len(s) + Len(c) :
              (s \o c)[i] = IF i <= Len(s) THEN s[i] ELSE c[i - Len(s)]
    BY <1>1, ConcatProperties
  <2>2. QED
    BY <1>1, <2>1
<1>3. L \in Nat /\ DOMAIN s = 1 .. L /\ DOMAIN (s \o c) = 1 .. L + (n - m)
  BY <1>2
<1> HIDE DEF L
<1>4. ASSUME NEW i \in 1 .. L + (n - m)
      PROVE  \/ i \in DOMAIN s /\ (s \o c)[i] = s[i]
             \/ i > L /\ (s \o c)[i] = <<r, m + (i - L)>> /\ i <= L + (n - m)
  <2>1. CASE i <= L
    BY <1>2, <1>3, <2>1
  <2>2. CASE ~(i <= L)
    <3>1. i - L \in 1 .. n - m
      BY <1>3, <2>2
    <3>2. (s \o c)[i] = c[i - L]
      BY <1>2, <2>2
    <3>3. c[i - L] = <<r, m + (i - L)>>
      BY <1>1, <3>1
    <3>4. i > L /\ i <= L + (n - m)
      BY <1>3, <2>2
    <3>5. QED
      BY <3>2, <3>3, <3>4
  <2>3. QED
    BY <2>1, <2>2
<1>5. (s \o c)[L + (n - m)] = <<r, n>>
  <2>1. ASSUME NEW k \in Nat, k = L + (n - m) PROVE (s \o c)[k] = <<r, n>>
    <3>1. k \in 1 .. L + (n - m) /\ ~(k <= L) /\ k - L \in 1 .. n - m /\ m + (k - L) = n
      BY <1>3, <2>1
    <3>2. (s \o c)[k] = c[k - L]
      BY <1>2, <3>1
    <3>3. c[k - L] = <<r, m + (k - L)>>
      BY <1>1, <3>1
    <3>4. QED
      BY <3>1, <3>2, <3>3
  <2>2. L + (n - m) \in Nat
    BY <1>3
  <2>3. QED
    BY <2>1, <2>2
<1>6. QED
  BY <1>2, <1>3, <1>4, <1>5 DEF c, L

\* Whoever is blamed for the loss of a request that had its turn is still blamed.
LEMMA ReadLoss ==
    ASSUME Ordered, Loss, ChannelAssumption, Fits, Read
    PROVE  Loss'
<1>1. PICK r \in Request, m \in Nat :
          /\ r = Head(line) /\ m = read[r] /\ line # <<>> /\ ~HasLine
          /\ UNCHANGED <<connected, line, executed, startVars>> /\ ready /\ Size[r] \in Nat
  <2>1. Head(line) \in Request
    BY ReadFacts, HeadPlace
  <2>2. QED
    BY <2>1, ReadFacts
<1>2. PICK n \in Nat :
          /\ m < n /\ n <= Size[r] + 1 /\ read' = [read EXCEPT ![r] = n]
          /\ \/ /\ Len(pending \o Chunks(r, m + 1, n)) > Limit
                /\ pending' = <<>> /\ lost' = lost \cup {q \in {r} : n = Size[r] + 1}
             \/ /\ pending' = pending \o Chunks(r, m + 1, n)
                /\ lost' = lost
  BY <1>1, ReadFacts
<1>3. /\ r \in Request /\ r \in ToSet(line) /\ Turn \in Nat /\ Place(Turn, r)
      /\ \A p : Place(p, r) => p = Turn
  BY <1>1, HeadPlace
<1>4. r = Head(line') /\ r = Head(line) /\ line' # <<>>
  BY <1>1
<1>5. Whole(r) \/ Excused(r)
  <2>1. read[r] <= Size[r]
    BY <1>1, <1>2
  <2>2. QED
    BY <1>1, <2>1, HeadSpoilt
<1>7. read'[r] = n /\ \A x \in Request : x # r => read'[x] = read[x]
  BY <1>2, <1>3 DEF Ordered, Shape
<1>8. \A p, x : Place(p, x)' <=> Place(p, x)
  BY <1>1 DEF Place, Turn
<1>9. r \notin lost
  BY <1>1, <1>2 DEF Loss, LostBefore
<1>10. Interrupted' = Interrupted
  BY <1>1, <1>3, <1>7 DEF Interrupted
<1>11. ASSUME NEW x \in Request, NEW p, Place(p, x), Excused(x) PROVE Excused(x)'
  <2>1. ~Before(r, x)
    <3>1. p \in Nat /\ p <= Turn
      BY <1>11 DEF Place, Ordered, Queue
    <3>2. Before(r, x) <=> Turn < p
      BY <1>3, <1>11, PlacesOrder DEF Ordered
    <3>3. QED
      BY <1>3, <3>1, <3>2
  <2>2. \A y \in Request : Settled(y)' => Settled(y) \/ y = r
    BY <1>1, <1>2 DEF Settled
  <2>3. flushed' = flushed
    BY <1>1 DEF startVars
  <2>4. QED
    BY <1>1, <1>10, <1>11, <2>1, <2>2, <2>3, StillExcused
<1>12. ASSUME NEW x \in lost
       PROVE  x \in Request /\ x # r /\ read'[x] = Size[x] + 1 /\ Excused(x)'
  <2>1. x \in Request /\ read[x] = Size[x] + 1 /\ Excused(x) /\ x # r
    BY <1>9 DEF Loss, LostBefore, LostExcused
  <2>2. Size[x] \in Nat
    BY <2>1 DEF ChannelAssumption
  <2>3. \E p : Place(p, x)
    BY <2>1, <2>2 DEF Loss, Begun
  <2>4. Excused(x)'
    BY <1>11, <2>1, <2>3
  <2>5. QED
    BY <1>7, <2>1, <2>4
<1>13. \A x \in Request : read'[x] > 0 => \E p : Place(p, x)'
  BY <1>3, <1>7, <1>8 DEF Loss, Begun
<1>14. CASE /\ Len(pending \o Chunks(r, m + 1, n)) > Limit
            /\ pending' = <<>> /\ lost' = lost \cup {q \in {r} : n = Size[r] + 1}
  <2>1. ~Whole(r)
    <3>1. ASSUME Whole(r) PROVE FALSE
      <4>1. pending \o Chunks(r, m + 1, n) = Chunks(r, 1, n)
        BY <1>1, <1>2, <1>3, <3>1, ChunksJoin DEF Whole
      <4>2. Len(Chunks(r, 1, n)) = n
        BY <1>3, ChunksFromOne
      <4>3. Size[r] + 1 <= Limit
        BY <1>1, <1>3 DEF Fits, ChannelAssumption
      <4>4. n > Limit /\ Limit \in Nat
        BY <1>14, <4>1, <4>2 DEF ChannelAssumption
      <4>5. QED
        BY <1>1, <1>2, <4>3, <4>4
    <3>2. QED
      BY <3>1
  <2>2. Excused(r)'
    BY <1>3, <1>5, <1>11, <2>1
  <2>3. ~HasLine' /\ \A x : ~Ended(x)'
    BY <1>14 DEF HasLine, Ended
  <2>4. Starting' /\ NewlineLast' /\ NextUnread'
    BY <1>14, <2>3 DEF Starting, NewlineLast, NextUnread
  <2>5. Begun'
    BY <1>13, <1>14 DEF Begun
  <2>6. LostBefore'
    BY <1>3, <1>7, <1>12, <1>14 DEF LostBefore
  <2>7. Spoilt'
    BY <1>4, <2>2, <2>3 DEF Spoilt, Reading
  <2>8. LostExcused'
    BY <1>12, <1>14, <2>2 DEF LostExcused
  <2>9. QED
    BY <2>4, <2>5, <2>6, <2>7, <2>8 DEF Loss
<1>15. CASE pending' = pending \o Chunks(r, m + 1, n) /\ lost' = lost
  <2> DEFINE L == Len(pending)
             K == Len(pending) + (n - m)
  <2>1. pending \in Seq(Request \X Nat) /\ L \in Nat /\ DOMAIN pending = 1 .. L
    <3>1. pending \in Seq(Request \X Nat)
      BY DEF Ordered, Shape
    <3>2. QED
      BY <3>1
  <2>2. /\ Len(pending') = K /\ DOMAIN pending' = 1 .. K /\ pending'[K] = <<r, n>>
        /\ \A i \in DOMAIN pending' :
              \/ i \in DOMAIN pending /\ pending'[i] = pending[i]
              \/ i > L /\ pending'[i] = <<r, m + (i - L)>> /\ i <= K
    <3> DEFINE new == pending \o Chunks(r, m + 1, n)
    <3>1. /\ Len(new) = Len(pending) + (n - m) /\ DOMAIN new = 1 .. Len(pending) + (n - m)
          /\ new[Len(pending) + (n - m)] = <<r, n>>
          /\ \A i \in DOMAIN new :
                \/ i \in DOMAIN pending /\ new[i] = pending[i]
                \/ /\ i > Len(pending) /\ new[i] = <<r, m + (i - Len(pending))>>
                   /\ i <= Len(pending) + (n - m)
      BY <1>2, <2>1, Appended
    <3>2. pending' = new
      BY <1>15
    <3> HIDE DEF new
    <3>3. QED
      BY <3>1, <3>2
  <2>3. K = L + (n - m) /\ K \in DOMAIN pending'
    <3>1. K = L + (n - m) /\ DOMAIN pending' = 1 .. K
      BY <2>2
    <3>2. L \in Nat /\ n - m \in Nat /\ n - m >= 1
      BY <1>1, <1>2, <2>1
    <3> HIDE DEF L, K
    <3>3. K \in Nat /\ K >= 1
      BY <3>1, <3>2
    <3>4. QED
      BY <3>1, <3>3
  <2> HIDE DEF L, K
  <2>4. \A i \in DOMAIN pending : ~Newline(pending[i])
    BY <1>1 DEF HasLine
  \* What is old ends nothing; what is new is of the connection that has the line.
  <2>5. ASSUME NEW i \in DOMAIN pending'
        PROVE  \/ i \in DOMAIN pending /\ pending'[i] = pending[i] /\ ~Newline(pending'[i])
               \/ /\ pending'[i][1] = r /\ pending'[i][2] \in Nat /\ pending'[i][2] >= 1
                  /\ Newline(pending'[i]) => i = K
    <3>1. CASE i \in DOMAIN pending /\ pending'[i] = pending[i]
      BY <2>4, <3>1
    <3>2. CASE i > L /\ pending'[i] = <<r, m + (i - L)>> /\ i <= K
      <4>1. i \in Nat /\ i > L /\ i <= K
        BY <1>1, <1>2, <2>1, <2>2, <2>3, <3>2
      <4>2. pending'[i][1] = r /\ pending'[i][2] = m + (i - L)
        BY <3>2
      <4>3. m + (i - L) \in Nat /\ m + (i - L) >= 1
        BY <1>1, <2>1, <4>1
      <4>4. m + (i - L) = Size[r] + 1 => i = K
        <5> DEFINE S == Size[r]
        <5>1. /\ S \in Nat /\ n <= S + 1 /\ i \in Nat /\ i <= K /\ K = L + (n - m)
              /\ L \in Nat
          BY <1>1, <1>2, <2>1, <2>3, <4>1
        <5> HIDE DEF S
        <5>2. m + (i - L) = S + 1 => i = K
          BY <5>1
        <5>3. QED
          BY <5>2 DEF S
      <4>5. Newline(pending'[i]) => i = K
        BY <4>2, <4>4 DEF Newline
      <4>6. QED
        BY <4>2, <4>3, <4>5
    <3>3. QED
      BY <2>2, <3>1, <3>2
  <2>6. n = Size[r] + 1 => Ended(r)'
    <3>1. pending'[K][1] = r /\ pending'[K][2] = n
      BY <2>2
    <3>2. QED
      BY <2>3, <3>1 DEF Ended, Newline
  <2>7. NewlineLast'
    <3>1. \A i \in DOMAIN pending' : Newline(pending'[i]) => i = K
      BY <2>5
    <3>2. QED
      BY <2>2, <3>1 DEF NewlineLast, Newline
  <2>8. Begun'
    <3>1. ASSUME NEW i \in DOMAIN pending', NEW y, y = pending'[i][1]
          PROVE  pending'[i][2] >= 1 /\ (read'[y] <= Size[y] \/ Ended(y)')
      <4>1. CASE y = r
        <5>1. n <= Size[r] \/ Ended(r)'
          BY <1>1, <1>2, <2>6
        <5>2. pending'[i][2] >= 1
          BY <2>5 DEF Loss, Begun
        <5>3. QED
          BY <1>7, <4>1, <5>1, <5>2
      <4>2. CASE y # r
        <5>1. i \in DOMAIN pending /\ pending'[i] = pending[i] /\ y = pending[i][1]
          BY <2>5, <3>1, <4>2
        <5>2. pending[i][2] >= 1 /\ (read[y] <= Size[y] \/ Ended(y))
          BY <5>1 DEF Loss, Begun
        <5>3. ~Ended(y)
          BY <2>4 DEF Ended
        <5>4. y \in Request
          BY <2>1, <5>1
        <5>5. read'[y] = read[y]
          BY <1>7, <4>2, <5>4
        <5>6. QED
          BY <5>1, <5>2, <5>3, <5>5
      <4>3. QED
        BY <4>1, <4>2
    <3>2. QED
      BY <1>13, <3>1 DEF Begun, Ended, Newline
  <2>9. LostBefore'
    <3>1. ASSUME NEW x \in lost, NEW j \in DOMAIN pending', NEW p, NEW q,
                 Place(p, x), Place(q, pending'[j][1])
          PROVE  p < q
      <4>1. CASE j \in DOMAIN pending /\ pending'[j] = pending[j]
        BY <3>1, <4>1 DEF Loss, LostBefore
      <4>2. CASE pending'[j][1] = r
        <5>1. q = Turn
          BY <1>3, <3>1, <4>2
        <5>2. p # Turn
          BY <1>3, <1>9, <3>1 DEF Place
        <5>3. p \in Nat /\ p <= Turn
          BY <3>1 DEF Place, Ordered, Queue
        <5>4. QED
          BY <1>3, <5>1, <5>2, <5>3
      <4>3. QED
        BY <2>5, <4>1, <4>2
    <3>2. QED
      BY <1>8, <1>12, <1>15, <3>1 DEF LostBefore
  <2>10. ASSUME NEW x, Ended(x)' PROVE x = r
    <3>1. PICK i \in DOMAIN pending' : pending'[i][1] = x /\ Newline(pending'[i])
      BY <2>10 DEF Ended, Newline
    <3>2. QED
      BY <2>5, <3>1
  <2>11. NextUnread'
    <3>1. ASSUME HasLine' PROVE Ended(r)'
      <4>1. PICK i \in DOMAIN pending' : Newline(pending'[i])
        BY <3>1 DEF HasLine, Newline
      <4>2. pending'[i][1] = r
        BY <2>5, <4>1
      <4>3. QED
        BY <4>1, <4>2 DEF Ended, Newline
    <3>2. QED
      BY <1>4, <3>1 DEF NextUnread
  <2>12. Whole(r)' \/ Excused(r)'
    <3>1. CASE Whole(r)
      <4>1. pending' = Chunks(r, 1, n)
        BY <1>1, <1>2, <1>3, <1>15, <3>1, ChunksJoin DEF Whole
      <4>2. QED
        BY <1>7, <4>1 DEF Whole, Chunks
    <3>2. CASE Excused(r)
      BY <1>3, <1>11, <3>2
    <3>3. QED
      BY <1>5, <3>1, <3>2
  <2>13. Spoilt'
    BY <1>4, <2>10, <2>12 DEF Spoilt, Reading
  <2>14. LostExcused'
    BY <1>12, <1>15 DEF LostExcused
  <2>15. Starting'
    BY <1>1 DEF Starting, startVars
  <2>16. QED
    BY <2>15, <2>7, <2>8, <2>9, <2>11, <2>13, <2>14 DEF Loss
<1>16. QED
  BY <1>2, <1>14, <1>15

\* The line that is served ends the buffer; if all of its request is there, it is alone.
LEMMA ServeLoss ==
    ASSUME Ordered, Loss, ChannelAssumption, Serve
    PROVE  Loss'
<1>1. UNCHANGED <<connected, line, read, flushed>>
  BY DEF Serve, hostVars, startVars
<1>2. \A i \in DOMAIN pending : pending[i][1] \in Request
  BY DEF Ordered, Shape
<1>3. PICK end \in DOMAIN pending, r \in Request :
          /\ r = pending[end][1] /\ Newline(pending[end])
          /\ pending' = SubSeq(pending, end + 1, Len(pending))
          /\ \/ /\ \E outcome : executed' = Append(executed, <<r, outcome>>)
                /\ lost' = lost
             \/ /\ SubSeq(pending, 1, end) # Chunks(r, 1, Size[r] + 1)
                /\ lost' = lost \cup {r} /\ executed' = executed
  BY <1>2 DEF Serve, FirstLine
<1>4. /\ pending \in Seq(Request \X Nat) /\ Len(pending) \in Nat
      /\ DOMAIN pending = 1 .. Len(pending) /\ pending[end] \in Request \X Nat
  <2>1. pending \in Seq(Request \X Nat)
    BY DEF Ordered, Shape
  <2>2. QED
    BY <2>1
<1>5. end = Len(pending)
  BY <1>3 DEF Loss, NewlineLast
<1>6. pending' = <<>>
  <2>1. SubSeq(pending, Len(pending) + 1, Len(pending)) = <<>>
    BY <1>4
  <2>2. QED
    BY <1>3, <1>5, <2>1
<1>7. r \in Request /\ pending[end][2] = Size[r] + 1 /\ Size[r] \in Nat
  BY <1>3, <1>4 DEF Newline, ChannelAssumption
<1>8. Ended(r)
  BY <1>3 DEF Ended
<1>9. ASSUME NEW x \in Request, Ended(x) PROVE read[x] = Size[x] + 1
  <2>1. PICK i \in DOMAIN pending : pending[i][1] = x /\ pending[i][2] = Size[x] + 1
    BY <1>9 DEF Ended, Newline
  <2>2. pending[i][2] <= read[x]
    BY <2>1 DEF Ordered, Buffer
  <2>3. read[x] <= sent[x] /\ sent[x] <= Size[x] + 1
    BY DEF Ordered, Transfer
  <2>4. read[x] \in Nat /\ sent[x] \in Nat /\ Size[x] \in Nat
    BY DEF Ordered, Shape, ChannelAssumption
  <2>5. QED
    BY <2>1, <2>2, <2>3, <2>4
<1>10. PICK q : Place(q, r)
  BY <1>3 DEF Ordered, Buffer
<1>11. \A p, x : Place(p, x)' <=> Place(p, x)
  BY <1>1 DEF Place, Turn
<1>12. Interrupted' = Interrupted
  BY <1>1 DEF Interrupted
\* What comes before the request, and the request, is blamed on the same as before.
<1>13. ASSUME NEW x \in Request, NEW p, Place(p, x), p <= q, Excused(x) PROVE Excused(x)'
  <2>1. ~Before(r, x)
    <3>1. p \in Nat /\ q \in Nat
      BY <1>10, <1>13 DEF Place, Ordered, Queue
    <3>2. Before(r, x) <=> q < p
      BY <1>10, <1>13, PlacesOrder DEF Ordered
    <3>3. QED
      BY <1>13, <3>1, <3>2
  <2>2. \A y \in Request : Settled(y)' => Settled(y) \/ y = r
    <3>1. CASE lost' = lost \cup {r} /\ executed' = executed
      BY <3>1 DEF Settled
    <3>2. ASSUME NEW outcome, executed' = Append(executed, <<r, outcome>>), lost' = lost
          PROVE  \A y \in Request : Settled(y)' => Settled(y) \/ y = r
      <4>1. executed \in Seq(Request \X Outcome)
        BY DEF Ordered, Shape
      <4>2. ASSUME NEW i \in DOMAIN executed'
            PROVE  (i \in DOMAIN executed /\ executed'[i] = executed[i]) \/ executed'[i][1] = r
        BY <3>2, <4>1
      <4>3. QED
        BY <3>2, <4>2 DEF Settled
    <3>3. QED
      BY <1>3, <3>1, <3>2
  <2>3. QED
    BY <1>1, <1>12, <1>13, <2>1, <2>2, StillExcused
<1>14. ASSUME NEW x \in lost PROVE x \in Request /\ read[x] = Size[x] + 1 /\ Excused(x)'
  <2>1. x \in Request /\ read[x] = Size[x] + 1 /\ Excused(x)
    BY DEF Loss, LostBefore, LostExcused
  <2>2. Size[x] \in Nat
    BY <2>1 DEF ChannelAssumption
  <2>3. PICK p : Place(p, x)
    BY <2>1, <2>2 DEF Loss, Begun
  <2>4. p < q
    BY <1>3, <1>10, <2>3 DEF Loss, LostBefore
  <2>5. p \in Nat /\ q \in Nat
    BY <1>10, <2>3 DEF Place, Ordered, Queue
  <2>6. QED
    BY <1>13, <2>1, <2>3, <2>4, <2>5
<1>15. r \in lost' => r \in lost \/ Excused(r)'
  <2>1. CASE lost' = lost
    BY <2>1
  <2>2. CASE SubSeq(pending, 1, end) # Chunks(r, 1, Size[r] + 1)
    <3>1. SubSeq(pending, 1, end) = pending
      BY <1>4, <1>5
    <3>2. ~Whole(r)
      BY <1>7, <1>8, <1>9, <2>2, <3>1 DEF Whole
    <3>3. Excused(r)
      BY <1>7, <1>8, <3>2 DEF Loss, Spoilt
    <3>4. q \in Nat /\ q <= q
      BY <1>10 DEF Place, Ordered, Queue
    <3>5. QED
      BY <1>7, <1>10, <1>13, <3>3, <3>4
  <2>3. QED
    BY <1>3, <2>1, <2>2
<1>16. lost' = lost \/ lost' = lost \cup {r}
  BY <1>3
<1>17. ~HasLine' /\ \A x : ~Ended(x)'
  BY <1>6 DEF HasLine, Ended
<1>18. Starting' /\ NewlineLast' /\ NextUnread'
  BY <1>6, <1>17 DEF Starting, NewlineLast, NextUnread
<1>19. Begun'
  BY <1>1, <1>6, <1>11 DEF Loss, Begun
<1>20. LostBefore'
  BY <1>1, <1>6, <1>7, <1>8, <1>9, <1>14, <1>16 DEF LostBefore
<1>21. \A x \in Request : ~Reading(x)'
  <2>1. ASSUME NEW x \in Request, Reading(x)' PROVE FALSE
    <3>1. line # <<>> /\ x = Head(line) /\ read[x] \in 1 .. Size[x]
      BY <1>1, <2>1 DEF Reading
    <3>2. HasLine
      BY <1>3 DEF HasLine
    <3>3. Ended(x) \/ read[x] = 0
      BY <3>1, <3>2 DEF Loss, NextUnread
    <3>4. Size[x] \in Nat
      BY DEF ChannelAssumption
    <3>5. QED
      BY <1>9, <3>1, <3>3, <3>4
  <2>2. QED
    BY <2>1
<1>22. Spoilt'
  BY <1>17, <1>21 DEF Spoilt
<1>23. LostExcused'
  BY <1>14, <1>15, <1>16 DEF LostExcused
<1>24. QED
  BY <1>18, <1>19, <1>20, <1>22, <1>23 DEF Loss

\* What the agent's start flushes is excused, and its buffer is empty.
LEMMA FlushLoss ==
    ASSUME Ordered, Loss, ChannelAssumption, Flush
    PROVE  Loss'
<1>1. PICK r \in Request :
          /\ r = Head(line) /\ line # <<>> /\ pending = <<>>
          /\ UNCHANGED <<connected, line, pending, executed>>
          /\ flushed' = flushed \cup {r}
          /\ lost' = lost \/ (lost' = lost \cup {r} /\ read'[r] = Size[r] + 1)
          /\ \E n \in read[r] + 1 .. sent[r] : read' = [read EXCEPT ![r] = n]
  <2>1. Head(line) \in Request /\ read \in [Request -> Nat]
    BY HeadPlace DEF Flush, Ordered, Shape
  <2>2. pending = <<>>
    BY DEF Flush, Loss, Starting
  <2>3. QED
    BY <2>1, <2>2 DEF Flush, hostVars
<1>2. PICK n \in read[r] + 1 .. sent[r] : read' = [read EXCEPT ![r] = n]
  BY <1>1
<1>3. /\ read'[r] = n /\ (\A x \in Request : x # r => read'[x] = read[x])
      /\ read[r] \in Nat /\ Size[r] \in Nat /\ n > read[r] /\ n <= Size[r] + 1
  BY <1>2 DEF Ordered, Shape, Transfer, ChannelAssumption
<1>4. /\ r \in ToSet(line) /\ Turn \in Nat /\ Place(Turn, r)
      /\ \A p, x : Place(p, x)' <=> Place(p, x)
  BY <1>1, HeadPlace DEF Place, Turn
<1>5. Interrupted' = Interrupted
  BY <1>1, <1>3, <1>4 DEF Interrupted
<1>6. ASSUME NEW x \in Request, NEW p, Place(p, x), Excused(x) PROVE Excused(x)'
  <2>1. ~Before(r, x)
    <3>1. p \in Nat /\ p <= Turn
      BY <1>6 DEF Place, Ordered, Queue
    <3>2. Before(r, x) <=> Turn < p
      BY <1>4, <1>6, PlacesOrder DEF Ordered
    <3>3. QED
      BY <1>4, <3>1, <3>2
  <2>2. \A y \in Request : Settled(y)' => Settled(y) \/ y = r
    BY <1>1 DEF Settled
  <2>3. QED
    BY <1>1, <1>5, <1>6, <2>1, <2>2, StillExcused
<1>7. Excused(r)'
  BY <1>1 DEF Excused
<1>8. ASSUME NEW x \in lost PROVE x \in Request /\ read'[x] = Size[x] + 1 /\ Excused(x)'
  <2>1. x \in Request /\ read[x] = Size[x] + 1 /\ Excused(x) /\ Size[x] \in Nat
    BY DEF Loss, LostBefore, LostExcused, ChannelAssumption
  <2>2. x # r
    BY <1>3, <2>1
  <2>3. \E p : Place(p, x)
    BY <2>1 DEF Loss, Begun
  <2>4. QED
    BY <1>3, <1>6, <2>1, <2>2, <2>3
<1>9. ~HasLine' /\ \A x : ~Ended(x)'
  BY <1>1 DEF HasLine, Ended
<1>10. Starting' /\ NewlineLast' /\ NextUnread'
  BY <1>1, <1>9 DEF Starting, NewlineLast, NextUnread
<1>11. Begun'
  BY <1>1, <1>3, <1>4 DEF Loss, Begun
<1>12. LostBefore' /\ LostExcused'
  BY <1>1, <1>7, <1>8 DEF LostBefore, LostExcused
<1>13. Spoilt'
  BY <1>1, <1>7, <1>9 DEF Spoilt, Reading
<1>14. QED
  BY <1>10, <1>11, <1>12, <1>13 DEF Loss

LEMMA NextLoss ==
    ASSUME Ordered, Loss, ChannelAssumption, Fits, [Next]_vars
    PROVE  Loss'
<1>1. CASE UNCHANGED vars
  BY <1>1, StillLoss DEF vars, hostVars, agentVars, startVars
<1>2. ASSUME NEW r \in Request, Write(r) \/ Timeout(r) \/ TakeAnswer(r)
      PROVE  Loss'
  BY <1>2, StillLoss DEF Write, Timeout, TakeAnswer, agentVars, startVars
<1>3. CASE WriteAnswer
  BY <1>3, StillLoss DEF WriteAnswer, hostVars, startVars
<1>4. CASE Ready
  <2>1. UNCHANGED <<connected, line, read, pending, executed, lost, flushed>> /\ ready'
    BY <1>4 DEF Ready, hostVars, agentVars
  <2>2. QED
    BY <2>1, StillLoss
<1>5. QED
  BY <1>1, <1>2, <1>3, <1>4, ConnectLoss, DisconnectLoss, FlushLoss, ReadLoss, ServeLoss, RestartLoss DEF Next

\* When every request fits the agent's buffer, it loses what it flushed at its start and,
\* after each request that was cut off, one more: between the two, nothing was executed
\* or lost (agent.py:215, 226).
THEOREM LostAfterInterruptionThm == ASSUME Fits PROVE Spec => []LostAfterInterruption
<1> DEFINE Inv == IInv /\ Ordered /\ Loss
<1>1. Init => Inv
  BY InitIInv, InitOrdered, InitLoss, ChannelAssumption
<1>2. Inv /\ [Next]_vars => Inv'
  BY NextOrdered, NextLoss, ChannelAssumption
<1>3. Inv => LostAfterInterruption
  BY LossMeans
<1> HIDE DEF Inv
<1>4. QED
  BY <1>1, <1>2, <1>3, PTL DEF Spec

--------------------------------------------------------------------------------
(***************************************************************************)
(* Requests are calls of RemoteCall.  What the agent executes is at the    *)
(* end of its buffer, and nothing there was executed before; who reports   *)
(* an answer has a connection, and its request was executed (AnswerIsOwn). *)
(***************************************************************************)

CallStep == [Calls!Next]_(Calls!vars)

\* Who is past its connection has one.
Linked == \A r \in Request :
    client[r] \in {"writing", "waiting", "ok", "error"} => r \in ToSet(connected)

Executed(r) == \E i \in DOMAIN executed : executed[i][1] = r

Counted == \A r \in Request : Executions(r) = IF Executed(r) THEN 1 ELSE 0

LEMMA ExecutedOnce == Ordered => Counted
<1> SUFFICES ASSUME Ordered, NEW r \in Request PROVE Executions(r) = IF Executed(r) THEN 1 ELSE 0
  BY DEF Counted
<1>1. CASE ~Executed(r)
  <2>1. {i \in DOMAIN executed : executed[i][1] = r} = {}
    BY <1>1 DEF Executed
  <2>2. QED
    BY <1>1, <2>1, FS_EmptySet DEF Executions
<1>2. CASE Executed(r)
  <2>1. PICK j \in DOMAIN executed : executed[j][1] = r
    BY <1>2 DEF Executed
  <2>2. PICK p : Place(p, r)
    BY <2>1 DEF Ordered, Done
  <2>3. p \in Nat
    BY <2>2 DEF Place, Ordered, Queue
  <2>4. ASSUME NEW i \in DOMAIN executed, executed[i][1] = r PROVE i = j
    <3>1. i \in Nat /\ j \in Nat
      <4>1. executed \in Seq(Request \X Outcome)
        BY DEF Ordered, Shape
      <4>2. QED
        BY <4>1
    <3>2. ~(i < j) /\ ~(j < i)
      <4>1. i < j => p < p
        BY <2>1, <2>2, <2>4 DEF Ordered, Done
      <4>2. j < i => p < p
        BY <2>1, <2>2, <2>4 DEF Ordered, Done
      <4>3. QED
        BY <2>3, <4>1, <4>2
    <3>3. QED
      BY <3>1, <3>2
  <2>5. {i \in DOMAIN executed : executed[i][1] = r} = {j}
    BY <2>1, <2>4
  <2>6. QED
    BY <1>2, <2>5, FS_Singleton DEF Executions
<1>3. QED
  BY <1>1, <1>2

LEMMA InitLinked == Init => Linked
  BY DEF Init, Linked

\* The connections of a step that makes one, or none.
LEMMA Connections ==
    ASSUME Ordered, [Next]_vars
    PROVE  /\ ToSet(connected) \subseteq ToSet(connected')
           /\ \/ connected' = connected
              \/ \E r \in Request : Connect(r) /\ ToSet(connected') = ToSet(connected) \cup {r}
<1>1. CASE connected' = connected
  BY <1>1
<1>2. ASSUME NEW r \in Request, Connect(r), connected' = Append(connected, r)
      PROVE  ToSet(connected') = ToSet(connected) \cup {r}
  <2>1. connected \in Seq(Request)
    BY DEF Ordered, Queue
  <2>2. /\ DOMAIN connected' = 1 .. Len(connected) + 1 /\ Len(connected) \in Nat
        /\ DOMAIN connected = 1 .. Len(connected)
        /\ connected'[Len(connected) + 1] = r
        /\ \A i \in 1 .. Len(connected) : connected'[i] = connected[i]
    BY <1>2, <2>1
  <2>3. QED
    BY <2>2 DEF ToSet
<1>3. ASSUME NEW r \in Request, Connect(r)
      PROVE  connected' = connected \/ connected' = Append(connected, r)
  BY <1>3 DEF Connect
<1>4. CASE ~\E r \in Request : Connect(r)
  BY <1>1, <1>4 DEF Next, Write, Timeout, TakeAnswer, Disconnect, Flush, Ready, Read, Serve, WriteAnswer, Restart,
     vars, hostVars
<1>5. QED
  BY <1>1, <1>2, <1>3, <1>4

LEMMA NextLinked ==
    ASSUME Ordered, Linked, [Next]_vars, Shape'
    PROVE  Linked'
<1>1. ToSet(connected) \subseteq ToSet(connected')
  BY Connections
<1> DEFINE Past(v) == v \in {"writing", "waiting", "ok", "error"}
<1>2. ASSUME \A q \in Request : Past(client'[q]) => Past(client[q])
      PROVE  Linked'
  BY <1>1, <1>2 DEF Linked
<1>3. client \in [Request -> {"idle", "writing", "waiting", "ok", "error", "failed"}]
  BY DEF Ordered, Shape
<1>4. CASE client' = client
  BY <1>2, <1>4
<1>5. ASSUME NEW r \in Request, Connect(r) PROVE Linked'
  <2>1. CASE client' = [client EXCEPT ![r] = "failed"]
    BY <1>2, <1>3, <2>1
  <2>2. CASE client' = [client EXCEPT ![r] = "writing"] /\ connected' = Append(connected, r)
    <3>1. r \in ToSet(connected')
      <4>1. connected \in Seq(Request)
        BY DEF Ordered, Queue
      <4>2. Len(connected) + 1 \in DOMAIN connected' /\ connected'[Len(connected) + 1] = r
        BY <2>2, <4>1
      <4>3. QED
        BY <4>2 DEF ToSet
    <3>2. \A q \in Request \ {r} : Past(client'[q]) => Past(client[q])
      BY <1>3, <2>2
    <3>3. QED
      BY <1>1, <3>1, <3>2 DEF Linked
  <2>3. QED
    BY <1>5, <2>1, <2>2 DEF Connect
<1>6. ASSUME NEW r \in Request, Write(r) \/ Timeout(r) \/ TakeAnswer(r) PROVE Linked'
  <2>1. CASE Write(r)
    BY <1>2, <1>3, <2>1 DEF Write
  <2>2. CASE Timeout(r)
    BY <1>2, <1>3, <2>2 DEF Timeout
  <2>3. CASE TakeAnswer(r)
    BY <1>2, <1>3, <2>3 DEF TakeAnswer
  <2>4. QED
    BY <1>6, <2>1, <2>2, <2>3
<1>7. CASE Restart
  BY <1>2, <1>3, <1>7 DEF Restart, Open
<1>8. CASE Disconnect \/ Flush \/ Ready \/ Read \/ Serve \/ WriteAnswer \/ UNCHANGED vars
  BY <1>4, <1>8 DEF Disconnect, Flush, Ready, Read, Serve, WriteAnswer, vars, hostVars
<1>9. QED
  BY <1>5, <1>6, <1>7, <1>8 DEF Next

KnownMeans == \A r \in Request :
    /\ client[r] = "idle" => Known(r) = "idle"
    /\ client[r] \in {"writing", "waiting"} => Known(r) = "open"
    /\ client[r] \in {"ok", "error"} => Known(r) = "result"
    /\ client[r] = "failed" =>
           Known(r) = IF r \in ToSet(connected) THEN "unknown" ELSE "refused"

LEMMA Knows == KnownMeans
<1> SUFFICES ASSUME NEW r \in Request
             PROVE  /\ client[r] = "idle" => Known(r) = "idle"
                    /\ client[r] \in {"writing", "waiting"} => Known(r) = "open"
                    /\ client[r] \in {"ok", "error"} => Known(r) = "result"
                    /\ client[r] = "failed" =>
                           Known(r) = IF r \in ToSet(connected) THEN "unknown" ELSE "refused"
  BY DEF KnownMeans
<1>1. r \in Open <=> client[r] \in {"writing", "waiting"}
  BY DEF Open
<1>2. CASE client[r] = "idle"
  BY <1>1, <1>2 DEF Known
<1>3. CASE client[r] \in {"writing", "waiting"}
  BY <1>1, <1>3 DEF Known
<1>4. CASE client[r] \in {"ok", "error"}
  BY <1>1, <1>4 DEF Known
<1>5. CASE client[r] = "failed"
  BY <1>1, <1>5 DEF Known
<1>6. QED
  BY <1>2, <1>3, <1>4, <1>5

\* A client that knows nothing new.
LEMMA SameKnown ==
    ASSUME Shape, NEW r \in Request, client'[r] = client[r],
           r \in ToSet(connected') <=> r \in ToSet(connected)
    PROVE  Known(r)' = Known(r)
<1>1. client[r] \in {"idle", "writing", "waiting", "ok", "error", "failed"}
  BY DEF Shape
<1>2. KnownMeans /\ KnownMeans'
  BY Knows, PTL
<1>3. QED
  BY <1>1, <1>2 DEF KnownMeans

\* What the callers of a step know that executes nothing.
LEMMA KnownStep ==
    ASSUME NEW r \in Request,
           \A q \in Request : Executions(q)' = Executions(q),
           \A q \in Request \ {r} : Known(q)' = Known(q),
           \/ Known(r)' = Known(r)
           \/ Known(r) = "idle" /\ Known(r)' = "open"
           \/ Known(r) = "idle" /\ Known(r)' = "refused" /\ Executions(r) = 0
           \/ Known(r) = "open" /\ Known(r)' = "unknown"
           \/ Known(r) = "open" /\ Known(r)' = "result" /\ Executions(r) = 1
    PROVE  CallStep
<1>0. /\ \A q \in Request : Known(q)' = IF q = r THEN Known(r)' ELSE Known(q)
      /\ [q \in Request |-> Executions(q)]' = [q \in Request |-> Executions(q)]
  OBVIOUS
<1>1. CASE Known(r)' = Known(r)
  BY <1>1 DEF CallStep, Calls!vars
<1>2. CASE Known(r) = "idle" /\ Known(r)' = "open"
  <2>1. Calls!Begin(r)
    BY <1>0, <1>2 DEF Calls!Begin
  <2>2. QED
    BY <2>1 DEF CallStep, Calls!Next
<1>3. CASE Known(r) = "idle" /\ Known(r)' = "refused" /\ Executions(r) = 0
  <2>1. Calls!Refuse(r)
    BY <1>0, <1>3 DEF Calls!Refuse
  <2>2. QED
    BY <2>1 DEF CallStep, Calls!Next
<1>4. CASE Known(r) = "open" /\ Known(r)' = "unknown"
  <2>1. Calls!GiveUp({r})
    BY <1>4 DEF Calls!GiveUp
  <2>2. QED
    BY <2>1 DEF CallStep, Calls!Next
<1>5. CASE Known(r) = "open" /\ Known(r)' = "result" /\ Executions(r) = 1
  <2>1. Calls!Return(r)
    BY <1>0, <1>5 DEF Calls!Return
  <2>2. QED
    BY <2>1 DEF CallStep, Calls!Next
<1>6. QED
  BY <1>1, <1>2, <1>3, <1>4, <1>5

LEMMA ConnectCalls ==
    ASSUME Ordered, Counted, NEW r \in Request, Connect(r)
    PROVE  CallStep
<1>1. executed' = executed /\ client[r] = "idle"
  BY DEF Connect, agentVars
<1>2. \A q \in Request : Executions(q)' = Executions(q)
  BY <1>1 DEF Executions
<1>3. client \in [Request -> {"idle", "writing", "waiting", "ok", "error", "failed"}]
  BY DEF Ordered, Shape
<1>4. r \notin ToSet(connected)
  BY <1>1 DEF Ordered, Queue, ToSet
<1>5. Executions(r) = 0
  <2>1. ~Executed(r)
    BY <1>1 DEF Executed, Ordered, Done, Queue, Place
  <2>2. QED
    BY <2>1 DEF Counted
<1>6. ToSet(connected') = ToSet(connected) \/ ToSet(connected') = ToSet(connected) \cup {r}
  <2>1. CASE connected' = Append(connected, r)
    <3>1. connected \in Seq(Request)
      BY DEF Ordered, Queue
    <3>2. /\ DOMAIN connected' = 1 .. Len(connected) + 1 /\ Len(connected) \in Nat
          /\ DOMAIN connected = 1 .. Len(connected)
          /\ connected'[Len(connected) + 1] = r
          /\ \A i \in 1 .. Len(connected) : connected'[i] = connected[i]
      BY <2>1, <3>1
    <3>3. QED
      BY <3>2 DEF ToSet
  <2>2. CASE connected' = connected
    BY <2>2
  <2>3. QED
    BY <2>1, <2>2 DEF Connect
<1>7. \A q \in Request \ {r} : Known(q)' = Known(q)
  <2>1. \A q \in Request \ {r} : client'[q] = client[q]
    BY <1>3 DEF Connect
  <2>2. QED
    BY <1>6, <2>1, SameKnown DEF Ordered
<1>8. Known(r) = "idle" /\ KnownMeans'
  <2>1. KnownMeans /\ KnownMeans'
    BY Knows, PTL
  <2>2. QED
    BY <1>1, <2>1 DEF KnownMeans
<1>9. CASE client' = [client EXCEPT ![r] = "writing"]
  <2>1. Known(r)' = "open"
    BY <1>3, <1>8, <1>9 DEF KnownMeans
  <2>2. QED
    BY <1>2, <1>7, <1>8, <2>1, KnownStep
<1>10. CASE client' = [client EXCEPT ![r] = "failed"] /\ connected' = connected
  <2>1. Known(r)' = "refused"
    BY <1>3, <1>4, <1>8, <1>10 DEF KnownMeans
  <2>2. QED
    BY <1>2, <1>5, <1>7, <1>8, <2>1, KnownStep
<1>11. QED
  BY <1>9, <1>10 DEF Connect

LEMMA ClientCalls ==
    ASSUME Ordered, Linked, Counted, AnswerIsOwn', NEW r \in Request,
           Write(r) \/ Timeout(r) \/ TakeAnswer(r), Shape'
    PROVE  CallStep
<1>1. executed' = executed /\ connected' = connected
  BY DEF Write, Timeout, TakeAnswer, agentVars
<1>2. \A q \in Request : Executions(q)' = Executions(q)
  BY <1>1 DEF Executions
<1>3. client \in [Request -> {"idle", "writing", "waiting", "ok", "error", "failed"}]
  BY DEF Ordered, Shape
<1>4. r \in Open /\ r \in ToSet(connected)
  BY DEF Write, Timeout, TakeAnswer, Open, Linked
<1>5. Known(r) = "open" /\ KnownMeans'
  <2>1. KnownMeans /\ KnownMeans'
    BY Knows, PTL
  <2>2. QED
    BY <1>4, <2>1 DEF Open, KnownMeans
<1>6. /\ \A q \in Request \ {r} : client'[q] = client[q]
      /\ client'[r] \in {"writing", "waiting", "ok", "error", "failed"}
  <2>1. CASE Write(r)
    BY <1>3, <2>1 DEF Write
  <2>2. CASE Timeout(r)
    BY <1>3, <2>2 DEF Timeout
  <2>3. CASE TakeAnswer(r)
    <3>1. client'[r] # "idle"
      <4>1. CASE client' = [client EXCEPT ![r] = "failed"]
        BY <1>3, <4>1
      <4>2. ASSUME inbox[r] # <<>>, Len(inbox[r]) >= 2,
                   client' = [client EXCEPT ![r] = IF inbox[r][1].id = r
                                                   THEN inbox[r][1].outcome ELSE @]
            PROVE  client'[r] # "idle"
        <5>1. inbox[r] \in Seq(Parts)
          BY DEF Ordered, Shape
        <5>2. inbox[r][1].outcome \in Outcome
          <6>1. inbox[r][1] \in Parts
            BY <4>2, <5>1
          <6>2. QED
            BY <6>1 DEF Parts, Outcome
        <5>3. client[r] = "waiting"
          BY <2>3 DEF TakeAnswer
        <5>4. QED
          BY <1>3, <4>2, <5>2, <5>3 DEF Outcome
      <4>3. QED
        BY <2>3, <4>1, <4>2 DEF TakeAnswer
    <3>2. \A q \in Request \ {r} : client'[q] = client[q]
      BY <1>3, <2>3 DEF TakeAnswer
    <3>3. QED
      BY <3>1, <3>2 DEF Shape
  <2>4. QED
    BY <2>1, <2>2, <2>3
<1>7. \A q \in Request \ {r} : Known(q)' = Known(q)
  BY <1>1, <1>6, SameKnown DEF Ordered
<1>8. CASE client'[r] \in {"writing", "waiting"}
  <2>1. Known(r)' = "open"
    BY <1>5, <1>8 DEF KnownMeans
  <2>2. QED
    BY <1>2, <1>5, <1>7, <2>1, KnownStep
<1>9. CASE client'[r] = "failed"
  <2>1. Known(r)' = "unknown"
    BY <1>1, <1>4, <1>5, <1>9 DEF KnownMeans
  <2>2. QED
    BY <1>2, <1>5, <1>7, <2>1, KnownStep
<1>10. CASE client'[r] \in {"ok", "error"}
  <2>1. Known(r)' = "result"
    BY <1>5, <1>10 DEF KnownMeans
  <2>2. Executed(r)
    BY <1>1, <1>10 DEF AnswerIsOwn, Executed
  <2>3. Executions(r) = 1
    BY <2>2 DEF Counted
  <2>4. QED
    BY <1>2, <1>5, <1>7, <2>1, <2>3, KnownStep
<1>11. QED
  BY <1>6, <1>8, <1>9, <1>10

LEMMA ServeCalls ==
    ASSUME Ordered, Counted, Counted', AnswerIsOwn, Serve
    PROVE  CallStep
<1>1. client' = client /\ connected' = connected
  BY DEF Serve, hostVars
<1>2. \A q \in Request : Known(q)' = Known(q)
  BY <1>1 DEF Known, Open
<1>3. PICK r \in Request, end \in DOMAIN pending :
          /\ pending[end][1] = r
          /\ executed' = executed \/ \E outcome : executed' = Append(executed, <<r, outcome>>)
  <2>1. pending \in Seq(Request \X Nat)
    BY DEF Ordered, Shape
  <2>2. \A end \in DOMAIN pending : pending[end][1] \in Request
    BY <2>1
  <2>3. QED
    BY <2>2 DEF Serve
<1>4. CASE executed' = executed
  <2>1. \A q \in Request : Executions(q)' = Executions(q)
    BY <1>4 DEF Executions
  <2>2. QED
    BY <1>2, <2>1, KnownStep, <1>3
<1>5. ASSUME NEW outcome, executed' = Append(executed, <<r, outcome>>)
      PROVE  CallStep
  <2>1. executed \in Seq(Request \X Outcome)
    BY DEF Ordered, Shape
  <2>2. /\ DOMAIN executed' = 1 .. Len(executed) + 1 /\ Len(executed) \in Nat
        /\ DOMAIN executed = 1 .. Len(executed)
        /\ executed'[Len(executed) + 1] = <<r, outcome>>
        /\ \A i \in 1 .. Len(executed) : executed'[i] = executed[i]
    BY <1>5, <2>1
  <2>3. Executed(r)' /\ \A q \in Request \ {r} : Executed(q)' <=> Executed(q)
    BY <2>2 DEF Executed
  <2>4. PICK p : Place(p, r)
    BY <1>3 DEF Ordered, Buffer
  <2>5. p \in Nat
    BY <2>4 DEF Place, Ordered, Queue
  <2>6. ~Executed(r)
    <3>1. ASSUME NEW i \in DOMAIN executed, executed[i][1] = r PROVE p < p
      BY <1>3, <2>4, <3>1 DEF Ordered, Done
    <3>2. QED
      BY <2>5, <3>1 DEF Executed
  <2>7. /\ Executions(r) = 0 /\ Executions(r)' = 1
        /\ \A q \in Request \ {r} : Executions(q)' = Executions(q)
    BY <2>3, <2>6 DEF Counted
  <2>8. Known(r) \in {"open", "unknown"}
    <3>1. r \in ToSet(connected) /\ client[r] # "idle"
      BY <2>4 DEF Place, ToSet, Ordered, Queue
    <3>2. client[r] \notin {"ok", "error"}
      BY <2>6 DEF AnswerIsOwn, Executed
    <3>3. client[r] \in {"idle", "writing", "waiting", "ok", "error", "failed"}
      BY DEF Ordered, Shape
    <3>4. QED
      BY <3>1, <3>2, <3>3 DEF Known, Open
  <2>9. Calls!Execute(r)
    BY <1>2, <2>7, <2>8 DEF Calls!Execute
  <2>10. QED
    BY <2>9 DEF CallStep, Calls!Next
<1>6. QED
  BY <1>3, <1>4, <1>5

\* The machine takes all connections along.
LEMMA RestartCalls ==
    ASSUME Ordered, Linked, Restart
    PROVE  CallStep
<1>1. UNCHANGED <<executed, connected>>
      /\ client' = [r \in Request |-> IF r \in Open THEN "failed" ELSE client[r]]
  BY DEF Restart
<1>2. \A q \in Request : Executions(q)' = Executions(q)
  BY <1>1 DEF Executions
<1>3. KnownMeans /\ KnownMeans'
  BY Knows, PTL
<1>4. \A q \in Open : Known(q) = "open" /\ Known(q)' = "unknown"
  BY <1>1, <1>3 DEF KnownMeans, Open, Linked
<1>5. \A q \in Request \ Open : Known(q)' = Known(q)
  BY <1>1, SameKnown DEF Ordered
<1>6. Open \in SUBSET Request
  BY DEF Open
<1>7. Calls!GiveUp(Open)
  BY <1>2, <1>4, <1>6, <1>5 DEF Calls!GiveUp
<1>8. QED
  BY <1>6, <1>7 DEF CallStep, Calls!Next

LEMMA NextCalls ==
    ASSUME Ordered, Linked, Counted, Counted', AnswerIsOwn, AnswerIsOwn', Shape', [Next]_vars
    PROVE  CallStep
<1>1. CASE Disconnect \/ Flush \/ Ready \/ Read \/ WriteAnswer \/ UNCHANGED vars
  <2>1. UNCHANGED <<client, connected, executed>>
    BY <1>1 DEF Disconnect, Flush, Ready, Read, WriteAnswer, vars, hostVars, agentVars
  <2>2. \A q \in Request : Executions(q)' = Executions(q) /\ Known(q)' = Known(q)
    BY <2>1 DEF Executions, Known, Open
  <2>3. QED
    BY <2>2 DEF CallStep, Calls!vars
<1>2. QED
  BY <1>1, ConnectCalls, ClientCalls, ServeCalls, RestartCalls DEF Next

\* Any number of requests on one line are executed at most once each, and their clients
\* conclude nothing but the truth, whatever times out, is cut off or restarts
\* (guest.rs:24).
THEOREM ChannelRefinement == Spec => ChannelImplementsCalls
<1> DEFINE Inv == IInv /\ Ordered /\ Linked /\ Counted
<1>1. Init => Inv /\ Calls!Init
  <2>1. Init => Inv
    BY InitIInv, InitOrdered, InitLinked, ExecutedOnce, ChannelAssumption
  <2>2. ASSUME Init, Inv PROVE Calls!Init
    <3>1. \A r \in Request : Known(r) = "idle"
      BY <2>2, Knows DEF Init, KnownMeans
    <3>2. \A r \in Request : Executions(r) = 0
      BY <2>2 DEF Init, Counted, Executed
    <3>3. QED
      BY <3>1, <3>2 DEF Calls!Init
  <2>3. QED
    BY <2>1, <2>2
<1>2. Ordered' => Counted'
  BY ExecutedOnce, PTL
<1>3. ASSUME Inv, [Next]_vars PROVE Inv' /\ CallStep
  <2>1. IInv' /\ Ordered'
    BY <1>3, NextOrdered, ChannelAssumption
  <2>2. Counted' /\ Shape' /\ AnswerIsOwn'
    BY <1>2, <2>1 DEF IInv
  <2>3. Linked'
    BY <1>3, <2>2, NextLinked
  <2>4. AnswerIsOwn
    BY <1>3 DEF IInv
  <2>5. CallStep
    BY <1>3, <2>2, <2>4, NextCalls
  <2>6. QED
    BY <2>1, <2>2, <2>3, <2>5
<1>4. Inv /\ [Next]_vars => Inv' /\ [Calls!Next]_(Calls!vars)
  BY <1>3 DEF CallStep
<1> HIDE DEF Inv
<1>5. QED
  BY <1>1, <1>4, PTL DEF Spec, ChannelImplementsCalls, Calls!Spec
==============================================================================
