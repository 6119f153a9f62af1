--------------------------- MODULE GuestBackendProofs ---------------------------
(***************************************************************************)
(* The guest agent keeps its promises for any recipe, startup order,       *)
(* policies and number of failures and boots.                              *)
(***************************************************************************)
EXTENDS GuestBackend, TLAPS

\* A delay is a number of seconds.
LEMMA DelayNat == ASSUME NEW n \in Nat \ {0} PROVE Delay(n) \in Nat
<1>1. LessOf(n, 5) \in 1..5  BY DEF LessOf
<1>2. QED  BY <1>1 DEF Delay

\* Only elements with a process are started.
LEMMA StartingRunnable ==
    ASSUME NEW n \in Nat
    PROVE  Starting(n) \subseteq Runnable /\ Starting(n) \subseteq Element
BY ElementsAssumption DEF Starting, Runnable

\* Nothing is running, asked for or known when the machine starts.
LEMMA Initially == Init => IInv
<1> SUFFICES ASSUME Init PROVE IInv  OBVIOUS
<1> USE ElementsAssumption DEF Init, Blank
<1>1. TypeOK  BY DEF TypeOK
<1>2. KnownInv /\ HeldInv /\ BackoffInv  BY DEF KnownInv, HeldInv, BackoffInv
<1>3. RestoredInv  BY DEF RestoredInv
<1>4. StopSticks /\ QuietAfterShutdown /\ AcceptedIsStored
  BY DEF StopSticks, QuietAfterShutdown, AcceptedIsStored, Running
<1>5. QED  BY <1>1, <1>2, <1>3, <1>4 DEF IInv

\* Each step of the agent and its machine preserves the invariant: power.
LEMMA OffKeeps == IInv /\ Off => IInv'
<1> SUFFICES ASSUME IInv, Off PROVE IInv'  OBVIOUS
<1> USE ElementsAssumption DEF Off
<1>1. TypeOK'  BY DEF TypeOK, IInv
<1>2. KnownInv' /\ HeldInv' /\ BackoffInv'  BY DEF KnownInv, HeldInv, BackoffInv
<1>3. RestoredInv'  BY DEF RestoredInv
<1>4. StopSticks' /\ QuietAfterShutdown' /\ AcceptedIsStored'
  BY DEF StopSticks, QuietAfterShutdown, AcceptedIsStored, Running
<1>5. QED  BY <1>1, <1>2, <1>3, <1>4 DEF IInv

LEMMA PowerOnKeeps == IInv /\ PowerOn => IInv'
<1> SUFFICES ASSUME IInv, PowerOn PROVE IInv'  OBVIOUS
<1> USE ElementsAssumption DEF PowerOn, Started, Wished, diskVars, IInv
<1>0. Starting(Len(Startup)) \subseteq Runnable /\ Runnable \subseteq Element
  BY StartingRunnable DEF Runnable
<1>1. TypeOK'  BY <1>0 DEF TypeOK
<1>2. KnownInv'  BY <1>0 DEF KnownInv, RestoredInv, TypeOK
<1>3. \A e \in Element : wish[e] = "none" /\ backoff[e] = Unset
  BY DEF KnownInv, RestoredInv
<1>4. BackoffInv'  BY <1>3 DEF BackoffInv
<1>5. HeldInv' /\ StopSticks'
  <2>1. \A e \in Element : wish'[e] # "down"
    <3>1. CASE stored = NoRecipe  BY <3>1, <1>3
    <3>2. CASE wish' = Wished(Starting(Len(Startup)), "up")  BY <3>2, <1>3
    <3>3. QED  BY <3>1, <3>2
  <2>2. ~halted'  BY DEF RestoredInv
  <2>3. QED  BY <2>1, <2>2 DEF HeldInv, StopSticks
<1>6. RestoredInv'  BY <1>0 DEF RestoredInv, KnownInv, TypeOK
<1>7. QuietAfterShutdown' /\ AcceptedIsStored'
  BY DEF QuietAfterShutdown, AcceptedIsStored, RestoredInv
<1>8. QED  BY <1>1, <1>2, <1>4, <1>5, <1>6, <1>7

\* Each step preserves the invariant: requests.
LEMMA InitializeKeeps == ASSUME NEW r \in Recipes, IInv, Initialize(r) PROVE IInv'
<1> USE ElementsAssumption DEF Initialize, Answer, diskVars, IInv
<1>0. Starting(Len(Startup)) \subseteq Runnable /\ Runnable \subseteq Element
  BY StartingRunnable DEF Runnable
<1>1. CASE UNCHANGED <<recipe, nodes, built, child, stored, durable, wish>>
                /\ init' \in {"accepted", "refused"}
                /\ (init' = "accepted" => recipe = r)
  <2>1. TypeOK'  BY <1>1 DEF TypeOK
  <2>2. KnownInv' /\ BackoffInv'  BY <1>1 DEF KnownInv, BackoffInv
  <2>3. HeldInv' /\ StopSticks'  BY <1>1 DEF HeldInv, StopSticks
  <2>4. RestoredInv'  BY <1>1 DEF RestoredInv
  <2>5. QuietAfterShutdown' /\ AcceptedIsStored'
    BY <1>1 DEF QuietAfterShutdown, AcceptedIsStored, RestoredInv
  <2>6. QED  BY <2>1, <2>2, <2>3, <2>4, <2>5
<1>2. CASE recipe = NoRecipe /\ (InitializeFails(r) \/ StoreFails(r) \/ Store(r))
  <2>0. /\ \A e \in Element : child[e] = "none" /\ wish[e] = "none" /\ backoff[e] = Unset
        /\ nodes = {}
    BY <1>2 DEF KnownInv, RestoredInv
  <2>1. PICK S \in SUBSET Runnable :
            /\ child' = Started(S) /\ wish' = Wished(S, "up")
            /\ S \subseteq nodes'
            /\ init' = "accepted" => S = Starting(Len(Startup)) /\ recipe' = r /\ stored' = r
            /\ init' \in {"accepted", "refused"}
            /\ nodes' \subseteq Element /\ built' \subseteq Runnable
            /\ recipe' \in {recipe, r} /\ stored' \in {stored, r} /\ durable' \in BOOLEAN
    <3>1. CASE InitializeFails(r) \/ StoreFails(r)
      <4>1. child' = Started({}) /\ wish' = Wished({}, "up")
        BY <3>1 DEF InitializeFails, StoreFails, Started, Wished, TypeOK
      <4>2. nodes' \subseteq Element /\ built' \subseteq Runnable
        <5>1. \A i \in 1..Len(Order) : Order[i] \in Element  OBVIOUS
        <5>2. \A n \in 0..Len(Order) : 1..LessOf(n + 1, Len(Order)) \subseteq 1..Len(Order)
          BY DEF LessOf
        <5>3. nodes' \subseteq Element
          <6>1. CASE StoreFails(r)  BY <6>1 DEF StoreFails
          <6>2. CASE InitializeFails(r)
            <7>1. PICK n \in 0..Len(Order) :
                      nodes' = {Order[i] : i \in 1..LessOf(n + 1, Len(Order))}
              BY <6>2 DEF InitializeFails
            <7>2. \A i \in 1..LessOf(n + 1, Len(Order)) : Order[i] \in Element
              BY <5>1, <5>2
            <7>3. QED  BY <7>1, <7>2
          <6>3. QED  BY <3>1, <6>1, <6>2
        <5>4. built' \subseteq Runnable  BY <3>1 DEF InitializeFails, StoreFails
        <5>5. QED  BY <5>3, <5>4
      <4>3. init' = "refused" /\ recipe' \in {recipe, r} /\ UNCHANGED <<stored, durable>>
        BY <3>1 DEF InitializeFails, StoreFails
      <4>4. QED  BY <4>1, <4>2, <4>3 DEF TypeOK
    <3>2. CASE Store(r)
      <4>1. PICK n \in 0..Len(Startup) :
                /\ child' = Started(Starting(n)) /\ wish' = Wished(Starting(n), "up")
                /\ init' = IF n = Len(Startup) THEN "accepted" ELSE "refused"
        BY <3>2 DEF Store
      <4>2. Starting(n) \in SUBSET Runnable  BY StartingRunnable
      <4>3. QED  BY <3>2, <4>1, <4>2, <1>0 DEF Store
    <3>3. QED  BY <1>2, <3>1, <3>2
  <2>2. TypeOK'  BY <2>1, <1>0 DEF TypeOK, Started, Wished
  <2>3. KnownInv'  BY <2>1, <2>0, <1>0 DEF KnownInv, Started, Wished
  <2>4. BackoffInv'  BY <2>0 DEF BackoffInv
  <2>5. HeldInv' /\ StopSticks'  BY <2>0, <2>1 DEF HeldInv, StopSticks, Started, Wished
  <2>6. RestoredInv' /\ QuietAfterShutdown'  BY <2>1 DEF RestoredInv, QuietAfterShutdown
  <2>7. AcceptedIsStored'  BY <2>1, <1>0 DEF AcceptedIsStored, Wished
  <2>8. QED  BY <2>2, <2>3, <2>4, <2>5, <2>6, <2>7
<1>3. QED  BY <1>1, <1>2

LEMMA StartNodeKeeps == ASSUME NEW e \in Element, IInv, StartNode(e) PROVE IInv'
<1> USE ElementsAssumption DEF StartNode, Started, Wished, diskVars, IInv
<1>0. child' \in [Element -> {"none", "running", "ok", "failed"}]  BY DEF TypeOK
<1>1. TypeOK'
  <2>1. backoff' \in [Element -> Nat \cup {Unset}]  BY DEF TypeOK
  <2>2. wish' \in [Element -> {"none", "up", "down"}]  BY DEF TypeOK
  <2>3. QED  BY <1>0, <2>1, <2>2 DEF TypeOK
<1>2. KnownInv'  BY SMTT(30) DEF KnownInv, TypeOK
<1>3. BackoffInv'
  <2>1. \A d \in Element \ {e} : child'[d] = child[d] /\ backoff'[d] = backoff[d]
    BY DEF TypeOK
  <2>2. backoff'[e] = Unset  BY DEF TypeOK
  <2>3. QED  BY <2>1, <2>2 DEF BackoffInv
<1>4. HeldInv' /\ StopSticks' /\ QuietAfterShutdown'
  BY SMTT(30) DEF HeldInv, StopSticks, QuietAfterShutdown, TypeOK
<1>5. RestoredInv' /\ AcceptedIsStored'
  BY DEF RestoredInv, AcceptedIsStored, TypeOK, Starting, Runnable
<1>6. QED  BY <1>1, <1>2, <1>3, <1>4, <1>5

\* What stopping the nodes of S leaves behind.
LEMMA StoppedFacts ==
    ASSUME NEW S \in SUBSET Element, TypeOK, Stopped(S)
    PROVE  /\ stopped' = stopped \cup S
           /\ child' \in [Element -> {"none", "running", "ok", "failed"}]
           /\ \A e \in Element : /\ child'[e] = "none" <=> child[e] = "none"
                                 /\ e \in S => child'[e] # "running"
                                 /\ child[e] # "running" => child'[e] = child[e]
                                 /\ child[e] # "running" => downFor'[e] = downFor[e]
           /\ strays' \subseteq strays
           /\ downFor' \in [Element -> Nat]
BY DEF Stopped, TypeOK, Running

LEMMA StopKeeps ==
    ASSUME NEW S \in SUBSET (nodes \ Lan), IInv, Stopped(S), wish' = Wished(S, "down"),
           guest = "up",
           UNCHANGED <<guest, boots, recipe, init, nodes, built, backoff, failures, stored>>,
           \/ UNCHANGED <<durable, dirty, halted>>
           \/ S = nodes \ Lan /\ durable' = TRUE /\ dirty' = FALSE /\ halted' = (strays' = {})
    PROVE  IInv'
<1> USE ElementsAssumption DEF IInv
<1>0. S \subseteq Element  BY DEF TypeOK
<1>a. /\ stopped' = stopped \cup S
      /\ child' \in [Element -> {"none", "running", "ok", "failed"}]
      /\ \A e \in Element : /\ child'[e] = "none" <=> child[e] = "none"
                            /\ e \in S => child'[e] # "running"
                            /\ child[e] # "running" => child'[e] = child[e]
                            /\ child[e] # "running" => downFor'[e] = downFor[e]
      /\ strays' \subseteq strays
      /\ downFor' \in [Element -> Nat]
  BY <1>0, StoppedFacts
<1>1. TypeOK'  BY <1>0, <1>a DEF TypeOK, Wished
<1>2. KnownInv'  BY <1>0, <1>a DEF KnownInv, Wished
<1>3. BackoffInv'  BY <1>a DEF BackoffInv, TypeOK
<1>4. HeldInv' /\ StopSticks'
  <2>1. \A e \in Element : child'[e] # "none" => e \in nodes \ Lan
    BY <1>a DEF KnownInv, Runnable
  <2>2. \A e \in Element : child[e] # "running" => child'[e] # "running"  BY <1>a
  <2>3. QED  BY <1>0, <1>a, <2>1, <2>2 DEF HeldInv, StopSticks, Wished
<1>5. QuietAfterShutdown'
  <2>1. CASE UNCHANGED <<durable, dirty, halted>>
    <3>1. \A e \in Element : child'[e] = "running" => child[e] = "running"
      BY <1>a
    <3>2. Running = {} => Running' = {}  BY <3>1 DEF Running
    <3>3. QED  BY <2>1, <1>a, <3>2 DEF QuietAfterShutdown
  <2>2. CASE S = nodes \ Lan /\ dirty' = FALSE /\ halted' = (strays' = {})
    BY <2>2, <1>a DEF QuietAfterShutdown, Running, KnownInv, Runnable
  <2>3. QED  BY <2>1, <2>2
<1>6. RestoredInv' /\ AcceptedIsStored'
  <2>1. Starting(Len(Startup)) \subseteq Element  BY StartingRunnable
  <2>2. \A e \in Element : wish[e] # "none" => wish'[e] # "none"  BY DEF Wished
  <2>3. RestoredInv'
    BY <2>1, <2>2 DEF RestoredInv
  <2>4. AcceptedIsStored'  BY <2>1, <2>2 DEF AcceptedIsStored
  <2>5. QED  BY <2>3, <2>4
<1>7. QED  BY <1>1, <1>2, <1>3, <1>4, <1>5, <1>6

LEMMA RestartNodeKeeps == ASSUME NEW e \in Element, IInv, RestartNode(e) PROVE IInv'
<1> USE ElementsAssumption DEF RestartNode, diskVars
<1>1. CASE e \notin Enabled
  <2>1. {e} \in SUBSET (nodes \ Lan)  OBVIOUS
  <2>2. QED  BY <1>1, <2>1, StopKeeps
<1>2. CASE e \in Enabled
  <2> USE <1>2 DEF IInv
  <2>0. /\ child' \in [Element -> {"none", "running", "ok", "failed"}]
        /\ \A d \in Element \ {e} : child'[d] = child[d]
        /\ child'[e] = "running" => e \in built
        /\ child[e] = "none" => child'[e] \in {"none", "running"}
        /\ child'[e] # "none" => e \in built \/ child[e] # "none"
    <3>1. CASE e \in built /\ child' = Started({e})  BY <3>1 DEF TypeOK, Started
    <3>2. ASSUME NEW end \in {"ok", "failed"},
                 child' = [child EXCEPT ![e] = IF @ = "running" THEN end ELSE @]
          PROVE  /\ child' \in [Element -> {"none", "running", "ok", "failed"}]
                 /\ \A d \in Element \ {e} : child'[d] = child[d]
                 /\ child'[e] = "running" => e \in built
                 /\ child[e] = "none" => child'[e] \in {"none", "running"}
                 /\ child'[e] # "none" => e \in built \/ child[e] # "none"
      BY <3>2 DEF TypeOK
    <3>3. QED  BY <3>1, <3>2
  <2>1. /\ wish' \in [Element -> {"none", "up", "down"}]
        /\ wish'[e] = "up" /\ \A d \in Element \ {e} : wish'[d] = wish[d]
    BY DEF Wished, TypeOK
  <2>2. /\ backoff' \in [Element -> Nat \cup {Unset}]
        /\ backoff'[e] = Unset /\ \A d \in Element \ {e} : backoff'[d] = backoff[d]
    BY DEF TypeOK
  <2>3. /\ downFor' \in [Element -> Nat]
        /\ \A d \in Element \ {e} : downFor'[d] = downFor[d]
    <3>1. downFor \in [Element -> Nat]  BY DEF TypeOK
    <3>2. downFor' = [downFor EXCEPT ![e] = IF child[e] = "running" THEN 0 ELSE @]  OBVIOUS
    <3> HIDE DEF RestartNode, IInv
    <3>3. QED  BY <3>1, <3>2
  <2>a. strays' \subseteq Element /\ stopped' \subseteq Element  BY DEF TypeOK
  <2>d. UNCHANGED <<guest, boots, recipe, init, nodes, built, failures, stored, durable, dirty>>
        /\ halted' \in BOOLEAN
    OBVIOUS
  <2>4. TypeOK'
    <3> HIDE DEF RestartNode, IInv
    <3>1. TypeOK  BY DEF IInv
    <3>2. QED  BY <3>1, <2>0, <2>1, <2>2, <2>3, <2>a, <2>d DEF TypeOK
  <2>5. KnownInv'
    <3>1. e \in nodes \cap Runnable  BY DEF Runnable
    <3>2. nodes' = nodes  OBVIOUS
    <3> HIDE DEF RestartNode, IInv
    <3>3. KnownInv  BY DEF IInv
    <3>4. ASSUME NEW d \in Element
          PROVE  /\ d \notin nodes => wish'[d] = "none"
                 /\ d \notin nodes \cap Runnable => child'[d] = "none" /\ backoff'[d] = Unset
                 /\ child'[d] = "none" => backoff'[d] = Unset
      <4>1. CASE d = e  BY <4>1, <3>1, <2>2
      <4>2. CASE d # e
        <5>1. child'[d] = child[d] /\ wish'[d] = wish[d] /\ backoff'[d] = backoff[d]
          BY <4>2, <2>0, <2>1, <2>2
        <5>2. QED  BY <5>1, <3>3 DEF KnownInv
      <4>3. QED  BY <4>1, <4>2
    <3>5. QED  BY <3>2, <3>4 DEF KnownInv
  <2>6. BackoffInv'  BY <2>0, <2>2, <2>3 DEF BackoffInv
  <2>b. ~halted' /\ stopped' = stopped \ {e}  OBVIOUS
  <2>c. HeldInv'  BY <2>1, <2>b DEF HeldInv
  <2>7. StopSticks' /\ QuietAfterShutdown'
    BY <2>0, <2>1, <2>b DEF StopSticks, QuietAfterShutdown
  <2>8. RestoredInv' /\ AcceptedIsStored'
    <3>1. Starting(Len(Startup)) \subseteq Element  BY StartingRunnable
    <3>2. QED  BY <2>1, <3>1 DEF RestoredInv, AcceptedIsStored
  <2>9. QED  BY <2>4, <2>5, <2>6, <2>c, <2>7, <2>8
<1>3. QED  BY <1>1, <1>2

LEMMA RequestKeeps == IInv /\ Request => IInv'
<1> SUFFICES ASSUME IInv, Request PROVE IInv'  OBVIOUS
<1>1. ASSUME NEW r \in Recipes, Initialize(r) PROVE IInv'  BY <1>1, InitializeKeeps
<1>2. ASSUME NEW e \in Element, StartNode(e) PROVE IInv'  BY <1>2, StartNodeKeeps
<1>3. ASSUME NEW e \in Element, RestartNode(e) PROVE IInv'  BY <1>3, RestartNodeKeeps
<1>4. ASSUME NEW e \in Element, StopNode(e) PROVE IInv'
  <2>1. {e} \in SUBSET (nodes \ Lan)  BY <1>4 DEF StopNode
  <2>2. QED  BY <1>4, <2>1, StopKeeps DEF StopNode, diskVars
<1>5. ASSUME Shutdown PROVE IInv'
  BY <1>5, StopKeeps DEF Shutdown
<1>6. QED  BY <1>1, <1>2, <1>3, <1>4, <1>5 DEF Request

\* Each step preserves the invariant: supervision and time.
LEMMA SuperviseKeeps == IInv /\ Supervise => IInv'
<1> SUFFICES ASSUME IInv, Supervise PROVE IInv'  OBVIOUS
<1>1. CASE Off  BY <1>1, OffKeeps
<1>2. CASE Restarted
  <2> USE <1>2 DEF Restarted, Started, diskVars, histVars, IInv
  <2>0. /\ \A e \in NewlyDown \cup Due : /\ e \in Element /\ e \notin stopped
                                         /\ child[e] \in {"ok", "failed"}
        /\ NewlyDown \cap Due = {}
        /\ \A e \in NewlyDown : backoff[e] = Unset
    BY ElementsAssumption DEF NewlyDown, Due, ToRestart
  <2>1. \A e \in NewlyDown : failures[e] + 1 \in Nat \ {0} /\ Delay(failures[e] + 1) \in Nat
    BY <2>0, DelayNat DEF TypeOK
  <2>2. TypeOK'  BY <2>0, <2>1 DEF TypeOK
  <2>3. KnownInv'  BY <2>0 DEF KnownInv, TypeOK
  <2>4. HeldInv' /\ StopSticks'  BY <2>0 DEF HeldInv, StopSticks, TypeOK
  <2>5. QuietAfterShutdown'  BY <2>0 DEF QuietAfterShutdown, HeldInv, Running, TypeOK
  <2>6. RestoredInv' /\ AcceptedIsStored'  BY DEF RestoredInv, AcceptedIsStored
  <2>7. ASSUME NEW e \in Element, backoff'[e] # Unset
        PROVE  /\ child'[e] # "running" /\ failures'[e] > 0
               /\ downFor'[e] + backoff'[e] >= LessOf(MaxDown, Delay(failures'[e]))
    <3>1. CASE e \in NewlyDown
      <4>1. /\ failures'[e] = failures[e] + 1 /\ backoff'[e] = Delay(failures[e] + 1)
            /\ child'[e] = child[e] /\ downFor'[e] = downFor[e] /\ downFor[e] \in Nat
        BY <3>1, <2>0 DEF TypeOK
      <4>2. LessOf(MaxDown, Delay(failures[e] + 1)) <= Delay(failures[e] + 1)
        BY <2>1, <3>1, ElementsAssumption DEF LessOf
      <4>3. failures[e] \in Nat  BY DEF TypeOK
      <4> HIDE DEF Restarted, IInv, Started
      <4>4. child'[e] # "running"  BY <4>1, <3>1, <2>0
      <4>5. LessOf(MaxDown, Delay(failures[e] + 1)) \in Nat
        BY <2>1, <3>1, ElementsAssumption DEF LessOf
      <4>6. QED  BY <4>1, <4>2, <4>3, <4>4, <4>5, <2>1, <3>1
    <3>2. CASE e \notin NewlyDown
      <4>1. e \notin Due  BY <3>2, <2>7
      <4>2. /\ failures'[e] = failures[e] /\ backoff'[e] = backoff[e]
            /\ child'[e] = child[e] /\ downFor'[e] = downFor[e]
        BY <3>2, <4>1
      <4>3. QED  BY <4>2, <2>7 DEF BackoffInv
    <3>3. QED  BY <3>1, <3>2
  <2>8. BackoffInv'  BY <2>7 DEF BackoffInv
  <2>9. QED  BY <2>2, <2>3, <2>4, <2>5, <2>6, <2>8
<1>3. QED  BY <1>1, <1>2 DEF Supervise

LEMMA TickKeeps == IInv /\ Tick => IInv'
<1> SUFFICES ASSUME IInv, Tick PROVE IInv'  OBVIOUS
<1> USE ElementsAssumption DEF Tick, diskVars, IInv
<1>1. TypeOK'  BY DEF TypeOK, LessOf
<1>2. KnownInv'  BY DEF KnownInv
<1>3. HeldInv' /\ StopSticks' /\ QuietAfterShutdown'
  BY DEF HeldInv, StopSticks, QuietAfterShutdown, Running
<1>4. RestoredInv' /\ AcceptedIsStored'  BY DEF RestoredInv, AcceptedIsStored
<1>5. ASSUME NEW e \in Element, backoff'[e] # Unset
      PROVE  /\ child'[e] # "running" /\ failures'[e] > 0
             /\ downFor'[e] + backoff'[e] >= LessOf(MaxDown, Delay(failures'[e]))
  <2>1. backoff[e] # Unset  BY <1>5
  <2>2. /\ child[e] # "running" /\ failures[e] > 0
        /\ downFor[e] + backoff[e] >= LessOf(MaxDown, Delay(failures[e]))
    BY <2>1 DEF BackoffInv
  <2>3. child[e] \in {"ok", "failed"}  BY <2>1, <2>2 DEF KnownInv, TypeOK
  <2>4. /\ backoff'[e] = IF backoff[e] = 0 THEN 0 ELSE backoff[e] - 1
        /\ downFor'[e] = LessOf(downFor[e] + 1, MaxDown)
    BY <2>1, <2>3
  <2>5. backoff[e] \in Nat /\ downFor[e] \in Nat /\ failures[e] \in Nat \ {0}
    BY <2>1, <2>2 DEF TypeOK
  <2>6. Delay(failures[e]) \in Nat  BY <2>5, DelayNat
  <2>7. child' = child /\ failures' = failures  OBVIOUS
  <2> HIDE DEF Tick, IInv
  <2>8. ASSUME NEW x \in Nat, NEW m \in Nat, NEW d \in Nat, NEW t \in Nat,
               d + t >= LessOf(m, x)
        PROVE  LessOf(d + 1, m) + (IF t = 0 THEN 0 ELSE t - 1) >= LessOf(m, x)
    BY <2>8 DEF LessOf
  <2>9. LessOf(downFor[e] + 1, MaxDown) + (IF backoff[e] = 0 THEN 0 ELSE backoff[e] - 1)
            >= LessOf(MaxDown, Delay(failures[e]))
    BY <2>2, <2>5, <2>6, <2>8, ElementsAssumption
  <2>10. child'[e] = child[e] /\ failures'[e] = failures[e]  BY <2>7
  <2>11. QED  BY <2>2, <2>4, <2>9, <2>10
<1>6. BackoffInv'  BY <1>5 DEF BackoffInv
<1>7. QED  BY <1>1, <1>2, <1>3, <1>4, <1>6

\* Each step preserves the invariant: nodes and volume.
LEMMA MachineKeeps == IInv /\ Machine => IInv'
<1> SUFFICES ASSUME IInv, Machine PROVE IInv'  OBVIOUS
<1> USE ElementsAssumption DEF diskVars, agentVars, histVars
<1>1. CASE PowerOn  BY <1>1, PowerOnKeeps
<1>2. CASE PowerOff  BY <1>2, OffKeeps DEF PowerOff
<1>3. ASSUME NEW e \in Element, NodeExits(e) PROVE IInv'
  <2> USE <1>3 DEF NodeExits, IInv
  <2>1. TypeOK'  BY SMTT(30) DEF TypeOK
  <2>2. KnownInv'  BY DEF KnownInv, TypeOK
  <2>3. BackoffInv'
    <3>1. backoff[e] = Unset  BY DEF BackoffInv
    <3>2. \A d \in Element \ {e} : child'[d] = child[d] /\ downFor'[d] = downFor[d]
      BY DEF TypeOK
    <3>3. QED  BY <3>1, <3>2 DEF BackoffInv
  <2>4. HeldInv' /\ StopSticks'  BY DEF HeldInv, StopSticks, TypeOK
  <2>5. QuietAfterShutdown'  BY DEF QuietAfterShutdown, Running, TypeOK
  <2>6. RestoredInv' /\ AcceptedIsStored'  BY DEF RestoredInv, AcceptedIsStored
  <2>7. QED  BY <2>1, <2>2, <2>3, <2>4, <2>5, <2>6
<1>4. ASSUME JournalCommits \/ \E e \in Element : NodeForks(e) \/ NodeWrites(e) PROVE IInv'
  <2> USE <1>4 DEF NodeForks, NodeWrites, JournalCommits, IInv
  <2>1. TypeOK'  BY ZenonT(40) DEF TypeOK
  <2>2. KnownInv' /\ BackoffInv'  BY DEF KnownInv, BackoffInv
  <2>3. HeldInv' /\ StopSticks'  BY DEF HeldInv, StopSticks
  <2>4. QuietAfterShutdown'  BY DEF QuietAfterShutdown, Running, TypeOK
  <2>5. RestoredInv' /\ AcceptedIsStored'  BY DEF RestoredInv, AcceptedIsStored
  <2>6. QED  BY <2>1, <2>2, <2>3, <2>4, <2>5
<1>5. QED  BY <1>1, <1>2, <1>3, <1>4 DEF Machine

LEMMA Stutters == IInv /\ UNCHANGED vars => IInv'
<1> SUFFICES ASSUME IInv, UNCHANGED vars PROVE IInv'  OBVIOUS
<1> USE DEF vars, agentVars, diskVars, histVars, IInv
<1>1. TypeOK'  BY DEF TypeOK
<1>2. KnownInv' /\ BackoffInv'  BY DEF KnownInv, BackoffInv
<1>3. HeldInv' /\ StopSticks' /\ QuietAfterShutdown'
  BY DEF HeldInv, StopSticks, QuietAfterShutdown, Running
<1>4. RestoredInv' /\ AcceptedIsStored'  BY DEF RestoredInv, AcceptedIsStored
<1>5. QED  BY <1>1, <1>2, <1>3, <1>4

\* The invariant holds throughout (Backend).
THEOREM AgentInvariance == Spec => []IInv
<1>1. IInv /\ [Next]_vars => IInv'
  BY RequestKeeps, SuperviseKeeps, TickKeeps, MachineKeeps, Stutters DEF Next
<1>2. QED  BY Initially, <1>1, PTL DEF Spec

\* A node the host has stopped stays down until the host wants it again.
THEOREM StopSticksAlways == Spec => []StopSticks
<1>1. IInv => StopSticks  BY DEF IInv
<1>2. QED  BY AgentInvariance, <1>1, PTL

\* After a complete shutdown nothing runs and the volume is clean.
THEOREM QuietAfterShutdownAlways == Spec => []QuietAfterShutdown
<1>1. IInv => QuietAfterShutdown  BY DEF IInv
<1>2. QED  BY AgentInvariance, <1>1, PTL

\* An accepted recipe is the one on the volume.
THEOREM AcceptedIsStoredAlways == Spec => []AcceptedIsStored
<1>1. IInv => AcceptedIsStored  BY DEF IInv
<1>2. QED  BY AgentInvariance, <1>1, PTL

\* A volume keeps the recipe it has, or loses it in a power cut.
THEOREM RecipeKeptAlways == Spec => RecipeKept
<1>1. IInv /\ [Next]_vars => (stored # NoRecipe => stored' \in {stored, NoRecipe})
  <2> SUFFICES ASSUME IInv, [Next]_vars, stored # NoRecipe, stored' # stored
               PROVE  stored' = NoRecipe
    OBVIOUS
  <2> USE DEF diskVars
  <2>1. CASE Off  BY <2>1 DEF Off
  <2>2. ASSUME NEW r \in Recipes, Initialize(r) PROVE FALSE
    <3>1. guest = "up" /\ init = "unsent" /\ recipe # NoRecipe
      BY <2>2 DEF Initialize, IInv, RestoredInv
    <3>2. QED  BY <2>2, <3>1 DEF Initialize
  <2>3. QED
    BY <2>1, <2>2 DEF Next, Request, StartNode, StopNode, RestartNode, Shutdown,
       Supervise, Restarted, Tick, Machine, PowerOn, PowerOff, JournalCommits,
       NodeExits, NodeForks, NodeWrites, vars
<1>2. QED  BY AgentInvariance, <1>1, PTL DEF Spec, RecipeKept

\* The supervisor waits for the delay the failures ask for.
THEOREM BackoffKeptAlways == Spec => BackoffKept
<1>1. ASSUME IInv, Supervise, NEW e \in Element, child[e] # "running", child'[e] = "running"
      PROVE  downFor[e] >= LessOf(MaxDown, Delay(failures[e]))
  <2>1. ~Off  BY <1>1 DEF Off
  <2>2. e \in Due  BY <1>1, <2>1 DEF Supervise, Restarted, Started, IInv, TypeOK
  <2>3. backoff[e] = 0  BY <2>2 DEF Due
  <2>4. backoff[e] # Unset  BY <2>3, ElementsAssumption
  <2>5. downFor[e] + backoff[e] >= LessOf(MaxDown, Delay(failures[e]))
    BY <1>1, <2>4 DEF IInv, BackoffInv
  <2>6. downFor[e] \in Nat  BY <1>1 DEF IInv, TypeOK
  <2>7. downFor[e] + backoff[e] = downFor[e]  BY <2>3, <2>6
  <2>8. QED  BY <2>5, <2>7
<1>2. IInv => (Supervise => \A e \in Element :
          child[e] # "running" /\ child'[e] = "running"
              => downFor[e] >= LessOf(MaxDown, Delay(failures[e])))
  BY <1>1
<1>3. IInv /\ [Next]_vars =>
          [Supervise => \A e \in Element :
              child[e] # "running" /\ child'[e] = "running"
                  => downFor[e] >= LessOf(MaxDown, Delay(failures[e]))]_vars
  BY <1>2
<1>4. QED  BY AgentInvariance, <1>3, PTL DEF Spec, BackoffKept

\* Every variable of the agent keeps its type.
THEOREM AgentTypeAlways == Spec => []TypeOK
<1>1. IInv => TypeOK  BY DEF IInv
<1>2. QED  BY AgentInvariance, <1>1, PTL

================================================================================
