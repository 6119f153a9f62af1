------------------------------ MODULE GuestBackend ------------------------------
(***************************************************************************)
(* The guest agent: process 1 of the virtual machine, which builds the     *)
(* recipe's nodes once, keeps the recipe on the data volume, starts, stops *)
(* and supervises the nodes' processes, and stops them all and syncs the   *)
(* volume when it is told to shut down.                                    *)
(*                                                                         *)
(* A request is dispatched in one step: the agent has one thread, and      *)
(* supervises only between requests.  When the agent dies of an exception  *)
(* outside dispatch, the kernel panics and the machine is off.             *)
(***************************************************************************)
EXTENDS Naturals, Sequences, FiniteSets

CONSTANTS
    Element,      \* elements of the recipe
    Order,        \* recipe["elements"], in order
    Startup,      \* recipe["startup"]["order"]
    Lan,          \* elements of template network.lan, which have no process
    Enabled,      \* enabled elements
    Policy,       \* restart policy of each element
    Forking,      \* elements whose processes leave others in the background
    Recipes,      \* recipes a host may send
    NoRecipe,     \* the agent or the volume has none
    Unset,        \* no entry in restart_after
    MaxFailures,  \* bound: failures of a node per boot
    MaxDown,      \* bound: seconds a node is observed to be down
    MaxBoots      \* bound: boots of the machine

ASSUME ElementsAssumption ==
    /\ Order \in Seq(Element) /\ \A e \in Element : \E i \in DOMAIN Order : Order[i] = e
    /\ Startup \in Seq(Element)
    /\ Lan \subseteq Element /\ Enabled \subseteq Element /\ Forking \subseteq Element
    /\ Policy \in [Element -> {"never", "on_failure", "always"}]
    /\ NoRecipe \notin Recipes
    /\ Unset \notin Nat
    /\ MaxFailures \in Nat /\ MaxDown \in Nat /\ MaxBoots \in Nat

VARIABLES
    guest,     \* "off" or "up"
    boots,     \* boots so far
    recipe,    \* self.recipe
    init,      \* the host's initialize request of this boot, and its answer
    nodes,     \* keys of self.nodes
    built,     \* elements with environment, cgroup and network namespace
    child,     \* self.children and their exit codes
    strays,    \* nodes with live background processes besides the child
    stopped,   \* self.stopped
    backoff,   \* self.restart_after: seconds left
    failures,  \* self.failures
    stored,    \* recipe.json on the volume
    durable,   \* recipe.json would survive a power cut
    dirty,     \* node data written since the last sync
    wish,      \* what host or recipe last asked for each node (history)
    halted,    \* shutdown left no process and nothing was asked for since (history)
    downFor    \* seconds since each child exited (history)

agentVars == <<recipe, init, nodes, built, child, strays, stopped, backoff, failures>>
diskVars  == <<stored, durable, dirty>>
histVars  == <<wish, halted, downFor>>
vars      == <<guest, boots, agentVars, diskVars, histVars>>

\* Elements that have a process when they run.
Runnable == Enabled \ Lan

Running == {e \in Element : child[e] = "running"}

LessOf(a, b) == IF a < b THEN a ELSE b

\* Seconds before a restart after so many failures: min(30, 2 ** min(count, 5)).
Delay(count) == <<2, 4, 8, 16, 30>>[LessOf(count, 5)]

--------------------------------------------------------------------------------
Blank ==
    /\ recipe = NoRecipe /\ init = "unsent"
    /\ nodes = {} /\ built = {}
    /\ child = [e \in Element |-> "none"] /\ strays = {}
    /\ stopped = {}
    /\ backoff = [e \in Element |-> Unset]
    /\ failures = [e \in Element |-> 0]
    /\ wish = [e \in Element |-> "none"] /\ halted = FALSE
    /\ downFor = [e \in Element |-> 0]

Init ==
    /\ Blank
    /\ guest = "off" /\ boots = 0
    /\ stored = NoRecipe /\ durable = TRUE /\ dirty = FALSE

\* The machine is off: quit, killed, or its process 1 has died.  A rename that
\* the volume's journal has not committed is lost.
Off ==
    /\ guest' = "off"
    /\ recipe' = NoRecipe /\ init' = "unsent"
    /\ nodes' = {} /\ built' = {}
    /\ child' = [e \in Element |-> "none"] /\ strays' = {}
    /\ stopped' = {}
    /\ backoff' = [e \in Element |-> Unset]
    /\ failures' = [e \in Element |-> 0]
    /\ wish' = [e \in Element |-> "none"] /\ halted' = FALSE
    /\ downFor' = [e \in Element |-> 0]
    /\ stored' \in IF durable THEN {stored} ELSE {stored, NoRecipe}
    /\ durable' = TRUE /\ dirty' = FALSE
    /\ UNCHANGED boots

PowerOff == guest = "up" /\ Off

\* Elements started when the startup order is followed to its n-th element.
Starting(n) == {Startup[i] : i \in 1..n} \cap Runnable

\* The children after self.start for each of S.
Started(S) == [e \in Element |-> IF e \in S THEN "running" ELSE child[e]]

Wished(S, w) == [e \in Element |-> IF e \in S THEN w ELSE wish[e]]

\* Backend.__init__.  Nodes of a stored recipe are built and started again; an
\* exception ends process 1, and the machine is off again.
PowerOn ==
    /\ guest = "off" /\ boots < MaxBoots
    /\ guest' = "up" /\ boots' = boots + 1
    /\ IF stored = NoRecipe THEN UNCHANGED <<recipe, nodes, built, child, wish>>
       ELSE /\ recipe' = stored
            /\ nodes' = Element /\ built' = Runnable
            /\ child' = Started(Starting(Len(Startup)))
            /\ wish' = Wished(Starting(Len(Startup)), "up")
    /\ UNCHANGED <<init, strays, stopped, backoff, failures, diskVars, halted, downFor>>

--------------------------------------------------------------------------------
(***************************************************************************)
(* Requests.  The host sends initialize once in a boot: it kills the       *)
(* machine when the request fails (QemuRuntime::boot).                     *)
(***************************************************************************)

Answer(a) == init' = a

\* The elements before the n-th have been built when the n-th fails, or all of
\* them when a network does.
InitializeFails(r) ==
    /\ \E n \in 0..Len(Order) :
          /\ nodes' = {Order[i] : i \in 1..LessOf(n + 1, Len(Order))}
          /\ built' = {Order[i] : i \in 1..n} \cap Runnable
    /\ Answer("refused")
    /\ UNCHANGED <<recipe, child, stored, durable, wish>>

\* The recipe is in memory, but recipe.json could not be written.
StoreFails(r) ==
    /\ recipe' = r
    /\ nodes' = Element /\ built' = Runnable
    /\ Answer("refused")
    /\ UNCHANGED <<child, stored, durable, wish>>

\* Deviation: the recipe is accepted although it is not stored.
StoreLater(r) ==
    /\ recipe' = r
    /\ nodes' = Element /\ built' = Runnable
    /\ child' = Started(Starting(Len(Startup)))
    /\ Answer("accepted")
    /\ wish' = Wished(Starting(Len(Startup)), "up")
    /\ UNCHANGED <<stored, durable>>

\* The recipe is stored; the nodes of the startup order are started until one
\* cannot be, or all run.
Store(r) ==
    /\ recipe' = r
    /\ nodes' = Element /\ built' = Runnable
    /\ stored' = r /\ durable' = FALSE
    /\ \E n \in 0..Len(Startup) :
          /\ child' = Started(Starting(n))
          /\ Answer(IF n = Len(Startup) THEN "accepted" ELSE "refused")
          /\ wish' = Wished(Starting(n), "up")

\* Deviation: another recipe replaces the one the guest has.
InitializeAnew(r) ==
    /\ guest = "up" /\ init = "unsent"
    /\ Store(r)
    /\ halted' = FALSE
    /\ UNCHANGED <<guest, boots, strays, stopped, backoff, failures, dirty, downFor>>

\* Backend.initialize: only an equal recipe is accepted a second time.
Initialize(r) ==
    /\ guest = "up" /\ init = "unsent"
    /\ IF recipe # NoRecipe
       THEN /\ Answer(IF recipe = r THEN "accepted" ELSE "refused")
            /\ UNCHANGED <<recipe, nodes, built, child, stored, durable, wish>>
       ELSE \/ Answer("refused")   \* the recipe is not one the guest supports
               /\ UNCHANGED <<recipe, nodes, built, child, stored, durable, wish>>
            \/ InitializeFails(r)
            \/ StoreFails(r)
            \/ Store(r)
    /\ halted' = FALSE
    /\ UNCHANGED <<guest, boots, strays, stopped, backoff, failures, dirty, downFor>>

\* Deviation: the node counts as stopped until its process is there.
StartNodeLate(e) ==
    /\ guest = "up" /\ e \in nodes \cap Runnable
    /\ child[e] # "running" /\ failures[e] < MaxFailures
    /\ \/ e \in built /\ child' = Started({e}) /\ stopped' = stopped \ {e}
       \/ UNCHANGED <<child, stopped>>
    /\ backoff' = [backoff EXCEPT ![e] = Unset]
    /\ wish' = Wished({e}, "up") /\ halted' = FALSE
    /\ UNCHANGED <<guest, boots, recipe, init, nodes, built, strays, failures, diskVars, downFor>>

\* Deviation: a restart that is due survives the node's start.
StartNodeKeepingBackoff(e) ==
    /\ guest = "up" /\ e \in nodes \cap Runnable
    /\ child[e] # "running" /\ failures[e] < MaxFailures
    /\ stopped' = stopped \ {e}
    /\ \/ e \in built /\ child' = Started({e})
       \/ UNCHANGED child
    /\ wish' = Wished({e}, "up") /\ halted' = FALSE
    /\ UNCHANGED <<guest, boots, recipe, init, nodes, built, strays, backoff, failures,
                   diskVars, downFor>>

\* start_node: nothing for a network, a disabled or a running node.  A process
\* that cannot be spawned leaves the node neither running nor stopped.
StartNode(e) ==
    /\ guest = "up" /\ e \in nodes \cap Runnable
    /\ child[e] # "running" /\ failures[e] < MaxFailures
    /\ stopped' = stopped \ {e}
    /\ backoff' = [backoff EXCEPT ![e] = Unset]
    /\ \/ e \in built /\ child' = Started({e})
       \/ UNCHANGED child
    /\ wish' = Wished({e}, "up") /\ halted' = FALSE
    /\ UNCHANGED <<guest, boots, recipe, init, nodes, built, strays, failures, diskVars, downFor>>

\* self.stop for each element of S: a running child and its process group get
\* SIGTERM, and SIGKILL after a second if the child still runs.  Processes the
\* child leaves behind, then or before, are not looked for.
Stopped(S) ==
    /\ stopped' = stopped \cup S
    /\ \E clean \in SUBSET (S \cap Running) :
          child' = [e \in Element |-> IF e \notin S \cap Running THEN child[e]
                                      ELSE IF e \in clean THEN "ok" ELSE "failed"]
    /\ \E survivors \in SUBSET (S \cap Running) :
          strays' = (strays \ (S \cap Running)) \cup (strays \cap survivors)
    /\ downFor' = [e \in Element |-> IF e \in S \cap Running THEN 0 ELSE downFor[e]]

StopNode(e) ==
    /\ guest = "up" /\ e \in nodes \ Lan
    /\ Stopped({e})
    /\ wish' = Wished({e}, "down")
    /\ UNCHANGED <<guest, boots, recipe, init, nodes, built, backoff, failures, diskVars, halted>>

\* stop, then start, which a disabled node refuses and which may fail.
RestartNode(e) ==
    /\ guest = "up" /\ e \in nodes \ Lan
    /\ failures[e] < MaxFailures
    /\ IF e \in Enabled
       THEN /\ stopped' = stopped \ {e}
            /\ backoff' = [backoff EXCEPT ![e] = Unset]
            /\ \/ e \in built /\ child' = Started({e})
               \/ \E end \in {"ok", "failed"} :
                     child' = [child EXCEPT ![e] = IF @ = "running" THEN end ELSE @]
            /\ strays' \in {strays, IF child[e] = "running" THEN strays \ {e} ELSE strays}
            /\ wish' = Wished({e}, "up") /\ halted' = FALSE
            /\ downFor' = [downFor EXCEPT ![e] = IF child[e] = "running" THEN 0 ELSE @]
       ELSE /\ Stopped({e})
            /\ wish' = Wished({e}, "down")
            /\ UNCHANGED <<backoff, halted>>
    /\ UNCHANGED <<guest, boots, recipe, init, nodes, built, failures, diskVars>>

\* Deviation: the volume is synced before the nodes are stopped.
ShutdownSyncFirst ==
    /\ guest = "up"
    /\ Stopped(nodes \ Lan)
    /\ wish' = Wished(nodes \ Lan, "down") /\ halted' = (strays' = {})
    /\ durable' = TRUE /\ dirty' = (dirty \/ Running # {})
    /\ UNCHANGED <<guest, boots, recipe, init, nodes, built, backoff, failures, stored>>

\* shutdown: every node is stopped, then the volume is synced.
Shutdown ==
    /\ guest = "up"
    /\ Stopped(nodes \ Lan)
    /\ wish' = Wished(nodes \ Lan, "down") /\ halted' = (strays' = {})
    /\ durable' = TRUE /\ dirty' = FALSE
    /\ UNCHANGED <<guest, boots, recipe, init, nodes, built, backoff, failures, stored>>

--------------------------------------------------------------------------------
(***************************************************************************)
(* Supervision, and what goes on in the machine.                           *)
(***************************************************************************)

\* Deviation: nodes the host has stopped are supervised too.
ToRestartAll == {e \in Element :
                    \/ child[e] \in {"ok", "failed"} /\ Policy[e] = "always"
                    \/ child[e] = "failed" /\ Policy[e] = "on_failure"}

\* Dead children the policy wants back.
ToRestart == {e \in Element \ stopped :
                 \/ child[e] \in {"ok", "failed"} /\ Policy[e] = "always"
                 \/ child[e] = "failed" /\ Policy[e] = "on_failure"}

NewlyDown == {e \in ToRestart : backoff[e] = Unset}
Due       == {e \in ToRestart : backoff[e] = 0}

Restarted ==
    /\ failures' = [e \in Element |-> IF e \in NewlyDown THEN failures[e] + 1 ELSE failures[e]]
    /\ backoff' = [e \in Element |-> IF e \in NewlyDown THEN Delay(failures[e] + 1)
                                     ELSE IF e \in Due THEN Unset ELSE backoff[e]]
    /\ child' = Started(Due)
    /\ UNCHANGED <<guest, boots, recipe, init, nodes, built, strays, stopped, diskVars, histVars>>

\* Backend.supervise: a start that raises ends process 1.
Supervise ==
    /\ guest = "up"
    /\ NewlyDown \cup Due # {}
    /\ Restarted \/ (Due # {} /\ Off)

\* A child exits, with or without leaving processes of its own behind.
NodeExits(e) ==
    /\ child[e] = "running" /\ failures[e] < MaxFailures
    /\ \E code \in {"ok", "failed"} : child' = [child EXCEPT ![e] = code]
    /\ downFor' = [downFor EXCEPT ![e] = 0]
    /\ UNCHANGED <<guest, boots, recipe, init, nodes, built, strays, stopped, backoff,
                   failures, diskVars, wish, halted>>

\* A node's child starts a process that may outlive it; later that one ends.
NodeForks(e) ==
    /\ \/ e \in Forking /\ child[e] = "running" /\ strays' = strays \cup {e}
       \/ e \in strays /\ strays' = strays \ {e}
    /\ UNCHANGED <<guest, boots, recipe, init, nodes, built, child, stopped, backoff,
                   failures, diskVars, histVars>>

NodeWrites(e) ==
    /\ e \in Running \cup strays
    /\ dirty' = TRUE
    /\ UNCHANGED <<guest, boots, agentVars, stored, durable, histVars>>

\* The volume's journal is committed every few seconds.
JournalCommits ==
    /\ durable' = TRUE
    /\ UNCHANGED <<guest, boots, agentVars, stored, dirty, histVars>>

\* A second passes.
Tick ==
    /\ guest = "up"
    /\ backoff' = [e \in Element |-> IF backoff[e] \in {Unset, 0} THEN backoff[e]
                                     ELSE backoff[e] - 1]
    /\ downFor' = [e \in Element |-> IF child[e] \in {"ok", "failed"}
                                     THEN LessOf(downFor[e] + 1, MaxDown) ELSE downFor[e]]
    /\ UNCHANGED <<guest, boots, recipe, init, nodes, built, child, strays, stopped,
                   failures, diskVars, wish, halted>>

Request ==
    \/ \E r \in Recipes : Initialize(r)
    \/ \E e \in Element : StartNode(e) \/ StopNode(e) \/ RestartNode(e)
    \/ Shutdown

Machine ==
    \/ PowerOn \/ PowerOff \/ JournalCommits
    \/ \E e \in Element : NodeExits(e) \/ NodeForks(e) \/ NodeWrites(e)

Next == Request \/ Supervise \/ Tick \/ Machine

Spec == Init /\ [][Next]_vars

\* The agent's loop goes round at least every half second, and time passes.
FairSpec == Spec /\ WF_vars(Supervise) /\ WF_vars(Tick)

--------------------------------------------------------------------------------
TypeOK ==
    /\ guest \in {"off", "up"} /\ boots \in Nat
    /\ recipe \in Recipes \cup {NoRecipe}
    /\ init \in {"unsent", "accepted", "refused"}
    /\ nodes \subseteq Element /\ built \subseteq Runnable
    /\ child \in [Element -> {"none", "running", "ok", "failed"}]
    /\ strays \subseteq Element /\ stopped \subseteq Element
    /\ backoff \in [Element -> Nat \cup {Unset}]
    /\ failures \in [Element -> Nat]
    /\ stored \in Recipes \cup {NoRecipe}
    /\ durable \in BOOLEAN /\ dirty \in BOOLEAN
    /\ wish \in [Element -> {"none", "up", "down"}]
    /\ halted \in BOOLEAN
    /\ downFor \in [Element -> Nat]

\* What the host has stopped, node by node or by a shutdown, stays down until it
\* asks for it again: the supervisor does not bring it back.
StopSticks == \A e \in Element : wish[e] = "down" => child[e] # "running"

\* After a shutdown that found every process of the nodes nothing runs and the
\* volume is clean, until the host asks for something else.
QuietAfterShutdown == halted => Running = {} /\ strays = {} /\ ~dirty

\* A recipe is accepted when the volume has it for the next boot and all its
\* startup nodes were started (Backend.initialize, restored or not).
AcceptedIsStored ==
    init = "accepted" =>
        /\ recipe # NoRecipe /\ stored = recipe
        /\ \A e \in Starting(Len(Startup)) : wish[e] # "none"

\* A volume never exchanges its recipe for another: the identities and files of
\* its nodes belong to one recipe.
RecipeKept == [][stored # NoRecipe => stored' \in {stored, NoRecipe}]_vars

\* The supervisor leaves a node down for the backoff that its failures ask for,
\* counted from the exit it answers.
BackoffKept ==
    [][Supervise => \A e \in Element :
          child[e] # "running" /\ child'[e] = "running"
              => downFor[e] >= LessOf(MaxDown, Delay(failures[e]))]_vars

\* A node that is wanted and may be restarted is restarted, or wanted no more.
Down(e) == /\ wish[e] = "up"
           /\ \/ child[e] = "failed" /\ Policy[e] = "on_failure"
              \/ child[e] \in {"ok", "failed"} /\ Policy[e] = "always"

KeptRunning == \A e \in Element : Down(e) ~> ~Down(e)

(***************************************************************************)
(* The inductive invariant behind the safety properties.                   *)
(***************************************************************************)

\* Only nodes the agent knows, and that can run, were ever started or asked for.
KnownInv ==
    \A e \in Element :
        /\ e \notin nodes => wish[e] = "none"
        /\ e \notin nodes \cap Runnable => child[e] = "none" /\ backoff[e] = Unset
        /\ child[e] = "none" => backoff[e] = Unset

\* The agent has a recipe it did not restore only after the host's request.
RestoredInv ==
    /\ guest = "off" => nodes = {} /\ recipe = NoRecipe /\ init = "unsent" /\ ~halted
    /\ init = "unsent" =>
          /\ recipe = stored \/ guest = "off"
          /\ recipe = NoRecipe => nodes = {}
          /\ recipe # NoRecipe => \A e \in Starting(Len(Startup)) : wish[e] # "none"

\* What the host wants down is marked as stopped; after a shutdown everything is.
HeldInv ==
    /\ \A e \in Element : wish[e] = "down" => e \in stopped
    /\ halted => \A e \in Element : child[e] = "none" \/ e \in stopped

\* A pending restart belongs to a dead child, and waits out the rest of its delay.
BackoffInv ==
    \A e \in Element : backoff[e] # Unset =>
        /\ child[e] # "running" /\ failures[e] > 0
        /\ downFor[e] + backoff[e] >= LessOf(MaxDown, Delay(failures[e]))

\* All of it holds in every reachable state and is preserved by every request,
\* round of supervision and event of the machine.
IInv == /\ TypeOK /\ KnownInv /\ RestoredInv /\ HeldInv /\ BackoffInv
        /\ StopSticks /\ QuietAfterShutdown /\ AcceptedIsStored

\* "Guest shutdown stops node processes and syncs the data volume before QEMU
\* exits" (README.md:70).
ShutdownStopsProcesses == [][Shutdown => strays' = {}]_vars

================================================================================
