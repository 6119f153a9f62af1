----------------------- MODULE RuntimeMetadataProofs -----------------------
(***************************************************************************)
(* The overlay of links that the user added and removed means what it was  *)
(* last told, through every sequence of commands and edits of the recipe,  *)
(* for every recipe, also by callers whose recipe is not the project's.    *)
(* The invariant is about the file as it is, before it is reconciled, with *)
(* the links of elements that are gone for now.                            *)
(***************************************************************************)
EXTENDS RuntimeMetadata, SequenceTheorems, TLAPS

IsState(s) ==
    s = [vm |-> s.vm, nodes |-> s.nodes, additions |-> s.additions, removals |-> s.removals,
         snapshots |-> s.snapshots, events |-> s.events, clock |-> s.clock]

\* Two states with the same events and clock; and with the same snapshots.
Counts(s, t) == s.events = t.events /\ s.clock = t.clock

Keeps(s, t) == Counts(s, t) /\ s.snapshots = t.snapshots

\* What the additions, the removals and the wishes have to do with one another.
Meant(additions, removals, wished) ==
    /\ additions \cap removals = {}
    /\ \A l \in Link :
          /\ wished[l] = "added" => l \in additions
          /\ wished[l] = "shown" => l \notin removals
          /\ wished[l] = "removed" => l \in removals /\ l \notin additions

\* The updates that reconciling, the machine's commands and the overlay's make, by name:
\* the provers need one field at a time.
Reconciled(s, nodes, additions, removals) ==
    [s EXCEPT !.nodes = nodes, !.additions = additions, !.removals = removals]
Switched(s, vm, nodes) == [s EXCEPT !.vm = vm, !.nodes = nodes]
Overlaid(s, removals, additions) == [s EXCEPT !.removals = removals, !.additions = additions]

LEMMA ReconciledState ==
    ASSUME NEW s, IsState(s), NEW nodes, NEW additions, NEW removals
    PROVE  /\ IsState(Reconciled(s, nodes, additions, removals))
           /\ Reconciled(s, nodes, additions, removals).additions = additions
           /\ Reconciled(s, nodes, additions, removals).removals = removals
           /\ Keeps(Reconciled(s, nodes, additions, removals), s)
<1> DEFINE first  == [s EXCEPT !.nodes = nodes]
           second == [first EXCEPT !.additions = additions]
           third  == [second EXCEPT !.removals = removals]
<1>1. Reconciled(s, nodes, additions, removals) = third
  BY DEF Reconciled
<1>2. IsState(first) /\ Keeps(first, s)
  BY DEF IsState, Keeps, Counts
<1> HIDE DEF first
<1>3. IsState(second) /\ second.additions = additions /\ Keeps(second, first)
  BY <1>2 DEF IsState, Keeps, Counts
<1> HIDE DEF second
<1>4. IsState(third) /\ third.additions = additions /\ third.removals = removals
      /\ Keeps(third, second)
  BY <1>3 DEF IsState, Keeps, Counts
<1> HIDE DEF third
<1>5. QED
  BY <1>1, <1>2, <1>3, <1>4 DEF Keeps, Counts

LEMMA SwitchedState ==
    ASSUME NEW s, IsState(s), NEW vm, NEW nodes
    PROVE  /\ IsState(Switched(s, vm, nodes))
           /\ Switched(s, vm, nodes).additions = s.additions
           /\ Switched(s, vm, nodes).removals = s.removals
           /\ Keeps(Switched(s, vm, nodes), s)
<1> DEFINE first  == [s EXCEPT !.vm = vm]
           second == [first EXCEPT !.nodes = nodes]
<1>1. Switched(s, vm, nodes) = second
  BY DEF Switched
<1>2. IsState(first) /\ first.additions = s.additions /\ first.removals = s.removals
      /\ Keeps(first, s)
  BY DEF IsState, Keeps, Counts
<1> HIDE DEF first
<1>3. IsState(second) /\ second.additions = s.additions /\ second.removals = s.removals
      /\ Keeps(second, s)
  BY <1>2 DEF IsState, Keeps, Counts
<1> HIDE DEF second
<1>4. QED
  BY <1>1, <1>3

LEMMA OverlaidState ==
    ASSUME NEW s, IsState(s), NEW removals, NEW additions
    PROVE  /\ IsState(Overlaid(s, removals, additions))
           /\ Overlaid(s, removals, additions).additions = additions
           /\ Overlaid(s, removals, additions).removals = removals
           /\ Keeps(Overlaid(s, removals, additions), s)
<1> DEFINE first  == [s EXCEPT !.removals = removals]
           second == [first EXCEPT !.additions = additions]
<1>1. Overlaid(s, removals, additions) = second
  BY DEF Overlaid
<1>2. IsState(first) /\ first.removals = removals /\ Keeps(first, s)
  BY DEF IsState, Keeps, Counts
<1> HIDE DEF first
<1>3. IsState(second) /\ second.additions = additions /\ second.removals = removals
      /\ Keeps(second, s)
  BY <1>2 DEF IsState, Keeps, Counts
<1> HIDE DEF second
<1>4. QED
  BY <1>1, <1>3

IInv ==
    /\ IsState(file)
    /\ file.additions \subseteq Link /\ file.removals \subseteq Link
    /\ wish \in [Link -> {"none", "added", "shown", "removed"}]
    /\ Meant(file.additions, file.removals, wish)

LEMMA InitIInv == Init => IInv
<1>1. ASSUME Init PROVE IInv
  <2>1. /\ file = RuntimeState("stopped", [e \in Elements(recipe) |-> NodeState(recipe, e, "stopped")])
        /\ wish = [l \in Link |-> "none"]
    BY <1>1 DEF Init, initial_state
  <2>2. IsState(file) /\ file.additions = {} /\ file.removals = {}
    BY <2>1 DEF RuntimeState, IsState
  <2>3. QED
    BY <2>1, <2>2 DEF IInv, Meant
<1>2. QED
  BY <1>1

LEMMA InvariantMeans == IInv => OverlayConsistent /\ OverlayHonoured
<1> SUFFICES ASSUME IInv PROVE OverlayConsistent /\ OverlayHonoured
  OBVIOUS
<1>1. ASSUME NEW r
      PROVE  Current(r).additions = Both(r, file.additions)
             /\ Current(r).removals = Both(r, file.removals)
  BY DEF Current, reconcile_state, IInv, IsState
<1>2. /\ file.additions \subseteq Link /\ file.removals \subseteq Link
      /\ Meant(file.additions, file.removals, wish)
  BY DEF IInv
<1>3. ASSUME NEW r
      PROVE  /\ Current(r).additions \cap Current(r).removals = {}
             /\ Current(r).additions \cup Current(r).removals \subseteq Elements(r) \X Elements(r)
  <2>1. \A l \in Link : l \in Both(r, Link) => l \in Elements(r) \X Elements(r)
    BY DEF Both, Link
  <2>2. \A links : links \subseteq Link => Both(r, links) \subseteq Elements(r) \X Elements(r)
    BY <2>1 DEF Both
  <2>3. Both(r, file.additions) \cap Both(r, file.removals) = {}
    BY <1>2 DEF Meant, Both
  <2>4. QED
    BY <1>1, <1>2, <2>2, <2>3
<1>4. ASSUME NEW r, NEW l \in Both(r, Link)
      PROVE  /\ wish[l] = "added" => l \in effective_topology(r)
             /\ wish[l] = "shown" /\ l \in r.links => l \in effective_topology(r)
             /\ wish[l] = "removed" => l \notin effective_topology(r)
  BY <1>1, <1>2 DEF effective_topology, Meant, Both
<1>5. OverlayConsistent
  BY <1>3 DEF OverlayConsistent
<1>6. OverlayHonoured
  BY <1>4 DEF OverlayHonoured
<1>7. QED
  BY <1>5, <1>6

\* What every command starts from.
LEMMA LoadedMeant ==
    ASSUME IInv, NEW r
    PROVE  /\ IsState(Loaded(r))
           /\ Loaded(r).additions \subseteq Both(r, Link) /\ Loaded(r).removals \subseteq Both(r, Link)
           /\ Loaded(r).additions \cap Loaded(r).removals = {}
           /\ \A l \in Both(r, Link) :
                 /\ wish[l] = "added" => l \in Loaded(r).additions
                 /\ wish[l] = "shown" => l \notin Loaded(r).removals
                 /\ wish[l] = "removed" => l \in Loaded(r).removals /\ l \notin Loaded(r).additions
<1>1. /\ Loaded(r).additions = Both(r, file.additions) /\ Loaded(r).removals = Both(r, file.removals)
      /\ IsState(Loaded(r))
  <2>1. IsState(Current(r)) /\ Current(r).additions = Both(r, file.additions)
        /\ Current(r).removals = Both(r, file.removals)
    <3> DEFINE nodes == [e \in Elements(r) |->
                            NodeState(r, e, IF e \in DOMAIN file.nodes THEN file.nodes[e] ELSE "stopped")]
    <3>1. Current(r) = Reconciled(file, nodes, Both(r, file.additions), Both(r, file.removals))
      BY DEF Current, reconcile_state, Reconciled
    <3>2. IsState(file)
      BY DEF IInv
    <3> HIDE DEF nodes
    <3>3. QED
      BY <3>1, <3>2, ReconciledState
  <2>2. QED
    BY <2>1 DEF Loaded, IsState
<1>2. QED
  BY <1>1 DEF IInv, Meant, Both

\* The end of a command whose state and wishes agree on the links of the recipe's
\* elements.
LEMMA CommitIInv ==
    ASSUME IInv, NEW r, NEW state, NEW wished, Commit(r, state, wished), IsState(state),
           state.additions \subseteq Both(r, Link), state.removals \subseteq Both(r, Link),
           wished \in [Link -> {"none", "added", "shown", "removed"}],
           state.additions \cap state.removals = {},
           \A l \in Both(r, Link) :
              /\ wished[l] = "added" => l \in state.additions
              /\ wished[l] = "shown" => l \notin state.removals
              /\ wished[l] = "removed" => l \in state.removals /\ l \notin state.additions
    PROVE  IInv'
<1> DEFINE saved == [state EXCEPT !.events = push_event(@, state.clock)]
           kept  == [l \in Link |-> IF l \in Both(r, Link) THEN wished[l] ELSE "none"]
<1>1. \/ file' = saved /\ wish' = kept
      \/ file' = file /\ wish' = wish
  BY DEF Commit
<1>2. CASE file' = file /\ wish' = wish
  BY <1>2 DEF IInv, IsState, Meant
<1>3. CASE file' = saved /\ wish' = kept
  <2>1. /\ saved.additions = state.additions /\ saved.removals = state.removals
        /\ IsState(saved)
    BY DEF IsState
  <2>2. Both(r, Link) \subseteq Link
    BY DEF Both
  <2>3. kept \in [Link -> {"none", "added", "shown", "removed"}]
    BY <2>2
  <2>4. Meant(state.additions, state.removals, kept)
    BY <2>2 DEF Meant
  <2>5. IsState(file')
    BY <1>3, <2>1
  <2>6. file'.additions = state.additions /\ file'.removals = state.removals
    BY <1>3, <2>1
  <2> HIDE DEF saved, kept
  <2>7. QED
    BY <1>3, <2>2, <2>3, <2>4, <2>5, <2>6 DEF IInv, IsState, Meant
<1>4. QED
  BY <1>1, <1>2, <1>3

\* A command that leaves the overlay alone.
LEMMA PlainIInv ==
    ASSUME IInv, NEW r, NEW state, Commit(r, state, wish), IsState(state),
           state.additions = Loaded(r).additions, state.removals = Loaded(r).removals
    PROVE  IInv'
  BY CommitIInv, LoadedMeant DEF IInv

LEMMA MachineIInv ==
    ASSUME IInv, NEW r, PrepareVm(r) \/ Boot(r) \/ Shutdown(r) \/ Pause(r) \/ Resume(r)
    PROVE  IInv'
<1>0. IsState(Loaded(r))
  BY LoadedMeant
<1>1. CASE PrepareVm(r)
  BY <1>0, <1>1, PlainIInv DEF PrepareVm
<1>2. ASSUME NEW vm, NEW nodes, Commit(r, [Loaded(r) EXCEPT !.vm = vm, !.nodes = nodes], wish)
      PROVE  IInv'
  <2> DEFINE state == [Loaded(r) EXCEPT !.vm = vm, !.nodes = nodes]
  <2>1. Commit(r, state, wish) /\ state = Switched(Loaded(r), vm, nodes)
    BY <1>2 DEF Switched
  <2> HIDE DEF state
  <2>2. IsState(state) /\ state.additions = Loaded(r).additions /\ state.removals = Loaded(r).removals
    BY <1>0, <2>1, SwitchedState
  <2>3. QED
    BY <2>1, <2>2, PlainIInv
<1>3. ASSUME NEW vm, Commit(r, [Loaded(r) EXCEPT !.vm = vm], wish)
      PROVE  IInv'
  <2>1. LET s == [Loaded(r) EXCEPT !.vm = vm]
        IN  IsState(s) /\ s.additions = Loaded(r).additions /\ s.removals = Loaded(r).removals
    BY <1>0 DEF IsState
  <2>2. QED
    BY <1>3, <2>1, PlainIInv
<1>4. CASE Boot(r)
  BY <1>2, <1>4 DEF Boot
<1>5. CASE Shutdown(r)
  BY <1>2, <1>5 DEF Shutdown
<1>6. CASE Pause(r) \/ Resume(r)
  BY <1>3, <1>6 DEF Pause, Resume
<1>7. QED
  BY <1>1, <1>4, <1>5, <1>6

LEMMA SnapshotIInv ==
    ASSUME IInv, NEW r,
           \/ \E time \in Times : CreateSnapshot(r, time)
           \/ \E i \in DOMAIN file.snapshots : RestoreSnapshot(r, i) \/ DeleteSnapshot(r, i)
    PROVE  IInv'
<1>0. IsState(Loaded(r))
  BY LoadedMeant
<1>1. ASSUME NEW snapshots, Commit(r, [Loaded(r) EXCEPT !.snapshots = snapshots], wish)
      PROVE  IInv'
  <2>1. LET s == [Loaded(r) EXCEPT !.snapshots = snapshots]
        IN  IsState(s) /\ s.additions = Loaded(r).additions /\ s.removals = Loaded(r).removals
    BY <1>0 DEF IsState
  <2>2. QED
    BY <1>1, <2>1, PlainIInv
<1>2. ASSUME NEW vm, Commit(r, [Loaded(r) EXCEPT !.vm = vm], wish)
      PROVE  IInv'
  <2>1. LET s == [Loaded(r) EXCEPT !.vm = vm]
        IN  IsState(s) /\ s.additions = Loaded(r).additions /\ s.removals = Loaded(r).removals
    BY <1>0 DEF IsState
  <2>2. QED
    BY <1>2, <2>1, PlainIInv
<1>3. ASSUME NEW time \in Times, CreateSnapshot(r, time)
      PROVE  IInv'
  BY <1>1, <1>3 DEF CreateSnapshot
<1>4. ASSUME NEW i \in DOMAIN file.snapshots, RestoreSnapshot(r, i)
      PROVE  IInv'
  BY <1>2, <1>4 DEF RestoreSnapshot
<1>5. ASSUME NEW i \in DOMAIN file.snapshots, DeleteSnapshot(r, i)
      PROVE  IInv'
  BY <1>1, <1>5 DEF DeleteSnapshot
<1>6. QED
  BY <1>3, <1>4, <1>5

LEMMA NodeIInv ==
    ASSUME IInv, NEW r, NEW e \in Elements(r), StartNode(r, e) \/ StopNode(r, e)
    PROVE  IInv'
<1>0. IsState(Loaded(r))
  BY LoadedMeant
<1>1. ASSUME NEW state, Commit(r, [Loaded(r) EXCEPT !.nodes[e] = state], wish)
      PROVE  IInv'
  <2>1. LET s == [Loaded(r) EXCEPT !.nodes[e] = state]
        IN  IsState(s) /\ s.additions = Loaded(r).additions /\ s.removals = Loaded(r).removals
    BY <1>0 DEF IsState
  <2>2. QED
    BY <1>1, <2>1, PlainIInv
<1>2. QED
  BY <1>1 DEF StartNode, StopNode, SetNode

LEMMA AddIInv ==
    ASSUME IInv, NEW r, NEW l \in Both(r, Link), AddTopologyLink(r, l)
    PROVE  IInv'
<1> DEFINE unhidden == Loaded(r).removals \ {l}
           shown    == (r.links \ unhidden) \cup Loaded(r).additions
           added    == IF l \in shown THEN Loaded(r).additions ELSE Loaded(r).additions \cup {l}
           state    == [Loaded(r) EXCEPT !.removals = unhidden,
                                      !.additions = IF l \in shown THEN @ ELSE @ \cup {l}]
           wished   == [wish EXCEPT ![l] = IF l \in r.links \ Loaded(r).additions
                                           THEN "shown" ELSE "added"]
<1>1. Commit(r, state, wished)
  BY DEF AddTopologyLink
<1>2. IsState(state) /\ state.additions = added /\ state.removals = unhidden
  <2>1. state = Overlaid(Loaded(r), unhidden, added)
    BY DEF Overlaid
  <2>2. IsState(Loaded(r))
    BY LoadedMeant
  <2> HIDE DEF added, unhidden, state
  <2>3. QED
    BY <2>1, <2>2, OverlaidState
<1>3. l \in Link /\ wish \in [Link -> {"none", "added", "shown", "removed"}]
  BY DEF Both, IInv
<1>4. wished \in [Link -> {"none", "added", "shown", "removed"}]
  BY <1>3
<1>5. /\ added \subseteq Both(r, Link) /\ unhidden \subseteq Both(r, Link)
      /\ added \cap unhidden = {}
  BY LoadedMeant
<1>6. ASSUME NEW m \in Both(r, Link)
      PROVE  /\ wished[m] = "added" => m \in added
             /\ wished[m] = "shown" => m \notin unhidden
             /\ wished[m] = "removed" => m \in unhidden /\ m \notin added
  <2>1. CASE m = l
    BY <1>3, <2>1
  <2>2. CASE m # l
    <3>1. wished[m] = wish[m]
      BY <1>3, <2>2
    <3>2. QED
      BY <2>2, <3>1, LoadedMeant
  <2>3. QED
    BY <2>1, <2>2
<1> HIDE DEF added, unhidden, state, wished
<1>7. QED
  BY <1>1, <1>2, <1>4, <1>5, <1>6, CommitIInv

LEMMA RemoveIInv ==
    ASSUME IInv, NEW r, NEW l \in Both(r, Link), RemoveTopologyLink(r, l)
    PROVE  IInv'
<1> DEFINE additions == Loaded(r).additions \ {l}
           removals  == IF l \in r.links THEN Loaded(r).removals \cup {l} ELSE Loaded(r).removals
           state     == [Loaded(r) EXCEPT !.additions = @ \ {l},
                                       !.removals = IF l \in r.links THEN @ \cup {l} ELSE @]
           wished    == [wish EXCEPT ![l] = IF l \in Loaded(r).removals \cup r.links
                                            THEN "removed" ELSE "none"]
<1>1. Commit(r, state, wished)
  BY DEF RemoveTopologyLink
<1>2. IsState(state) /\ state.additions = additions /\ state.removals = removals
  <2>1. state = Overlaid(Loaded(r), removals, additions)
    BY DEF Overlaid
  <2>2. IsState(Loaded(r))
    BY LoadedMeant
  <2> HIDE DEF additions, removals, state
  <2>3. QED
    BY <2>1, <2>2, OverlaidState
<1>3. l \in Link /\ wish \in [Link -> {"none", "added", "shown", "removed"}]
  BY DEF Both, IInv
<1>4. wished \in [Link -> {"none", "added", "shown", "removed"}]
  BY <1>3
<1>5. /\ additions \subseteq Both(r, Link) /\ removals \subseteq Both(r, Link)
      /\ additions \cap removals = {}
  BY LoadedMeant
<1>6. ASSUME NEW m \in Both(r, Link)
      PROVE  /\ wished[m] = "added" => m \in additions
             /\ wished[m] = "shown" => m \notin removals
             /\ wished[m] = "removed" => m \in removals /\ m \notin additions
  <2>1. CASE m = l
    BY <1>3, <2>1
  <2>2. CASE m # l
    <3>1. wished[m] = wish[m]
      BY <1>3, <2>2
    <3>2. QED
      BY <2>2, <3>1, LoadedMeant
  <2>3. QED
    BY <2>1, <2>2
<1> HIDE DEF additions, removals, state, wished
<1>7. QED
  BY <1>1, <1>2, <1>4, <1>5, <1>6, CommitIInv

LEMMA NextIInv ==
    ASSUME IInv, [Next]_vars
    PROVE  IInv'
<1>1. CASE EditRecipe \/ (\E c \in Caller : LoadProject(c)) \/ UNCHANGED vars
  <2>1. file' = file /\ wish' = wish
    BY <1>1 DEF EditRecipe, LoadProject, vars
  <2>2. QED
    BY <2>1 DEF IInv, IsState, Meant
<1>2. ASSUME NEW r \in Held, Command(r) PROVE IInv'
  BY <1>2, MachineIInv, SnapshotIInv, NodeIInv, AddIInv, RemoveIInv DEF Command
<1>3. QED
  BY <1>1, <1>2 DEF Next

\* Links that were added are there, and links that were removed are not, whatever
\* commands and edits came before and after and whichever recipe their callers had,
\* unless a caller's recipe lacked an element of the link (runtime.rs:264, 963).
THEOREM OverlayHonouredThm == Spec => []OverlayHonoured
<1>1. IInv => OverlayHonoured
  BY InvariantMeans
<1>2. QED
  BY <1>1, InitIInv, NextIInv, PTL DEF Spec

\* No link is both added and removed, and the reconciled overlay names elements of the
\* caller's recipe only (runtime.rs:818).
THEOREM OverlayConsistentThm == Spec => []OverlayConsistent
<1>1. IInv => OverlayConsistent
  BY InvariantMeans
<1>2. QED
  BY <1>1, InitIInv, NextIInv, PTL DEF Spec

--------------------------------------------------------------------------------
(***************************************************************************)
(* Ids and events.  The clock in the file is the id of the last command    *)
(* that was saved; no event and no reply is ahead of it.                   *)
(***************************************************************************)

Ascending(ids) == \A i, j \in DOMAIN ids : i < j => ids[i] <= ids[j]

\* The last of the ids, if there is one, is the clock's, and none is ahead of it.
Log(events, clock) ==
    /\ events \in Seq(0..MaxClock) /\ Len(events) <= MaxEvents
    /\ Ascending(events)
    /\ events # <<>> => events[Len(events)] = clock

Counted ==
    /\ IsState(file)
    /\ file.clock \in 0..MaxClock
    /\ Log(file.events, file.clock)
    /\ replies \in Seq(0..MaxClock)
    /\ \A i \in DOMAIN replies : replies[i] <= file.clock
    /\ RepliesIncrease

LEMMA InitCounted == Init => Counted
<1> SUFFICES ASSUME Init PROVE Counted
  OBVIOUS
<1>1. file = RuntimeState("stopped", [e \in Elements(recipe) |-> NodeState(recipe, e, "stopped")])
      /\ replies = <<>>
  BY DEF Init, initial_state
<1>2. IsState(file) /\ file.events = <<>> /\ file.clock = 0
  BY <1>1 DEF RuntimeState, IsState
<1>3. MaxClock \in Nat /\ MaxEvents \in Nat
  BY MetadataAssumption DEF MetadataAssumption
<1>4. Log(<<>>, 0)
  BY <1>3 DEF Log, Ascending
<1>5. RepliesIncrease /\ replies \in Seq(0..MaxClock) /\ DOMAIN replies = {}
  BY <1>1 DEF RepliesIncrease
<1>6. QED
  BY <1>2, <1>3, <1>4, <1>5 DEF Counted

\* Pushing the id of a command onto the log.
LEMMA PushLogs ==
    ASSUME MetadataAssumption, NEW events, NEW clock \in 0..MaxClock, NEW id \in clock..MaxClock,
           Log(events, clock)
    PROVE  Log(push_event(events, id), id)
<1> DEFINE all   == Append(events, id)
           first == 1 + (IF Len(all) > MaxEvents THEN Len(all) - MaxEvents ELSE 0)
           kept  == SubSeq(all, first, Len(all))
<1>1. /\ events \in Seq(0..MaxClock) /\ Len(events) \in Nat /\ DOMAIN events = 1 .. Len(events)
      /\ MaxEvents \in Nat \ {0} /\ MaxClock \in Nat /\ id \in 0..MaxClock
  BY DEF Log, MetadataAssumption
<1>2. \A i \in DOMAIN events : events[i] \in 0..MaxClock /\ events[i] <= clock
  BY <1>1 DEF Log, Ascending
<1>3. /\ all \in Seq(0..MaxClock) /\ Len(all) = Len(events) + 1 /\ all[Len(all)] = id
      /\ \A i \in 1 .. Len(events) : all[i] = events[i]
  BY <1>1
<1>4. Ascending(all)
  BY <1>1, <1>2, <1>3 DEF Log, Ascending
<1> HIDE DEF all
<1>5. first \in 1 .. Len(all) /\ Len(all) - first + 1 <= MaxEvents
  BY <1>1, <1>3
<1> HIDE DEF first
<1>6. /\ kept \in Seq(0..MaxClock) /\ Len(kept) = Len(all) - first + 1
      /\ \A i \in 1 .. Len(kept) : kept[i] = all[first + i - 1]
  <2>1. \A i \in first .. Len(all) : all[i] \in 0..MaxClock
    BY <1>3, <1>5
  <2>2. first \in Int /\ Len(all) \in Int /\ first <= Len(all)
    BY <1>1, <1>3, <1>5
  <2>3. /\ SubSeq(all, first, Len(all)) \in Seq(0..MaxClock)
        /\ Len(SubSeq(all, first, Len(all))) = Len(all) - first + 1
        /\ \A i \in 1 .. Len(all) - first + 1 : SubSeq(all, first, Len(all))[i] = all[first + i - 1]
    BY <2>1, <2>2, SubSeqProperties
  <2>4. QED
    BY <2>3
<1>7. Len(kept) \in Nat \ {0} /\ kept[Len(kept)] = id
  BY <1>1, <1>3, <1>5, <1>6
<1>8. Ascending(kept)
  <2>1. DOMAIN kept = 1 .. Len(kept) /\ DOMAIN all = 1 .. Len(all)
    BY <1>3, <1>6
  <2>2. ASSUME NEW i \in DOMAIN kept, NEW j \in DOMAIN kept, i < j
        PROVE  kept[i] <= kept[j]
    <3>1. /\ Len(all) \in Nat /\ first \in Nat /\ 1 <= first /\ first <= Len(all)
          /\ Len(kept) = Len(all) - first + 1
      BY <1>1, <1>3, <1>5, <1>6
    <3>2. i \in 1 .. Len(kept) /\ j \in 1 .. Len(kept)
      BY <2>1, <2>2
    <3>3. /\ first + i - 1 \in DOMAIN all /\ first + j - 1 \in DOMAIN all
          /\ first + i - 1 < first + j - 1
      BY <2>1, <2>2, <3>1, <3>2
    <3>4. all[first + i - 1] <= all[first + j - 1]
      BY <1>4, <3>3 DEF Ascending
    <3>5. kept[i] = all[first + i - 1] /\ kept[j] = all[first + j - 1]
      BY <1>6, <3>2
    <3>6. QED
      BY <3>4, <3>5
  <2>3. QED
    BY <2>2 DEF Ascending
<1>9. kept = push_event(events, id)
  BY DEF push_event, kept, first, all
<1> HIDE DEF kept
<1>10. QED
  BY <1>5, <1>6, <1>7, <1>8, <1>9 DEF Log

LEMMA LoadedCounts ==
    ASSUME Counted, NEW r
    PROVE  /\ IsState(Loaded(r)) /\ Loaded(r).snapshots = file.snapshots
           /\ Loaded(r).events = file.events /\ Loaded(r).clock = next_command_id(file.clock)
<1> DEFINE nodes == [e \in Elements(r) |->
                        NodeState(r, e, IF e \in DOMAIN file.nodes THEN file.nodes[e] ELSE "stopped")]
<1>1. Current(r) = Reconciled(file, nodes, Both(r, file.additions), Both(r, file.removals))
  BY DEF Current, reconcile_state, Reconciled
<1>2. IsState(file)
  BY DEF Counted
<1> HIDE DEF nodes
<1>3. IsState(Current(r)) /\ Keeps(Current(r), file)
  BY <1>1, <1>2, ReconciledState
<1>4. QED
  BY <1>3 DEF Loaded, IsState, Keeps, Counts

\* A new snapshot is named by the command's time and id; others are deleted.
Added(snapshots, number, snapshot) ==
    [i \in DOMAIN snapshots \cup {number} |-> IF i = number THEN snapshot ELSE snapshots[i]]

Snapped(r, snapshots) ==
    \/ snapshots = file.snapshots
    \/ \E time, vm, number : snapshots = Added(file.snapshots, number,
                                [id |-> snapshot_id(time, Loaded(r).clock), vm |-> vm])
    \/ \E S : snapshots = Restrict(file.snapshots, DOMAIN file.snapshots \ S)

Continues(r, state) == IsState(state) /\ Counts(state, Loaded(r)) /\ Snapped(r, state.snapshots)

\* Every command commits a state with the next id and the events on record.
LEMMA CommandCommits ==
    ASSUME Counted, NEW r, Command(r)
    PROVE  \E state, wished : Commit(r, state, wished) /\ Continues(r, state)
<1>0. IsState(Loaded(r)) /\ Loaded(r).snapshots = file.snapshots
  BY LoadedCounts
<1> DEFINE Kept(s) == IsState(s) /\ Keeps(s, Loaded(r))
<1>k. ASSUME NEW s, Kept(s) PROVE Continues(r, s)
  BY <1>0, <1>k DEF Continues, Keeps, Snapped
<1>1. CASE PrepareVm(r)
  BY <1>0, <1>1, <1>k DEF PrepareVm, Keeps, Counts
<1>2. ASSUME NEW vm, NEW nodes
      PROVE  LET s == [Loaded(r) EXCEPT !.vm = vm, !.nodes = nodes]
             IN  Continues(r, s)
  BY <1>0, <1>k, SwitchedState DEF Switched
<1>3. ASSUME NEW vm
      PROVE  LET s == [Loaded(r) EXCEPT !.vm = vm] IN Continues(r, s)
  <2> DEFINE s == [Loaded(r) EXCEPT !.vm = vm]
  <2>1. Kept(s)
    BY <1>0 DEF IsState, Keeps, Counts
  <2>2. QED
    BY <2>1, <1>k
<1>4. ASSUME NEW snapshots, Snapped(r, snapshots)
      PROVE  LET s == [Loaded(r) EXCEPT !.snapshots = snapshots] IN Continues(r, s)
  <2> DEFINE s == [Loaded(r) EXCEPT !.snapshots = snapshots]
  <2>1. IsState(s) /\ Counts(s, Loaded(r)) /\ s.snapshots = snapshots
    BY <1>0 DEF IsState, Counts
  <2> HIDE DEF s
  <2>2. Continues(r, s)
    BY <1>4, <2>1 DEF Continues
  <2>3. QED
    BY <2>2 DEF s
<1>5. ASSUME NEW e, NEW state
      PROVE  LET s == [Loaded(r) EXCEPT !.nodes[e] = state] IN Continues(r, s)
  <2> DEFINE s == [Loaded(r) EXCEPT !.nodes[e] = state]
  <2>1. Kept(s)
    BY <1>0 DEF IsState, Keeps, Counts
  <2>2. QED
    BY <2>1, <1>k
<1>6. CASE Boot(r)
  BY <1>2, <1>6 DEF Boot
<1>7. CASE Shutdown(r)
  BY <1>2, <1>7 DEF Shutdown
<1>8. CASE Pause(r) \/ Resume(r)
  BY <1>3, <1>8 DEF Pause, Resume
<1>9. CASE \E time \in Times : CreateSnapshot(r, time)
  <2>1. PICK time \in Times : CreateSnapshot(r, time)
    BY <1>9
  <2> DEFINE snapshot == [id |-> snapshot_id(time, Loaded(r).clock), vm |-> Loaded(r).vm]
             number   == Max({0} \cup DOMAIN file.snapshots) + 1
             added    == Added(file.snapshots, number, snapshot)
  <2>2. Commit(r, [Loaded(r) EXCEPT !.snapshots = added], wish)
    BY <2>1 DEF CreateSnapshot, Added
  <2>3. Snapped(r, added)
    BY DEF Snapped
  <2> HIDE DEF added
  <2>4. QED
    BY <1>4, <2>2, <2>3
<1>10. CASE \E i \in DOMAIN file.snapshots : RestoreSnapshot(r, i)
  BY <1>3, <1>10 DEF RestoreSnapshot
<1>11. CASE \E i \in DOMAIN file.snapshots : DeleteSnapshot(r, i)
  BY <1>4, <1>11 DEF DeleteSnapshot, Snapped
<1>12. CASE \E e \in Elements(r) : StartNode(r, e) \/ StopNode(r, e)
  BY <1>5, <1>12 DEF StartNode, StopNode, SetNode
<1>13. ASSUME NEW l \in Both(r, Link), AddTopologyLink(r, l)
       PROVE  \E state, wished : Commit(r, state, wished) /\ Continues(r, state)
  <2> DEFINE unhidden == Loaded(r).removals \ {l}
             shown    == (r.links \ unhidden) \cup Loaded(r).additions
             added    == IF l \in shown THEN Loaded(r).additions ELSE Loaded(r).additions \cup {l}
  <2>1. \E wished : Commit(r, Overlaid(Loaded(r), unhidden, added), wished)
    BY <1>13 DEF AddTopologyLink, Overlaid
  <2> HIDE DEF unhidden, added
  <2>2. QED
    BY <1>0, <1>k, <2>1, OverlaidState
<1>14. ASSUME NEW l \in Both(r, Link), RemoveTopologyLink(r, l)
       PROVE  \E state, wished : Commit(r, state, wished) /\ Continues(r, state)
  <2> DEFINE additions == Loaded(r).additions \ {l}
             removals  == IF l \in r.links THEN Loaded(r).removals \cup {l} ELSE Loaded(r).removals
  <2> DEFINE state == [Loaded(r) EXCEPT !.additions = @ \ {l},
                                     !.removals = IF l \in r.links THEN @ \cup {l} ELSE @]
  <2>1. \E wished : Commit(r, state, wished)
    BY <1>14 DEF RemoveTopologyLink
  <2>2. state = Overlaid(Loaded(r), removals, additions)
    BY DEF Overlaid
  <2> HIDE DEF state, removals, additions
  <2>3. QED
    BY <1>0, <1>k, <2>1, <2>2, OverlaidState
<1>15. QED
  BY <1>1, <1>6, <1>7, <1>8, <1>9, <1>10, <1>11, <1>12, <1>13, <1>14 DEF Command

LEMMA NextCounted ==
    ASSUME Counted, MetadataAssumption, [Next]_vars
    PROVE  Counted'
<1>1. CASE EditRecipe \/ (\E c \in Caller : LoadProject(c)) \/ UNCHANGED vars
  BY <1>1 DEF EditRecipe, LoadProject, vars, Counted, IsState, RepliesIncrease
<1>2. ASSUME NEW r \in Held, Command(r) PROVE Counted'
  <2>1. PICK state, wished : Commit(r, state, wished) /\ IsState(state) /\ Counts(state, Loaded(r))
    BY <1>2, CommandCommits DEF Continues
  <2> DEFINE id    == state.clock
             saved == [state EXCEPT !.events = push_event(@, state.clock)]
  <2>2. /\ file.clock \in 0..MaxClock /\ MaxClock \in Nat
        /\ state.events = file.events
        /\ id = IF file.clock < MaxClock THEN file.clock + 1 ELSE file.clock
    BY <2>1, LoadedCounts DEF Counts, next_command_id, Counted, MetadataAssumption
  <2>3. id \in file.clock..MaxClock /\ (id > file.clock \/ id = MaxClock)
    BY <2>2
  <2>4. IsState(saved) /\ saved.events = push_event(file.events, id) /\ saved.clock = id
    BY <2>1, <2>2 DEF IsState
  <2>5. Log(push_event(file.events, id), id)
    BY <2>2, <2>3, PushLogs DEF Counted
  <2>6. \/ file' = saved /\ replies' = Append(replies, id)
        \/ file' = saved /\ replies' = replies
        \/ file' = file /\ replies' = replies
    BY <2>1 DEF Commit
  <2> HIDE DEF saved
  <2>7. CASE file' = file /\ replies' = replies
    BY <2>7 DEF Counted, IsState, RepliesIncrease
  <2>8. CASE file' = saved
    <3>1. IsState(file') /\ file'.clock = id /\ Log(file'.events, id) /\ id \in 0..MaxClock
      BY <2>2, <2>3, <2>4, <2>5, <2>8
    <3>2. replies \in Seq(0..MaxClock) /\ \A i \in DOMAIN replies :
              replies[i] <= file.clock /\ replies[i] \in 0..MaxClock
      BY DEF Counted
    <3>3. CASE replies' = replies
      BY <2>2, <2>3, <3>1, <3>2, <3>3 DEF Counted, RepliesIncrease, IsState
    <3>4. CASE replies' = Append(replies, id)
      <4>1. /\ replies' \in Seq(0..MaxClock) /\ Len(replies') = Len(replies) + 1
            /\ Len(replies) \in Nat /\ DOMAIN replies = 1 .. Len(replies)
            /\ DOMAIN replies' = 1 .. Len(replies) + 1
            /\ replies'[Len(replies) + 1] = id
            /\ \A i \in 1 .. Len(replies) : replies'[i] = replies[i]
        BY <3>1, <3>2, <3>4
      <4>2. /\ id \in Nat /\ file.clock \in Nat /\ file.clock <= id
            /\ file.clock < id \/ id = MaxClock
        BY <2>2, <2>3
      <4>3. ASSUME NEW i \in DOMAIN replies'
            PROVE  replies'[i] <= id /\ replies'[i] \in Nat
        <5>1. CASE i = Len(replies) + 1
          BY <4>1, <4>2, <5>1
        <5>2. CASE i # Len(replies) + 1
          <6>1. i \in DOMAIN replies /\ replies'[i] = replies[i]
            BY <4>1, <5>2
          <6>2. replies[i] <= file.clock /\ replies[i] \in Nat
            BY <3>2, <6>1
          <6>3. QED
            BY <4>2, <6>1, <6>2
        <5>3. QED
          BY <5>1, <5>2
      <4>4. ASSUME NEW i \in DOMAIN replies', NEW j \in DOMAIN replies', i < j
            PROVE  replies'[i] < replies'[j] \/ replies'[j] = MaxClock
        <5>1. i \in DOMAIN replies /\ replies'[i] = replies[i]
          BY <4>1, <4>4
        <5>2. CASE j = Len(replies) + 1
          <6>1. replies'[j] = id /\ replies[i] <= file.clock /\ replies[i] \in Nat
            BY <3>2, <4>1, <5>1, <5>2
          <6>2. QED
            BY <4>2, <5>1, <6>1
        <5>3. CASE j # Len(replies) + 1
          <6>1. j \in DOMAIN replies /\ replies'[j] = replies[j]
            BY <4>1, <5>3
          <6>2. QED
            BY <4>4, <5>1, <6>1 DEF Counted, RepliesIncrease
        <5>4. QED
          BY <5>2, <5>3
      <4>5. RepliesIncrease'
        BY <4>4 DEF RepliesIncrease
      <4>6. QED
        BY <3>1, <4>1, <4>3, <4>5 DEF Counted, IsState
    <3>5. QED
      BY <2>6, <3>3, <3>4
  <2>9. QED
    BY <2>6, <2>7, <2>8
<1>3. QED
  BY <1>1, <1>2 DEF Next

\* The ids of accepted commands increase, however many events are dropped and saves fail,
\* until the clock stands still (runtime.rs:1112).
THEOREM RepliesIncreaseThm == Spec => []RepliesIncrease
<1>1. Counted => RepliesIncrease
  BY DEF Counted
<1>2. QED
  BY <1>1, InitCounted, NextCounted, MetadataAssumption, PTL DEF Spec

\* The file keeps the newest events, in order and within the limit (runtime.rs:1117).
THEOREM NewestEventsKeptThm == Spec => []NewestEventsKept
<1>1. Counted => NewestEventsKept
  BY DEF Counted, Log, Ascending, NewestEventsKept
<1>2. QED
  BY <1>1, InitCounted, NextCounted, MetadataAssumption, PTL DEF Spec

--------------------------------------------------------------------------------
(***************************************************************************)
(* Snapshots.  Every id in the file has the clock of its own command, which*)
(* is its alone unless it is the last one.                                 *)
(***************************************************************************)

Numbered(snapshots, clock) ==
    /\ \A i \in DOMAIN snapshots : snapshots[i].id[2] \in 0..clock
    /\ \A i, j \in DOMAIN snapshots :
          (i # j /\ snapshots[i].id[2] = snapshots[j].id[2]) => snapshots[i].id[2] = MaxClock

SnapshotsInv == Counted /\ Numbered(file.snapshots, file.clock)

LEMMA NumberedNext ==
    ASSUME MaxClock \in Nat, NEW snapshots, NEW clock \in 0..MaxClock,
           Numbered(snapshots, clock), NEW time, NEW vm, NEW number, NEW S
    PROVE  LET id  == next_command_id(clock)
               new == [id |-> snapshot_id(time, id), vm |-> vm]
           IN  /\ Numbered(snapshots, id)
               /\ Numbered(Added(snapshots, number, new), id)
               /\ Numbered(Restrict(snapshots, DOMAIN snapshots \ S), id)
<1> DEFINE id  == next_command_id(clock)
           new == [id |-> snapshot_id(time, id), vm |-> vm]
<1>1. id \in clock..MaxClock /\ (clock < id \/ id = MaxClock)
  BY DEF next_command_id
<1>2. new.id[2] = id
  BY DEF snapshot_id
<1> HIDE DEF id, new
<1>3. \A i \in DOMAIN snapshots : snapshots[i].id[2] \in 0..clock
  BY DEF Numbered
<1>4. Numbered(snapshots, id)
  BY <1>1 DEF Numbered
<1>5. Numbered(Restrict(snapshots, DOMAIN snapshots \ S), id)
  BY <1>4 DEF Numbered, Restrict
<1>6. Numbered(Added(snapshots, number, new), id)
  <2> DEFINE added == Added(snapshots, number, new)
  <2>1. /\ DOMAIN added = DOMAIN snapshots \cup {number}
        /\ added[number] = new
        /\ \A i \in DOMAIN snapshots : i # number => added[i] = snapshots[i]
    BY DEF Added
  <2> HIDE DEF added
  <2>2. ASSUME NEW i \in DOMAIN added PROVE added[i].id[2] \in 0..id
    BY <1>1, <1>2, <1>4, <2>1 DEF Numbered
  <2>3. ASSUME NEW i \in DOMAIN added, NEW j \in DOMAIN added, i # j,
               added[i].id[2] = added[j].id[2]
        PROVE  added[i].id[2] = MaxClock
    <3>1. CASE i # number /\ j # number
      BY <1>4, <2>1, <2>3, <3>1 DEF Numbered
    <3>2. CASE i = number
      BY <1>1, <1>2, <1>3, <2>1, <2>3, <3>2
    <3>3. CASE j = number
      BY <1>1, <1>2, <1>3, <2>1, <2>3, <3>3
    <3>4. QED
      BY <3>1, <3>2, <3>3
  <2>4. QED
    BY <2>2, <2>3 DEF Numbered, added
<1>7. QED
  BY <1>4, <1>5, <1>6 DEF id, new

LEMMA NextSnapshotsInv ==
    ASSUME SnapshotsInv, MetadataAssumption, [Next]_vars
    PROVE  SnapshotsInv'
<1>1. Counted'
  BY NextCounted DEF SnapshotsInv
<1>2. CASE EditRecipe \/ (\E c \in Caller : LoadProject(c)) \/ UNCHANGED vars
  BY <1>1, <1>2 DEF EditRecipe, LoadProject, vars, SnapshotsInv, Numbered
<1>3. ASSUME NEW r \in Held, Command(r) PROVE SnapshotsInv'
  <2>1. PICK state, wished : Commit(r, state, wished) /\ Continues(r, state)
    BY <1>3, CommandCommits DEF SnapshotsInv
  <2> DEFINE saved == [state EXCEPT !.events = push_event(@, state.clock)]
  <2>2. file' = saved \/ file' = file
    BY <2>1 DEF Commit
  <2>3. CASE file' = file
    BY <1>1, <2>3 DEF SnapshotsInv, Numbered
  <2>4. CASE file' = saved
    <3>1. saved.snapshots = state.snapshots /\ saved.clock = next_command_id(file.clock)
      BY <2>1, LoadedCounts DEF Continues, Counts, IsState, SnapshotsInv
    <3>2. Numbered(state.snapshots, next_command_id(file.clock))
      <4>1. MaxClock \in Nat /\ file.clock \in 0..MaxClock
            /\ Numbered(file.snapshots, file.clock)
            /\ Loaded(r).clock = next_command_id(file.clock)
        BY LoadedCounts DEF SnapshotsInv, Counted, MetadataAssumption
      <4>2. Snapped(r, state.snapshots)
        BY <2>1 DEF Continues
      <4> DEFINE id == next_command_id(file.clock)
      <4>3. CASE state.snapshots = file.snapshots
        BY <4>1, <4>3, NumberedNext
      <4>4. ASSUME NEW time, NEW vm, NEW number,
                   state.snapshots = Added(file.snapshots, number,
                                           [id |-> snapshot_id(time, id), vm |-> vm])
            PROVE  Numbered(state.snapshots, id)
        <5>1. Numbered(Added(file.snapshots, number,
                             [id |-> snapshot_id(time, id), vm |-> vm]), id)
          BY <4>1, NumberedNext
        <5>2. QED
          BY <4>4, <5>1
      <4>5. ASSUME NEW S, state.snapshots = Restrict(file.snapshots, DOMAIN file.snapshots \ S)
            PROVE  Numbered(state.snapshots, id)
        <5>1. Numbered(Restrict(file.snapshots, DOMAIN file.snapshots \ S), id)
          BY <4>1, NumberedNext
        <5>2. QED
          BY <4>5, <5>1
      <4> HIDE DEF id
      <4>6. \/ state.snapshots = file.snapshots
            \/ \E time, vm, number : state.snapshots = Added(file.snapshots, number,
                                        [id |-> snapshot_id(time, id), vm |-> vm])
            \/ \E S : state.snapshots = Restrict(file.snapshots, DOMAIN file.snapshots \ S)
        BY <4>1, <4>2 DEF Snapped, id
      <4>7. QED
        BY <4>3, <4>4, <4>5, <4>6 DEF id
    <3> HIDE DEF saved
    <3>3. QED
      BY <1>1, <2>4, <3>1, <3>2 DEF SnapshotsInv, Numbered
  <2>5. QED
    BY <2>2, <2>3, <2>4
<1>4. QED
  BY <1>2, <1>3 DEF Next

\* Two snapshots share an id only when the command clock stands still
\* (runtime.rs:908).
THEOREM SnapshotsDistinctThm == Spec => []SnapshotsDistinct
<1>1. ASSUME Init PROVE SnapshotsInv
  BY <1>1, InitCounted, MetadataAssumption
  DEF Init, initial_state, RuntimeState, SnapshotsInv, Numbered
<1>2. ASSUME SnapshotsInv PROVE SnapshotsDistinct
  <2>1. /\ MaxClock \in Nat /\ file.clock \in 0..MaxClock
        /\ Numbered(file.snapshots, file.clock)
    BY <1>2, MetadataAssumption DEF SnapshotsInv, Counted, MetadataAssumption
  <2>2. ASSUME NEW i \in DOMAIN file.snapshots, NEW j \in DOMAIN file.snapshots,
               i # j, file.snapshots[i].id = file.snapshots[j].id
        PROVE  file.clock = MaxClock
    <3>1. file.snapshots[i].id[2] = MaxClock /\ file.snapshots[i].id[2] \in 0..file.clock
      BY <2>1, <2>2 DEF Numbered
    <3>2. QED
      BY <2>1, <3>1
  <2>3. QED
    BY <2>2 DEF SnapshotsDistinct
<1>3. QED
  BY <1>1, <1>2, NextSnapshotsInv, MetadataAssumption, PTL DEF Spec
==============================================================================
