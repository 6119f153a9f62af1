----------------------------- MODULE RemoteCall -----------------------------
(***************************************************************************)
(* What a program may rely on that asks another one to do something,       *)
(* without connections, threads, queues or deadlines.  A call is executed  *)
(* at most once and ends once.  Its caller learns that it was executed,    *)
(* that it was not and will not be, or neither: only what is open or has   *)
(* ended so can still be executed.                                         *)
(* GuestChannel and ControlEndpoint implement it.                          *)
(***************************************************************************)
EXTENDS Naturals

CONSTANT Call

VARIABLES known, \* what each caller knows: idle, open, result, refused, unknown
          done   \* how often each call was executed

vars == <<known, done>>

Init == known = [k \in Call |-> "idle"] /\ done = [k \in Call |-> 0]

Begin(k) ==
    /\ known[k] = "idle"
    /\ known' = [known EXCEPT ![k] = "open"] /\ UNCHANGED done

Execute(k) ==
    /\ known[k] \in {"open", "unknown"} /\ done[k] = 0
    /\ done' = [done EXCEPT ![k] = 1] /\ UNCHANGED known

Return(k) ==
    /\ known[k] = "open" /\ done[k] = 1
    /\ known' = [known EXCEPT ![k] = "result"] /\ UNCHANGED done

Refuse(k) ==
    /\ known[k] \in {"idle", "open"} /\ done[k] = 0
    /\ known' = [known EXCEPT ![k] = "refused"] /\ UNCHANGED done

\* A caller gives up, or all of them lose the program at the other end.
GiveUp(S) ==
    /\ \A k \in S : known[k] = "open"
    /\ known' = [k \in Call |-> IF k \in S THEN "unknown" ELSE known[k]] /\ UNCHANGED done

Next ==
    \/ \E k \in Call : Begin(k) \/ Execute(k) \/ Return(k) \/ Refuse(k)
    \/ \E S \in SUBSET Call : GiveUp(S)

Spec == Init /\ [][Next]_vars
==============================================================================
