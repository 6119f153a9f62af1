-------------------------------- MODULE ProjectVm --------------------------------
(***************************************************************************)
(* What the runtime promises about a project's virtual machine, without    *)
(* locks, steps or failures: at any time the project has one VM or none;   *)
(* its sources and its disk are replaced only while it has none; a guest   *)
(* disk stores one recipe, once; commands are recorded one after another.  *)
(* VmLifecycle implements it.                                              *)
(***************************************************************************)
EXTENDS Naturals

CONSTANTS VmIds, \* identities of VM processes
          NoVm    \* the project has no VM

VARIABLES vm,      \* identity of the project's VM
          run,     \* its run state
          disk,    \* generation of the guest disk, 0 for none
          stored,  \* recipe stored on that disk, <<0, 0>> for none
          recipe,  \* versions of the sources: the project file, the node files
          clock    \* commands recorded

vars == <<vm, run, disk, stored, recipe, clock>>

OnStates == {"prelaunch", "running", "paused", "fault", "quitting"}

Init ==
    /\ vm = NoVm /\ run = "off"
    /\ disk \in Nat /\ stored \in Nat \X Nat
    /\ recipe \in Nat \X Nat /\ clock = 0

TurnOn ==
    /\ vm = NoVm /\ disk # 0
    /\ vm' \in VmIds
    /\ run' \in OnStates
    /\ UNCHANGED <<disk, stored, recipe, clock>>

\* QEMU runs, pauses, resumes, fails for good or is told to quit.
Transitions == {<<"prelaunch", "running">>, <<"running", "paused">>,
                <<"paused", "running">>, <<"running", "fault">>}
                    \cup (OnStates \X {"quitting"})

Move ==
    /\ vm # NoVm
    /\ <<run, run'>> \in Transitions
    /\ UNCHANGED <<vm, disk, stored, recipe, clock>>

TurnOff ==
    /\ vm # NoVm
    /\ vm' = NoVm /\ run' = "off"
    /\ UNCHANGED <<disk, stored, recipe, clock>>

\* The recipe is the project's; its project file may be one the project had before.
Store ==
    /\ run = "running"
    /\ stored = <<0, 0>> /\ stored' \in (1..recipe[1]) \X {recipe[2]}
    /\ UNCHANGED <<vm, run, disk, recipe, clock>>

Edit ==
    /\ vm = NoVm
    /\ recipe' \in ({recipe[1], recipe[1] + 1} \X {recipe[2], recipe[2] + 1}) \ {recipe}
    /\ UNCHANGED <<vm, run, disk, stored, clock>>

ReplaceDisk ==
    /\ vm = NoVm
    /\ disk' \in Nat \ {disk} /\ stored' \in Nat \X Nat
    /\ disk = 0 \/ disk' = 0
    /\ UNCHANGED <<vm, run, recipe, clock>>

Record ==
    /\ clock' = clock + 1
    /\ UNCHANGED <<vm, run, disk, stored, recipe>>

Next == TurnOn \/ Move \/ TurnOff \/ Store \/ Edit \/ ReplaceDisk \/ Record

Spec == Init /\ [][Next]_vars

==================================================================================
