---------------------------- MODULE MCVmLifecycle ----------------------------
(***************************************************************************)
(* VmLifecycle for TLC.                                                    *)
(***************************************************************************)
EXTENDS VmLifecycle, TLC

\* Controllers and process ids are interchangeable.
Symmetry == Permutations(Controller) \cup Permutations(Pid)

\* add_node_include and add_script_include do not check that the VM is stopped.
CheckedCommands == AllCommands \ {"include"}

==============================================================================
