----------------------------- MODULE MCProcesses -----------------------------
(***************************************************************************)
(* Processes on small sets.  As many pids as processes: after a restart of *)
(* the container a pid comes back.                                         *)
(***************************************************************************)
EXTENDS Processes, TLC

Symmetry == Permutations(Procs) \cup Permutations(Pids) \cup Permutations(Requests)

=============================================================================
