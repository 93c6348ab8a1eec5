-------------------------- MODULE MCDaemonLifecycle --------------------------
(* Instances of DaemonLifecycle for TLC.                                   *)
EXTENDS DaemonLifecycle, TLC

Symmetry == Permutations(Conns) \cup Permutations(Projects)
=============================================================================
