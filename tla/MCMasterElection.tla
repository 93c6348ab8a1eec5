--------------------------- MODULE MCMasterElection ---------------------------
(* Instances of MasterElection for TLC.                                    *)
EXTENDS MasterElection, TLC

AnyEnding == {"exit", "kill", "quit"}
InOrder   == {"exit"}
Symmetry  == Permutations(Clients) \cup Permutations(Daemons)
=============================================================================
