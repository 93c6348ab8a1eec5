------------------------ MODULE MCPromptOrchestrator ------------------------
(* Instances of PromptOrchestrator for TLC.                                *)
EXTENDS PromptOrchestrator, TLC

CONSTANTS c1, c2, r1

\* Both clients have the same project open, and so share a shadow directory.
SharedRoot == [c \in Clients |-> r1]

\* Clients only submit and review.
NoDisruption == {}
OnlyCancel   == {"cancel"}
OnlyReset    == {"reset"}
CancelResetReconnect == {"cancel", "reset", "reconnect"}

\* Both clients have the same root, and jobs are interchangeable.
Symmetry == Permutations(Clients) \cup Permutations(Jobs)
=============================================================================
