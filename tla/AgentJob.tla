------------------------------ MODULE AgentJob ------------------------------
(***************************************************************************)
(* What the daemon promises about agent jobs, without saying how: at most  *)
(* one client at a time has a job; a job is first worked on, and then      *)
(* either ends or puts a diff in front of its client, who settles it.  The *)
(* prompt pipeline of PromptOrchestrator is shown to implement it.         *)
(***************************************************************************)
CONSTANTS Clients,   \* the Neovim clients
          None       \* "no client"

VARIABLES holder,    \* the client whose job is active, or None
          stage      \* "free", "working", or "review" (a diff is pending)

vars == <<holder, stage>>

Init == holder = None /\ stage = "free"

\* A client is given the slot only when nobody has it.
Take(c) == /\ stage = "free"
           /\ holder' = c
           /\ stage' = "working"

\* The work ends in a diff that its client is to review.
Publish == /\ stage = "working"
           /\ stage' = "review"
           /\ UNCHANGED holder

\* The work ends without a diff: nothing changed, or it failed.
GiveUp == /\ stage = "working"
          /\ stage' = "free"
          /\ holder' = None

\* The client accepts or rejects the diff.
Settle == /\ stage = "review"
          /\ stage' = "free"
          /\ holder' = None

Next == (\E c \in Clients : Take(c)) \/ Publish \/ GiveUp \/ Settle

\* Work ends; a review need not.
Spec == Init /\ [][Next]_vars /\ WF_vars(Publish \/ GiveUp)
=============================================================================
