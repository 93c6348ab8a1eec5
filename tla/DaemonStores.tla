---------------------------- MODULE DaemonStores ----------------------------
(***************************************************************************)
(* What one daemon process keeps besides its jobs: the vault's file, the   *)
(* ledger's table, and in memory the sessions' files.  A call of the vault *)
(* holds the loop up until it returns; a kill comes at any time.           *)
(***************************************************************************)
EXTENDS KeyVault, TelemetryLedger, SessionContext

vars == <<vaultVars, ledgerVars, contextVars>>

Init == VaultInit /\ LedgerInit /\ ContextInit

\* The process is killed and another one started: files stay, memory does not.
Killed == Interrupted /\ LedgerKilled /\ ContextKilled

Next ==
  \/ VaultNext /\ UNCHANGED <<ledgerVars, contextVars>>
  \/ step = "idle" /\ LedgerNext /\ UNCHANGED <<vaultVars, contextVars>>
  \/ step = "idle" /\ ContextNext /\ UNCHANGED <<vaultVars, ledgerVars>>
  \/ Killed

Spec == Init /\ [][Next]_vars

\* Every variable keeps to its set.
TypeOK == VaultTypeOK /\ LedgerTypeOK /\ ContextTypeOK
=============================================================================
