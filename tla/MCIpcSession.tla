---------------------------- MODULE MCIpcSession ----------------------------
(* Instances of IpcSession for TLC.                                        *)
EXTENDS IpcSession, TLC

CONSTANTS run, stop

\* A command that runs a process, and one that stops the session.
RunAndStop == [r \in Commands |-> IF r = stop THEN "stop" ELSE "process"]
=============================================================================
