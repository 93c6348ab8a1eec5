--------------------------- MODULE SessionContext ---------------------------
(***************************************************************************)
(* The files a session has in its context (PromptOrchestrator, agent/      *)
(* add_file, drop_file, read_only, list_files) and the sessions the daemon *)
(* lists: those and the ones its engine keeps a Coder for.                 *)
(***************************************************************************)
EXTENDS FiniteSets

CONSTANTS Sessions, Paths

VARIABLES
  known,           \* the keys of _session_files
  editable,        \* the editable files of each session
  readOnly,        \* its read_only files
  engineSessions,  \* AiderEngine._sessions
  asked            \* what was last asked for each file (history)

contextVars == <<known, editable, readOnly, engineSessions, asked>>

Modes == {"out", "editable", "read_only"}
Empty == [s \in Sessions |-> {}]

ContextInit ==
  /\ known = {} /\ editable = Empty /\ readOnly = Empty /\ engineSessions = {}
  /\ asked = [s \in Sessions |-> [p \in Paths |-> "out"]]
-----------------------------------------------------------------------------
\* _get_session_files makes the entry; then p is in the sets of `mode`.
Place(s, p, mode) ==
  /\ known' = known \cup {s}
  /\ editable' = [editable EXCEPT ![s] = IF mode = "editable" THEN @ \cup {p} ELSE @ \ {p}]
  /\ readOnly' = [readOnly EXCEPT ![s] = IF mode = "read_only" THEN @ \cup {p} ELSE @ \ {p}]
  /\ asked' = [asked EXCEPT ![s][p] = mode]
  /\ UNCHANGED engineSessions

\* Mutant: a file that was read-only stays it, too.
AddEither(s, p) ==
  /\ known' = known \cup {s}
  /\ editable' = [editable EXCEPT ![s] = @ \cup {p}]
  /\ asked' = [asked EXCEPT ![s][p] = "editable"]
  /\ UNCHANGED <<readOnly, engineSessions>>

AddFile(s, p) == Place(s, p, "editable")

DropFile(s, p) == Place(s, p, "out")

ReadOnly(s, p, enabled) == Place(s, p, IF enabled THEN "read_only" ELSE "editable")

ListFiles(s) ==
  /\ s \notin known /\ known' = known \cup {s}
  /\ UNCHANGED <<editable, readOnly, engineSessions, asked>>

\* agent/reset: the engine's session and the files.
ResetSession(s) ==
  /\ known' = known \ {s}
  /\ editable' = [editable EXCEPT ![s] = {}] /\ readOnly' = [readOnly EXCEPT ![s] = {}]
  /\ engineSessions' = engineSessions \ {s}
  /\ asked' = [asked EXCEPT ![s] = [p \in Paths |-> "out"]]

\* A prompt makes the engine's session; agent/clear and a rejection end it.
PromptRuns(s) ==
  /\ engineSessions' = engineSessions \cup {s}
  /\ UNCHANGED <<known, editable, readOnly, asked>>

EngineForgets(s) ==
  /\ engineSessions' = engineSessions \ {s}
  /\ UNCHANGED <<known, editable, readOnly, asked>>

ContextKilled ==
  /\ known' = {} /\ editable' = Empty /\ readOnly' = Empty /\ engineSessions' = {}
  /\ asked' = [s \in Sessions |-> [p \in Paths |-> "out"]]

ContextNext ==
  \E s \in Sessions :
    \/ \E p \in Paths :
         AddFile(s, p) \/ DropFile(s, p) \/ (\E b \in BOOLEAN : ReadOnly(s, p, b))
    \/ ListFiles(s) \/ ResetSession(s) \/ PromptRuns(s) \/ EngineForgets(s)
-----------------------------------------------------------------------------
ContextTypeOK ==
  /\ known \subseteq Sessions /\ engineSessions \subseteq Sessions
  /\ editable \in [Sessions -> SUBSET Paths] /\ readOnly \in [Sessions -> SUBSET Paths]
  /\ asked \in [Sessions -> [Paths -> Modes]]

\* agent/list_sessions.
Listed == known \cup engineSessions

\* What agent/list_files shows is for each file what was last asked, whichever way
\* it came there, and a session with files is listed until it is reset.
ContextIsAsAsked ==
  \A s \in Sessions, p \in Paths :
    /\ p \in editable[s] <=> asked[s][p] = "editable"
    /\ p \in readOnly[s] <=> asked[s][p] = "read_only"
    /\ asked[s][p] # "out" => s \in Listed
=============================================================================
