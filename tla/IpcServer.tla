----------------------------- MODULE IpcServer -----------------------------
(***************************************************************************)
(* The daemon's end of its socket: IpcServer._handle_client, one task for  *)
(* each connection, with the RpcDispatcher it awaits and the Broadcaster's *)
(* registration.  A task serves one request at a time, so a command that   *)
(* runs keeps the frames behind it waiting, and the end of the input too.  *)
(***************************************************************************)
EXTENDS Naturals, Sequences

CONSTANTS
  Pipes,      \* the connections a Neovim instance makes, numbered as it makes them
  Commands,   \* the requests its user makes
  Kind,       \* what each of them is:
              \*   "quick"    answered at once (version, status, accept, ...)
              \*   "process"  agent/run, test or lint, which wait for a process
              \*   "stop"     client/shutdown, sent by AlchemistStop and Restart
  None        \* no pipe, no request

Kinds == {"quick", "process", "stop"}

ASSUME IpcAssumption ==
  /\ Kind \in [Commands -> Kinds]
  /\ Pipes \subseteq Nat /\ Pipes \cap Commands = {}
  /\ None \notin Pipes \cup Commands

\* Every pipe has its client/initialize, named like the pipe.
Requests == Commands \cup Pipes

KindOf(r) == IF r \in Pipes THEN "init" ELSE Kind[r]

VARIABLES
  line,        \* the client's end of each pipe
  up,          \* the requests on their way to the daemon
  down,        \* the answers on their way back, None for one without an id
  handler,     \* where the task of each connection is
  serving,     \* the request it awaits the outcome of
  clientIds,   \* the connections that have noted a client_id
  registered   \* Broadcaster._clients: the connection notifications go to

lineStates    == {"unused", "connecting", "cancelled", "failed", "open", "closed"}
handlerStates == {"none", "reading", "serving", "gone"}

serverVars == <<handler, serving, clientIds, registered>>
ipcVars    == <<line, up, down, handler, serving, clientIds, registered>>

ServerInit ==
  /\ line = [k \in Pipes |-> "unused"]
  /\ up = [k \in Pipes |-> <<>>]
  /\ down = [k \in Pipes |-> <<>>]
  /\ handler = [k \in Pipes |-> "none"]
  /\ serving = [k \in Pipes |-> None]
  /\ clientIds = {}
  /\ registered = None
-----------------------------------------------------------------------------
\* Nobody reads what is written to a client that has closed its end.
Write(k, answer) ==
  down' = IF line[k] = "closed" THEN down ELSE [down EXCEPT ![k] = Append(@, answer)]

Goto(k, s) == handler' = [handler EXCEPT ![k] = s]

\* A connection is taken on.
Accept(k) == Goto(k, "reading")

\* The task of a connection ends: close the writer, unregister the client_ids.
\* What it has not read is lost.
Finish(k) ==
  /\ Goto(k, "gone")
  /\ up' = [up EXCEPT ![k] = <<>>]
  /\ registered' = IF k \in clientIds THEN None ELSE registered

\* The frame that the task of k is to read.
Frame(k) == Head(up[k])
Reads(k) == handler[k] = "reading" /\ up[k] # <<>>

\* What the user typed may be of any size, in any encoding.
FreeText(k) == KindOf(Frame(k)) = "process"

\* More than 64 KiB.  readuntil raises LimitOverrunError: an answer that names
\* no request, and the end of the connection.
TooLarge(k) ==
  /\ Reads(k) /\ FreeText(k)
  /\ Write(k, None)
  /\ Finish(k)
  /\ UNCHANGED <<line, serving, clientIds>>

\* UnicodeDecodeError is no JSONDecodeError: it ends the connection.
NotUtf8(k) ==
  /\ Reads(k) /\ FreeText(k)
  /\ Finish(k)
  /\ UNCHANGED <<line, down, serving, clientIds>>

\* The dispatcher is awaited.
Dispatch(k) ==
  /\ Reads(k)
  /\ up' = [up EXCEPT ![k] = Tail(@)]
  /\ serving' = [serving EXCEPT ![k] = Frame(k)]
  /\ clientIds' = IF Frame(k) \in Pipes THEN clientIds \cup {k} ELSE clientIds
  /\ Goto(k, "serving")
  /\ UNCHANGED <<line, down, registered>>

\* The server puts the connection's writer beside the params of a request; the
\* handler of client/initialize looks for it inside them.
WriterInParams == FALSE

\* The outcome, a result or an error, is written.
Respond(k) ==
  /\ handler[k] = "serving"
  /\ serving' = [serving EXCEPT ![k] = None]
  /\ Write(k, serving[k])
  /\ registered' = IF serving[k] \in Pipes /\ WriterInParams THEN k ELSE registered
  /\ Goto(k, "reading")
  /\ UNCHANGED <<line, up, clientIds>>

RunsProcess(k) == handler[k] = "serving" /\ KindOf(serving[k]) = "process"

Serve(k) == ~RunsProcess(k) /\ Respond(k)

\* The process exits, or prints a line too long for its reader.
ProcessEnds(k) == RunsProcess(k) /\ Respond(k)

\* There is nobody to write it to: drain raises.
WriteFails(k) ==
  /\ handler[k] = "serving" /\ ~RunsProcess(k) /\ line[k] = "closed"
  /\ serving' = [serving EXCEPT ![k] = None]
  /\ Finish(k)
  /\ UNCHANGED <<line, down, clientIds>>

\* Mutant: the loop does not look at reader.at_eof().
IgnoreEnd(k) == FALSE /\ UNCHANGED ipcVars

\* All that was sent is read, and the client's end is closed.
EndOfInput(k) ==
  /\ handler[k] = "reading" /\ up[k] = <<>> /\ line[k] = "closed"
  /\ Finish(k)
  /\ UNCHANGED <<line, down, serving, clientIds>>

\* The daemon ends, with all its connections; another one may be started.
Die ==
  /\ \E k \in Pipes : handler[k] \in {"reading", "serving"}
  /\ handler' = [k \in Pipes |-> IF handler[k] = "none" THEN "none" ELSE "gone"]
  /\ up' = [k \in Pipes |-> IF handler[k] = "none" THEN up[k] ELSE <<>>]
  /\ serving' = [k \in Pipes |-> None]
  /\ clientIds' = {}
  /\ registered' = None
  /\ UNCHANGED <<line, down>>

\* What the loop does on its own for one connection, processes apart.
HandlerStep(k) ==
  \/ TooLarge(k)
  \/ NotUtf8(k)
  \/ Dispatch(k)
  \/ Serve(k)
  \/ WriteFails(k)
  \/ EndOfInput(k)

\* The writer is closed: the client reads what is left, and then the end.
HungUp(k) == handler[k] = "gone"
-----------------------------------------------------------------------------
ServerTypeOK ==
  /\ line \in [Pipes -> lineStates]
  /\ up \in [Pipes -> Seq(Requests)]
  /\ down \in [Pipes -> Seq(Requests \cup {None})]
  /\ handler \in [Pipes -> handlerStates]
  /\ serving \in [Pipes -> Requests \cup {None}]
  /\ clientIds \subseteq Pipes
  /\ registered \in Pipes \cup {None}

\* A client that has initialized on an open connection gets the notifications
\* meant for it: streamed output, status, the diff to review (broadcaster.py).
InitializedIsRegistered ==
  \A k \in clientIds : handler[k] = "reading" => registered # None
=============================================================================
