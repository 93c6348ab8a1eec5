--------------------------- MODULE DaemonLifecycle ---------------------------
(***************************************************************************)
(* The end of the daemon: LifecycleManager with its grace period and       *)
(* signals, the cleanup callbacks that main.py registers (ShadowManager's, *)
(* the engine's and IpcServer.stop), and what main and asyncio.run do when *)
(* the shutdown event is set.                                              *)
(*                                                                         *)
(* A step is what the loop runs between two suspensions.  The loop takes   *)
(* what is ready in order: main, woken by the event, runs before anything  *)
(* the cleanup awaits can wake the cleanup.                                *)
(***************************************************************************)
EXTENDS Naturals, FiniteSets

CONSTANTS Conns,     \* connections, each used once; bounds how many there are
          Projects,  \* projects a shadow workspace can be made for
          None       \* no project

ASSUME ConstantsAssumption == IsFiniteSet(Conns) /\ None \notin Projects

VARIABLES
  active,      \* LifecycleManager._active_clients
  grace,       \* its _shutdown_task: "none", "sleeping", "cleaning" (it runs
               \*   the callbacks) or "done"
  event,       \* its _shutdown_event
  signalled,   \* a signal has made a task that will call trigger_shutdown
  cleanup,     \* where trigger_shutdown is: "idle", suspended in "rmtree" or in
               \*   "closing", "finished", "aborted"
  toClean,     \* the workspaces cleanup_all has yet to remove
  removing,    \* the workspace a file thread is removing
  failed,      \* ... and that thread has failed
  workspaces,  \* ShadowManager._workspaces
  directories, \* the shadow directories there are
  conn,        \* each connection: "none", "accepted" (its handler has not begun),
               \*   "open", "over"
  listening,   \* the server accepts connections
  socket,      \* there is a socket file
  lock,        \* the daemon's lock is held
  busy,        \* the engine's worker thread runs a prompt
  main         \* "serving", "returned", "cancelled" (asyncio.run has cancelled
               \*   all tasks), "closed" (the loop), "exited" (the process)

countVars   == <<active, grace, event, signalled>>
cleanupVars == <<cleanup, toClean, removing, failed>>
fileVars    == <<workspaces, directories, socket, lock>>
vars == <<active, grace, event, signalled, cleanup, toClean, removing, failed,
          workspaces, directories, socket, lock, conn, listening, busy, main>>

\* The daemon has its lock and has started to listen; directories of a daemon
\* that was killed may be left.
Init ==
  /\ active = 0 /\ grace = "none" /\ event = FALSE /\ signalled = FALSE
  /\ cleanup = "idle" /\ toClean = {} /\ removing = None /\ failed = FALSE
  /\ workspaces = {} /\ directories \in SUBSET Projects
  /\ conn = [c \in Conns |-> "none"]
  /\ listening = TRUE /\ socket = TRUE /\ lock = TRUE
  /\ busy = FALSE
  /\ main = "serving"

Attached == {c \in Conns : conn[c] \in {"accepted", "open"}}
Open     == {c \in Conns : conn[c] = "open"}

\* The loop runs tasks as they become ready; it does so too while asyncio.run
\* waits for the executor's threads.
LoopRuns == main \in {"serving", "returned", "cancelled"}
-----------------------------------------------------------------------------
(* The cleanup callbacks.                                                  *)

\* What trigger_shutdown does up to its next suspension, with the workspaces
\* `rest` left: remove one in a thread; or, with none left, shut the engine and
\* close the server, which waits for the connections there are.
Proceed(rest) ==
  \/ \E p \in rest :
       /\ cleanup' = "rmtree" /\ toClean' = rest \ {p}
       /\ removing' = p /\ failed' = FALSE
       /\ workspaces' = workspaces \ {p}
       /\ UNCHANGED <<listening, socket>>
  \/ /\ rest = {}
     /\ toClean' = {} /\ listening' = FALSE
     /\ cleanup' = IF Attached = {} THEN "finished" ELSE "closing"
     /\ socket' = (socket /\ Attached # {})
     /\ UNCHANGED <<removing, failed, workspaces>>

\* Mutant: trigger_shutdown leaves the event to the end of the callbacks, which
\* the main coroutine does not wait for.
TriggerUnseen ==
  /\ UNCHANGED event
  /\ Proceed(workspaces)

\* trigger_shutdown sets the event, then runs the callbacks.
Trigger ==
  /\ event' = TRUE
  /\ Proceed(workspaces)

\* The file thread ends, whether or not somebody waits for it.
Removed ==
  /\ removing # None
  /\ \/ directories' = directories \ {removing} /\ failed' = FALSE
     \/ UNCHANGED directories /\ failed' = TRUE
  /\ removing' = None
  /\ UNCHANGED <<countVars, cleanup, toClean, workspaces, socket, lock, conn,
                 listening, busy, main>>

\* cleanup_all goes on, unless rmtree has raised, or the server's connections
\* are all closed.
CleanupResumes ==
  /\ main = "returned"
  /\ \/ /\ cleanup = "rmtree" /\ removing = None
        /\ Proceed(IF failed THEN {} ELSE toClean)
        /\ grace' = IF grace = "cleaning" /\ cleanup' = "finished" THEN "done" ELSE grace
     \/ /\ cleanup = "closing" /\ Attached = {}
        /\ cleanup' = "finished" /\ socket' = FALSE
        /\ grace' = IF grace = "cleaning" THEN "done" ELSE grace
        /\ UNCHANGED <<toClean, removing, failed, workspaces, listening>>
  /\ UNCHANGED <<active, event, signalled, directories, lock, conn, busy, main>>
-----------------------------------------------------------------------------
(* Connections and the grace period.                                       *)

\* The loop accepts a connection and makes a task for its handler.
Accept(c) ==
  /\ listening /\ main # "exited" /\ conn[c] = "none"
  /\ conn' = [conn EXCEPT ![c] = "accepted"]
  /\ UNCHANGED <<countVars, cleanupVars, fileVars, listening, busy, main>>

\* Task.cancel() on the waiter: its sleep ends, or the callbacks it runs do.
CancelWaiter ==
  cleanup' = IF grace = "cleaning" THEN "aborted" ELSE cleanup

\* Mutant: the pending shutdown is cancelled, but not forgotten.
KeepWaiter ==
  /\ CancelWaiter
  /\ grace' = IF grace \in {"sleeping", "cleaning"} THEN "done" ELSE grace

\* Mutant: the pending shutdown goes on.
LetWaiterSleep == UNCHANGED <<cleanup, grace>>

\* client_connected forgets a pending shutdown, and cancels it.
ForgetWaiter ==
  /\ CancelWaiter
  /\ grace' = IF grace \in {"sleeping", "cleaning"} THEN "none" ELSE grace

\* The handler begins.
ClientConnected(c) ==
  /\ LoopRuns /\ conn[c] = "accepted"
  /\ conn' = [conn EXCEPT ![c] = "open"]
  /\ active' = active + 1
  /\ ForgetWaiter
  /\ UNCHANGED <<event, signalled, toClean, removing, failed, fileVars,
                 listening, busy, main>>

\* Mutant: the count does not go down again.
CountUpOnly == active

\* max(0, active - 1)
CountDown == IF active = 0 THEN 0 ELSE active - 1

\* Mutant: the handler counts the client once it has spoken, but its `finally`
\* takes every connection off the count.
UncountedLeaves(c) ==
  /\ LoopRuns /\ conn[c] \in {"accepted", "open"}
  /\ conn' = [conn EXCEPT ![c] = "over"]
  /\ active' = active - 1
  /\ grace' = IF active' = 0 /\ grace = "none" /\ ~event THEN "sleeping" ELSE grace
  /\ UNCHANGED <<event, signalled, cleanupVars, fileVars, listening, busy, main>>

\* The handler ends.
ClientDisconnected(c) ==
  /\ LoopRuns /\ conn[c] = "open"
  /\ conn' = [conn EXCEPT ![c] = "over"]
  /\ active' = CountDown
  /\ grace' = IF active' = 0 /\ grace = "none" /\ ~event THEN "sleeping" ELSE grace
  /\ UNCHANGED <<event, signalled, cleanupVars, fileVars, listening, busy, main>>

\* Nobody has connected for the grace period.
GraceExpires ==
  /\ LoopRuns /\ grace = "sleeping"
  /\ IF event THEN grace' = "done" /\ UNCHANGED <<event, cleanupVars, workspaces,
                                                   listening, socket>>
     ELSE /\ Trigger
          /\ grace' = IF cleanup' = "finished" THEN "done" ELSE "cleaning"
  /\ UNCHANGED <<active, signalled, directories, lock, conn, busy, main>>

\* SIGTERM or SIGINT.
Signal ==
  /\ LoopRuns
  /\ signalled' = TRUE
  /\ CancelWaiter
  /\ grace' = IF grace \in {"sleeping", "cleaning"} THEN "done" ELSE grace
  /\ UNCHANGED <<active, event, toClean, removing, failed, fileVars, conn,
                 listening, busy, main>>

\* The task that the signal made.
SignalShutdown ==
  /\ LoopRuns /\ signalled
  /\ signalled' = FALSE
  /\ IF event THEN UNCHANGED <<event, cleanupVars, workspaces, listening, socket>>
              ELSE Trigger
  /\ UNCHANGED <<active, grace, directories, lock, conn, busy, main>>
-----------------------------------------------------------------------------
(* Prompts, as far as they concern the end.                                *)

\* A prompt initialises the workspace of a project.
Initialize(p) ==
  /\ LoopRuns /\ p \notin workspaces
  /\ \E c \in Conns : conn[c] \in {"open", "over"}
  /\ workspaces' = workspaces \cup {p}
  /\ directories' = directories \cup {p}
  /\ UNCHANGED <<countVars, cleanupVars, socket, lock, conn, listening, busy, main>>

\* The worker takes a prompt, until the engine is shut, or ends one.
EngineRuns ==
  /\ LoopRuns /\ listening /\ ~busy
  /\ workspaces # {}
  /\ busy' = TRUE
  /\ UNCHANGED <<countVars, cleanupVars, fileVars, conn, listening, main>>

EngineEnds ==
  /\ busy
  /\ busy' = FALSE
  /\ UNCHANGED <<countVars, cleanupVars, fileVars, conn, listening, main>>
-----------------------------------------------------------------------------
(* The end of main.                                                        *)

\* main wakes and releases the lock.
MainReturns ==
  /\ main = "serving" /\ event
  /\ main' = "returned"
  /\ lock' = FALSE
  /\ UNCHANGED <<countVars, cleanupVars, workspaces, directories, socket, conn,
                 listening, busy>>

\* asyncio.run cancels every task and runs them to their end.
CancelAll ==
  /\ main = "returned"
  /\ main' = "cancelled"
  /\ cleanup' = IF cleanup \in {"rmtree", "closing"} THEN "aborted" ELSE cleanup
  /\ grace' = IF grace = "none" THEN "none" ELSE "done"
  /\ signalled' = FALSE
  /\ conn' = [c \in Conns |-> IF c \in Attached THEN "over" ELSE conn[c]]
  /\ active' = 0
  /\ UNCHANGED <<event, toClean, removing, failed, fileVars, listening, busy>>

\* The default executor's threads have ended: the loop is closed.
LoopCloses ==
  /\ main = "cancelled" /\ removing = None
  /\ main' = "closed"
  /\ listening' = FALSE
  /\ UNCHANGED <<countVars, cleanupVars, fileVars, conn, busy>>

\* The interpreter waits for the engine's thread.
ProcessExits ==
  /\ main = "closed" /\ ~busy
  /\ main' = "exited"
  /\ UNCHANGED <<countVars, cleanupVars, fileVars, conn, listening, busy>>
-----------------------------------------------------------------------------
Next ==
  \/ \E c \in Conns : Accept(c) \/ ClientConnected(c) \/ ClientDisconnected(c)
  \/ \E p \in Projects : Initialize(p)
  \/ GraceExpires \/ Signal \/ SignalShutdown
  \/ Removed \/ CleanupResumes
  \/ EngineRuns \/ EngineEnds
  \/ MainReturns \/ CancelAll \/ LoopCloses \/ ProcessExits

Spec == Init /\ [][Next]_vars

(* Timers fire, tasks that are ready run, file threads and engine runs end. *)
(* No client, no user and no signal is needed.                              *)
Fairness ==
  /\ \A c \in Conns : WF_vars(ClientConnected(c))
  /\ WF_vars(GraceExpires) /\ WF_vars(SignalShutdown)
  /\ WF_vars(Removed) /\ WF_vars(EngineEnds)
  /\ WF_vars(MainReturns) /\ WF_vars(CancelAll) /\ WF_vars(LoopCloses)
  /\ WF_vars(ProcessExits)

FairSpec == Spec /\ Fairness
-----------------------------------------------------------------------------
(* Properties.                                                             *)

\* Every variable keeps to its set.
TypeOK ==
  /\ active \in Nat
  /\ grace \in {"none", "sleeping", "cleaning", "done"}
  /\ event \in BOOLEAN /\ signalled \in BOOLEAN
  /\ cleanup \in {"idle", "rmtree", "closing", "finished", "aborted"}
  /\ toClean \subseteq Projects /\ removing \in Projects \cup {None}
  /\ failed \in BOOLEAN
  /\ workspaces \subseteq Projects /\ directories \subseteq Projects
  /\ conn \in [Conns -> {"none", "accepted", "open", "over"}]
  /\ listening \in BOOLEAN /\ socket \in BOOLEAN /\ lock \in BOOLEAN
  /\ busy \in BOOLEAN
  /\ main \in {"serving", "returned", "cancelled", "closed", "exited"}

\* The reference count is the number of connections being served.
CountIsOpen == LoopRuns => active = Cardinality(Open)

\* The grace period runs, and ends the daemon, only when no client is served.
GraceOnlyWhenUnused == grace \in {"sleeping", "cleaning"} => active = 0

\* When the last client has gone the grace period runs, or the end has begun:
\* a daemon that was used is never forgotten.
UnusedIsTimed ==
  (\E c \in Conns : conn[c] = "over") /\ active = 0 =>
    grace = "sleeping" \/ event \/ signalled

\* A daemon without clients exits, unless another client comes.
UnusedExits ==
  (\E c \in Conns : conn[c] = "over") /\ active = 0 ~> active > 0 \/ main = "exited"

\* A signal ends the daemon, whoever is connected.
SignalEnds == signalled ~> main = "exited"

\* The daemon exits with its socket file removed.
ExitRemovesSocket == main = "exited" => ~socket
=============================================================================
