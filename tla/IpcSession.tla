----------------------------- MODULE IpcSession -----------------------------
(***************************************************************************)
(* A Neovim instance and the daemon across their socket: RpcConnection     *)
(* (rpc.lua), the copy of its state that commands and the status line look *)
(* at (state.lua), the requests (methods.lua), and the commands that start *)
(* and stop it.  Callbacks of libuv come at any time; what they pass to    *)
(* vim.schedule waits in a queue and is run in order.  The daemon's end is *)
(* IpcServer.                                                              *)
(***************************************************************************)
EXTENDS IpcServer

CONSTANT QueueBound   \* how much waits in the queue when a callback adds to it

ASSUME QueueBound \in Nat

VARIABLES
  pipe,        \* RpcConnection.pipe: the pipe requests are written to
  connected,   \* RpcConnection.connected
  pending,     \* RpcConnection.pending: the requests without an outcome
  timer,       \* of each request: "off", "on", or "due", its callback scheduled
  reading,     \* the pipes that are read
  scheduled,   \* what waits in vim.schedule's queue
  shown,       \* connected, as state.lua has it
  tracked,     \* pending_requests, as state.lua has it
  settled,     \* how often each request's callbacks were called; 2 is "often"
  draining,    \* that queue is being run, which nothing else interrupts
  reentered    \* _handle_disconnect was called from a callback it calls

clientVars == <<pipe, connected, pending, timer, reading, scheduled, shown,
                tracked, settled, reentered>>
vars == <<ipcVars, clientVars, draining>>

\* What can wait: the callback of a timer, a disconnect, a state.update of
\* connected (with FALSE it empties pending_requests too), an initialize.
Events == [do : {"timeout", "initialize"}, of : Requests]
          \cup [do : {"disconnect"}]
          \cup [do : {"update"}, connected : BOOLEAN]

Timeout(r)    == [do |-> "timeout", of |-> r]
Initialize(k) == [do |-> "initialize", of |-> k]
Disconnect    == [do |-> "disconnect"]
Update(b)     == [do |-> "update", connected |-> b]

Init ==
  /\ ServerInit
  /\ pipe = None
  /\ connected = FALSE
  /\ pending = {}
  /\ timer = [r \in Requests |-> "off"]
  /\ reading = {}
  /\ scheduled = <<>>
  /\ shown = FALSE
  /\ tracked = {}
  /\ settled = [r \in Requests |-> 0]
  /\ draining = FALSE
  /\ reentered = FALSE
-----------------------------------------------------------------------------
(* Outcomes.                                                               *)

\* The callbacks of the requests in s are called, those of t `often` times too.
Call(s, t, often) ==
  LET calls(r) == settled[r] + (IF r \in s THEN 1 ELSE 0) + (IF r \in t THEN often ELSE 0)
  IN  settled' = [r \in Requests |-> IF calls(r) > 2 THEN 2 ELSE calls(r)]

StopTimers(s) ==
  timer' = [r \in Requests |-> IF r \in s /\ timer[r] = "on" THEN "off" ELSE timer[r]]

\* Of what there is to be read (`answers`) nothing is that came on this pipe.
Close(answers) ==
  /\ line' = IF pipe = None THEN line
             ELSE [line EXCEPT ![pipe] = IF @ = "connecting" THEN "cancelled" ELSE "closed"]
  /\ down' = IF pipe = None THEN answers ELSE [answers EXCEPT ![pipe] = <<>>]
  /\ reading' = reading \ {pipe}
  /\ pipe' = None

IsStop(r) == KindOf(r) = "stop"

\* Mutant: the table is emptied before its callbacks are called.
DropPending(left, done, rest, answers) ==
  /\ connected' = FALSE
  /\ Call(done, {}, 0)
  /\ StopTimers(left \cup done)
  /\ pending' = {}
  /\ Close(answers)
  /\ scheduled' = Append(rest, Update(FALSE))
  /\ UNCHANGED reentered

\* _handle_disconnect, when the requests in `left` are pending and the callback
\* of those in `done` was just called.  The table of pending requests is emptied
\* after their callbacks were called.  That of a stop request disconnects again,
\* and so on until the stack is full: all of them are called many times.
HandleDisconnect(left, done, rest, answers) ==
  LET again == \E r \in left : IsStop(r)
  IN  /\ connected' = FALSE
      /\ Call(done, left, IF again THEN 2 ELSE 1)
      /\ StopTimers(left \cup done)
      /\ pending' = {}
      /\ Close(answers)
      /\ scheduled' = Append(rest, Update(FALSE))
      /\ reentered' = (reentered \/ again)

\* The outcome of r reaches its callback; that of a stop request goes on to
\* disconnect().  (The notification it sends first is one no daemon handles, and the
\* message it shows for an error is taken to be allowed where it runs.)  The queue is
\* `rest` then, and the answers to be read are `answers`.
Outcome(r, rest, answers) ==
  /\ tracked' = tracked \ {r}
  /\ \/ /\ IsStop(r)
        /\ HandleDisconnect(pending \ {r}, {r}, rest, answers)
        /\ UNCHANGED up
     \/ /\ ~IsStop(r)
        /\ pending' = pending \ {r}
        /\ Call({r}, {}, 0)
        /\ StopTimers({r})
        /\ scheduled' = rest
        /\ down' = answers
        /\ UNCHANGED <<line, up, pipe, connected, reading, reentered>>

\* RpcConnection:request.  Writing to a daemon that hung up fails.
Request(r, rest) ==
  /\ settled[r] = 0 /\ r \notin pending
  /\ IF connected /\ pipe # None
     THEN /\ pending' = pending \cup {r}
          /\ tracked' = tracked \cup {r}
          /\ timer' = [timer EXCEPT ![r] = "on"]
          /\ up' = IF HungUp(pipe) THEN up ELSE [up EXCEPT ![pipe] = Append(@, r)]
          /\ scheduled' = IF HungUp(pipe) THEN Append(rest, Disconnect) ELSE rest
          /\ UNCHANGED <<line, down, pipe, connected, reading, settled, reentered>>
     ELSE Outcome(r, rest, down)
  /\ UNCHANGED <<serverVars, shown>>
-----------------------------------------------------------------------------
(* The user.                                                               *)

\* A command that wants the connection looks at the state's copy first.
Command(r) == r \in Commands /\ shown /\ Request(r, scheduled)

\* AlchemistStart makes a new pipe, whether there is one or not.
Connect(k) ==
  /\ line[k] = "unused" /\ \A q \in Pipes : q < k => line[q] # "unused"
  /\ line' = [line EXCEPT ![k] = "connecting"]
  /\ pipe' = k
  /\ UNCHANGED <<up, down, serverVars, connected, pending, timer, reading,
                 scheduled, shown, tracked, settled, reentered>>
-----------------------------------------------------------------------------
(* Callbacks of libuv.                                                     *)

\* Mutant: reading starts without a look at the pipe there is.
ReadsAnyPipe(k) ==
  /\ line[k] = "connecting"
  /\ line' = [line EXCEPT ![k] = "open"]
  /\ connected' = TRUE
  /\ reading' = reading \cup {pipe}
  /\ scheduled' = scheduled \o <<Update(TRUE), Initialize(k)>>
  /\ Accept(k)
  /\ UNCHANGED <<up, down, serving, clientIds, registered, pipe, pending, timer,
                 shown, tracked, settled, reentered>>

\* The daemon is there and takes the connection on.  The pipe then read is the one of the moment: another
\* Start may have put one there that cannot be read yet, a disconnect none.
Connected(k) ==
  /\ line[k] = "connecting"
  /\ line' = [line EXCEPT ![k] = "open"]
  /\ connected' = TRUE
  /\ reading' = IF pipe # None /\ line'[pipe] = "open" THEN reading \cup {pipe} ELSE reading
  /\ scheduled' = IF pipe = None THEN Append(scheduled, Update(TRUE))
                  ELSE scheduled \o <<Update(TRUE), Initialize(k)>>
  /\ Accept(k)
  /\ UNCHANGED <<up, down, serving, clientIds, registered, pipe, pending, timer,
                 shown, tracked, settled, reentered>>

\* It is not, or the pipe was closed meanwhile: whatever pipe is the one of the
\* moment is closed.  What was written to the pipe fails.
ConnectFails(k) ==
  /\ line[k] \in {"connecting", "cancelled"}
  /\ line' = [q \in Pipes |-> IF q = k THEN "failed" ELSE IF q # pipe THEN line[q]
                ELSE IF line[q] = "connecting" THEN "cancelled" ELSE "closed"]
  /\ down' = [q \in Pipes |-> IF q = pipe THEN <<>> ELSE down[q]]
  /\ reading' = reading \ {pipe}
  /\ pipe' = None
  /\ up' = [up EXCEPT ![k] = <<>>]
  /\ scheduled' = IF up[k] = <<>> THEN scheduled ELSE Append(scheduled, Disconnect)
  /\ UNCHANGED <<serverVars, connected, pending, timer, shown, tracked, settled, reentered>>

\* _handle_response.
Receive(k) ==
  /\ k \in reading /\ down[k] # <<>>
  /\ LET left == [down EXCEPT ![k] = Tail(@)]
     IN  IF Head(down[k]) \in pending
         THEN Outcome(Head(down[k]), scheduled, left)
         ELSE /\ down' = left
              /\ UNCHANGED <<line, up, pipe, connected, pending, timer, reading,
                             scheduled, tracked, settled, reentered>>
  /\ UNCHANGED <<serverVars, shown>>

\* The end of the stream, or an error instead of what was still to be read.
ReadEnds(k) ==
  /\ k \in reading /\ HungUp(k)
  /\ down' = [down EXCEPT ![k] = <<>>]
  /\ reading' = reading \ {k}
  /\ scheduled' = Append(scheduled, Disconnect)
  /\ UNCHANGED <<line, up, serverVars, pipe, connected, pending, timer, shown,
                 tracked, settled, reentered>>

TimerFires(r) ==
  /\ timer[r] = "on" /\ Len(scheduled) <= QueueBound
  /\ timer' = [timer EXCEPT ![r] = "due"]
  /\ scheduled' = Append(scheduled, Timeout(r))
  /\ UNCHANGED <<ipcVars, pipe, connected, pending, reading, shown, tracked,
                 settled, reentered>>
-----------------------------------------------------------------------------
(* The queue of vim.schedule.                                              *)

Scheduled(what) == scheduled # <<>> /\ Head(scheduled).do = what

\* Mutant: the timeout is reported without a look at what is pending.
TimeoutAnyway ==
  /\ Scheduled("timeout")
  /\ Outcome(Head(scheduled).of, Tail(scheduled), down)
  /\ UNCHANGED <<serverVars, shown>>

\* The callback of r's timer: nothing, if r has its outcome by now.
RunTimeout ==
  /\ Scheduled("timeout")
  /\ LET r == Head(scheduled).of
     IN  IF r \in pending
         THEN Outcome(r, Tail(scheduled), down)
         ELSE /\ scheduled' = Tail(scheduled)
              /\ UNCHANGED <<line, up, down, pipe, connected, pending, timer,
                             reading, tracked, settled, reentered>>
  /\ UNCHANGED <<serverVars, shown>>

RunDisconnect ==
  /\ Scheduled("disconnect")
  /\ HandleDisconnect(pending, {}, Tail(scheduled), down)
  /\ UNCHANGED <<up, serverVars, shown, tracked>>

\* Mutant: false stands for "no change", as nil does.
UpdateTrueOnly ==
  /\ Scheduled("update")
  /\ shown' = (shown \/ Head(scheduled).connected)
  /\ scheduled' = Tail(scheduled)
  /\ UNCHANGED <<ipcVars, pipe, connected, pending, timer, reading, tracked, settled, reentered>>

\* state.update.
RunUpdate ==
  /\ Scheduled("update")
  /\ shown' = Head(scheduled).connected
  /\ tracked' = IF Head(scheduled).connected THEN tracked ELSE {}
  /\ scheduled' = Tail(scheduled)
  /\ UNCHANGED <<ipcVars, pipe, connected, pending, timer, reading, settled, reentered>>

\* methods.initialize.
RunInitialize == Scheduled("initialize") /\ Request(Head(scheduled).of, Tail(scheduled))

\* The queue is run until it is empty before anything else happens in Neovim;
\* what the daemon does meanwhile it might as well do before or after.
RunScheduled ==
  /\ RunTimeout \/ RunDisconnect \/ RunUpdate \/ RunInitialize
  /\ draining' = (scheduled' # <<>>)

Otherwise(step) == ~draining /\ step /\ UNCHANGED draining

User == (\E r \in Requests : Command(r)) \/ (\E k \in Pipes : Connect(k))

Callback(k) == Connected(k) \/ ConnectFails(k) \/ Receive(k) \/ ReadEnds(k)

\* What comes about by itself: timers run down, the two loops run what is ready,
\* the sockets give what they have.
Progress ==
  \/ RunScheduled
  \/ \E r \in Requests : Otherwise(TimerFires(r))
  \/ \E k \in Pipes : Otherwise(Callback(k))
  \/ \E k \in Pipes : Otherwise(HandlerStep(k) /\ UNCHANGED clientVars)

Next ==
  \/ Progress
  \/ Otherwise(User)
  \/ Otherwise(Die /\ UNCHANGED clientVars)
  \/ \E k \in Pipes : Otherwise(ProcessEnds(k) /\ UNCHANGED clientVars)

Spec == Init /\ [][Next]_vars

\* A process need not end, nor does the user do anything.  Requests and pipes are
\* finitely many, so it is enough that something of this happens while it can.
Fairness == WF_vars(Progress)

FairSpec == Spec /\ Fairness
-----------------------------------------------------------------------------
(* Properties.                                                             *)

\* Every variable keeps to its set.
TypeOK ==
  /\ ServerTypeOK
  /\ pipe \in Pipes \cup {None}
  /\ connected \in BOOLEAN
  /\ pending \subseteq Requests
  /\ timer \in [Requests -> {"off", "on", "due"}]
  /\ reading \subseteq Pipes
  /\ scheduled \in Seq(Events)
  /\ shown \in BOOLEAN
  /\ tracked \subseteq Requests
  /\ settled \in [Requests -> 0 .. 2]
  /\ draining \in BOOLEAN
  /\ reentered \in BOOLEAN

\* Of the answer, the timeout and the loss of the connection only one reaches
\* the callbacks of a request, whichever order they come in - unless the
\* connection was lost under a stop request.
SettledOnce == ~reentered => \A r \in Requests : settled[r] <= 1

\* When nothing waits to be run, the state that commands look at agrees with
\* the connection, although it changes later than the connection does, and
\* lists no request that has its outcome.
CopyCatchesUp == scheduled = <<>> => shown = connected /\ tracked \subseteq pending

\* A request that was made gets an outcome, whatever becomes of the daemon, the
\* connection or the process it started.
RequestSettles == \A r \in Requests : r \in pending ~> settled[r] > 0

\* A connection that the client has closed ends in the daemon, and with it its
\* count and its client_id, unless a process still runs on its behalf.
ClosedConnectionEnds ==
  \A k \in Pipes : line[k] = "closed" ~> handler[k] \in {"none", "gone"} \/ RunsProcess(k)
=============================================================================
