-------------------------- MODULE IpcSessionProofs --------------------------
(***************************************************************************)
(* Theorems about IpcSession: each request is settled once, for any        *)
(* requests, any number of connections and any queue.                      *)
(***************************************************************************)
EXTENDS IpcSession, SequenceTheorems, TLAPS

Answers == [Pipes -> Seq(Requests \cup {None})]

\* What the outcome of a request touches.
OutcomeTypes ==
  /\ line \in [Pipes -> lineStates] /\ down \in Answers
  /\ pipe \in Pipes \cup {None} /\ connected \in BOOLEAN
  /\ pending \subseteq Requests
  /\ timer \in [Requests -> {"off", "on", "due"}]
  /\ reading \subseteq Pipes
  /\ scheduled \in Seq(Events)
  /\ settled \in [Requests -> 0 .. 2]
  /\ reentered \in BOOLEAN

\* What it does not touch, up apart.
OtherTypes ==
  /\ handler \in [Pipes -> handlerStates]
  /\ serving \in [Pipes -> Requests \cup {None}]
  /\ clientIds \subseteq Pipes
  /\ registered \in Pipes \cup {None}
  /\ shown \in BOOLEAN

UpType == up \in [Pipes -> Seq(Requests)]

\* The callbacks of a pending request were not called.
CallsInv ==
  \A r \in Requests : /\ r \in pending => settled[r] = 0
                      /\ ~reentered => settled[r] <= 1

SessionInv == OutcomeTypes /\ OtherTypes /\ UpType /\ tracked \subseteq Requests
              /\ draining \in BOOLEAN /\ CallsInv

LEMMA SessionInitially == Init => SessionInv
<1> SUFFICES ASSUME Init PROVE SessionInv
  OBVIOUS
<1>1. /\ line \in [Pipes -> lineStates] /\ handler \in [Pipes -> handlerStates]
      /\ up \in [Pipes -> Seq(Requests)] /\ down \in Answers
  BY DEF Init, ServerInit, Answers, lineStates, handlerStates
<1>2. /\ timer \in [Requests -> {"off", "on", "due"}] /\ settled \in [Requests -> 0 .. 2]
      /\ scheduled \in Seq(Events) /\ serving \in [Pipes -> Requests \cup {None}]
  BY DEF Init, ServerInit
<1>3. CallsInv
  BY DEF Init, CallsInv
<1> QED BY <1>1, <1>2, <1>3 DEF Init, ServerInit, SessionInv, OutcomeTypes, OtherTypes, UpType

LEMMA EventFacts ==
  /\ \A r \in Requests : Timeout(r) \in Events /\ Initialize(r) \in Events
  /\ Disconnect \in Events
  /\ \A b \in BOOLEAN : Update(b) \in Events
  /\ \A e \in Events : e.do \in {"timeout", "initialize"} => e.of \in Requests
  /\ \A e \in Events : e.do = "update" => e.connected \in BOOLEAN
BY DEF Events, Timeout, Initialize, Disconnect, Update

LEMMA LongerQueue ==
  ASSUME NEW s \in Seq(Events), NEW e \in Events, NEW f \in Events
  PROVE  Append(s, e) \in Seq(Events) /\ s \o <<e, f>> \in Seq(Events)
OBVIOUS

LEMMA CallFacts ==
  ASSUME settled \in [Requests -> 0 .. 2], NEW s, NEW t, NEW often \in {0, 1, 2}, Call(s, t, often)
  PROVE  /\ settled' \in [Requests -> 0 .. 2]
         /\ \A r \in Requests : r \notin s /\ r \notin t => settled'[r] = settled[r]
         /\ \A r \in Requests : r \notin t /\ settled[r] = 0 => settled'[r] <= 1
         /\ \A r \in Requests : r \notin s /\ settled[r] = 0 /\ often <= 1 => settled'[r] <= 1
BY DEF Call

LEMMA CloseFacts ==
  ASSUME OutcomeTypes, NEW answers \in Answers, Close(answers)
  PROVE  /\ line' \in [Pipes -> lineStates] /\ down' \in Answers
         /\ reading' \subseteq Pipes /\ pipe' \in Pipes \cup {None}
BY IpcAssumption DEF OutcomeTypes, Close, Answers, lineStates

LEMMA DisconnectKeeps ==
  ASSUME OutcomeTypes, CallsInv,
         NEW left \in SUBSET pending, NEW done \in SUBSET Requests, left \cap done = {},
         \A r \in done : settled[r] = 0,
         NEW rest \in Seq(Events), NEW answers \in Answers,
         HandleDisconnect(left, done, rest, answers)
  PROVE  OutcomeTypes' /\ CallsInv'
<1> DEFINE again == \E r \in left : IsStop(r)
<1>1. PICK often \in {1, 2} : Call(done, left, often) /\ (often = 1 <=> ~again)
  BY DEF HandleDisconnect
<1>2. reentered' = (reentered \/ again) /\ reentered' \in BOOLEAN
  BY DEF HandleDisconnect, OutcomeTypes
<1> HIDE DEF again
<1>3. /\ settled' \in [Requests -> 0 .. 2]
      /\ \A r \in Requests : r \notin done /\ r \notin left => settled'[r] = settled[r]
      /\ \A r \in Requests : r \notin left /\ settled[r] = 0 => settled'[r] <= 1
      /\ \A r \in Requests : r \notin done /\ settled[r] = 0 /\ often <= 1 => settled'[r] <= 1
  BY <1>1, CallFacts DEF OutcomeTypes
<1>4. pending' = {} /\ connected' = FALSE /\ scheduled' = Append(rest, Update(FALSE))
  BY DEF HandleDisconnect
<1>5. scheduled' \in Seq(Events)
  <2>1. Update(FALSE) \in Events
    BY EventFacts
  <2> QED BY <1>4, <2>1, LongerQueue
<1>6. timer' \in [Requests -> {"off", "on", "due"}]
  BY DEF HandleDisconnect, StopTimers, OutcomeTypes
<1>7. Close(answers)
  BY DEF HandleDisconnect
<1>8. ASSUME ~reentered', NEW r \in Requests PROVE settled'[r] <= 1
  <2>1. often = 1 /\ ~reentered
    BY <1>1, <1>2, <1>8
  <2>2. r \in pending => settled[r] = 0
    BY DEF CallsInv
  <2>3. settled[r] <= 1
    BY <2>1 DEF CallsInv
  <2> QED BY <1>3, <2>1, <2>2, <2>3
<1>9. OutcomeTypes'
  BY <1>2, <1>3, <1>4, <1>5, <1>6, <1>7, CloseFacts DEF OutcomeTypes, Answers
<1>10. CallsInv'
  BY <1>4, <1>8 DEF CallsInv
<1> QED BY <1>9, <1>10

LEMMA OutcomeKeeps ==
  ASSUME SessionInv, NEW r \in Requests, settled[r] = 0,
         NEW rest \in Seq(Events), NEW answers \in Answers,
         Outcome(r, rest, answers)
  PROVE  OutcomeTypes' /\ CallsInv' /\ UpType' /\ tracked' \subseteq Requests
<1>1. tracked' \subseteq Requests
  BY DEF Outcome, SessionInv
<1>2. CASE IsStop(r) /\ HandleDisconnect(pending \ {r}, {r}, rest, answers) /\ UNCHANGED up
  <2>1. OutcomeTypes' /\ CallsInv'
    BY <1>2, DisconnectKeeps DEF SessionInv
  <2> QED BY <1>1, <1>2, <2>1 DEF SessionInv, UpType
<1>3. CASE /\ pending' = pending \ {r} /\ Call({r}, {}, 0) /\ StopTimers({r})
           /\ scheduled' = rest /\ down' = answers
           /\ UNCHANGED <<line, up, pipe, connected, reading, reentered>>
  <2>1. /\ settled' \in [Requests -> 0 .. 2]
        /\ \A q \in Requests : q # r => settled'[q] = settled[q]
        /\ settled'[r] <= 1
    BY <1>3, CallFacts DEF SessionInv, OutcomeTypes
  <2>2. timer' \in [Requests -> {"off", "on", "due"}]
    BY <1>3 DEF StopTimers, SessionInv, OutcomeTypes
  <2>3. OutcomeTypes'
    BY <1>3, <2>1, <2>2 DEF SessionInv, OutcomeTypes, Answers
  <2>4. CallsInv'
    BY <1>3, <2>1 DEF SessionInv, CallsInv
  <2> QED BY <1>1, <1>3, <2>3, <2>4 DEF SessionInv, UpType
<1> QED BY <1>2, <1>3 DEF Outcome

\* A request that was never made is made or fails at once.
LEMMA RequestKeeps ==
  ASSUME SessionInv, NEW r \in Requests, NEW rest \in Seq(Events), Request(r, rest), draining' \in BOOLEAN
  PROVE  SessionInv'
<1>0. OtherTypes' /\ settled[r] = 0 /\ r \notin pending
  BY DEF Request, serverVars, SessionInv, OtherTypes
<1>1. CASE connected /\ pipe # None
  <2>1. /\ pending' = pending \cup {r}
        /\ tracked' = tracked \cup {r}
        /\ timer' = [timer EXCEPT ![r] = "on"]
        /\ up' = IF HungUp(pipe) THEN up ELSE [up EXCEPT ![pipe] = Append(@, r)]
        /\ scheduled' = IF HungUp(pipe) THEN Append(rest, Disconnect) ELSE rest
        /\ UNCHANGED <<line, down, pipe, connected, reading, settled, reentered>>
    BY <1>1 DEF Request
  <2>2. scheduled' \in Seq(Events)
    BY <2>1, EventFacts
  <2>3. UpType'
    BY <1>1, <2>1 DEF SessionInv, OutcomeTypes, UpType
  <2>4. OutcomeTypes'
    BY <2>1, <2>2 DEF SessionInv, OutcomeTypes, Answers
  <2>5. CallsInv'
    BY <1>0, <2>1 DEF SessionInv, CallsInv
  <2>6. tracked' \subseteq Requests
    BY <2>1 DEF SessionInv
  <2> QED BY <1>0, <2>3, <2>4, <2>5, <2>6 DEF SessionInv
<1>2. CASE ~(connected /\ pipe # None)
  <2>1. Outcome(r, rest, down) /\ down \in Answers
    BY <1>2 DEF Request, SessionInv, OutcomeTypes
  <2> QED BY <1>0, <2>1, OutcomeKeeps DEF SessionInv
<1> QED BY <1>1, <1>2
-----------------------------------------------------------------------------
(* Steps that settle nothing.                                              *)

Settling == <<pending, settled, reentered>>

LEMMA CallsUnchanged ==
  ASSUME CallsInv, UNCHANGED Settling
  PROVE  CallsInv'
BY DEF CallsInv, Settling

LEMMA WriteFacts ==
  ASSUME SessionInv, NEW k \in Pipes, NEW answer \in Requests \cup {None}, Write(k, answer)
  PROVE  down' \in Answers
BY DEF Write, SessionInv, OutcomeTypes, Answers

LEMMA FinishFacts ==
  ASSUME SessionInv, NEW k \in Pipes, Finish(k)
  PROVE  handler' \in [Pipes -> handlerStates] /\ UpType' /\ registered' \in Pipes \cup {None}
BY DEF Finish, Goto, SessionInv, OtherTypes, UpType, handlerStates

LEMMA FrameFacts ==
  ASSUME SessionInv, NEW k \in Pipes, Reads(k)
  PROVE  Frame(k) \in Requests /\ Tail(up[k]) \in Seq(Requests)
BY DEF Reads, Frame, SessionInv, UpType

\* The daemon, which the client's variables do not notice.
LEMMA DaemonKeeps ==
  ASSUME SessionInv, UNCHANGED clientVars, draining' \in BOOLEAN,
         Die \/ \E k \in Pipes : HandlerStep(k) \/ ProcessEnds(k)
  PROVE  SessionInv'
<1> USE DEF clientVars
<1>1. CallsInv' /\ tracked' \subseteq Requests /\ shown' \in BOOLEAN
  BY CallsUnchanged DEF Settling, SessionInv, OtherTypes
<1>2. CASE Die
  <2>1. UpType' /\ OtherTypes'
    BY <1>2 DEF Die, SessionInv, UpType, OtherTypes, handlerStates
  <2>2. OutcomeTypes'
    BY <1>2 DEF Die, SessionInv, OutcomeTypes, Answers
  <2> QED BY <1>1, <2>1, <2>2 DEF SessionInv
<1>3. ASSUME NEW k \in Pipes, line' = line, down' \in Answers, OtherTypes', UpType'
      PROVE  SessionInv'
  BY <1>1, <1>3 DEF SessionInv, OutcomeTypes
<1>4. ASSUME NEW k \in Pipes, TooLarge(k) PROVE SessionInv'
  BY <1>1, <1>3, <1>4, WriteFacts, FinishFacts DEF TooLarge, SessionInv, OtherTypes
<1>5. ASSUME NEW k \in Pipes, NotUtf8(k) \/ WriteFails(k) \/ EndOfInput(k) PROVE SessionInv'
  <2>1. serving' \in [Pipes -> Requests \cup {None}]
    BY <1>5 DEF NotUtf8, WriteFails, EndOfInput, SessionInv, OtherTypes
  <2> QED BY <1>1, <1>3, <1>5, <2>1, FinishFacts
          DEF NotUtf8, WriteFails, EndOfInput, SessionInv, OtherTypes, OutcomeTypes
<1>6. ASSUME NEW k \in Pipes, Dispatch(k) PROVE SessionInv'
  <2>1. UpType' /\ OtherTypes'
    BY <1>1, <1>6, FrameFacts DEF Dispatch, Goto, SessionInv, UpType, OtherTypes, handlerStates
  <2> QED BY <1>3, <1>6, <2>1 DEF Dispatch, SessionInv, OutcomeTypes
<1>7. ASSUME NEW k \in Pipes, Respond(k) PROVE SessionInv'
  <2>1. serving[k] \in Requests \cup {None}
    BY DEF SessionInv, OtherTypes
  <2>2. down' \in Answers
    BY <1>7, <2>1, WriteFacts DEF Respond
  <2>3. OtherTypes'
    BY <1>1, <1>7 DEF Respond, Goto, SessionInv, OtherTypes, handlerStates
  <2> QED BY <1>3, <1>7, <2>2, <2>3 DEF Respond, SessionInv, UpType
<1> QED BY <1>2, <1>4, <1>5, <1>6, <1>7 DEF HandlerStep, Serve, ProcessEnds

LEMMA ConnectKeeps ==
  ASSUME SessionInv, NEW k \in Pipes, Connect(k) \/ Connected(k) \/ ConnectFails(k) \/ ReadEnds(k),
         draining' \in BOOLEAN
  PROVE  SessionInv'
<1> USE DEF SessionInv
<1>1. CallsInv' /\ tracked' \subseteq Requests
  BY CallsUnchanged DEF Settling, Connect, Connected, ConnectFails, ReadEnds
<1>2. CASE Connect(k)
  BY <1>1, <1>2 DEF Connect, serverVars, OutcomeTypes, OtherTypes, UpType, Answers, lineStates
<1>3. CASE Connected(k)
  <2>1. scheduled' \in Seq(Events)
    <3>1. Update(TRUE) \in Events /\ Initialize(k) \in Events
      BY EventFacts DEF Requests
    <3>2. scheduled \in Seq(Events)
      BY DEF OutcomeTypes
    <3>3. scheduled' = Append(scheduled, Update(TRUE)) \/ scheduled' = scheduled \o <<Update(TRUE), Initialize(k)>>
      BY <1>3 DEF Connected
    <3> QED BY <3>1, <3>2, <3>3, LongerQueue
  <2>2. OtherTypes'
    BY <1>3 DEF Connected, Accept, Goto, OtherTypes, handlerStates
  <2>3. line' \in [Pipes -> lineStates] /\ reading' \subseteq Pipes
    BY <1>3 DEF Connected, OutcomeTypes, lineStates
  <2> QED BY <1>1, <1>3, <2>1, <2>2, <2>3 DEF Connected, OutcomeTypes, UpType, Answers
<1>4. CASE ConnectFails(k)
  <2>1. scheduled' \in Seq(Events)
    BY <1>4, EventFacts DEF ConnectFails, OutcomeTypes
  <2>2. line' \in [Pipes -> lineStates] /\ down' \in Answers
    BY <1>4 DEF ConnectFails, OutcomeTypes, lineStates, Answers
  <2>3. UpType' /\ OtherTypes'
    BY <1>4 DEF ConnectFails, serverVars, UpType, OtherTypes
  <2> QED BY <1>1, <1>4, <2>1, <2>2, <2>3 DEF ConnectFails, OutcomeTypes
<1>5. CASE ReadEnds(k)
  <2>1. scheduled' \in Seq(Events)
    BY <1>5, EventFacts DEF ReadEnds, OutcomeTypes
  <2>2. down' \in Answers
    BY <1>5 DEF ReadEnds, OutcomeTypes, Answers
  <2> QED BY <1>1, <1>5, <2>1, <2>2 DEF ReadEnds, serverVars, OutcomeTypes, OtherTypes, UpType
<1> QED BY <1>2, <1>3, <1>4, <1>5

LEMMA TimerKeeps ==
  ASSUME SessionInv, NEW r \in Requests, TimerFires(r), draining' \in BOOLEAN
  PROVE  SessionInv'
<1>1. CallsInv'
  BY CallsUnchanged DEF Settling, TimerFires, SessionInv
<1>2. scheduled' \in Seq(Events)
  BY EventFacts DEF TimerFires, SessionInv, OutcomeTypes
<1> QED BY <1>1, <1>2 DEF TimerFires, ipcVars, SessionInv, OutcomeTypes, OtherTypes, UpType, Answers
-----------------------------------------------------------------------------
(* Steps that settle requests.                                             *)

LEMMA ReceiveKeeps ==
  ASSUME SessionInv, NEW k \in Pipes, Receive(k), draining' \in BOOLEAN
  PROVE  SessionInv'
<1> DEFINE left == [down EXCEPT ![k] = Tail(@)]
<1>1. left \in Answers
  BY DEF Receive, SessionInv, OutcomeTypes, Answers
<1>2. OtherTypes'
  BY DEF Receive, serverVars, SessionInv, OtherTypes
<1> DEFINE r == Head(down[k])
<1>3. CASE r \in pending
  <2>1. Outcome(r, scheduled, left) /\ r \in Requests /\ settled[r] = 0 /\ scheduled \in Seq(Events)
    BY <1>3 DEF Receive, SessionInv, OutcomeTypes, CallsInv
  <2> HIDE DEF left, r
  <2> QED BY <1>1, <1>2, <2>1, OutcomeKeeps DEF SessionInv
<1>4. CASE r \notin pending
  <2>1. CallsInv' /\ down' = left
    BY <1>4, CallsUnchanged DEF Settling, Receive, SessionInv
  <2> HIDE DEF left
  <2> QED BY <1>1, <1>2, <1>4, <2>1 DEF Receive, SessionInv, OutcomeTypes, UpType
<1> QED BY <1>3, <1>4

LEMMA HeadFacts ==
  ASSUME SessionInv, scheduled # <<>>
  PROVE  Head(scheduled) \in Events /\ Tail(scheduled) \in Seq(Events)
BY DEF SessionInv, OutcomeTypes

LEMMA ScheduledKeeps ==
  ASSUME SessionInv, RunScheduled
  PROVE  SessionInv'
<1> DEFINE e == Head(scheduled)
           rest == Tail(scheduled)
<1>0. scheduled # <<>> /\ draining' \in BOOLEAN
  BY DEF RunScheduled, RunTimeout, RunDisconnect, RunUpdate, RunInitialize, Scheduled
<1>1. e \in Events /\ rest \in Seq(Events) /\ down \in Answers
  BY <1>0, HeadFacts DEF SessionInv, OutcomeTypes
<1>2. CASE RunTimeout
  <2>1. OtherTypes'
    BY <1>2 DEF RunTimeout, serverVars, SessionInv, OtherTypes
  <2>2. CASE e.of \in pending
    <3>1. Outcome(e.of, rest, down) /\ e.of \in Requests /\ settled[e.of] = 0
      BY <1>2, <2>2 DEF RunTimeout, SessionInv, OutcomeTypes, CallsInv
    <3> HIDE DEF e, rest
    <3> QED BY <1>0, <1>1, <2>1, <3>1, OutcomeKeeps DEF SessionInv
  <2>3. CASE e.of \notin pending
    <3>1. CallsInv' /\ scheduled' = rest
      BY <1>2, <2>3, CallsUnchanged DEF Settling, RunTimeout, SessionInv
    <3> HIDE DEF rest
    <3> QED BY <1>0, <1>1, <1>2, <2>1, <2>3, <3>1
            DEF RunTimeout, SessionInv, OutcomeTypes, UpType, Answers
  <2> QED BY <2>2, <2>3
<1>3. CASE RunDisconnect
  <2>1. HandleDisconnect(pending, {}, rest, down)
    BY <1>3 DEF RunDisconnect
  <2> HIDE DEF rest
  <2>2. OutcomeTypes' /\ CallsInv'
    BY <1>1, <2>1, DisconnectKeeps DEF SessionInv
  <2> QED BY <1>0, <1>3, <2>2 DEF RunDisconnect, serverVars, SessionInv, OtherTypes, UpType
<1>4. CASE RunUpdate
  <2>1. e.connected \in BOOLEAN
    BY <1>1, <1>4, EventFacts DEF RunUpdate, Scheduled
  <2>2. CallsInv' /\ shown' = e.connected /\ scheduled' = rest /\ tracked' \subseteq Requests
    BY <1>4, CallsUnchanged DEF Settling, RunUpdate, SessionInv
  <2> HIDE DEF e, rest
  <2> QED BY <1>0, <1>1, <1>4, <2>1, <2>2
          DEF RunUpdate, ipcVars, SessionInv, OutcomeTypes, OtherTypes, UpType, Answers
<1>5. CASE RunInitialize
  <2>1. e.of \in Requests /\ Request(e.of, rest)
    BY <1>1, <1>5, EventFacts DEF RunInitialize, Scheduled
  <2> HIDE DEF e, rest
  <2> QED BY <1>0, <1>1, <2>1, RequestKeeps
<1> QED BY <1>2, <1>3, <1>4, <1>5 DEF RunScheduled

LEMMA SessionUnchanged == SessionInv /\ UNCHANGED vars => SessionInv'
BY DEF vars, ipcVars, clientVars, SessionInv, OutcomeTypes, OtherTypes, UpType, CallsInv, Answers

\* The invariant of the session: a pending request was not called back, any other
\* at most once, unless the connection was lost under a stop request.
THEOREM SessionInvariance == Spec => []SessionInv
<1>1. SessionInv /\ [Next]_vars => SessionInv'
  <2> SUFFICES ASSUME SessionInv, [Next]_vars PROVE SessionInv'
    OBVIOUS
  <2>0. draining \in BOOLEAN
    BY DEF SessionInv
  <2>1. ASSUME NEW r \in Requests, Otherwise(Command(r)) PROVE SessionInv'
    BY <2>0, <2>1, RequestKeeps DEF Otherwise, Command, SessionInv, OutcomeTypes
  <2>2. ASSUME NEW k \in Pipes, Otherwise(Connect(k)) \/ Otherwise(Callback(k)) PROVE SessionInv'
    BY <2>0, <2>2, ConnectKeeps, ReceiveKeeps DEF Otherwise, Callback
  <2>3. Otherwise(User) => SessionInv'
    BY <2>1, <2>2 DEF Otherwise, User
  <2>4. ASSUME NEW r \in Requests, Otherwise(TimerFires(r)) PROVE SessionInv'
    BY <2>0, <2>4, TimerKeeps DEF Otherwise
  <2>5. ASSUME NEW k \in Pipes,
               \/ Otherwise(HandlerStep(k) /\ UNCHANGED clientVars)
               \/ Otherwise(ProcessEnds(k) /\ UNCHANGED clientVars)
        PROVE  SessionInv'
    BY <2>0, <2>5, DaemonKeeps DEF Otherwise
  <2>6. Otherwise(Die /\ UNCHANGED clientVars) => SessionInv'
    BY <2>0, DaemonKeeps DEF Otherwise
  <2> QED BY <2>2, <2>3, <2>4, <2>5, <2>6, ScheduledKeeps, SessionUnchanged DEF Next, Progress
<1> QED BY SessionInitially, <1>1, PTL DEF Spec

\* Every variable keeps to its set.
THEOREM SessionTypes == Spec => []TypeOK
<1>1. SessionInv => TypeOK
  BY DEF SessionInv, OutcomeTypes, OtherTypes, UpType, Answers, TypeOK, ServerTypeOK
<1> QED BY SessionInvariance, <1>1, PTL

\* Of an answer, a time-out and the loss of the connection only one reaches a
\* request, in any order they come in.
THEOREM RequestsSettleOnce == Spec => []SettledOnce
<1>1. SessionInv => SettledOnce
  BY DEF SessionInv, CallsInv, SettledOnce
<1> QED BY SessionInvariance, <1>1, PTL
-----------------------------------------------------------------------------
(* The state's copy catches up.                                            *)

\* When what waits in q has been run, a copy that is s now will be c.
Becomes(q, s, c) ==
  /\ \A i \in DOMAIN q :
       q[i].do = "update" /\ (\A k \in DOMAIN q : k > i => q[k].do # "update")
         => q[i].connected = c
  /\ (\A i \in DOMAIN q : q[i].do # "update") => s = c

\* Nothing in q will empty pending_requests.
NoLossIn(q) == \A i \in DOMAIN q : q[i] # Update(FALSE)

\* The copy of `connected` becomes `connected`; a request that is listed is
\* pending, unless the list is going to be emptied.
CopyInv ==
  /\ Becomes(scheduled, shown, connected)
  /\ NoLossIn(scheduled) => tracked \subseteq pending

LEMMA AppendIndices ==
  ASSUME NEW q \in Seq(Events), NEW e \in Events
  PROVE  /\ DOMAIN Append(q, e) = DOMAIN q \cup {Len(q) + 1}
         /\ \A i \in DOMAIN q : Append(q, e)[i] = q[i] /\ i < Len(q) + 1 /\ i \in Nat
         /\ Append(q, e)[Len(q) + 1] = e
         /\ Append(q, e) \in Seq(Events) /\ Len(q) + 1 \in Nat
OBVIOUS

LEMMA AppendTwo ==
  ASSUME NEW q \in Seq(Events), NEW e \in Events, NEW f \in Events
  PROVE  Append(q, e) \in Seq(Events) /\ q \o <<e, f>> = Append(Append(q, e), f)
<1>1. Append(q, e) \in Seq(Events) /\ q \o <<e, f>> \in Seq(Events)
      /\ Append(Append(q, e), f) \in Seq(Events)
  BY LongerQueue
<1>2. Len(q \o <<e, f>>) = Len(q) + 2 /\ Len(Append(Append(q, e), f)) = Len(q) + 2
  OBVIOUS
<1>3. \A i \in 1 .. Len(q) + 2 : (q \o <<e, f>>)[i] = Append(Append(q, e), f)[i]
  OBVIOUS
<1> QED BY <1>1, <1>2, <1>3, SeqEqual

\* The last update decides.
LEMMA AppendUpdate ==
  ASSUME NEW q \in Seq(Events), NEW b \in BOOLEAN, NEW s
  PROVE  /\ Becomes(Append(q, Update(b)), s, b)
         /\ NoLossIn(Append(q, Update(b))) => b /\ NoLossIn(q)
<1> DEFINE n == Len(q) + 1
           r == Append(q, Update(b))
<1>1. Update(b) \in Events /\ Update(b).do = "update" /\ Update(b).connected = b
  BY DEF Update, Events
<1>2. /\ DOMAIN r = DOMAIN q \cup {n} /\ r[n] = Update(b)
      /\ \A i \in DOMAIN q : r[i] = q[i] /\ n > i
  BY <1>1, AppendIndices
<1> HIDE DEF r, n
<1>3. Becomes(r, s, b)
  BY <1>1, <1>2 DEF Becomes
<1>4. NoLossIn(r) => b /\ NoLossIn(q)
  BY <1>2 DEF NoLossIn
<1> QED BY <1>3, <1>4 DEF r

\* What is no update changes nothing.
LEMMA AppendOther ==
  ASSUME NEW q \in Seq(Events), NEW e \in Events, e.do # "update", NEW s, NEW c,
         Becomes(q, s, c)
  PROVE  Becomes(Append(q, e), s, c) /\ (NoLossIn(Append(q, e)) => NoLossIn(q))
<1> DEFINE n == Len(q) + 1
           r == Append(q, e)
<1>1. /\ DOMAIN r = DOMAIN q \cup {n} /\ r[n] = e
      /\ \A i \in DOMAIN q : r[i] = q[i] /\ i < n /\ i \in Nat
      /\ n \in Nat
  BY AppendIndices
<1> HIDE DEF r, n
<1>2. \A i \in DOMAIN q : (\A k \in DOMAIN r : k > i => r[k].do # "update")
                            => (\A k \in DOMAIN q : k > i => q[k].do # "update")
  BY <1>1
<1>3. Becomes(r, s, c)
  BY <1>1, <1>2 DEF Becomes
<1>4. NoLossIn(r) => NoLossIn(q)
  BY <1>1 DEF NoLossIn
<1> QED BY <1>3, <1>4 DEF r

\* The oldest is run.
LEMMA RunOldest ==
  ASSUME NEW q \in Seq(Events), q # <<>>, NEW s, NEW c, Becomes(q, s, c)
  PROVE  /\ Tail(q) \in Seq(Events) /\ Head(q) \in Events
         /\ Becomes(Tail(q), IF Head(q).do = "update" THEN Head(q).connected ELSE s, c)
         /\ NoLossIn(Tail(q)) /\ Head(q) # Update(FALSE) => NoLossIn(q)
<1> DEFINE r == Tail(q)
           t == IF Head(q).do = "update" THEN Head(q).connected ELSE s
<1>1. /\ \A i \in DOMAIN r : i \in Nat /\ i > 0 /\ i + 1 \in DOMAIN q /\ r[i] = q[i + 1]
      /\ \A i \in DOMAIN q : i \in Nat /\ (i = 1 \/ (i > 1 /\ i - 1 \in DOMAIN r /\ q[i] = r[i - 1]))
      /\ 1 \in DOMAIN q /\ q[1] = Head(q) /\ r \in Seq(Events) /\ Head(q) \in Events
  OBVIOUS
<1> HIDE DEF r
<1>2. ASSUME NEW i \in DOMAIN r, r[i].do = "update",
             \A k \in DOMAIN r : k > i => r[k].do # "update"
      PROVE  r[i].connected = c
  <2>1. ASSUME NEW k \in DOMAIN q, k > i + 1 PROVE q[k].do # "update"
    <3>1. k - 1 \in DOMAIN r /\ k - 1 > i /\ q[k] = r[k - 1]
      BY <1>1, <2>1
    <3> QED BY <1>2, <3>1
  <2> QED BY <1>1, <1>2, <2>1 DEF Becomes
<1>3. ASSUME \A i \in DOMAIN r : r[i].do # "update"
      PROVE  t = c
  <2>1. ASSUME NEW k \in DOMAIN q, k > 1 PROVE q[k].do # "update"
    BY <1>1, <1>3, <2>1
  <2>2. CASE Head(q).do = "update"
    BY <1>1, <2>1, <2>2 DEF Becomes
  <2>3. CASE Head(q).do # "update"
    <3>1. \A k \in DOMAIN q : q[k].do # "update"
      BY <1>1, <2>1, <2>3
    <3> QED BY <2>3, <3>1 DEF Becomes
  <2> QED BY <2>2, <2>3
<1>4. NoLossIn(r) /\ Head(q) # Update(FALSE) => NoLossIn(q)
  BY <1>1 DEF NoLossIn
<1>5. Becomes(r, t, c)
  BY <1>2, <1>3 DEF Becomes
<1> QED BY <1>1, <1>4, <1>5 DEF r

LEMMA OtherEvents ==
  /\ Disconnect \in Events /\ Disconnect.do # "update"
  /\ \A r \in Requests : /\ Timeout(r) \in Events /\ Timeout(r).do # "update"
                         /\ Initialize(r) \in Events /\ Initialize(r).do # "update"
  /\ \A e \in Events : e = Update(FALSE) => e.do = "update" /\ e.connected = FALSE
BY DEF Events, Disconnect, Timeout, Initialize, Update

\* A loss leaves an update that agrees with it, and empties what is listed.
LEMMA LossCopies ==
  ASSUME NEW left, NEW done, NEW rest \in Seq(Events), NEW answers,
         HandleDisconnect(left, done, rest, answers)
  PROVE  CopyInv'
<1>1. connected' = FALSE /\ scheduled' = Append(rest, Update(FALSE))
  BY DEF HandleDisconnect
<1> QED BY <1>1, AppendUpdate DEF CopyInv

LEMMA OutcomeCopies ==
  ASSUME NEW r, NEW rest \in Seq(Events), NEW answers,
         Becomes(rest, shown, connected), NoLossIn(rest) => tracked \subseteq pending,
         Outcome(r, rest, answers), UNCHANGED shown
  PROVE  CopyInv'
<1>1. CASE IsStop(r)
  BY <1>1, LossCopies DEF Outcome
<1>2. CASE ~IsStop(r)
  BY <1>2 DEF Outcome, CopyInv
<1> QED BY <1>1, <1>2

LEMMA RequestCopies ==
  ASSUME NEW r, NEW rest \in Seq(Events), Request(r, rest),
         Becomes(rest, shown, connected), NoLossIn(rest) => tracked \subseteq pending
  PROVE  CopyInv'
<1>0. UNCHANGED shown
  BY DEF Request
<1>1. CASE connected /\ pipe # None
  <2>1. /\ pending' = pending \cup {r} /\ tracked' = tracked \cup {r}
        /\ scheduled' = IF HungUp(pipe) THEN Append(rest, Disconnect) ELSE rest
        /\ UNCHANGED connected
    BY <1>1 DEF Request
  <2>2. Becomes(scheduled', shown, connected) /\ (NoLossIn(scheduled') => NoLossIn(rest))
    BY <2>1, OtherEvents, AppendOther
  <2> QED BY <1>0, <2>1, <2>2 DEF CopyInv
<1>2. CASE ~(connected /\ pipe # None)
  BY <1>0, <1>2, OutcomeCopies DEF Request
<1> QED BY <1>1, <1>2

\* What libuv calls back.
LEMMA CallbackCopies ==
  ASSUME SessionInv, CopyInv, NEW k \in Pipes, Callback(k)
  PROVE  CopyInv'
<1>0. scheduled \in Seq(Events) /\ k \in Requests
  BY DEF SessionInv, OutcomeTypes, Requests
<1>1. CASE Connected(k)
  <2> DEFINE q == Append(scheduled, Update(TRUE))
  <2>1. /\ connected' = TRUE /\ UNCHANGED <<shown, tracked, pending>>
        /\ scheduled' = q \/ scheduled' = scheduled \o <<Update(TRUE), Initialize(k)>>
    BY <1>1 DEF Connected
  <2>2. Update(TRUE) \in Events /\ Initialize(k) \in Events
    BY <1>0, EventFacts
  <2>3. q \in Seq(Events) /\ scheduled \o <<Update(TRUE), Initialize(k)>> = Append(q, Initialize(k))
    BY <1>0, <2>2, AppendTwo
  <2>4. Becomes(q, shown, TRUE) /\ (NoLossIn(q) => NoLossIn(scheduled))
    BY <1>0, AppendUpdate
  <2> HIDE DEF q
  <2>5. Becomes(scheduled', shown, TRUE) /\ (NoLossIn(scheduled') => NoLossIn(scheduled))
    BY <1>0, <2>1, <2>2, <2>3, <2>4, OtherEvents, AppendOther
  <2> QED BY <2>1, <2>5 DEF CopyInv
<1>2. CASE ConnectFails(k) \/ ReadEnds(k)
  <2>1. /\ UNCHANGED <<connected, shown, tracked, pending>>
        /\ scheduled' = scheduled \/ scheduled' = Append(scheduled, Disconnect)
    BY <1>2 DEF ConnectFails, ReadEnds
  <2>2. Becomes(scheduled', shown, connected) /\ (NoLossIn(scheduled') => NoLossIn(scheduled))
    BY <1>0, <2>1, OtherEvents, AppendOther DEF CopyInv
  <2> QED BY <2>1, <2>2 DEF CopyInv
<1>3. CASE Receive(k)
  <2>1. CASE Head(down[k]) \in pending
    BY <1>0, <1>3, <2>1, OutcomeCopies DEF Receive, CopyInv
  <2>2. CASE Head(down[k]) \notin pending
    BY <1>3, <2>2 DEF Receive, CopyInv
  <2> QED BY <2>1, <2>2
<1> QED BY <1>1, <1>2, <1>3 DEF Callback

\* What waits in the queue.
LEMMA ScheduledCopies ==
  ASSUME SessionInv, CopyInv, RunScheduled
  PROVE  CopyInv'
<1> DEFINE e == Head(scheduled)
           rest == Tail(scheduled)
<1>0. scheduled # <<>> /\ scheduled \in Seq(Events)
  BY DEF RunScheduled, RunTimeout, RunDisconnect, RunUpdate, RunInitialize, Scheduled,
     SessionInv, OutcomeTypes
<1>1. /\ rest \in Seq(Events) /\ e \in Events
      /\ Becomes(rest, IF e.do = "update" THEN e.connected ELSE shown, connected)
      /\ NoLossIn(rest) /\ e # Update(FALSE) => tracked \subseteq pending
  BY <1>0, RunOldest DEF CopyInv
<1> HIDE DEF rest
<1>2. ASSUME e.do # "update"
      PROVE  Becomes(rest, shown, connected) /\ (NoLossIn(rest) => tracked \subseteq pending)
  BY <1>1, <1>2, OtherEvents
<1>3. CASE RunTimeout
  <2>1. e.do # "update" /\ UNCHANGED shown
    BY <1>3 DEF RunTimeout, Scheduled
  <2>2. CASE e.of \in pending
    BY <1>1, <1>2, <1>3, <2>1, <2>2, OutcomeCopies DEF RunTimeout, rest
  <2>3. CASE e.of \notin pending
    BY <1>2, <1>3, <2>1, <2>3 DEF RunTimeout, CopyInv, rest
  <2> QED BY <2>2, <2>3
<1>4. CASE RunDisconnect
  BY <1>1, <1>4, LossCopies DEF RunDisconnect, rest
<1>5. CASE RunUpdate
  <2>1. /\ e.do = "update" /\ shown' = e.connected /\ scheduled' = rest
        /\ tracked' = IF e.connected THEN tracked ELSE {}
        /\ UNCHANGED <<connected, pending>>
    BY <1>5 DEF RunUpdate, Scheduled, rest
  <2>2. NoLossIn(rest) => tracked' \subseteq pending
    BY <1>1, <2>1, OtherEvents
  <2> QED BY <1>1, <2>1, <2>2 DEF CopyInv
<1>6. CASE RunInitialize
  BY <1>1, <1>2, <1>6, RequestCopies DEF RunInitialize, Scheduled, rest
<1> QED BY <1>3, <1>4, <1>5, <1>6 DEF RunScheduled

\* When nothing waits to be run, what commands look at agrees with the connection
\* and lists no request that has its outcome.
THEOREM CopyAgrees == Spec => []CopyCatchesUp
<1>1. Init => CopyInv
  <2> SUFFICES ASSUME Init PROVE CopyInv
    OBVIOUS
  <2>1. scheduled = <<>> /\ shown = connected /\ tracked = pending
    BY DEF Init
  <2>2. DOMAIN scheduled = {}
    BY <2>1
  <2> QED BY <2>1, <2>2 DEF CopyInv, Becomes, NoLossIn
<1>2. SessionInv /\ CopyInv /\ [Next]_vars => CopyInv'
  <2> SUFFICES ASSUME SessionInv, CopyInv, [Next]_vars PROVE CopyInv'
    OBVIOUS
  <2>1. ASSUME NEW r \in Requests, Otherwise(Command(r)) PROVE CopyInv'
    BY <2>1, RequestCopies DEF Otherwise, Command, SessionInv, OutcomeTypes, CopyInv
  <2>2. ASSUME NEW r \in Requests, Otherwise(TimerFires(r)) PROVE CopyInv'
    BY <2>2, OtherEvents, AppendOther DEF Otherwise, TimerFires, SessionInv, OutcomeTypes, CopyInv
  <2>3. ASSUME UNCHANGED <<scheduled, shown, connected, tracked, pending>> PROVE CopyInv'
    BY <2>3 DEF CopyInv
  <2>4. ASSUME NEW k \in Pipes, Otherwise(Connect(k)) \/ Otherwise(Callback(k)) PROVE CopyInv'
    BY <2>3, <2>4, CallbackCopies DEF Otherwise, Connect
  <2>5. UNCHANGED clientVars \/ UNCHANGED vars => CopyInv'
    BY <2>3 DEF clientVars, vars
  <2> QED BY <2>1, <2>2, <2>4, <2>5, ScheduledCopies DEF Next, Progress, User, Otherwise
<1>3. CopyInv => CopyCatchesUp
  BY DEF CopyInv, Becomes, NoLossIn, CopyCatchesUp
<1> QED BY <1>1, <1>2, <1>3, SessionInvariance, PTL DEF Spec
=============================================================================
