---------------------------- MODULE ProtocolPeer ----------------------------
(***************************************************************************)
(* The JSON-RPC library (alchemist.protocol) between two peers: one tracks *)
(* its requests in a CorrelationTracker, its bytes reach the other one in  *)
(* chunks of any size, where an NdjsonReader cuts them into frames and a   *)
(* Dispatcher answers them.  A task for each frame, so that answers come   *)
(* in any order, and the order of the stream back, are the environment's.  *)
(***************************************************************************)
EXTENDS Naturals, Sequences, SequencesExt

CONSTANTS
  Messages,   \* the lines the first peer writes; a request's is its id, a fresh UUID
  Shape,      \* what each of them is, see Shapes
  Size,       \* its length without the newline
  MaxFrame,   \* MAX_FRAME_SIZE
  None        \* the id of an answer to what has none

\* "unknown": a method the registry has no entry for; "params": they fail its
\* model; "array": positional params; "shapeless": an object that is none of the
\* envelopes; "broken": not UTF-8, not JSON or no object.
RequestShapes == {"request", "unknown", "params", "array"}
Shapes == RequestShapes \cup {"note", "response", "shapeless", "batch", "broken", "blank"}

ASSUME PeerAssumption ==
  /\ Shape \in [Messages -> Shapes] /\ Size \in [Messages -> Nat]
  /\ MaxFrame \in Nat /\ None \notin Messages

Requests == {m \in Messages : Shape[m] \in RequestShapes}

VARIABLES
  sent,        \* the lines written so far
  wire,        \* their bytes on the way
  closed,      \* the first peer has closed its end
  buf,         \* NdjsonReader._buf
  delivered,   \* the frames that read_frame has returned
  running,     \* those whose handlers run
  outcome,     \* what was decided for each request
  answers,     \* the responses on their way back
  pending,     \* CorrelationTracker._pending
  future       \* the future of each request

peerVars    == <<outcome, answers, running>>
trackerVars == <<pending, future>>
vars == <<sent, wire, closed, buf, delivered, peerVars, trackerVars>>

Ends   == {"result", "error"}
Answer == [id : Messages \cup {None}, end : Ends]

Init ==
  /\ sent = <<>> /\ wire = <<>> /\ closed = FALSE
  /\ buf = <<>> /\ delivered = <<>>
  /\ running = {} /\ answers = <<>>
  /\ outcome = [m \in Requests |-> "none"]
  /\ pending = {}
  /\ future = [m \in Requests |-> "none"]
-----------------------------------------------------------------------------
(* The first peer: requests and what becomes of them.                      *)

\* The bytes of a line: those of the message and a newline.
Byte(m, end) == [of |-> m, end |-> end]
Line(m) == [i \in 1 .. Size[m] + 1 |-> Byte(m, i > Size[m])]

\* Mutant: notifications are tracked too.
TrackEverything(m) ==
  /\ ~closed /\ ~Contains(sent, m)
  /\ sent' = Append(sent, m)
  /\ wire' = wire \o Line(m)
  /\ pending' = pending \cup {m}
  /\ future' = [r \in Requests |-> IF r = m THEN "waiting" ELSE future[r]]
  /\ UNCHANGED <<closed, buf, delivered, peerVars>>

\* add_pending, for a request, and write_frame.
Send(m) ==
  /\ ~closed /\ ~Contains(sent, m)
  /\ sent' = Append(sent, m)
  /\ wire' = wire \o Line(m)
  /\ pending' = pending \cup ({m} \cap Requests)
  /\ future' = [r \in Requests |-> IF r = m THEN "waiting" ELSE future[r]]
  /\ UNCHANGED <<closed, buf, delivered, peerVars>>

Close ==
  /\ ~closed /\ closed' = TRUE
  /\ UNCHANGED <<sent, wire, buf, delivered, peerVars, trackerVars>>

\* Mutant: some request that is pending is resolved, without a look at the id.
ResolveAny(answer) ==
  /\ pending # {}
  /\ LET r == CHOOSE r \in pending : TRUE
     IN  /\ pending' = pending \ {r}
         /\ future' = [future EXCEPT ![r] = IF @ = "waiting" THEN answer.end ELSE @]

\* Mutant: no look at fut.done().
ResolveDone(answer) ==
  /\ pending' = pending \ {answer.id}
  /\ future' = IF answer.id \in pending THEN [future EXCEPT ![answer.id] = answer.end] ELSE future

\* Nothing for an id that is not pending, nor for a future that is done.
Resolve(answer) ==
  /\ pending' = pending \ {answer.id}
  /\ future' = IF answer.id \in pending /\ future[answer.id] = "waiting"
               THEN [future EXCEPT ![answer.id] = answer.end] ELSE future

Receive ==
  /\ answers # <<>>
  /\ answers' = Tail(answers)
  /\ Resolve(Head(answers))
  /\ UNCHANGED <<sent, wire, closed, buf, delivered, running, outcome>>

\* asyncio.wait_for gives up: the future is cancelled, and still pending.
TimeOut(r) ==
  /\ future[r] = "waiting"
  /\ future' = [future EXCEPT ![r] = "cancelled"]
  /\ UNCHANGED <<sent, wire, closed, buf, delivered, peerVars, pending>>

Expire(r) ==
  /\ r \in pending
  /\ pending' = pending \ {r}
  /\ future' = [future EXCEPT ![r] = IF @ = "waiting" THEN "cancelled" ELSE @]
  /\ UNCHANGED <<sent, wire, closed, buf, delivered, peerVars>>
-----------------------------------------------------------------------------
(* The second peer: NdjsonReader.                                          *)

IsNewline(b) == b.end
NewlineAt == SelectInSeq(buf, IsNewline)   \* 0 when there is none

\* Mutant: the limit is that of the buffer, whether there is a newline or not.
LimitWholeBuffer ==
  /\ Len(buf) > MaxFrame
  /\ buf' = <<>>
  /\ UNCHANGED <<sent, wire, closed, delivered, peerVars, trackerVars>>

\* More than a frame may have, and no end of it: FRAME_TOO_LARGE.  What is still
\* to come of it will be a line of its own.
FailFast ==
  /\ NewlineAt = 0 /\ Len(buf) > MaxFrame
  /\ buf' = <<>>
  /\ UNCHANGED <<sent, wire, closed, delivered, peerVars, trackerVars>>

\* No frame yet: read_frame awaits the next n bytes.
ReadChunk(n) ==
  /\ NewlineAt = 0 /\ Len(buf) <= MaxFrame
  /\ n \in 1 .. Len(wire)
  /\ buf' = buf \o SubSeq(wire, 1, n)
  /\ wire' = SubSeq(wire, n + 1, Len(wire))
  /\ UNCHANGED <<sent, closed, delivered, peerVars, trackerVars>>

\* A line that ends m and has n bytes is a frame: not blank, not too large, not
\* the rest of one that was, and an object.  (The rest of what NdjsonWriter writes,
\* an object, is none; another peer's array could end in one.)
IsFrame(m, n) ==
  n = Size[m] /\ n > 0 /\ n <= MaxFrame /\ Shape[m] \notin {"blank", "broken", "batch"}
-----------------------------------------------------------------------------
(* Dispatcher.                                                             *)

\* The answer that is there at once, if there is one: no such method or bad
\* params (the id is known), or no envelope that has an id.
AnswersAtOnce(m) ==
  IF Shape[m] \in {"unknown", "params"} THEN <<[id |-> m, end |-> "error"]>>
  ELSE IF Shape[m] \in {"array", "shapeless"} THEN <<[id |-> None, end |-> "error"]>>
  ELSE <<>>

Dispatch(m) ==
  /\ delivered' = Append(delivered, m)
  /\ running' = IF Shape[m] \in {"request", "note"} THEN running \cup {m} ELSE running
  /\ answers' = answers \o AnswersAtOnce(m)
  /\ outcome' = [r \in Requests |-> IF r = m /\ Shape[m] # "request" THEN "error" ELSE outcome[r]]

\* Mutant: a line that is no frame is left in the buffer when the error is raised.
ParseKeepsBad ==
  /\ NewlineAt > 0
  /\ IF IsFrame(buf[NewlineAt].of, NewlineAt - 1)
     THEN /\ Dispatch(buf[NewlineAt].of)
          /\ buf' = SubSeq(buf, NewlineAt + 1, Len(buf))
     ELSE UNCHANGED <<buf, delivered, peerVars>>
  /\ UNCHANGED <<sent, wire, closed, trackerVars>>

\* The first line is taken: a frame is dispatched, a blank line skipped, for
\* anything else a FrameError is raised.
Parse ==
  /\ NewlineAt > 0
  /\ buf' = SubSeq(buf, NewlineAt + 1, Len(buf))
  /\ IF IsFrame(buf[NewlineAt].of, NewlineAt - 1)
     THEN Dispatch(buf[NewlineAt].of)
     ELSE UNCHANGED <<delivered, peerVars>>
  /\ UNCHANGED <<sent, wire, closed, trackerVars>>

\* A handler returns or raises; a notification's outcome is nobody's.
HandlerEnds(m, end) ==
  /\ m \in running
  /\ running' = running \ {m}
  /\ answers' = IF m \in Requests THEN Append(answers, [id |-> m, end |-> end]) ELSE answers
  /\ outcome' = [r \in Requests |-> IF r = m THEN end ELSE outcome[r]]
  /\ UNCHANGED <<sent, wire, closed, buf, delivered, trackerVars>>

\* What comes about by itself as long as there are bytes, handlers and answers.
Progress ==
  \/ FailFast
  \/ \E n \in 1 .. Len(wire) : ReadChunk(n)
  \/ Parse
  \/ \E m \in running, end \in Ends : HandlerEnds(m, end)
  \/ Receive

Next ==
  \/ Progress
  \/ \E m \in Messages : Send(m)
  \/ Close
  \/ \E r \in Requests : TimeOut(r) \/ Expire(r)

Spec == Init /\ [][Next]_vars

\* The loops go on; time-outs and expiry are up to the caller.
FairSpec == Spec /\ WF_vars(Progress)
-----------------------------------------------------------------------------
(* Properties.                                                             *)

Bytes == [of : Messages, end : BOOLEAN]

\* Every variable keeps to its set.
TypeOK ==
  /\ sent \in Seq(Messages) /\ wire \in Seq(Bytes) /\ closed \in BOOLEAN
  /\ buf \in Seq(Bytes) /\ delivered \in Seq(Messages)
  /\ running \subseteq Messages /\ answers \in Seq(Answer)
  /\ outcome \in [Requests -> Ends \cup {"none"}]
  /\ pending \subseteq Requests
  /\ future \in [Requests -> Ends \cup {"none", "waiting", "cancelled"}]

WellFramed(m) == IsFrame(m, Size[m])

\* The frames that are delivered of the first k lines: the well-formed ones, all
\* of them and nothing else, and in the order of the lines.
DeliveredOf(k) ==
  /\ \A i \in DOMAIN delivered : \E l \in 1 .. k : sent[l] = delivered[i] /\ WellFramed(sent[l])
  /\ \A l \in 1 .. k : WellFramed(sent[l]) => \E i \in DOMAIN delivered : delivered[i] = sent[l]
  /\ \A i, j \in DOMAIN delivered, l, n \in DOMAIN sent :
       i < j /\ delivered[i] = sent[l] /\ delivered[j] = sent[n] => l < n

\* However the bytes are cut into chunks, read_frame returns the well-formed
\* frames and nothing else, in order: none is lost with, or made of the rest of,
\* a line before it that is blank, broken or too large.
FramesInOrder == \E k \in 0 .. Len(sent) : DeliveredOf(k)

\* A future has the outcome of its own request, whatever was answered first.
AnswerIsOwn == \A r \in Requests : future[r] \in Ends => future[r] = outcome[r]

\* A future that has a result, an error or was cancelled keeps it, whatever is
\* answered, expires or times out later.
SettledForGood ==
  [][\A r \in Requests : future[r] \in Ends \cup {"cancelled"} => future'[r] = future[r]]_vars

\* A request with an id its peer can read does not stay in the tracker, whatever
\* lines surround it, also when its caller stopped waiting.
TrackedRequestEnds ==
  \A r \in Requests :
    r \in pending /\ WellFramed(r) /\ Shape[r] # "array" ~> r \notin pending
=============================================================================
