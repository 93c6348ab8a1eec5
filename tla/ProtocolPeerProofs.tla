------------------------- MODULE ProtocolPeerProofs -------------------------
(***************************************************************************)
(* Theorems about ProtocolPeer, for any messages, sizes, limit, chunks and *)
(* order of answers, time-outs and expiries: which frames are delivered,   *)
(* what becomes of a request's future, and that it is its own outcome.     *)
(***************************************************************************)
EXTENDS ProtocolPeer, Integers, SequenceTheorems, WellFoundedInduction, TLAPS

\* A future is there for each request, and only one that was sent has it set.
TrackerInv ==
  /\ sent \in Seq(Messages)
  /\ future = [r \in Requests |-> future[r]]
  /\ \A r \in Requests : future[r] # "none" => Contains(sent, r)

LEMMA TrackerInitially == Init => TrackerInv
BY DEF Init, TrackerInv

LEMMA SentGrows ==
  ASSUME sent \in Seq(Messages), NEW m \in Messages, sent' = Append(sent, m)
  PROVE  /\ sent' \in Seq(Messages)
         /\ \A x : Contains(sent, x) => Contains(sent', x)
         /\ Contains(sent', m)
<1>1. /\ sent' \in Seq(Messages) /\ Len(sent') = Len(sent) + 1 /\ Len(sent) \in Nat
      /\ sent'[Len(sent) + 1] = m
      /\ \A i \in 1 .. Len(sent) : sent'[i] = sent[i]
  OBVIOUS
<1>2. ASSUME NEW x, Contains(sent, x) PROVE Contains(sent', x)
  <2>1. PICK i \in 1 .. Len(sent) : sent[i] = x
    BY <1>2 DEF Contains
  <2>2. i \in 1 .. Len(sent') /\ sent'[i] = x
    BY <1>1, <2>1
  <2> QED BY <2>2 DEF Contains
<1>3. Contains(sent', m)
  <2>1. Len(sent) + 1 \in 1 .. Len(sent')
    BY <1>1
  <2> QED BY <1>1, <2>1 DEF Contains
<1> QED BY <1>1, <1>2, <1>3

\* No step takes back what a future has.
Kept == \A r \in Requests : future[r] \in Ends \cup {"cancelled"} => future'[r] = future[r]

\* What is set of a future: nothing, the start of a request, or the end of a
\* wait.  The answers may be anything.
LEMMA FutureStep ==
  ASSUME TrackerInv, [Next]_vars
  PROVE  Kept /\ TrackerInv'
<1> USE DEF TrackerInv
<1>1. ASSUME sent' = sent, future' = future
      PROVE  Kept /\ TrackerInv'
  BY <1>1 DEF Kept
<1>2. ASSUME NEW m \in Messages, Send(m) PROVE Kept /\ TrackerInv'
  <2>1. /\ sent' \in Seq(Messages) /\ Contains(sent', m)
        /\ \A x : Contains(sent, x) => Contains(sent', x)
    BY <1>2, SentGrows DEF Send
  <2>2. /\ future' = [r \in Requests |-> IF r = m THEN "waiting" ELSE future[r]]
        /\ m \in Requests => future[m] = "none"
    BY <1>2 DEF Send
  <2> QED BY <2>1, <2>2 DEF Kept, Ends
<1>3. ASSUME sent' = sent, future' = [r \in Requests |-> future'[r]],
             \A r \in Requests : future'[r] = future[r] \/ future[r] = "waiting"
      PROVE  Kept /\ TrackerInv'
  BY <1>3 DEF Kept, Ends
<1>4. CASE Receive
  <2> DEFINE a == Head(answers)
  <2>1. Resolve(a) /\ sent' = sent
    BY <1>4 DEF Receive
  <2> HIDE DEF a
  <2>2. /\ future' = [r \in Requests |-> future'[r]]
        /\ \A r \in Requests : future'[r] = future[r] \/ future[r] = "waiting"
    BY <2>1 DEF Resolve
  <2> QED BY <1>3, <2>1, <2>2
<1>5. ASSUME NEW r \in Requests, TimeOut(r) \/ Expire(r) PROVE Kept /\ TrackerInv'
  <2>1. /\ sent' = sent /\ future' = [q \in Requests |-> future'[q]]
        /\ \A q \in Requests : future'[q] = future[q] \/ future[q] = "waiting"
    BY <1>5 DEF TimeOut, Expire
  <2> QED BY <1>3, <2>1
<1>6. FailFast \/ Parse \/ Close \/ UNCHANGED vars
      \/ (\E n \in 1 .. Len(wire) : ReadChunk(n))
      \/ (\E m \in running, end \in Ends : HandlerEnds(m, end))
      => sent' = sent /\ future' = future
  BY DEF FailFast, Parse, Close, ReadChunk, HandlerEnds, trackerVars, peerVars, vars
<1> QED BY <1>1, <1>2, <1>4, <1>5, <1>6 DEF Next, Progress

\* Only what was sent has a future.
THEOREM TrackerInvariance == Spec => []TrackerInv
<1>1. TrackerInv /\ [Next]_vars => TrackerInv'
  BY FutureStep
<1> QED BY TrackerInitially, <1>1, PTL DEF Spec

\* A future that has an outcome keeps it: whatever is answered, expires or times
\* out later, for any messages and any limit.
THEOREM FuturesAreSettledForGood == Spec => SettledForGood
<1>1. TrackerInv /\ [Next]_vars => [\A r \in Requests : future[r] \in Ends \cup {"cancelled"} => future'[r] = future[r]]_vars
  BY FutureStep DEF Kept
<1> QED BY TrackerInvariance, <1>1, PTL DEF Spec, SettledForGood
-----------------------------------------------------------------------------
(* Types.                                                                  *)

\* Of the numbers in a set that is not empty one is the least.
LEMMA LeastNumber ==
  ASSUME NEW S, S \subseteq Nat, S # {}
  PROVE  Min(S) \in S /\ \A x \in S : Min(S) <= x
<1>1. PICK x \in S : \A y \in S : ~ (<<y, x>> \in OpToRel(<, Nat))
  BY WFMin, NatLessThanWellFounded, Zenon
<1>2. \A y \in S : ~ (y < x)
  BY <1>1 DEF OpToRel
<1>3. \A y \in S : x <= y
  BY <1>2
<1> QED BY <1>3 DEF Min

\* The newline that is found is the first there is.
LEMMA NewlineFacts ==
  ASSUME buf \in Seq(Bytes)
  PROVE  /\ NewlineAt \in 0 .. Len(buf)
         /\ NewlineAt = 0 => \A b \in 1 .. Len(buf) : ~ buf[b].end
         /\ NewlineAt > 0 => /\ buf[NewlineAt].end
                             /\ \A b \in 1 .. NewlineAt - 1 : ~ buf[b].end
<1> DEFINE I == {b \in 1 .. Len(buf) : buf[b].end}
<1>1. NewlineAt = IF I # {} THEN Min(I) ELSE 0
  BY DEF NewlineAt, SelectInSeq, IsNewline
<1>2. CASE I = {}
  BY <1>1, <1>2
<1>3. CASE I # {}
  <2>1. I \subseteq Nat
    OBVIOUS
  <2> DEFINE p == Min(I)
  <2>2. p \in I /\ \A b \in I : p <= b
    BY <1>3, <2>1, LeastNumber
  <2>3. NewlineAt = p
    BY <1>1, <1>3
  <2> HIDE DEF p
  <2>4. p \in 1 .. Len(buf) /\ buf[p].end
    BY <2>2
  <2>5. ASSUME NEW b \in 1 .. p - 1 PROVE ~ buf[b].end
    <3>1. b \in 1 .. Len(buf) /\ ~ (p <= b)
      BY <2>4
    <3> QED BY <2>2, <3>1
  <2> QED BY <2>3, <2>4, <2>5
<1> QED BY <1>2, <1>3

LEMMA SizeIsNumber == ASSUME NEW m \in Messages PROVE Size[m] \in Nat
BY PeerAssumption

\* A line is its message's bytes, the last of them the newline.
LEMMA LineFacts ==
  ASSUME NEW m \in Messages
  PROVE  /\ Size[m] \in Nat
         /\ Line(m) \in Seq(Bytes) /\ Len(Line(m)) = Size[m] + 1
         /\ \A b \in 1 .. Size[m] + 1 :
              Line(m)[b].of = m /\ (Line(m)[b].end <=> b = Size[m] + 1)
<1>1. Size[m] \in Nat
  BY SizeIsNumber
<1> DEFINE n == Size[m] + 1
<1>2. n \in Nat /\ Line(m) = [b \in 1 .. n |-> Byte(m, b > Size[m])]
  BY <1>1 DEF Line
<1>3. ASSUME NEW b \in 1 .. n
      PROVE  /\ Byte(m, b > Size[m]) \in Bytes
             /\ Byte(m, b > Size[m]).of = m /\ (Byte(m, b > Size[m]).end <=> b = n)
  <2>1. ((b > Size[m]) <=> b = n) /\ (b > Size[m]) \in BOOLEAN
    BY <1>1
  <2> QED BY <2>1 DEF Byte, Bytes
<1> HIDE DEF n
<1>4. Line(m) \in Seq(Bytes) /\ Len(Line(m)) = n
  <2>1. Line(m) \in [1 .. n -> Bytes]
    BY <1>2, <1>3
  <2> QED BY <1>2, <2>1
<1>5. \A b \in 1 .. n : Line(m)[b].of = m /\ (Line(m)[b].end <=> b = n)
  BY <1>2, <1>3
<1> QED BY <1>1, <1>4, <1>5 DEF n

\* What is answered at once is an error.
LEMMA AtOnceFacts ==
  ASSUME NEW m \in Messages
  PROVE  /\ AnswersAtOnce(m) \in Seq(Answer)
         /\ \A a \in DOMAIN AnswersAtOnce(m) :
              /\ AnswersAtOnce(m)[a].end = "error"
              /\ AnswersAtOnce(m)[a].id # None =>
                   AnswersAtOnce(m)[a].id = m /\ Shape[m] # "request"
<1>1. CASE Shape[m] \in {"unknown", "params"}
  <2>1. AnswersAtOnce(m) = <<[id |-> m, end |-> "error"]>>
    BY <1>1 DEF AnswersAtOnce
  <2>2. [id |-> m, end |-> "error"] \in Answer
    BY DEF Answer, Ends
  <2> QED BY <1>1, <2>1, <2>2
<1>2. CASE Shape[m] \in {"array", "shapeless"}
  <2>1. AnswersAtOnce(m) = <<[id |-> None, end |-> "error"]>>
    BY <1>2 DEF AnswersAtOnce
  <2>2. [id |-> None, end |-> "error"] \in Answer
    BY DEF Answer, Ends
  <2> QED BY <2>1, <2>2
<1>3. CASE Shape[m] \notin {"unknown", "params", "array", "shapeless"}
  BY <1>3 DEF AnswersAtOnce
<1> QED BY <1>1, <1>2, <1>3

LEMMA TypeInitially == Init => TypeOK
<1> SUFFICES ASSUME Init PROVE TypeOK
  OBVIOUS
<1>1. outcome \in [Requests -> Ends \cup {"none"}]
  BY DEF Init
<1>2. future \in [Requests -> Ends \cup {"none", "waiting", "cancelled"}]
  BY DEF Init
<1>3. /\ sent = <<>> /\ wire = <<>> /\ buf = <<>> /\ delivered = <<>> /\ answers = <<>>
      /\ running = {} /\ pending = {} /\ closed = FALSE
  BY DEF Init
<1>4. <<>> \in Seq(Messages) /\ <<>> \in Seq(Bytes) /\ <<>> \in Seq(Answer)
  OBVIOUS
<1>5. closed \in BOOLEAN /\ running \subseteq Messages /\ pending \subseteq Requests
  BY <1>3
<1> QED BY <1>1, <1>2, <1>3, <1>4, <1>5 DEF TypeOK

\* What is taken of the wire goes to the buffer.
LEMMA TypeStep == TypeOK /\ [Next]_vars => TypeOK'
<1> SUFFICES ASSUME TypeOK, [Next]_vars PROVE TypeOK'
  OBVIOUS
<1> USE PeerAssumption DEF TypeOK
<1>1. ASSUME NEW m \in Messages, Send(m) PROVE TypeOK'
  <2>1. Line(m) \in Seq(Bytes)
    BY LineFacts
  <2> QED BY <1>1, <2>1 DEF Send, peerVars
<1>2. CASE Close
  BY <1>2 DEF Close, peerVars, trackerVars
<1>3. CASE FailFast
  BY <1>3 DEF FailFast, peerVars, trackerVars
<1>4. ASSUME NEW n \in 1 .. Len(wire), ReadChunk(n) PROVE TypeOK'
  <2>1. SubSeq(wire, 1, n) \in Seq(Bytes) /\ SubSeq(wire, n + 1, Len(wire)) \in Seq(Bytes)
    OBVIOUS
  <2> QED BY <1>4, <2>1 DEF ReadChunk, peerVars, trackerVars
<1>5. CASE Parse
  <2> DEFINE m == buf[NewlineAt].of
  <2>1. NewlineAt \in 1 .. Len(buf)
    BY <1>5, NewlineFacts DEF Parse
  <2>2. m \in Messages /\ SubSeq(buf, NewlineAt + 1, Len(buf)) \in Seq(Bytes)
    <3>1. buf[NewlineAt] \in Bytes
      BY <2>1
    <3>2. buf[NewlineAt].of \in Messages
      BY <3>1 DEF Bytes
    <3>3. NewlineAt + 1 \in 1 .. Len(buf) + 1
      BY <2>1
    <3> HIDE DEF m
    <3>4. SubSeq(buf, NewlineAt + 1, Len(buf)) \in Seq(Bytes)
      BY <3>3
    <3> QED BY <3>2, <3>4 DEF m
  <2>3. AnswersAtOnce(m) \in Seq(Answer)
    BY <2>2, AtOnceFacts
  <2> HIDE DEF m
  <2>4. ASSUME Dispatch(m)
        PROVE  /\ delivered' \in Seq(Messages) /\ running' \subseteq Messages
               /\ answers' \in Seq(Answer) /\ outcome' \in [Requests -> Ends \cup {"none"}]
    BY <2>2, <2>3, <2>4 DEF Dispatch, Ends
  <2> QED BY <1>5, <2>2, <2>4 DEF Parse, peerVars, trackerVars, m
<1>6. ASSUME NEW m \in running, NEW end \in Ends, HandlerEnds(m, end) PROVE TypeOK'
  <2>1. [id |-> m, end |-> end] \in Answer
    BY DEF Answer
  <2> QED BY <1>6, <2>1 DEF HandlerEnds, trackerVars
<1>7. CASE Receive
  <2> DEFINE a == Head(answers)
  <2>1. a \in Answer /\ Tail(answers) \in Seq(Answer)
    BY <1>7 DEF Receive
  <2>2. Resolve(a)
    BY <1>7 DEF Receive
  <2> HIDE DEF a
  <2>3. /\ pending' \subseteq Requests
        /\ future' \in [Requests -> Ends \cup {"none", "waiting", "cancelled"}]
    BY <2>1, <2>2 DEF Resolve, Answer
  <2> QED BY <1>7, <2>1, <2>3 DEF Receive
<1>8. ASSUME NEW r \in Requests, TimeOut(r) \/ Expire(r) PROVE TypeOK'
  BY <1>8 DEF TimeOut, Expire, peerVars
<1>9. CASE UNCHANGED vars
  BY <1>9 DEF vars, peerVars, trackerVars
<1> QED BY <1>1, <1>2, <1>3, <1>4, <1>5, <1>6, <1>7, <1>8, <1>9 DEF Next, Progress

\* Every variable keeps to its set.
THEOREM PeerTypes == Spec => []TypeOK
BY TypeInitially, TypeStep, PTL DEF Spec
-----------------------------------------------------------------------------
(* The lines in the stream.                                                *)

\* w is what is not yet parsed of the lines s: line l ends e[l] bytes further on,
\* k lines are over.  When something of the next one is gone, it was too large.
Laid(s, w, k, e) ==
  /\ e \in [0 .. Len(s) -> Int]
  /\ \A l \in 1 .. Len(s) : e[l] = e[l - 1] + Size[s[l]] + 1
  /\ \A i, j \in 0 .. Len(s) : i <= j => e[i] <= e[j]
  /\ e[Len(s)] = Len(w)
  /\ \A l \in 1 .. Len(s), b \in 1 .. Len(w) :
       e[l - 1] < b /\ b <= e[l] => w[b].of = s[l] /\ (w[b].end <=> b = e[l])
  /\ e[k] <= 0 /\ (k < Len(s) => 0 < e[k + 1])
  /\ e[k] < 0 => k < Len(s) /\ MaxFrame < Size[s[k + 1]]

LEMMA Concatenation ==
  ASSUME NEW S, NEW s \in Seq(S), NEW t \in Seq(S)
  PROVE  /\ s \o t \in Seq(S) /\ Len(s \o t) = Len(s) + Len(t)
         /\ \A i \in 1 .. Len(s) : (s \o t)[i] = s[i]
         /\ \A i \in 1 .. Len(t) : (s \o t)[Len(s) + i] = t[i]
OBVIOUS

LEMMA CutConcatenation ==
  ASSUME NEW S, NEW s \in Seq(S), NEW t \in Seq(S), NEW p \in 1 .. Len(s)
  PROVE  /\ SubSeq(s, p + 1, Len(s)) \o t \in Seq(S)
         /\ Len(SubSeq(s, p + 1, Len(s)) \o t) = Len(s \o t) - p
         /\ \A i \in 1 .. Len(SubSeq(s, p + 1, Len(s)) \o t) :
              (SubSeq(s, p + 1, Len(s)) \o t)[i] = (s \o t)[i + p]
<1> DEFINE u == SubSeq(s, p + 1, Len(s))
<1>1. /\ u \in Seq(S) /\ Len(u) = Len(s) - p
      /\ \A i \in 1 .. Len(u) : u[i] = s[i + p]
  OBVIOUS
<1> HIDE DEF u
<1>2. /\ u \o t \in Seq(S) /\ Len(u \o t) = Len(s) - p + Len(t)
      /\ Len(s \o t) = Len(s) + Len(t)
  <2>1. u \o t \in Seq(S) /\ Len(u \o t) = Len(u) + Len(t)
    BY <1>1, Concatenation
  <2>2. Len(s \o t) = Len(s) + Len(t)
    OBVIOUS
  <2> QED BY <1>1, <2>1, <2>2
<1>3. ASSUME NEW i \in 1 .. Len(u \o t) PROVE (u \o t)[i] = (s \o t)[i + p]
  <2>1. CASE i \in 1 .. Len(u)
    BY <1>1, <2>1
  <2>2. CASE i \notin 1 .. Len(u)
    <3>1. (u \o t)[i] = t[i - Len(u)] /\ (s \o t)[i + p] = t[i + p - Len(s)]
      BY <1>1, <1>2, <2>2, SMTT(30)
    <3>2. i - Len(u) = i + p - Len(s)
      BY <1>1
    <3> QED BY <3>1, <3>2
  <2> QED BY <2>1, <2>2
<1>4. Len(u \o t) = Len(s \o t) - p
  BY <1>2
<1> QED BY <1>2, <1>3, <1>4, Zenon DEF u

\* When its first p bytes are taken, of the lines up to j, the rest is laid out.
LEMMA LaidTaken ==
  ASSUME NEW s \in Seq(Messages), NEW w \in Seq(Bytes), NEW v \in Seq(Bytes),
         NEW k \in 0 .. Len(s), NEW e, Laid(s, w, k, e),
         NEW p \in 0 .. Len(w), Len(v) = Len(w) - p,
         \A b \in 1 .. Len(v) : v[b] = w[b + p],
         NEW j \in 0 .. Len(s), e[j] <= p, j < Len(s) => p < e[j + 1],
         e[j] < p => j < Len(s) /\ MaxFrame < Size[s[j + 1]]
  PROVE  \E f : Laid(s, v, j, f)
<1> DEFINE f == [l \in 0 .. Len(s) |-> e[l] - p]
<1>0. /\ e \in [0 .. Len(s) -> Int] /\ Len(s) \in Nat /\ Len(w) \in Nat
      /\ \A l \in 1 .. Len(s) : e[l] = e[l - 1] + Size[s[l]] + 1
      /\ \A a, b \in 0 .. Len(s) : a <= b => e[a] <= e[b]
      /\ e[Len(s)] = Len(w)
  BY DEF Laid
<1>1. /\ f \in [0 .. Len(s) -> Int] /\ p \in Int
      /\ \A l \in 0 .. Len(s) : f[l] = e[l] - p /\ e[l] \in Int
  BY <1>0
<1> HIDE DEF f
<1>2. ASSUME NEW l \in 1 .. Len(s) PROVE f[l] = f[l - 1] + Size[s[l]] + 1
  <2>1. l \in 0 .. Len(s) /\ l - 1 \in 0 .. Len(s) /\ s[l] \in Messages
    BY <1>0, SMTT(30)
  <2>2. e[l] = e[l - 1] + Size[s[l]] + 1 /\ Size[s[l]] \in Nat
    BY <1>0, <2>1, SizeIsNumber
  <2>3. f[l] = e[l] - p /\ f[l - 1] = e[l - 1] - p /\ e[l] \in Int /\ e[l - 1] \in Int /\ p \in Int
    BY <1>1, <2>1
  <2> QED BY <2>2, <2>3, SMTT(30)
<1>3. ASSUME NEW a \in 0 .. Len(s), NEW b \in 0 .. Len(s), a <= b PROVE f[a] <= f[b]
  <2>1. e[a] <= e[b]
    BY <1>0, <1>3
  <2>2. f[a] = e[a] - p /\ f[b] = e[b] - p /\ e[a] \in Int /\ e[b] \in Int /\ p \in Int
    BY <1>1
  <2> QED BY <2>1, <2>2
<1>4. f[Len(s)] = Len(v)
  <2>1. Len(s) \in 0 .. Len(s)
    BY <1>0
  <2> QED BY <1>0, <1>1, <2>1
<1>5. ASSUME NEW l \in 1 .. Len(s), NEW b \in 1 .. Len(v), f[l - 1] < b, b <= f[l]
      PROVE  v[b].of = s[l] /\ (v[b].end <=> b = f[l])
  <2>1. l \in 0 .. Len(s) /\ l - 1 \in 0 .. Len(s) /\ b + p \in 1 .. Len(w) /\ b \in Int
    BY <1>0
  <2>0. f[l] = e[l] - p /\ f[l - 1] = e[l - 1] - p /\ e[l] \in Int /\ e[l - 1] \in Int /\ p \in Int
    BY <1>1, <2>1
  <2> DEFINE x == e[l - 1]
             y == e[l]
  <2> HIDE DEF x, y
  <2>4. x - p < b /\ b <= y - p /\ f[l] = y - p /\ x \in Int /\ y \in Int
    BY <1>5, <2>0 DEF x, y
  <2>5. b \in Int /\ p \in Int
    BY <2>0, <2>1
  <2>6. x < b + p
    BY <2>4, <2>5
  <2>7. b + p <= y
    BY <2>4, <2>5
  <2>8. b + p = y <=> b = y - p
    BY <2>4, <2>5
  <2>2. e[l - 1] < b + p /\ b + p <= e[l] /\ (b + p = e[l] <=> b = f[l])
    BY <2>4, <2>6, <2>7, <2>8 DEF x, y
  <2>3. w[b + p].of = s[l] /\ (w[b + p].end <=> b + p = e[l])
    BY <2>1, <2>2 DEF Laid
  <2> QED BY <2>2, <2>3
<1>6. f[j] <= 0 /\ (f[j] < 0 => j < Len(s) /\ MaxFrame < Size[s[j + 1]])
  BY <1>1
<1>8. ASSUME j < Len(s) PROVE 0 < f[j + 1]
  <2>1. j + 1 \in 0 .. Len(s)
    BY <1>0, <1>8
  <2> QED BY <1>1, <1>8, <2>1
<1>7. Laid(s, v, j, f)
  BY <1>1, <1>2, <1>3, <1>4, <1>5, <1>6, <1>8 DEF Laid
<1> QED BY <1>7

\* A line that is written goes to the end.
LEMMA LaidWritten ==
  ASSUME NEW s \in Seq(Messages), NEW w \in Seq(Bytes), NEW m \in Messages,
         NEW k \in 0 .. Len(s), NEW e, Laid(s, w, k, e)
  PROVE  \E f : Laid(Append(s, m), w \o Line(m), k, f)
<1> DEFINE t == Append(s, m)
           v == w \o Line(m)
           n == Len(s) + 1
           f == [l \in 0 .. n |-> IF l = n THEN Len(w) + Size[m] + 1 ELSE e[l]]
<1>1. /\ t \in Seq(Messages) /\ Len(t) = n /\ n \in Nat /\ t[n] = m
      /\ \A l \in 1 .. Len(s) : t[l] = s[l]
  OBVIOUS
<1>0. Line(m) \in Seq(Bytes) /\ Len(Line(m)) = Size[m] + 1 /\ Size[m] \in Nat /\ Len(w) \in Nat
  BY LineFacts
<1>2. /\ Len(v) = Len(w) + Size[m] + 1 /\ Size[m] \in Nat
      /\ \A b \in 1 .. Len(w) : v[b] = w[b]
  <2>1. Len(v) = Len(w) + Len(Line(m)) /\ \A b \in 1 .. Len(w) : v[b] = w[b]
    BY <1>0, Concatenation, Zenon
  <2> QED BY <1>0, <2>1
<1>3. ASSUME NEW b \in Len(w) + 1 .. Len(v)
      PROVE  v[b].of = m /\ (v[b].end <=> b = Len(v))
  <2> DEFINE c == b - Len(w)
  <2>1. c \in 1 .. Size[m] + 1 /\ (b = Len(v) <=> c = Size[m] + 1)
    BY <1>2
  <2>2. v[b] = Line(m)[c]
    BY <2>1, LineFacts
  <2>3. Line(m)[c].of = m /\ (Line(m)[c].end <=> c = Size[m] + 1)
    BY <2>1, LineFacts
  <2> HIDE DEF c, v
  <2> QED BY <2>1, <2>2, <2>3
<1> HIDE DEF t, v
<1>4. e \in [0 .. Len(s) -> Int] /\ e[Len(s)] = Len(w)
      /\ \A i, j \in 0 .. Len(s) : i <= j => e[i] <= e[j]
  BY DEF Laid
<1>5. /\ f \in [0 .. n -> Int] /\ f[n] = Len(v)
      /\ \A l \in 0 .. Len(s) : f[l] = e[l]
  BY <1>1, <1>2, <1>4
<1> HIDE DEF f
<1>6. ASSUME NEW l \in 1 .. n PROVE f[l] = f[l - 1] + Size[t[l]] + 1
  <2>1. CASE l = n
    BY <1>1, <1>2, <1>4, <1>5, <2>1
  <2>2. CASE l # n
    <3>1. l \in 1 .. Len(s) /\ l \in 0 .. Len(s) /\ l - 1 \in 0 .. Len(s)
      BY <2>2
    <3>2. e[l] = e[l - 1] + Size[s[l]] + 1
      BY <3>1 DEF Laid
    <3> QED BY <1>1, <1>5, <3>1, <3>2
  <2> QED BY <2>1, <2>2
<1>7. ASSUME NEW i \in 0 .. n, NEW j \in 0 .. n, i <= j PROVE f[i] <= f[j]
  <2>1. ASSUME NEW l \in 0 .. Len(s) PROVE f[l] <= f[n]
    <3>0. l <= Len(s) /\ Len(s) \in 0 .. Len(s)
      BY <1>1
    <3>1. e[l] <= Len(w) /\ e[l] \in Int /\ f[l] = e[l]
      BY <1>4, <1>5, <3>0
    <3> QED BY <1>0, <1>2, <1>5, <3>1, SMTT(30)
  <2>2. CASE j = n
    BY <1>5, <2>1, <2>2
  <2>3. CASE j # n
    <3>1. i \in 0 .. Len(s) /\ j \in 0 .. Len(s)
      BY <1>7, <2>3
    <3> QED BY <1>4, <1>5, <1>7, <3>1
  <2> QED BY <2>2, <2>3
<1>8. ASSUME NEW l \in 1 .. n, NEW b \in 1 .. Len(v), f[l - 1] < b, b <= f[l]
      PROVE  v[b].of = t[l] /\ (v[b].end <=> b = f[l])
  <2>1. CASE l = n
    <3>1. b \in Len(w) + 1 .. Len(v)
      BY <1>1, <1>4, <1>5, <1>8, <2>1
    <3> QED BY <1>1, <1>3, <1>5, <2>1, <3>1
  <2>2. CASE l # n
    <3>1. l \in 1 .. Len(s) /\ l \in 0 .. Len(s) /\ l - 1 \in 0 .. Len(s) /\ Len(s) \in 0 .. Len(s)
      BY <2>2
    <3>2. e[l - 1] < b /\ b <= e[l] /\ e[l] <= e[Len(s)] /\ e[l] \in Int /\ f[l] = e[l]
      <4>1. l <= Len(s)
        BY <3>1
      <4>2. e[l] <= e[Len(s)]
        BY <1>4, <3>1, <4>1
      <4>3. f[l - 1] = e[l - 1] /\ f[l] = e[l] /\ e[l] \in Int
        BY <1>4, <1>5, <3>1
      <4> QED BY <1>8, <4>2, <4>3
    <3>3. b \in 1 .. Len(w)
      BY <1>4, <3>1, <3>2
    <3>4. w[b].of = s[l] /\ (w[b].end <=> b = e[l])
      BY <3>1, <3>2, <3>3 DEF Laid
    <3> QED BY <1>1, <1>2, <1>5, <3>1, <3>3, <3>4
  <2> QED BY <2>1, <2>2
<1>9. f[k] <= 0 /\ (k < n => 0 < f[k + 1]) /\ (f[k] < 0 => k < n /\ MaxFrame < Size[t[k + 1]])
  <2>1. f[k] = e[k] /\ e[k] <= 0 /\ (e[k] < 0 => k < Len(s) /\ MaxFrame < Size[s[k + 1]])
    BY <1>5 DEF Laid
  <2>2. CASE k = Len(s)
    BY <1>2, <1>4, <1>5, <2>1, <2>2
  <2>3. CASE k # Len(s)
    <3>1. k + 1 \in 1 .. Len(s) /\ k + 1 \in 0 .. Len(s) /\ k < Len(s)
      BY <2>3
    <3>2. 0 < e[k + 1]
      BY <3>1 DEF Laid
    <3> QED BY <1>1, <1>5, <2>1, <3>1, <3>2
  <2> QED BY <2>2, <2>3
<1>10. Laid(t, v, k, f)
  BY <1>1, <1>5, <1>6, <1>7, <1>8, <1>9 DEF Laid
<1> QED BY <1>10 DEF t, v

\* No newline among the first n bytes: they are the beginning of the next line.
LEMMA NoLineYet ==
  ASSUME NEW s \in Seq(Messages), NEW w \in Seq(Bytes),
         NEW k \in 0 .. Len(s), NEW e, Laid(s, w, k, e),
         NEW n \in 1 .. Len(w), \A b \in 1 .. n : ~ w[b].end
  PROVE  k < Len(s) /\ n < e[k + 1]
<1>1. e \in [0 .. Len(s) -> Int] /\ Len(s) \in Nat /\ Len(w) \in Nat
  BY DEF Laid
<1>2. k < Len(s)
  BY <1>1 DEF Laid
<1>3. k + 1 \in 1 .. Len(s) /\ k + 1 \in 0 .. Len(s) /\ Len(s) \in 0 .. Len(s)
  BY <1>1, <1>2
<1>4. e[k] <= 0 /\ 0 < e[k + 1] /\ e[k + 1] <= Len(w)
  BY <1>1, <1>2, <1>3 DEF Laid
<1>5. ASSUME e[k + 1] <= n PROVE FALSE
  <2>1. e[k + 1] \in 1 .. Len(w) /\ e[k + 1] \in 1 .. n
    BY <1>1, <1>3, <1>4, <1>5
  <2>2. \A l \in 1 .. Len(s), b \in 1 .. Len(w) :
          e[l - 1] < b /\ b <= e[l] => w[b].of = s[l] /\ (w[b].end <=> b = e[l])
    BY DEF Laid
  <2> DEFINE b == e[k + 1]
  <2>3. e[(k + 1) - 1] < b /\ b <= e[k + 1] /\ b \in 1 .. Len(w)
    BY <1>1, <1>3, <1>4, <2>1
  <2>4. w[b].end
    BY <1>3, <2>2, <2>3
  <2> QED BY <2>1, <2>4
<1> QED BY <1>1, <1>2, <1>3, <1>5

\* The first newline ends the next line.
LEMMA FirstLine ==
  ASSUME NEW s \in Seq(Messages), NEW w \in Seq(Bytes),
         NEW k \in 0 .. Len(s), NEW e, Laid(s, w, k, e),
         NEW p \in 1 .. Len(w), w[p].end, \A b \in 1 .. p - 1 : ~ w[b].end
  PROVE  /\ k < Len(s) /\ e[k + 1] = p /\ w[p].of = s[k + 1]
         /\ IsFrame(s[k + 1], p - 1) <=> WellFramed(s[k + 1])
<1>1. e \in [0 .. Len(s) -> Int] /\ Len(s) \in Nat /\ Len(w) \in Nat
  BY DEF Laid
<1>2. k < Len(s)
  BY <1>1 DEF Laid
<1>3. k + 1 \in 1 .. Len(s) /\ k + 1 \in 0 .. Len(s) /\ k \in 0 .. Len(s) /\ (k + 1) - 1 = k
  BY <1>1, <1>2
<1>4. p - 1 < e[k + 1]
  <2>1. CASE p = 1
    BY <1>1, <1>2, <2>1 DEF Laid
  <2>2. CASE p # 1
    BY <2>2, NoLineYet
  <2> QED BY <2>1, <2>2
<1>5. e[k] <= 0 /\ e[k + 1] \in Int /\ e[k] \in Int /\ e[k + 1] = e[k] + Size[s[k + 1]] + 1
  BY <1>1, <1>3, ZenonT(30) DEF Laid
<1>6. p <= e[k + 1] /\ e[k] < p
  BY <1>4, <1>5
<1>7. w[p].of = s[k + 1] /\ e[k + 1] = p
  BY <1>3, <1>6 DEF Laid
<1>8. s[k + 1] \in Messages /\ Size[s[k + 1]] \in Nat
  BY <1>3, LineFacts
<1>9. CASE e[k] = 0
  <2>1. p - 1 = Size[s[k + 1]]
    BY <1>5, <1>7, <1>8, <1>9
  <2> QED BY <1>2, <1>7, <2>1 DEF WellFramed
<1>10. CASE e[k] < 0
  <2>1. MaxFrame < Size[s[k + 1]] /\ MaxFrame \in Nat
    BY <1>10, PeerAssumption DEF Laid
  <2> QED BY <1>2, <1>5, <1>7, <1>8, <1>10, <2>1 DEF IsFrame, WellFramed
<1> QED BY <1>5, <1>9, <1>10
-----------------------------------------------------------------------------
(* Frames.                                                                 *)

\* k lines were taken of the stream, what is left of it is laid out, and what
\* they were has been delivered.
StreamInv(k) ==
  /\ \A l, n \in DOMAIN sent : sent[l] = sent[n] => l = n
  /\ \E e : Laid(sent, buf \o wire, k, e)
  /\ DeliveredOf(k)

\* Bytes that change place, or are lost with a line that has no end yet.
LEMMA StreamShift ==
  ASSUME TypeOK, TypeOK', NEW k \in 0 .. Len(sent), StreamInv(k), UNCHANGED <<sent, delivered>>,
         NEW p \in 0 .. Len(buf), p > 0 => p > MaxFrame /\ \A b \in 1 .. p : ~ buf[b].end,
         Len(buf' \o wire') = Len(buf \o wire) - p,
         \A b \in 1 .. Len(buf' \o wire') : (buf' \o wire')[b] = (buf \o wire)[b + p]
  PROVE  StreamInv(k)'
<1> DEFINE w == buf \o wire
           v == buf' \o wire'
<1>1. /\ w \in Seq(Bytes) /\ v \in Seq(Bytes) /\ sent \in Seq(Messages) /\ Len(sent) \in Nat
      /\ p \in 0 .. Len(w) /\ \A b \in 1 .. p : w[b] = buf[b]
  BY Concatenation DEF TypeOK
<1>2. PICK e : Laid(sent, w, k, e)
  BY DEF StreamInv
<1>3. Len(v) = Len(w) - p /\ \A b \in 1 .. Len(v) : v[b] = w[b + p]
  OBVIOUS
<1> HIDE DEF w, v
<1>4. /\ e[k] <= p /\ (k < Len(sent) => p < e[k + 1])
      /\ e[k] < p => k < Len(sent) /\ MaxFrame < Size[sent[k + 1]]
  <2>1. /\ e \in [0 .. Len(sent) -> Int] /\ e[k] <= 0 /\ (k < Len(sent) => 0 < e[k + 1])
        /\ e[k] < 0 => k < Len(sent) /\ MaxFrame < Size[sent[k + 1]]
    BY <1>2 DEF Laid
  <2>2. CASE p = 0
    BY <2>1, <2>2
  <2>3. CASE p > 0
    <3>1. p \in 1 .. Len(w) /\ \A b \in 1 .. p : ~ w[b].end
      BY <1>1, <2>3
    <3>2. k < Len(sent) /\ p < e[k + 1]
      BY <1>1, <1>2, <3>1, NoLineYet
    <3>3. k + 1 \in 1 .. Len(sent) /\ (k + 1) - 1 = k /\ sent[k + 1] \in Messages
          /\ e[k] \in Int /\ e[k + 1] \in Int
      BY <1>1, <2>1, <3>2, SMTT(30)
    <3>4. e[k + 1] = e[k] + Size[sent[k + 1]] + 1 /\ Size[sent[k + 1]] \in Nat
      BY <1>2, <3>3, SizeIsNumber DEF Laid
    <3> QED BY <2>1, <2>3, <3>2, <3>3, <3>4, PeerAssumption
  <2> QED BY <2>2, <2>3
<1>5. \E f : Laid(sent, v, k, f)
  BY <1>1, <1>2, <1>3, <1>4, LaidTaken
<1>6. \E f : Laid(sent', buf' \o wire', k, f)
  BY <1>5 DEF v
<1> QED BY <1>6 DEF StreamInv, DeliveredOf

\* A line that was never written before.
LEMMA StreamSend ==
  ASSUME TypeOK, NEW k \in 0 .. Len(sent), StreamInv(k), NEW m \in Messages, Send(m)
  PROVE  StreamInv(k)'
<1>1. /\ sent' = Append(sent, m) /\ wire' = wire \o Line(m) /\ UNCHANGED <<buf, delivered>>
      /\ \A l \in 1 .. Len(sent) : sent[l] # m
      /\ sent \in Seq(Messages) /\ buf \in Seq(Bytes) /\ wire \in Seq(Bytes)
  BY DEF Send, TypeOK, Contains
<1>2. /\ Len(sent) \in Nat /\ DOMAIN sent = 1 .. Len(sent)
      /\ DOMAIN sent' = 1 .. Len(sent) + 1
      /\ sent'[Len(sent) + 1] = m /\ \A l \in 1 .. Len(sent) : sent'[l] = sent[l]
  BY <1>1
<1>3. \A l, n \in DOMAIN sent' : sent'[l] = sent'[n] => l = n
  BY <1>1, <1>2 DEF StreamInv
<1>4. \E f : Laid(sent', buf' \o wire', k, f)
  <2> DEFINE w == buf \o wire
  <2>1. w \in Seq(Bytes) /\ Line(m) \in Seq(Bytes)
    BY <1>1, LineFacts
  <2>2. buf' \o wire' = w \o Line(m)
    <3>1. (buf \o wire) \o Line(m) = buf \o (wire \o Line(m))
      BY <1>1, <2>1, ConcatAssociative, SMTT(30)
    <3> QED BY <1>1, <3>1
  <2>3. PICK e : Laid(sent, w, k, e)
    BY DEF StreamInv
  <2> HIDE DEF w
  <2>4. \E f : Laid(Append(sent, m), w \o Line(m), k, f)
    BY <1>1, <2>1, <2>3, LaidWritten
  <2> QED BY <1>1, <2>2, <2>4
<1>5. DeliveredOf(k)'
  <2>1. /\ \A i \in DOMAIN delivered : \E l \in 1 .. k : sent[l] = delivered[i] /\ WellFramed(sent[l])
        /\ \A l \in 1 .. k : WellFramed(sent[l]) => \E i \in DOMAIN delivered : delivered[i] = sent[l]
        /\ \A i, j \in DOMAIN delivered, l, n \in DOMAIN sent :
             i < j /\ delivered[i] = sent[l] /\ delivered[j] = sent[n] => l < n
    BY DEF StreamInv, DeliveredOf
  <2>2. \A l \in 1 .. k : l \in 1 .. Len(sent) /\ sent'[l] = sent[l]
    BY <1>2
  <2>3. \A i \in DOMAIN delivered : \E l \in 1 .. k : sent'[l] = delivered[i] /\ WellFramed(sent'[l])
    BY <2>1, <2>2
  <2>4. \A l \in 1 .. k : WellFramed(sent'[l]) => \E i \in DOMAIN delivered : delivered[i] = sent'[l]
    BY <2>1, <2>2
  <2>5. ASSUME NEW i \in DOMAIN delivered, NEW l \in DOMAIN sent', delivered[i] = sent'[l]
        PROVE  l \in 1 .. Len(sent)
    <3>1. PICK q \in 1 .. k : sent[q] = delivered[i]
      BY <2>1
    <3>2. sent'[l] # m
      BY <1>1, <2>2, <2>5, <3>1
    <3> QED BY <1>2, <3>2
  <2>6. \A i, j \in DOMAIN delivered, l, n \in DOMAIN sent' :
          i < j /\ delivered[i] = sent'[l] /\ delivered[j] = sent'[n] => l < n
    BY <1>2, <2>1, <2>5
  <2> QED BY <1>1, <2>3, <2>4, <2>6, ZenonT(30) DEF DeliveredOf
<1> QED BY <1>3, <1>4, <1>5 DEF StreamInv

\* The next line is taken.
LEMMA StreamParse ==
  ASSUME TypeOK, NEW k \in 0 .. Len(sent), StreamInv(k), Parse
  PROVE  /\ k + 1 \in 1 .. Len(sent) /\ buf[NewlineAt].of = sent[k + 1]
         /\ StreamInv(k + 1)'
<1> DEFINE w == buf \o wire
           p == NewlineAt
           v == SubSeq(buf, p + 1, Len(buf)) \o wire
<1>1. /\ p \in 1 .. Len(buf) /\ buf[p].end /\ \A b \in 1 .. p - 1 : ~ buf[b].end
  BY NewlineFacts DEF Parse, TypeOK
<1> HIDE DEF p
<1>2. /\ sent \in Seq(Messages) /\ buf \in Seq(Bytes) /\ wire \in Seq(Bytes)
      /\ Len(sent) \in Nat /\ Len(buf) \in Nat
  BY DEF TypeOK
<1>3. /\ w \in Seq(Bytes) /\ Len(w) = Len(buf) + Len(wire) /\ p \in 1 .. Len(w)
      /\ \A b \in 1 .. Len(buf) : w[b] = buf[b]
  BY <1>1, <1>2
<1>4. /\ v \in Seq(Bytes) /\ Len(v) = Len(w) - p
      /\ \A b \in 1 .. Len(v) : v[b] = w[b + p]
  BY <1>1, <1>2, CutConcatenation, SMTT(30)
<1>5. PICK e : Laid(sent, w, k, e)
  BY DEF StreamInv
<1>6. w[p].end /\ w[p] = buf[p] /\ \A b \in 1 .. p - 1 : ~ w[b].end
  BY <1>1, <1>2, <1>3
<1> HIDE DEF w, v
<1>7. /\ k < Len(sent) /\ e[k + 1] = p /\ buf[p].of = sent[k + 1]
      /\ IsFrame(sent[k + 1], p - 1) <=> WellFramed(sent[k + 1])
  <2>1. /\ k < Len(sent) /\ e[k + 1] = p /\ w[p].of = sent[k + 1]
        /\ IsFrame(sent[k + 1], p - 1) <=> WellFramed(sent[k + 1])
    BY <1>2, <1>3, <1>5, <1>6, FirstLine, Zenon
  <2> QED BY <1>6, <2>1
<1> DEFINE j == k + 1
           m == sent[j]
<1>8. j \in 0 .. Len(sent) /\ j \in 1 .. Len(sent) /\ m \in Messages
  BY <1>2, <1>7
<1>9. j < Len(sent) => p < e[j + 1]
  <2> SUFFICES ASSUME j < Len(sent) PROVE p < e[j + 1]
    OBVIOUS
  <2>1. j + 1 \in 1 .. Len(sent) /\ (j + 1) - 1 = j /\ sent[j + 1] \in Messages
    BY <1>2, <1>8
  <2>2. e[j + 1] = e[j] + Size[sent[j + 1]] + 1 /\ Size[sent[j + 1]] \in Nat
    BY <1>5, <2>1, SizeIsNumber DEF Laid
  <2> QED BY <1>1, <1>7, <2>2
<1>10. \E f : Laid(sent, v, j, f)
  <2>1. p \in 0 .. Len(w) /\ e[j] <= p /\ ~ (e[j] < p)
    BY <1>3, <1>7
  <2> QED BY <1>2, <1>3, <1>4, <1>5, <1>8, <1>9, <2>1, LaidTaken, Zenon
<1>11. /\ sent' = sent /\ buf' \o wire' = v
       /\ WellFramed(m) => delivered' = Append(delivered, m)
       /\ ~ WellFramed(m) => delivered' = delivered
  BY <1>7 DEF Parse, Dispatch, peerVars, trackerVars, v, p
<1>12. DeliveredOf(j)'
  <2> DEFINE d == DOMAIN delivered
  <2>1. /\ \A i \in d : \E l \in 1 .. k : sent[l] = delivered[i] /\ WellFramed(sent[l])
        /\ \A l \in 1 .. k : WellFramed(sent[l]) => \E i \in d : delivered[i] = sent[l]
        /\ \A i, n \in d, l, q \in DOMAIN sent :
             i < n /\ delivered[i] = sent[l] /\ delivered[n] = sent[q] => l < q
        /\ \A l, n \in DOMAIN sent : sent[l] = sent[n] => l = n
    BY DEF StreamInv, DeliveredOf
  <2>2. 1 .. j = 1 .. k \cup {j}
    BY <1>2
  <2>3. CASE ~ WellFramed(m)
    <3>1. delivered' = delivered
      BY <1>11, <2>3
    <3>2. \A i \in d : \E l \in 1 .. j : sent[l] = delivered[i] /\ WellFramed(sent[l])
      BY <2>1, <2>2
    <3>3. \A l \in 1 .. j : WellFramed(sent[l]) => \E i \in d : delivered[i] = sent[l]
      BY <2>1, <2>2, <2>3
    <3> QED BY <1>11, <2>1, <3>1, <3>2, <3>3 DEF DeliveredOf
  <2>4. CASE WellFramed(m)
    <3> DEFINE x == Len(delivered) + 1
    <3>1. /\ delivered' = Append(delivered, m) /\ delivered \in Seq(Messages)
      BY <1>11, <2>4 DEF TypeOK
    <3>2. /\ d = 1 .. Len(delivered) /\ Len(delivered) \in Nat
          /\ DOMAIN delivered' = d \cup {x} /\ delivered'[x] = m
          /\ \A i \in d : delivered'[i] = delivered[i]
      BY <1>8, <3>1
    <3>3. \A i \in d \cup {x} : \E l \in 1 .. j : sent[l] = delivered'[i] /\ WellFramed(sent[l])
      BY <1>8, <2>1, <2>2, <2>4, <3>2
    <3>4. \A l \in 1 .. j : WellFramed(sent[l]) => \E i \in d \cup {x} : delivered'[i] = sent[l]
      BY <2>1, <2>2, <3>2
    <3>5. \A i \in d \cup {x}, n \in d \cup {x} : i < n => i \in d
      BY <3>2
    <3>6. ASSUME NEW i \in d, NEW l \in DOMAIN sent, delivered[i] = sent[l] PROVE l < j
      <4>1. PICK q \in 1 .. k : sent[q] = delivered[i]
        BY <2>1
      <4>2. q \in DOMAIN sent
        BY <1>2, <1>7
      <4>3. q = l
        BY <2>1, <3>6, <4>1, <4>2
      <4> QED BY <4>3
    <3>7. \A l \in DOMAIN sent : sent[l] = m => l = j
      BY <1>2, <1>8, <2>1
    <3>8. ASSUME NEW i \in d \cup {x}, NEW n \in d \cup {x}, NEW l \in DOMAIN sent, NEW q \in DOMAIN sent,
                 i < n, delivered'[i] = sent[l], delivered'[n] = sent[q]
          PROVE  l < q
      <4>1. i \in d /\ delivered[i] = sent[l]
        BY <3>2, <3>5, <3>8
      <4>2. CASE n = x
        BY <3>2, <3>6, <3>7, <3>8, <4>1, <4>2
      <4>3. CASE n # x
        BY <2>1, <3>2, <3>8, <4>1, <4>3, SMTT(30)
      <4> QED BY <4>2, <4>3
    <3> QED BY <1>11, <3>2, <3>3, <3>4, <3>8 DEF DeliveredOf
  <2> QED BY <2>3, <2>4
<1>13. StreamInv(j)'
  BY <1>10, <1>11, <1>12 DEF StreamInv
<1> QED BY <1>7, <1>8, <1>13 DEF p

LEMMA CutAndJoined ==
  ASSUME NEW S, NEW s \in Seq(S), NEW n \in 1 .. Len(s)
  PROVE  SubSeq(s, 1, n) \o SubSeq(s, n + 1, Len(s)) = s
<1> DEFINE u == SubSeq(s, 1, n)
           v == SubSeq(s, n + 1, Len(s))
<1>1. /\ u \in Seq(S) /\ Len(u) = n /\ \A i \in 1 .. n : u[i] = s[i]
  OBVIOUS
<1>2. /\ v \in Seq(S) /\ Len(v) = Len(s) - n /\ \A i \in 1 .. Len(s) - n : v[i] = s[n + i]
  OBVIOUS
<1> HIDE DEF u, v
<1>3. /\ u \o v \in Seq(S) /\ Len(u \o v) = Len(u) + Len(v)
      /\ \A i \in 1 .. Len(u) : (u \o v)[i] = u[i]
      /\ \A i \in 1 .. Len(v) : (u \o v)[Len(u) + i] = v[i]
  <2>1. u \in Seq(S) /\ v \in Seq(S)
    BY <1>1, <1>2
  <2> QED BY <2>1, Concatenation
<1>4. Len(u \o v) = Len(s)
  BY <1>1, <1>2, <1>3
<1>5. ASSUME NEW i \in 1 .. Len(s) PROVE (u \o v)[i] = s[i]
  <2>1. CASE i \in 1 .. n
    BY <1>1, <1>3, <2>1
  <2>2. CASE i \notin 1 .. n
    <3> DEFINE c == i - n
    <3>1. c \in 1 .. Len(s) - n /\ n + c = i
      BY <2>2
    <3>2. v[c] = s[n + c] /\ (u \o v)[n + c] = v[c]
      BY <1>1, <1>2, <1>3, <3>1
    <3> QED BY <3>1, <3>2
  <2> QED BY <2>1, <2>2
<1> QED BY <1>3, <1>4, <1>5, SeqEqual DEF u, v

\* Neither a chunk nor the loss of a line that is too large changes the lines.
LEMMA StreamQuiet ==
  ASSUME TypeOK, TypeOK', NEW k \in 0 .. Len(sent), StreamInv(k),
         \/ FailFast
         \/ \E n \in 1 .. Len(wire) : ReadChunk(n)
         \/ UNCHANGED <<sent, wire, buf, delivered>>
  PROVE  StreamInv(k)'
<1>1. /\ sent \in Seq(Messages) /\ buf \in Seq(Bytes) /\ wire \in Seq(Bytes)
      /\ Len(buf) \in Nat /\ Len(wire) \in Nat /\ MaxFrame \in Nat
  BY PeerAssumption DEF TypeOK
<1>2. ASSUME UNCHANGED <<sent, delivered>>, buf' \o wire' = buf \o wire PROVE StreamInv(k)'
  BY <1>2 DEF StreamInv, DeliveredOf
<1>3. CASE FailFast
  <2>1. /\ buf' = <<>> /\ UNCHANGED <<sent, wire, delivered>>
        /\ Len(buf) > MaxFrame /\ \A b \in 1 .. Len(buf) : ~ buf[b].end
    BY <1>1, <1>3, NewlineFacts DEF FailFast
  <2>2. buf' \o wire' = wire
    BY <1>1, <2>1
  <2>3. /\ Len(wire) = Len(buf \o wire) - Len(buf)
        /\ \A b \in 1 .. Len(wire) : wire[b] = (buf \o wire)[b + Len(buf)]
    BY <1>1
  <2>4. Len(buf) \in 0 .. Len(buf)
    BY <1>1
  <2> DEFINE p == Len(buf)
  <2> HIDE DEF p
  <2>5. /\ p \in 0 .. Len(buf) /\ p > MaxFrame /\ \A b \in 1 .. p : ~ buf[b].end
        /\ Len(buf' \o wire') = Len(buf \o wire) - p
        /\ \A b \in 1 .. Len(buf' \o wire') : (buf' \o wire')[b] = (buf \o wire)[b + p]
    BY <2>1, <2>2, <2>3, <2>4 DEF p
  <2> QED BY <2>1, <2>5, StreamShift
<1>4. ASSUME NEW n \in 1 .. Len(wire), ReadChunk(n) PROVE StreamInv(k)'
  <2>1. /\ buf' = buf \o SubSeq(wire, 1, n) /\ wire' = SubSeq(wire, n + 1, Len(wire))
        /\ UNCHANGED <<sent, delivered>>
    BY <1>4 DEF ReadChunk
  <2>2. SubSeq(wire, 1, n) \in Seq(Bytes) /\ SubSeq(wire, n + 1, Len(wire)) \in Seq(Bytes)
    BY <1>1
  <2>3. buf' \o wire' = buf \o (SubSeq(wire, 1, n) \o SubSeq(wire, n + 1, Len(wire)))
    <3> DEFINE u == SubSeq(wire, 1, n)
               v == SubSeq(wire, n + 1, Len(wire))
    <3>1. buf \in Seq(Bytes) /\ u \in Seq(Bytes) /\ v \in Seq(Bytes)
      BY <1>1, <2>2
    <3>2. buf' = buf \o u /\ wire' = v
      BY <2>1
    <3> HIDE DEF u, v
    <3>3. (buf \o u) \o v = buf \o (u \o v)
      BY <3>1, ConcatAssociative, SMTT(30)
    <3> QED BY <3>2, <3>3 DEF u, v
  <2>4. buf' \o wire' = buf \o wire
    BY <1>1, <2>3, CutAndJoined
  <2> QED BY <1>2, <2>1, <2>4
<1>5. CASE UNCHANGED <<sent, wire, buf, delivered>>
  BY <1>2, <1>5
<1> QED BY <1>3, <1>4, <1>5
-----------------------------------------------------------------------------
(* Answers.                                                                *)

\* Of the requests among the first k lines: whose handler runs has no outcome,
\* and what was answered is the outcome.
Answered(k) ==
  /\ \A a \in DOMAIN answers : answers[a].id \in Requests => answers[a].end = outcome[answers[a].id]
  /\ AnswerIsOwn
  /\ \A m \in running : (\E l \in 1 .. k : sent[l] = m) /\ (m \in Requests => outcome[m] = "none")
  /\ \A r \in Requests : outcome[r] # "none" => \E l \in 1 .. k : sent[l] = r

\* An outcome that was none: nothing has been answered of it.
LEMMA Decided ==
  ASSUME TypeOK, NEW k \in 0 .. Len(sent), Answered(k)
  PROVE  /\ \A a \in DOMAIN answers : answers[a].id \in Requests => outcome[answers[a].id] # "none"
         /\ \A r \in Requests : future[r] \in Ends => outcome[r] # "none"
<1>1. ASSUME NEW a \in DOMAIN answers, answers[a].id \in Requests
      PROVE  outcome[answers[a].id] # "none"
  <2>1. answers[a] \in Answer
    BY DEF TypeOK
  <2>2. answers[a].end \in Ends
    BY <2>1 DEF Answer
  <2>3. answers[a].end = outcome[answers[a].id]
    BY <1>1 DEF Answered
  <2> QED BY <2>2, <2>3 DEF Ends
<1> QED BY <1>1 DEF Answered, AnswerIsOwn, Ends

\* What a caller does.
LEMMA AnsweredCaller ==
  ASSUME TypeOK, NEW k \in 0 .. Len(sent), Answered(k),
         UNCHANGED <<outcome, answers, running>>,
         \A l \in 1 .. k : sent'[l] = sent[l],
         \A r \in Requests : future'[r] \in Ends => future'[r] = future[r]
  PROVE  Answered(k)'
<1>1. \A r \in Requests : future'[r] \in Ends => future'[r] = outcome[r]
  BY DEF Answered, AnswerIsOwn
<1> QED BY <1>1 DEF Answered, AnswerIsOwn

LEMMA AnsweredReceive ==
  ASSUME TypeOK, NEW k \in 0 .. Len(sent), Answered(k), Receive
  PROVE  Answered(k)'
<1> DEFINE a == Head(answers)
<1>1. /\ answers \in Seq(Answer) /\ answers # <<>> /\ answers' = Tail(answers)
      /\ Resolve(a) /\ UNCHANGED <<sent, running, outcome>>
  BY DEF Receive, TypeOK
<1>2. /\ 1 \in DOMAIN answers /\ a = answers[1]
      /\ \A i \in DOMAIN answers' : i + 1 \in DOMAIN answers /\ answers'[i] = answers[i + 1]
  BY <1>1
<1> HIDE DEF a
<1>3. a.id \in Requests => a.end = outcome[a.id]
  BY <1>2 DEF Answered
<1>4. ASSUME NEW r \in Requests, future'[r] \in Ends PROVE future'[r] = outcome[r]
  <2>1. CASE r = a.id /\ a.id \in pending /\ future[a.id] = "waiting"
    BY <1>1, <1>3, <2>1 DEF Resolve, TypeOK
  <2>2. CASE ~ (r = a.id /\ a.id \in pending /\ future[a.id] = "waiting")
    <3>1. future'[r] = future[r]
      BY <1>1, <2>2 DEF Resolve, TypeOK
    <3> QED BY <1>4, <3>1 DEF Answered, AnswerIsOwn
  <2> QED BY <2>1, <2>2
<1>5. \A i \in DOMAIN answers' : answers'[i].id \in Requests => answers'[i].end = outcome[answers'[i].id]
  BY <1>2 DEF Answered
<1> QED BY <1>1, <1>4, <1>5 DEF Answered, AnswerIsOwn

\* A handler that ends decides what nobody had answered.
LEMMA AnsweredHandler ==
  ASSUME TypeOK, NEW k \in 0 .. Len(sent), Answered(k),
         NEW m \in running, NEW end \in Ends, HandlerEnds(m, end)
  PROVE  Answered(k)'
<1>1. /\ running' = running \ {m} /\ UNCHANGED <<sent, future>>
      /\ \A r \in Requests : outcome'[r] = IF r = m THEN end ELSE outcome[r]
      /\ answers' = IF m \in Requests THEN Append(answers, [id |-> m, end |-> end]) ELSE answers
      /\ answers \in Seq(Answer) /\ running \subseteq Messages
  BY DEF HandlerEnds, trackerVars, TypeOK
<1>2. (\E l \in 1 .. k : sent[l] = m) /\ (m \in Requests => outcome[m] = "none")
  BY DEF Answered
<1>3. /\ \A a \in DOMAIN answers : answers[a].id \in Requests => answers[a].id # m
      /\ \A r \in Requests : future[r] \in Ends => r # m
  BY <1>2, Decided
<1>4. \A a \in DOMAIN answers : answers[a].id \in Requests => answers[a].end = outcome'[answers[a].id]
  BY <1>1, <1>3 DEF Answered
<1>5. \A a \in DOMAIN answers' : answers'[a].id \in Requests => answers'[a].end = outcome'[answers'[a].id]
  <2>1. CASE m \notin Requests
    BY <1>1, <1>4, <2>1
  <2>2. CASE m \in Requests
    <3> DEFINE new == [id |-> m, end |-> end]
    <3>1. /\ \A a \in DOMAIN answers' : a \in DOMAIN answers \/ answers'[a] = new
          /\ \A a \in DOMAIN answers : answers'[a] = answers[a]
      <4>1. new \in Answer
        BY <1>1 DEF Answer
      <4>2. answers' = Append(answers, new)
        BY <1>1, <2>2
      <4> HIDE DEF new
      <4> QED BY <1>1, <4>1, <4>2
    <3>2. new.id = m /\ new.end = end
      OBVIOUS
    <3> HIDE DEF new
    <3> QED BY <1>1, <1>4, <2>2, <3>1, <3>2
  <2> QED BY <2>1, <2>2
<1>6. \A r \in Requests : future'[r] \in Ends => future'[r] = outcome'[r]
  BY <1>1, <1>3 DEF Answered, AnswerIsOwn
<1>7. \A q \in running' : (\E l \in 1 .. k : sent'[l] = q) /\ (q \in Requests => outcome'[q] = "none")
  BY <1>1 DEF Answered
<1>8. \A r \in Requests : outcome'[r] # "none" => \E l \in 1 .. k : sent'[l] = r
  BY <1>1, <1>2 DEF Answered
<1> QED BY <1>5, <1>6, <1>7, <1>8 DEF Answered, AnswerIsOwn

\* A frame that is dispatched is the next line: it was not there before.
LEMMA AnsweredParse ==
  ASSUME TypeOK, NEW k \in 0 .. Len(sent), Answered(k), Parse,
         \A l, n \in DOMAIN sent : sent[l] = sent[n] => l = n,
         k + 1 \in 1 .. Len(sent), buf[NewlineAt].of = sent[k + 1]
  PROVE  Answered(k + 1)'
<1> DEFINE j == k + 1
           m == sent[j]
<1>1. /\ m \in Messages /\ UNCHANGED <<sent, future>>
      /\ Dispatch(m) \/ UNCHANGED <<outcome, answers, running>>
      /\ answers \in Seq(Answer) /\ running \subseteq Messages
      /\ \A l \in 1 .. k : l \in 1 .. j
      /\ j \in 1 .. j
  BY DEF Parse, peerVars, trackerVars, TypeOK
<1>2. \A l \in 1 .. k : sent[l] # m
  <2>1. DOMAIN sent = 1 .. Len(sent) /\ Len(sent) \in Nat
    BY DEF TypeOK
  <2> QED BY <2>1
<1>3. CASE UNCHANGED <<outcome, answers, running>>
  <2>1. \A q \in running : \E l \in 1 .. j : sent[l] = q
    BY <1>1 DEF Answered
  <2>2. \A r \in Requests : outcome[r] # "none" => \E l \in 1 .. j : sent[l] = r
    BY <1>1 DEF Answered
  <2> QED BY <1>1, <1>3, <2>1, <2>2 DEF Answered, AnswerIsOwn
<1>4. CASE Dispatch(m)
  <2> DEFINE new == AnswersAtOnce(m)
  <2>1. /\ running' = IF Shape[m] \in {"request", "note"} THEN running \cup {m} ELSE running
        /\ answers' = answers \o new
        /\ \A r \in Requests :
             outcome'[r] = IF r = m /\ Shape[m] # "request" THEN "error" ELSE outcome[r]
    BY <1>4 DEF Dispatch
  <2>2. m \in Requests => outcome[m] = "none"
    BY <1>2 DEF Answered
  <2>3. m \in running => FALSE
    BY <1>2 DEF Answered
  <2>4. /\ \A a \in DOMAIN answers : answers[a].id \in Requests => answers[a].id # m
        /\ \A r \in Requests : future[r] \in Ends => r # m
    BY <2>2, Decided
  <2>5. \A a \in DOMAIN answers : answers[a].id \in Requests => answers[a].end = outcome'[answers[a].id]
    BY <2>1, <2>4 DEF Answered
  <2>6. /\ new \in Seq(Answer)
        /\ \A a \in DOMAIN new : /\ new[a].end = "error"
                                 /\ new[a].id # None => new[a].id = m /\ Shape[m] # "request"
    BY <1>1, AtOnceFacts
  <2> HIDE DEF new, m
  <2>7. \A a \in DOMAIN new : new[a].id \in Requests => new[a].end = outcome'[new[a].id]
    BY <2>1, <2>6, PeerAssumption DEF Requests
  <2>8. \A a \in DOMAIN answers' : \/ a \in DOMAIN answers /\ answers'[a] = answers[a]
                                   \/ \E b \in DOMAIN new : answers'[a] = new[b]
    <3>1. /\ Len(answers \o new) = Len(answers) + Len(new)
          /\ \A i \in 1 .. Len(answers) : (answers \o new)[i] = answers[i]
          /\ \A i \in 1 .. Len(new) : (answers \o new)[Len(answers) + i] = new[i]
      BY <1>1, <2>6, Concatenation
    <3>2. /\ DOMAIN answers = 1 .. Len(answers) /\ DOMAIN new = 1 .. Len(new)
          /\ DOMAIN answers' = 1 .. Len(answers) + Len(new)
          /\ Len(answers) \in Nat /\ Len(new) \in Nat
      BY <1>1, <2>1, <2>6, <3>1
    <3>3. ASSUME NEW a \in DOMAIN answers', a \notin DOMAIN answers
          PROVE  \E b \in DOMAIN new : answers'[a] = new[b]
      <4> DEFINE b == a - Len(answers)
      <4>1. b \in 1 .. Len(new) /\ Len(answers) + b = a
        BY <3>2, <3>3
      <4>2. answers'[a] = new[b]
        BY <2>1, <3>1, <4>1
      <4> QED BY <3>2, <4>1, <4>2
    <3> QED BY <2>1, <3>1, <3>2, <3>3
  <2>9. \A a \in DOMAIN answers' : answers'[a].id \in Requests => answers'[a].end = outcome'[answers'[a].id]
    BY <2>5, <2>7, <2>8
  <2>10. \A r \in Requests : future'[r] \in Ends => future'[r] = outcome'[r]
    BY <1>1, <2>1, <2>4 DEF Answered, AnswerIsOwn
  <2>11. \E l \in 1 .. j : sent'[l] = m
    BY <1>1 DEF m
  <2>12. ASSUME NEW q \in running'
         PROVE  (\E l \in 1 .. j : sent'[l] = q) /\ (q \in Requests => outcome'[q] = "none")
    <3>1. CASE q \in running
      <4>1. (\E l \in 1 .. k : sent[l] = q) /\ (q \in Requests => outcome[q] = "none") /\ q # m
        BY <2>3, <3>1 DEF Answered
      <4> QED BY <1>1, <2>1, <4>1
    <3>2. CASE q = m /\ Shape[m] \in {"request", "note"}
      BY <2>1, <2>2, <2>11, <3>2 DEF Requests, RequestShapes
    <3> QED BY <2>1, <2>12, <3>1, <3>2
  <2>13. ASSUME NEW r \in Requests, outcome'[r] # "none" PROVE \E l \in 1 .. j : sent'[l] = r
    <3>1. CASE r = m
      BY <2>11, <3>1
    <3>2. CASE r # m
      <4>1. \E l \in 1 .. k : sent[l] = r
        BY <2>1, <2>13, <3>2 DEF Answered
      <4> QED BY <1>1, <4>1
    <3> QED BY <3>1, <3>2
  <2> QED BY <2>9, <2>10, <2>12, <2>13 DEF Answered, AnswerIsOwn
<1> QED BY <1>1, <1>3, <1>4
-----------------------------------------------------------------------------
(* The invariant of the two peers.                                         *)

\* Some first lines are over: what is delivered and answered is of those, and the
\* bytes that are left are those of the others.
PeerInv ==
  /\ TypeOK
  /\ \E k \in 0 .. Len(sent) : StreamInv(k) /\ Answered(k)

LEMMA PeerInitially == Init => PeerInv
<1> SUFFICES ASSUME Init PROVE PeerInv
  OBVIOUS
<1>1. /\ sent = <<>> /\ buf = <<>> /\ wire = <<>> /\ delivered = <<>> /\ answers = <<>>
      /\ running = {}
      /\ \A r \in Requests : outcome[r] = "none" /\ future[r] = "none"
  BY DEF Init
<1>2. Len(sent) = 0 /\ 0 \in 0 .. Len(sent) /\ buf \o wire = <<>> /\ Len(buf \o wire) = 0
  BY <1>1
<1>3. Laid(sent, buf \o wire, 0, [l \in 0 .. 0 |-> 0])
  BY <1>1, <1>2 DEF Laid
<1>4. StreamInv(0)
  BY <1>1, <1>2, <1>3 DEF StreamInv, DeliveredOf
<1>5. Answered(0)
  BY <1>1 DEF Answered, AnswerIsOwn, Ends
<1> QED BY <1>2, <1>4, <1>5, TypeInitially DEF PeerInv

LEMMA PeerStep == PeerInv /\ [Next]_vars => PeerInv'
<1> SUFFICES ASSUME PeerInv, [Next]_vars PROVE PeerInv'
  OBVIOUS
<1>1. TypeOK /\ TypeOK'
  BY TypeStep DEF PeerInv
<1>2. PICK k \in 0 .. Len(sent) : StreamInv(k) /\ Answered(k)
  BY DEF PeerInv
<1>3. sent \in Seq(Messages) /\ Len(sent) \in Nat
  BY <1>1 DEF TypeOK
<1>4. ASSUME UNCHANGED sent, StreamInv(k)', Answered(k)' PROVE PeerInv'
  BY <1>1, <1>4 DEF PeerInv
<1>5. ASSUME NEW m \in Messages, Send(m) PROVE PeerInv'
  <2>1. StreamInv(k)'
    BY <1>1, <1>2, <1>5, StreamSend
  <2>2. /\ k \in 0 .. Len(sent') /\ \A l \in 1 .. k : sent'[l] = sent[l]
        /\ UNCHANGED <<outcome, answers, running>>
        /\ \A r \in Requests : future'[r] \in Ends => future'[r] = future[r]
    BY <1>3, <1>5 DEF Send, peerVars, Ends
  <2>3. Answered(k)'
    BY <1>1, <1>2, <2>2, AnsweredCaller
  <2> QED BY <1>1, <2>1, <2>2, <2>3 DEF PeerInv
<1>6. CASE Parse
  <2>1. /\ k + 1 \in 1 .. Len(sent) /\ buf[NewlineAt].of = sent[k + 1] /\ StreamInv(k + 1)'
    BY <1>1, <1>2, <1>6, StreamParse
  <2>2. \A l, n \in DOMAIN sent : sent[l] = sent[n] => l = n
    BY <1>2 DEF StreamInv
  <2>3. Answered(k + 1)'
    BY <1>1, <1>2, <1>6, <2>1, <2>2, AnsweredParse
  <2>4. sent' = sent /\ k + 1 \in 0 .. Len(sent')
    BY <1>3, <1>6, <2>1 DEF Parse
  <2> QED BY <1>1, <2>1, <2>3, <2>4 DEF PeerInv
<1>7. CASE FailFast \/ Close \/ UNCHANGED vars
           \/ (\E n \in 1 .. Len(wire) : ReadChunk(n))
           \/ (\E r \in Requests : TimeOut(r) \/ Expire(r))
  <2>1. /\ UNCHANGED <<sent, outcome, answers, running>>
        /\ \A r \in Requests : future'[r] \in Ends => future'[r] = future[r]
        /\ \/ FailFast
           \/ \E n \in 1 .. Len(wire) : ReadChunk(n)
           \/ UNCHANGED <<sent, wire, buf, delivered>>
    BY <1>1, <1>7 DEF FailFast, Close, ReadChunk, TimeOut, Expire, peerVars, trackerVars, vars, Ends, TypeOK
  <2>2. StreamInv(k)'
    BY <1>1, <1>2, <2>1, StreamQuiet
  <2>3. Answered(k)'
    BY <1>1, <1>2, <2>1, AnsweredCaller
  <2> QED BY <1>4, <2>1, <2>2, <2>3
<1>8. CASE Receive
  <2>1. UNCHANGED <<sent, wire, buf, delivered>>
    BY <1>8 DEF Receive
  <2>2. StreamInv(k)' /\ Answered(k)'
    BY <1>1, <1>2, <1>8, <2>1, StreamQuiet, AnsweredReceive
  <2> QED BY <1>4, <2>1, <2>2
<1>9. ASSUME NEW m \in running, NEW end \in Ends, HandlerEnds(m, end) PROVE PeerInv'
  <2>1. UNCHANGED <<sent, wire, buf, delivered>>
    BY <1>9 DEF HandlerEnds
  <2>2. StreamInv(k)'
    BY <1>1, <1>2, <2>1, StreamQuiet
  <2>3. Answered(k)'
    BY <1>1, <1>2, <1>9, AnsweredHandler
  <2> QED BY <1>4, <2>1, <2>2, <2>3
<1> QED BY <1>5, <1>6, <1>7, <1>8, <1>9 DEF Next, Progress

\* Whatever is sent, lost, read, answered and given up: frames and answers are
\* those of the lines that are over.
THEOREM PeerInvariance == Spec => []PeerInv
BY PeerInitially, PeerStep, PTL DEF Spec

\* For any messages, sizes and limit, and however the bytes are cut: the frames
\* that are delivered are the well-formed ones of the first lines, in order.
THEOREM FramesAreInOrder == Spec => []FramesInOrder
<1>1. PeerInv => FramesInOrder
  BY DEF PeerInv, StreamInv, FramesInOrder
<1> QED BY PeerInvariance, <1>1, PTL

\* A future never has the outcome of another request.
THEOREM AnswersAreOwn == Spec => []AnswerIsOwn
<1>1. PeerInv => AnswerIsOwn
  BY DEF PeerInv, Answered
<1> QED BY PeerInvariance, <1>1, PTL
=============================================================================
