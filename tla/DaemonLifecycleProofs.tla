------------------------ MODULE DaemonLifecycleProofs ------------------------
(***************************************************************************)
(* Proofs about DaemonLifecycle, for any finite set of connections and any *)
(* projects: its types, the reference count, and that the grace period     *)
(* runs when, and only when, the daemon has been used and serves nobody.   *)
(***************************************************************************)
EXTENDS DaemonLifecycle, FiniteSetTheorems, TLAPS

\* A waiter that was ended, or runs the callbacks, has led to the end.
EndIsDecided == grace \in {"cleaning", "done"} => event \/ signalled

\* main goes past its wait only with the event.
ReturnNeedsEvent == main # "serving" => event

\* What the grace period keeps.
GraceInv ==
  /\ TypeOK
  /\ GraceOnlyWhenUnused
  /\ UnusedIsTimed
  /\ EndIsDecided
  /\ ReturnNeedsEvent
-----------------------------------------------------------------------------
\* The next workspace cleanup_all takes is one of the projects, whichever are
\* left.
LEMMA ProceedTypes ==
  ASSUME TypeOK, NEW rest \in SUBSET Projects, Proceed(rest)
  PROVE  /\ cleanup' \in {"rmtree", "finished", "closing"}
         /\ toClean' \subseteq Projects /\ removing' \in Projects \cup {None}
         /\ failed' \in BOOLEAN /\ workspaces' \subseteq Projects
         /\ listening' \in BOOLEAN /\ socket' \in BOOLEAN
  BY DEF TypeOK, Proceed

\* Every variable starts in its set.
LEMMA TypeInit == Init => TypeOK
<1> SUFFICES ASSUME Init PROVE TypeOK
  OBVIOUS
<1>1. /\ event \in BOOLEAN /\ signalled \in BOOLEAN /\ failed \in BOOLEAN
      /\ listening \in BOOLEAN /\ socket \in BOOLEAN /\ lock \in BOOLEAN
      /\ busy \in BOOLEAN
  BY Zenon DEF Init
<1>2. /\ active \in Nat /\ grace = "none" /\ cleanup = "idle"
      /\ toClean \subseteq Projects /\ removing = None
      /\ workspaces \subseteq Projects /\ directories \subseteq Projects
      /\ conn \in [Conns -> {"none", "accepted", "open", "over"}]
      /\ main = "serving"
  BY DEF Init
<1> QED
  BY <1>1, <1>2 DEF TypeOK

\* Every step keeps every variable in its set.
LEMMA TypeStep == TypeOK /\ [Next]_vars => TypeOK'
<1> SUFFICES ASSUME TypeOK, [Next]_vars PROVE TypeOK'
  OBVIOUS
<1> USE DEF TypeOK
<1>1. ASSUME NEW c \in Conns, Accept(c) PROVE TypeOK'
  BY <1>1 DEF Accept, countVars, cleanupVars, fileVars
<1>2. ASSUME NEW c \in Conns, ClientConnected(c) PROVE TypeOK'
  BY <1>2 DEF ClientConnected, ForgetWaiter, CancelWaiter, fileVars
<1>3. ASSUME NEW c \in Conns, ClientDisconnected(c) PROVE TypeOK'
  BY <1>3 DEF ClientDisconnected, CountDown, cleanupVars, fileVars
<1>4. ASSUME NEW p \in Projects, Initialize(p) PROVE TypeOK'
  BY <1>4 DEF Initialize, countVars, cleanupVars
<1>5. ASSUME GraceExpires PROVE TypeOK'
  <2>1. CASE event
    BY <1>5, <2>1 DEF GraceExpires, cleanupVars
  <2>2. CASE ~event
    <3>1. Proceed(workspaces)
      BY <1>5, <2>2 DEF GraceExpires, Trigger
    <3> QED
      BY <1>5, <2>2, <3>1, ProceedTypes DEF GraceExpires, Trigger
  <2> QED
    BY <2>1, <2>2
<1>6. ASSUME Signal PROVE TypeOK'
  BY <1>6 DEF Signal, CancelWaiter, fileVars
<1>7. ASSUME SignalShutdown PROVE TypeOK'
  <2>1. CASE event
    BY <1>7, <2>1, ZenonT(30) DEF SignalShutdown, cleanupVars
  <2>2. CASE ~event
    <3>1. Proceed(workspaces)
      BY <1>7, <2>2 DEF SignalShutdown, Trigger
    <3> QED
      BY <1>7, <2>2, <3>1, ProceedTypes DEF SignalShutdown, Trigger
  <2> QED
    BY <2>1, <2>2
<1>8. ASSUME Removed PROVE TypeOK'
  <2>1. removing' \in Projects \cup {None} /\ directories' \subseteq Projects
    BY <1>8 DEF Removed
  <2>2. failed' \in BOOLEAN
    BY <1>8, Zenon DEF Removed
  <2>3. UNCHANGED <<active, grace, event, signalled, cleanup, toClean, workspaces,
                    socket, lock, conn, listening, busy, main>>
    BY <1>8 DEF Removed, countVars
  <2> QED
    BY <2>1, <2>2, <2>3
<1>9. ASSUME CleanupResumes PROVE TypeOK'
  <2>1. CASE cleanup = "rmtree"
    <3> DEFINE rest == IF failed THEN {} ELSE toClean
    <3>1. rest \in SUBSET Projects /\ Proceed(rest)
      BY <1>9, <2>1 DEF CleanupResumes
    <3> QED
      BY <1>9, <2>1, <3>1, ProceedTypes DEF CleanupResumes
  <2>2. CASE cleanup # "rmtree"
    BY <1>9, <2>2 DEF CleanupResumes
  <2> QED
    BY <2>1, <2>2
<1>10. ASSUME EngineRuns \/ EngineEnds PROVE TypeOK'
  <2>1. busy' \in BOOLEAN
    BY <1>10, Zenon DEF EngineRuns, EngineEnds
  <2>2. UNCHANGED <<countVars, cleanupVars, fileVars, conn, listening, main>>
    BY <1>10 DEF EngineRuns, EngineEnds
  <2> QED
    BY <2>1, <2>2 DEF countVars, cleanupVars, fileVars
<1>11. ASSUME MainReturns PROVE TypeOK'
  BY <1>11 DEF MainReturns, countVars, cleanupVars
<1>12. ASSUME CancelAll PROVE TypeOK'
  BY <1>12 DEF CancelAll, fileVars
<1>13. ASSUME LoopCloses \/ ProcessExits PROVE TypeOK'
  BY <1>13, ZenonT(30) DEF LoopCloses, ProcessExits, countVars, cleanupVars, fileVars
<1>14. ASSUME UNCHANGED vars PROVE TypeOK'
  BY <1>14 DEF vars
<1> QED
  BY <1>1, <1>2, <1>3, <1>4, <1>5, <1>6, <1>7, <1>8, <1>9, <1>10, <1>11,
     <1>12, <1>13, <1>14 DEF Next

\* Every variable keeps to its set.
THEOREM LifecycleTypes == Spec => []TypeOK
  BY TypeInit, TypeStep, PTL DEF Spec
-----------------------------------------------------------------------------
\* Every step keeps the count right: a handler that begins counts one up, one
\* that ends one down, and the count is never wrong enough for max() to matter.
LEMMA CountStep == TypeOK /\ CountIsOpen /\ [Next]_vars => CountIsOpen'
<1> SUFFICES ASSUME TypeOK, CountIsOpen, [Next]_vars, LoopRuns'
             PROVE  active' = Cardinality(Open')
  BY DEF CountIsOpen
<1>f. IsFiniteSet(Open)
  BY ConstantsAssumption, FS_Subset DEF Open
<1>1. ASSUME NEW c \in Conns, ClientConnected(c) PROVE active' = Cardinality(Open')
  <2>1. Open' = Open \cup {c} /\ c \notin Open
    BY <1>1 DEF ClientConnected, Open, TypeOK
  <2>2. Cardinality(Open') = Cardinality(Open) + 1
    BY <2>1, <1>f, FS_AddElement
  <2> QED
    BY <1>1, <2>2 DEF ClientConnected, CountIsOpen
<1>2. ASSUME NEW c \in Conns, ClientDisconnected(c) PROVE active' = Cardinality(Open')
  <2>1. Open' = Open \ {c} /\ c \in Open
    BY <1>2 DEF ClientDisconnected, Open, TypeOK
  <2>2. Cardinality(Open') = Cardinality(Open) - 1
    BY <2>1, <1>f, FS_RemoveElement
  <2>3. active = Cardinality(Open)
    BY <1>2 DEF ClientDisconnected, CountIsOpen
  <2>4. Cardinality(Open') \in Nat
    BY <2>1, <1>f, FS_RemoveElement, FS_CardinalityType
  <2>5. active' = IF active = 0 THEN 0 ELSE active - 1
    BY <1>2 DEF ClientDisconnected, CountDown
  <2>6. active \in Nat
    BY DEF TypeOK
  <2> QED
    BY <2>2, <2>3, <2>4, <2>5, <2>6
<1>3. ASSUME CancelAll PROVE active' = Cardinality(Open')
  <2>1. Open' = {}
    BY <1>3 DEF CancelAll, Open, Attached, TypeOK
  <2> QED
    BY <1>3, <2>1, FS_EmptySet DEF CancelAll
<1>4. ASSUME NEW c \in Conns, Accept(c) PROVE active' = Cardinality(Open')
  <2>1. Open' = Open /\ active' = active /\ main' = main
    BY <1>4 DEF Accept, Open, countVars, TypeOK
  <2> QED
    BY <2>1 DEF CountIsOpen, LoopRuns
<1>5. ASSUME MainReturns PROVE active' = Cardinality(Open')
  <2>1. Open' = Open /\ active' = active /\ LoopRuns
    BY <1>5 DEF MainReturns, Open, countVars, LoopRuns
  <2> QED
    BY <2>1 DEF CountIsOpen
<1>6. ASSUME LoopCloses \/ ProcessExits PROVE FALSE
  BY <1>6 DEF LoopCloses, ProcessExits, LoopRuns
<1>7. ASSUME UNCHANGED <<active, conn, main>> PROVE active' = Cardinality(Open')
  <2>1. Open' = Open /\ active' = active /\ LoopRuns
    BY <1>7 DEF Open, LoopRuns
  <2> QED
    BY <2>1 DEF CountIsOpen
<1>8. ASSUME \/ \E p \in Projects : Initialize(p)
             \/ GraceExpires \/ Signal \/ SignalShutdown
             \/ Removed \/ CleanupResumes \/ EngineRuns \/ EngineEnds
             \/ UNCHANGED vars
      PROVE  UNCHANGED <<active, conn, main>>
  BY <1>8 DEF Initialize, GraceExpires, Signal, SignalShutdown, Removed,
              CleanupResumes, EngineRuns, EngineEnds, countVars, vars
<1> QED
  BY <1>1, <1>2, <1>3, <1>4, <1>5, <1>6, <1>7, <1>8 DEF Next

\* While the loop runs, the reference count is the number of connections that
\* are being served, however they come and go.
THEOREM ReferenceCount == Spec => []CountIsOpen
<1>1. Init => CountIsOpen
  <2>1. Init => Open = {}
    BY DEF Init, Open
  <2> QED
    BY <2>1, FS_EmptySet DEF Init, CountIsOpen
<1> QED
  BY <1>1, LifecycleTypes, CountStep, PTL DEF Spec
-----------------------------------------------------------------------------
\* The daemon starts in the invariant of the grace period.
LEMMA GraceInit == Init => GraceInv
  BY TypeInit DEF Init, GraceInv, GraceOnlyWhenUnused, UnusedIsTimed,
     EndIsDecided, ReturnNeedsEvent

\* Every step keeps the invariant of the grace period.
LEMMA GraceStep == GraceInv /\ [Next]_vars => GraceInv'
<1> SUFFICES ASSUME GraceInv, [Next]_vars PROVE GraceInv'
  OBVIOUS
<1> DEFINE Rest == GraceOnlyWhenUnused /\ UnusedIsTimed /\ EndIsDecided
                   /\ ReturnNeedsEvent
<1>t. TypeOK /\ TypeOK'
  BY TypeStep DEF GraceInv
<1>g. Rest
  BY DEF GraceInv
<1> HIDE DEF GraceInv
<1> USE DEF GraceOnlyWhenUnused, UnusedIsTimed, EndIsDecided, ReturnNeedsEvent
<1>1. ASSUME NEW c \in Conns, ClientConnected(c) PROVE Rest'
  <2>1. active \in Nat
    BY <1>t DEF TypeOK
  <2>2. active' > 0
    BY <1>1, <2>1 DEF ClientConnected
  <2> QED
    BY <1>1, <1>g, <1>t, <2>2 DEF ClientConnected, ForgetWaiter, TypeOK
<1>2. ASSUME NEW c \in Conns, ClientDisconnected(c) PROVE Rest'
  <2>1. active = 0 => active' = 0
    BY <1>2 DEF ClientDisconnected, CountDown
  <2>2. grace \in {"none", "sleeping", "cleaning", "done"}
    BY <1>t DEF TypeOK
  <2> QED
    BY <1>2, <1>g, <2>1, <2>2 DEF ClientDisconnected
<1>3. ASSUME GraceExpires PROVE Rest'
  <2>1. /\ event'
        /\ grace' \in {"done", "cleaning"} /\ active' = active /\ active = 0
    BY <1>3, <1>g DEF GraceExpires, Trigger
  <2> QED
    BY <2>1
<1>4. ASSUME Signal PROVE Rest'
  BY <1>4, <1>g, <1>t DEF Signal, TypeOK
<1>5. ASSUME SignalShutdown PROVE Rest'
  <2>1. event' /\ grace' = grace /\ active' = active
    BY <1>5 DEF SignalShutdown, Trigger
  <2> QED
    BY <2>1, <1>g
<1>6. ASSUME CleanupResumes PROVE Rest'
  <2>1. event /\ UNCHANGED <<event, active, signalled, conn, main>>
    BY <1>6, <1>g DEF CleanupResumes
  <2>2. grace' \in {grace, "done"}
    BY <1>6 DEF CleanupResumes
  <2> QED
    BY <2>1, <2>2, <1>g
<1>7. ASSUME MainReturns \/ LoopCloses \/ ProcessExits PROVE Rest'
  BY <1>7, <1>g DEF MainReturns, LoopCloses, ProcessExits, countVars
<1>8. ASSUME CancelAll PROVE Rest'
  BY <1>8, <1>g DEF CancelAll
<1>9. ASSUME NEW c \in Conns, Accept(c) PROVE Rest'
  <2>1. \A d \in Conns : conn'[d] = "over" => conn[d] = "over"
    BY <1>9, <1>t DEF Accept, TypeOK
  <2> QED
    BY <1>9, <2>1, <1>g DEF Accept, countVars
<1>10. ASSUME \/ \E p \in Projects : Initialize(p)
              \/ Removed \/ EngineRuns \/ EngineEnds \/ UNCHANGED vars
       PROVE  Rest'
  <2>1. UNCHANGED <<countVars, conn, main>>
    BY <1>10 DEF Initialize, Removed, EngineRuns, EngineEnds, countVars, vars
  <2> QED
    BY <2>1, <1>g DEF countVars
<1>11. Rest'
  BY <1>1, <1>2, <1>3, <1>4, <1>5, <1>6, <1>7, <1>8, <1>9, <1>10 DEF Next
<1> QED
  BY <1>t, <1>11 DEF GraceInv

\* The grace period runs, and ends the daemon, only when no client is served.
THEOREM GraceSparesClients == Spec => []GraceOnlyWhenUnused
<1>1. GraceInv => GraceOnlyWhenUnused
  BY DEF GraceInv
<1> QED
  BY <1>1, GraceInit, GraceStep, PTL DEF Spec

\* A daemon that was used and serves nobody has its grace period running, or its
\* end has begun.
THEOREM UnusedNeverForgotten == Spec => []UnusedIsTimed
<1>1. GraceInv => UnusedIsTimed
  BY DEF GraceInv
<1> QED
  BY <1>1, GraceInit, GraceStep, PTL DEF Spec
=============================================================================
