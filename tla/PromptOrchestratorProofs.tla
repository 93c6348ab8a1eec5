---------------------- MODULE PromptOrchestratorProofs ----------------------
(***************************************************************************)
(* What holds of the prompt pipeline for every number of clients, jobs and *)
(* project directories.                                                    *)
(***************************************************************************)
EXTENDS PromptOrchestrator, TLAPS

\* A task that was submitted has a client, and from its sync on a workspace; a
\* job that was not is nobody's.
TaskInv ==
  \A j \in Jobs :
    /\ pc[j] = "unborn" =>
         owner[j] = None /\ held[j] = None /\ op[j] = "none" /\ j \notin cancelled
    /\ pc[j] # "unborn" => owner[j] \in Clients
    /\ pc[j] \in {"sync", "rev", "engine", "diff"} => held[j] \in Jobs

\* A client's task, its workspace, and the workspace of a rejection of its are
\* from jobs of its own; so is the workspace a task works with.
OwnerInv ==
  /\ \A c \in Clients :
       /\ activeTasks[c] # None => owner[activeTasks[c]] = c
       /\ workspaces[c] # None => owner[workspaces[c]] = c
       /\ rejecting[c].st # "none" =>
            rejecting[c].ws \in Jobs /\ owner[rejecting[c].ws] = c
  /\ \A j \in Jobs : held[j] # None => owner[held[j]] = owner[j]

TypeInv == TypeOK /\ TaskInv /\ OwnerInv

-----------------------------------------------------------------------------
(* The operators on histories keep to their sets.                          *)

\* The agent edits in a history are edits of jobs.
LEMMA TreeType ==
  ASSUME NEW h \in Revisions
  PROVE  Tree(h) \in SUBSET Jobs
<1>1. CASE h = <<>>
  BY <1>1 DEF Tree
<1>2. CASE h # <<>>
  <2>1. Len(h) \in 1 .. Len(h)
    BY <1>2 DEF Revisions
  <2>2. h[Len(h)] \in Commits
    BY <2>1 DEF Revisions
  <2> QED BY <1>2, <2>2 DEF Tree, Commits
<1> QED BY <1>1, <1>2

\* A history with one more commit is a history.
LEMMA CommitType ==
  ASSUME NEW h \in Revisions, NEW j \in Jobs, NEW tree \in SUBSET Jobs,
         NEW kind \in {"baseline", "sync", "edit", "project"}
  PROVE  Commit(h, kind, j, tree) \in Revisions
BY DEF Commit, Revisions, Commits

\* What a request resets to is a history, whether it names one or not.
LEMMA ResolveType ==
  ASSUME NEW revision \in Revisions, NEW h \in Revisions
  PROVE  Resolve(revision, h) \in Revisions
<1>1. CASE revision # <<>>
  BY <1>1 DEF Resolve
<1>2. CASE revision = <<>>
  <2>1. Len(h) \in Nat /\ h \in Seq(Commits)
    BY DEF Revisions
  <2>2. \A i \in 1 .. Len(h) - 1 : h[i] \in Commits
    BY <2>1
  <2>3. SubSeq(h, 1, Len(h) - 1) \in Seq(Commits)
    BY <2>1, <2>2
  <2> QED BY <1>2, <2>3 DEF Resolve, Revisions
<1> QED BY <1>1, <1>2
\* What becomes of the record of a rejection.
LEMMA RejectsType ==
  ASSUME NEW r \in Rejects
  PROVE  /\ [r EXCEPT !.attached = FALSE] \in Rejects
         /\ [r EXCEPT !.st = "done"] \in Rejects
         /\ NoReject \in Rejects
<1>1. NoReject \in Rejects
  BY DEF Rejects, NoReject, Revisions
<1>2. r = [st |-> r.st, ws |-> r.ws, to |-> r.to, attached |-> r.attached]
  BY DEF Rejects
<1> QED BY <1>1, <1>2 DEF Rejects

-----------------------------------------------------------------------------
(* TypeInv is inductive.                                                   *)

\* The daemon starts in a state of TypeInv.
LEMMA InitType == Init => TypeInv
BY ConstantsAssumption DEF Init, TypeInv, TypeOK, TaskInv, OwnerInv, Ops, Rejects,
   Revisions, NoReject

\* Every request handler of orchestrator.py keeps TypeInv.
LEMMA RequestType ==
  ASSUME TypeInv, NEW c \in Clients, Request(c)
  PROVE  TypeInv'
<1> USE ConstantsAssumption DEF TypeInv, TypeOK, TaskInv, OwnerInv, jobVars, wsVars,
        taskVars, opVars, repoVars
<1>1. ASSUME NEW j \in Jobs, Submit(c, j)
      PROVE  TypeInv'
  <2>1. TypeOK'
    BY <1>1 DEF Submit, SlotFree
  <2>2. TaskInv'
    BY <1>1 DEF Submit, SlotFree
  <2>3. OwnerInv'
    BY <1>1 DEF Submit, SlotFree
  <2> QED BY <2>1, <2>2, <2>3
<1>2. CASE Accept(c)
  BY <1>2 DEF Accept, ClearJob, HasWorkspace, Shown, SymDiff, Revisions
<1>3. CASE RejectStart(c)
  BY <1>3 DEF RejectStart, HasWorkspace, Rejects
<1>4. CASE Reconnect(c)
  <2>1. [rejecting[c] EXCEPT !.attached = FALSE] \in Rejects
    BY RejectsType
  <2>2. rejecting' = [rejecting EXCEPT ![c] = [@ EXCEPT !.attached = FALSE]]
    BY <1>4 DEF Reconnect
  <2> QED BY <1>4, <2>1, <2>2 DEF Reconnect, Rejects
<1>5. CASE Cancel(c)
  BY <1>5 DEF Cancel, CancelTask, ClearJob
<1>6. CASE Reset(c)
  BY <1>6 DEF Reset, CancelTask
<1>7. CASE Clear(c)
  BY <1>7 DEF Clear
<1> QED BY <1>1, <1>2, <1>3, <1>4, <1>5, <1>6, <1>7 DEF Request

\* So does the rest of a rejection, from `git reset` on.
LEMMA RejectType ==
  ASSUME TypeInv, NEW c \in Clients, RejectStep(c)
  PROVE  TypeInv'
<1> USE ConstantsAssumption DEF TypeInv, TypeOK, TaskInv, OwnerInv, jobVars, wsVars,
        taskVars, opVars, repoVars
<1>1. CASE RejectGit(c)
  <2>1. Resolve(rejecting[c].to, shadow[RootOf[c]]) \in Revisions
    BY ResolveType DEF Rejects
  <2>2. [rejecting[c] EXCEPT !.st = "done"] \in Rejects
    BY RejectsType
  <2>3. rejecting' = [rejecting EXCEPT ![c] = [@ EXCEPT !.st = "done"]]
    BY <1>1 DEF RejectGit
  <2> QED BY <1>1, <2>1, <2>2, <2>3 DEF RejectGit, Rejects
<1>2. CASE RejectFails(c)
  BY <1>2 DEF RejectFails, Rejects, NoReject, Revisions
<1>3. CASE RejectFinish(c)
  BY <1>3 DEF RejectFinish, Rejects, NoReject, Revisions, ClearJob
<1> QED BY <1>1, <1>2, <1>3 DEF RejectStep

\* So does every step of _execute_prompt.
LEMMA TaskType ==
  ASSUME TypeInv, NEW j \in Jobs, TaskStep(j)
  PROVE  TypeInv'
<1> USE ConstantsAssumption DEF TypeInv, TypeOK, TaskInv, OwnerInv, jobVars, wsVars,
        taskVars, opVars, repoVars, Stages, Ops, Await
<1>0. owner[j] \in Clients /\ Root(j) \in Roots
  BY DEF TaskStep, BeginInit, BeginSync, AfterWipe, AfterBuild, AfterSync,
     AfterRev, AfterEngine, PublishDiff, NoChanges, TaskFails, Unwind,
     NeverStarts, Resumes, Root
<1>1. CASE BeginInit(j)
  <2>1. directory' \subseteq Roots
    BY <1>0, <1>1 DEF BeginInit
  <2>2. PICK s \in {"wipe", "build"} : pc' = [pc EXCEPT ![j] = s] /\ op' = [op EXCEPT ![j] = s]
    BY <1>1 DEF BeginInit
  <2>3. pc[j] = "created"
    BY <1>1 DEF BeginInit
  <2>4. TypeOK'
    BY <1>1, <2>1, <2>2 DEF BeginInit
  <2>5. TaskInv'
    BY <1>0, <1>1, <2>2, <2>3 DEF BeginInit
  <2>6. OwnerInv'
    BY <1>1 DEF BeginInit
  <2> QED BY <2>4, <2>5, <2>6
<1>2. CASE BeginSync(j)
  BY <1>0, <1>2 DEF BeginSync, HasWorkspace
<1>3. CASE AfterWipe(j)
  BY <1>0, <1>3 DEF AfterWipe, Resumes
<1>4. CASE AfterBuild(j)
  BY <1>0, <1>4 DEF AfterBuild, Resumes, Revisions
<1>5. CASE AfterSync(j)
  BY <1>5 DEF AfterSync, Resumes
<1>6. CASE AfterRev(j)
  BY <1>6 DEF AfterRev, Resumes, NoteRevision
<1>7. CASE AfterEngine(j)
  BY <1>7 DEF AfterEngine, Resumes
<1>8. CASE PublishDiff(j)
  BY <1>0, <1>8 DEF PublishDiff, Resumes, End, Revisions
<1>9. CASE NoChanges(j)
  BY <1>0, <1>9 DEF NoChanges, Resumes, End, ClearJob, Revisions
<1>10. CASE TaskFails(j)
  <2>1. baseRevision' \in [Jobs -> Revisions]
    BY <1>10 DEF TaskFails, NoteRevision
  <2>0. <<>> \in Revisions
    BY DEF Revisions
  <2>2. TypeOK'
    BY <1>0, <1>10, <2>0, <2>1, ZenonT(30) DEF TaskFails, End, ClearJob
  <2>3. TaskInv' /\ OwnerInv'
    BY <1>0, <1>10 DEF TaskFails, End
  <2> QED BY <2>2, <2>3
<1>11. CASE Unwind(j)
  BY <1>0, <1>11 DEF Unwind, End, Revisions
<1>12. CASE NeverStarts(j)
  BY <1>0, <1>12 DEF NeverStarts
<1> QED BY <1>1, <1>2, <1>3, <1>4, <1>5, <1>6, <1>7, <1>8, <1>9, <1>10, <1>11,
           <1>12 DEF TaskStep

\* So does what git and the file threads do.
LEMMA OperationType ==
  ASSUME TypeInv, NEW j \in Jobs, Operation(j)
  PROVE  TypeInv'
<1> USE ConstantsAssumption DEF TypeInv, TypeOK, TaskInv, OwnerInv, jobVars, wsVars,
        taskVars, opVars, opFrame, Ops, Completes, Gives, SetShadow
<1>0. owner[j] \in Clients /\ Root(j) \in Roots
  BY DEF Operation, Wiped, Built, Synced, RevParsed, Diffed, OpFails,
     OpCutShort, Root
<1>h. shadow[Root(j)] \in Revisions /\ Tree(shadow[Root(j)]) \in SUBSET Jobs
  BY <1>0, TreeType
<1>1. CASE Wiped(j)
  BY <1>0, <1>1 DEF Wiped, Wipe, Revisions
<1>2. CASE Built(j)
  <2> DEFINE tree == IF pc[j] = "done" /\ shadow[Root(j)] # <<>>
                     THEN Tree(shadow[Root(j)]) ELSE UsersFiles(Root(j))
  <2>1. tree \in SUBSET Jobs
    BY <1>0, <1>h DEF UsersFiles
  <2>2. Commit(shadow[Root(j)], "baseline", j, tree) \in Revisions
    BY <1>h, <2>1, CommitType
  <2> QED BY <1>0, <1>2, <2>2 DEF Built
<1>3. CASE Synced(j)
  <2>1. PICK tree \in {Tree(shadow[Root(j)]), UsersFiles(Root(j))} :
          SetShadow(j, Commit(shadow[Root(j)], "sync", j, tree))
    BY <1>3 DEF Synced
  <2>2. Commit(shadow[Root(j)], "sync", j, tree) \in Revisions
    BY <1>0, <1>h, CommitType DEF UsersFiles
  <2> QED BY <1>0, <1>3, <2>1, <2>2 DEF Synced
<1>4. CASE RevParsed(j)
  <2>1. ProjectHead(j) \in Revisions
    BY DEF ProjectHead, Revisions, Commits
  <2> QED BY <1>0, <1>h, <1>4, <2>1 DEF RevParsed
<1>5. CASE Diffed(j)
  <2>1. Resolve(rev[j], shadow[Root(j)]) \in Revisions
    BY <1>h, ResolveType
  <2>2. SymDiff(Tree(Resolve(rev[j], shadow[Root(j)])), Tree(shadow[Root(j)]))
          \in SUBSET Jobs
    BY <1>h, <2>1, TreeType DEF SymDiff
  <2>3. PICK diff \in SUBSET Jobs : out' = Gives(out, j, diff)
    BY <1>5, <2>2 DEF Diffed
  <2>4. op' \in [Jobs -> Ops] /\ out' \in [Jobs -> SUBSET Jobs]
    BY <1>5, <2>3 DEF Diffed
  <2>5. TypeOK'
    BY <1>5, <2>4 DEF Diffed
  <2>6. TaskInv' /\ OwnerInv'
    BY <1>0, <1>5 DEF Diffed
  <2> QED BY <2>5, <2>6
<1>6. CASE OpFails(j)
  <2>0. <<>> \in Revisions
    BY DEF Revisions
  <2>1. shadow' \in [Roots -> Revisions] /\ directory' \subseteq Roots
    BY <1>6, <2>0 DEF OpFails, Wipe
  <2>2. TypeOK'
    BY <1>6, <2>1 DEF OpFails
  <2>3. TaskInv' /\ OwnerInv'
    BY <1>6 DEF OpFails
  <2> QED BY <2>2, <2>3
<1>7. CASE OpCutShort(j)
  BY <1>0, <1>7 DEF OpCutShort
<1> QED BY <1>1, <1>2, <1>3, <1>4, <1>5, <1>6, <1>7 DEF Operation

\* So does what the engine's worker thread does.
LEMMA EngineType ==
  ASSUME TypeInv, NEW j \in Jobs, Engine(j)
  PROVE  TypeInv'
<1> USE ConstantsAssumption DEF TypeInv, TypeOK, TaskInv, OwnerInv, jobVars, wsVars,
        taskVars, opVars, repoVars, opFrame, Ops, Completes, SetShadow
<1>1. CASE EngineStarts(j)
  BY <1>1 DEF EngineStarts
<1>2. CASE EngineSkips(j)
  BY <1>2 DEF EngineSkips
<1>3. CASE CoderReady(j)
  BY <1>3 DEF CoderReady
<1>4. CASE EngineEnds(j)
  <2>1. Root(j) \in Roots /\ pc[j] # "unborn"
    BY <1>4 DEF EngineEnds, Root
  <2>2. Tree(shadow[Root(j)]) \cup {j} \in SUBSET Jobs
    BY <2>1, TreeType
  <2>3. Commit(shadow[Root(j)], "edit", j, Tree(shadow[Root(j)]) \cup {j})
          \in Revisions
    BY <2>1, <2>2, CommitType
  <2>4. shadow' \in [Roots -> Revisions]
    BY <1>4, <2>1, <2>3, SMTT(30) DEF EngineEnds
  <2>5. op' \in [Jobs -> Ops] /\ \A i \in Jobs : i # j => op'[i] = op[i]
    BY <1>4 DEF EngineEnds
  <2>6. TypeOK'
    BY <1>4, <2>4, <2>5 DEF EngineEnds
  <2>7. TaskInv' /\ OwnerInv'
    BY <1>4, <2>1, <2>5 DEF EngineEnds
  <2> QED BY <2>6, <2>7
<1>5. CASE NoCoder(j)
  BY <1>5 DEF NoCoder
<1> QED BY <1>1, <1>2, <1>3, <1>4, <1>5 DEF Engine

\* No step of the daemon leaves TypeInv.
LEMMA NextType == TypeInv /\ [Next]_vars => TypeInv'
<1> SUFFICES ASSUME TypeInv, [Next]_vars
             PROVE  TypeInv'
  OBVIOUS
<1>1. CASE Next
  BY <1>1, RequestType, RejectType, TaskType, OperationType, EngineType DEF Next
<1>2. CASE UNCHANGED vars
  BY <1>2 DEF vars, TypeInv, TypeOK, TaskInv, OwnerInv
<1> QED BY <1>1, <1>2

\* The types and the ownership of jobs and workspaces hold always: a task only ever
\* works with a workspace of its own client.
THEOREM TypeInvariance == Spec => []TypeInv
<1>1. Init => TypeInv
  BY InitType
<1>2. TypeInv /\ [Next]_vars => TypeInv'
  BY NextType
<1> QED BY <1>1, <1>2, PTL DEF Spec

\* Every variable keeps to its set, whatever the constants.
THEOREM TypeCorrect == Spec => []TypeOK
BY TypeInvariance, PTL DEF TypeInv
-----------------------------------------------------------------------------
(* The job slot is never held for nothing.                                 *)

\* j will publish its diff where its client c reviews, whatever else happens:
\* it works with the workspace c has, or has yet to get one.
WillServe(j, c) ==
  /\ Runs(j) /\ owner[j] = c
  /\ pc[j] \in {"created", "wipe", "build"} \/ held[j] = workspaces[c]

\* NoOrphanJob is not inductive: of two tasks of a client, the one that works
\* with a workspace that was replaced would publish where nobody looks.
SlotInv ==
  activeJob # None =>
    Reviewing(activeJob) \/ \E j \in Jobs : WillServe(j, activeJob)

\* A task that will publish where its client reviews is a task that runs.
LEMMA SlotImpliesNoOrphan == SlotInv => NoOrphanJob
BY DEF SlotInv, NoOrphanJob, WillServe

\* SlotInv depends on nothing but the slot, the workspaces and the tasks.
LEMMA SlotFrame ==
  ASSUME SlotInv, UNCHANGED <<activeJob, workspaces, pendingDiff, taskVars>>
  PROVE  SlotInv'
BY DEF SlotInv, WillServe, Runs, Live, Reviewing, HasWorkspace, taskVars

\* Every request handler keeps SlotInv: a rejection, too, which resumes with a
\* workspace it looked up before it was suspended.
LEMMA SlotRequest ==
  ASSUME TypeInv, SlotInv, NEW c \in Clients, Request(c) \/ RejectStep(c)
  PROVE  SlotInv'
<1> USE ConstantsAssumption DEF TypeInv, TypeOK, jobVars, wsVars, taskVars
<1> DEFINE Calm == UNCHANGED <<activeJob, workspaces, pendingDiff, taskVars>>
<1>1. ASSUME NEW j \in Jobs, Submit(c, j)
      PROVE  SlotInv'
  <2>1. activeJob' = c /\ pc'[j] = "created" /\ owner'[j] = c
    BY <1>1 DEF Submit
  <2>2. j \notin cancelled'
    BY <1>1 DEF Submit, TaskInv
  <2> QED BY <2>1, <2>2 DEF SlotInv, WillServe, Runs, Live
<1>2. CASE Accept(c)
  <2>1. CASE activeJob = c
    BY <1>2, <2>1 DEF Accept, ClearJob, SlotInv
  <2>2. CASE activeJob # c
    <3>1. UNCHANGED <<activeJob, workspaces, taskVars>>
      BY <1>2, <2>2 DEF Accept, ClearJob
    <3>2. ASSUME activeJob # None, Reviewing(activeJob)
          PROVE  Reviewing(activeJob)'
      BY <1>2, <2>2, <3>1, <3>2 DEF Accept, Reviewing, HasWorkspace, OwnerInv
    <3> QED BY <3>1, <3>2 DEF SlotInv, WillServe, Runs, Live
  <2> QED BY <2>1, <2>2
<1>3. CASE RejectStart(c) \/ Reconnect(c) \/ RejectGit(c) \/ RejectFails(c) \/ Clear(c)
  <2>1. Calm
    BY <1>3 DEF RejectStart, Reconnect, RejectGit, RejectFails, Clear
  <2> QED BY <2>1, SlotFrame
<1>4. CASE RejectFinish(c)
  <2>1. CASE activeJob = c
    BY <1>4, <2>1 DEF RejectFinish, ClearJob, SlotInv
  <2>2. CASE activeJob # c
    <3>1. UNCHANGED <<activeJob, workspaces, taskVars>>
      BY <1>4, <2>2 DEF RejectFinish, ClearJob
    <3>2. ASSUME activeJob # None, Reviewing(activeJob)
          PROVE  Reviewing(activeJob)'
      BY <1>4, <2>2, <3>1, <3>2 DEF RejectFinish, Reviewing, HasWorkspace, OwnerInv
    <3> QED BY <3>1, <3>2 DEF SlotInv, WillServe, Runs, Live
  <2> QED BY <2>1, <2>2
<1>5. CASE Cancel(c)
  <2>1. CASE activeJob = c
    BY <1>5, <2>1 DEF Cancel, ClearJob, SlotInv
  <2>2. CASE activeJob # c
    <3>1. UNCHANGED <<activeJob, workspaces, pendingDiff, pc, owner, held>>
      BY <1>5, <2>2 DEF Cancel, ClearJob
    <3>2. ASSUME NEW j \in Jobs, activeJob # None, WillServe(j, activeJob)
          PROVE  WillServe(j, activeJob)'
      <4>1. j # activeTasks[c]
        BY <2>2, <3>2 DEF WillServe, OwnerInv
      <4> QED BY <1>5, <3>1, <3>2, <4>1 DEF Cancel, CancelTask, WillServe, Runs, Live
    <3> QED BY <3>1, <3>2 DEF SlotInv, Reviewing, HasWorkspace
  <2> QED BY <2>1, <2>2
<1>6. CASE Reset(c)
  BY <1>6 DEF Reset, SlotInv
<1> QED BY <1>1, <1>2, <1>3, <1>4, <1>5, <1>6 DEF Request, RejectStep

\* Every step of _execute_prompt keeps SlotInv.
LEMMA SlotTask ==
  ASSUME TypeInv, SlotInv, NEW j \in Jobs, TaskStep(j)
  PROVE  SlotInv'
<1> USE ConstantsAssumption DEF TypeInv, TypeOK, jobVars, wsVars, Stages
<1>1. CASE BeginInit(j) \/ AfterWipe(j) \/ AfterSync(j) \/ AfterRev(j) \/ AfterEngine(j)
  <2>1. UNCHANGED <<activeJob, workspaces, pendingDiff, owner, held, cancelled>>
    BY <1>1 DEF BeginInit, AfterWipe, AfterSync, AfterRev, AfterEngine
  <2>2. \A c \in Clients : Reviewing(c) => Reviewing(c)'
    BY <2>1 DEF Reviewing, HasWorkspace
  <2>3. ASSUME NEW i \in Jobs, WillServe(i, activeJob)
        PROVE  WillServe(i, activeJob)'
    <3>1. CASE i = j
      BY <1>1, <2>1, <2>3, <3>1 DEF BeginInit, AfterWipe, AfterSync, AfterRev,
         AfterEngine, Await, Resumes, WillServe, Runs, Live
    <3>2. CASE i # j
      BY <1>1, <2>1, <2>3, <3>2 DEF BeginInit, AfterWipe, AfterSync, AfterRev,
         AfterEngine, Await, WillServe, Runs, Live
    <3> QED BY <3>1, <3>2
  <2> QED BY <2>1, <2>2, <2>3 DEF SlotInv
<1>2. CASE BeginSync(j)
  <2>1. UNCHANGED <<activeJob, workspaces, pendingDiff, owner, cancelled>>
    BY <1>2 DEF BeginSync
  <2>2. ASSUME NEW i \in Jobs, activeJob # None, WillServe(i, activeJob)
        PROVE  WillServe(i, activeJob)'
    BY <1>2, <2>1, <2>2 DEF BeginSync, Await, WillServe, Runs, Live
  <2> QED BY <2>1, <2>2 DEF SlotInv, Reviewing, HasWorkspace
<1>3. CASE AfterBuild(j)
  <2>1. UNCHANGED <<activeJob, owner, cancelled>>
    BY <1>3 DEF AfterBuild
  <2>2. CASE activeJob = owner[j]
    <3>1. WillServe(j, activeJob)'
      BY <1>3, <2>1, <2>2 DEF AfterBuild, Await, Resumes, WillServe, Runs, Live, TaskInv
    <3> QED BY <3>1 DEF SlotInv
  <2>3. CASE activeJob # owner[j]
    <3>1. ASSUME activeJob # None, Reviewing(activeJob)
          PROVE  Reviewing(activeJob)'
      BY <1>3, <2>1, <2>3, <3>1 DEF AfterBuild, Reviewing, HasWorkspace, OwnerInv
    <3>2. ASSUME NEW i \in Jobs, activeJob # None, WillServe(i, activeJob)
          PROVE  WillServe(i, activeJob)'
      <4>1. i # j
        BY <2>3, <3>2 DEF WillServe
      <4> QED BY <1>3, <2>1, <2>3, <3>2, <4>1 DEF AfterBuild, Await, WillServe, Runs, Live
    <3> QED BY <2>1, <3>1, <3>2 DEF SlotInv
  <2> QED BY <2>2, <2>3
<1>4. CASE PublishDiff(j)
  <2>1. UNCHANGED <<activeJob, workspaces, owner, cancelled>>
    BY <1>4 DEF PublishDiff
  <2>2. ASSUME activeJob # None, Reviewing(activeJob)
        PROVE  Reviewing(activeJob)'
    BY <1>4, <2>1, <2>2 DEF PublishDiff, Reviewing, HasWorkspace
  <2>3. ASSUME NEW i \in Jobs, activeJob # None, WillServe(i, activeJob), i # j
        PROVE  WillServe(i, activeJob)'
    BY <1>4, <2>1, <2>3 DEF PublishDiff, End, WillServe, Runs, Live
  <2>4. ASSUME activeJob # None, WillServe(j, activeJob)
        PROVE  Reviewing(activeJob)'
    BY <1>4, <2>1, <2>4 DEF PublishDiff, Resumes, WillServe, Reviewing,
       HasWorkspace, TaskInv
  <2> QED BY <2>1, <2>2, <2>3, <2>4 DEF SlotInv
<1>5. CASE NoChanges(j) \/ TaskFails(j)
  <2>1. UNCHANGED <<workspaces, pendingDiff, owner, cancelled>> /\ ClearJob(owner[j])
    BY <1>5 DEF NoChanges, TaskFails
  <2>2. CASE activeJob = owner[j]
    BY <2>1, <2>2 DEF ClearJob, SlotInv
  <2>3. CASE activeJob # owner[j]
    <3>1. activeJob' = activeJob
      BY <2>1, <2>3 DEF ClearJob
    <3>2. ASSUME NEW i \in Jobs, activeJob # None, WillServe(i, activeJob)
          PROVE  WillServe(i, activeJob)'
      <4>1. i # j
        BY <2>3, <3>2 DEF WillServe
      <4> QED BY <1>5, <2>1, <3>1, <3>2, <4>1
              DEF NoChanges, TaskFails, End, WillServe, Runs, Live
    <3> QED BY <2>1, <3>1, <3>2 DEF SlotInv, Reviewing, HasWorkspace
  <2> QED BY <2>2, <2>3
<1>6. CASE Unwind(j) \/ NeverStarts(j)
  <2>1. UNCHANGED <<activeJob, workspaces, pendingDiff, owner, cancelled>> /\ j \in cancelled
    BY <1>6 DEF Unwind, NeverStarts
  <2>2. ASSUME NEW i \in Jobs, WillServe(i, activeJob)
        PROVE  WillServe(i, activeJob)'
    <3>1. i # j
      BY <2>1, <2>2 DEF WillServe, Runs
    <3> QED BY <1>6, <2>1, <2>2, <3>1
            DEF Unwind, NeverStarts, End, WillServe, Runs, Live
  <2> QED BY <2>1, <2>2 DEF SlotInv, Reviewing, HasWorkspace
<1> QED BY <1>1, <1>2, <1>3, <1>4, <1>5, <1>6 DEF TaskStep

\* Git, the file threads and the engine leave alone what SlotInv speaks of.
LEMMA SlotOperation ==
  ASSUME SlotInv, NEW j \in Jobs, Operation(j) \/ Engine(j)
  PROVE  SlotInv'
<1>1. UNCHANGED <<activeJob, workspaces, pendingDiff, taskVars>>
  BY DEF Operation, Engine, Wiped, Built, Synced, RevParsed, Diffed, OpFails,
     OpCutShort, EngineStarts, EngineSkips, CoderReady, EngineEnds, NoCoder,
     opFrame, jobVars, wsVars
<1> QED BY <1>1, SlotFrame

\* Whenever the slot is taken, its client has a prompt that runs or a diff to
\* settle, whatever clients do and however many there are.
THEOREM SlotNeverOrphaned == Spec => []NoOrphanJob
<1>1. Init => SlotInv
  BY DEF Init, SlotInv
<1>2. TypeInv /\ SlotInv /\ [Next]_vars => SlotInv'
  <2> SUFFICES ASSUME TypeInv, SlotInv, [Next]_vars
               PROVE  SlotInv'
    OBVIOUS
  <2>1. CASE Next
    BY <2>1, SlotRequest, SlotTask, SlotOperation DEF Next
  <2>2. CASE UNCHANGED vars
    BY <2>2, SlotFrame DEF vars, taskVars
  <2> QED BY <2>1, <2>2
<1> QED BY <1>1, <1>2, TypeInvariance, SlotImpliesNoOrphan, PTL DEF Spec
-----------------------------------------------------------------------------
(* A cancelled task does nothing but end.                                  *)

\* What one step of the daemon may do to a cancelled task of _execute_prompt.
LEMMA InertStep ==
  ASSUME TypeInv, Next, NEW j \in cancelled, pc'[j] # pc[j]
  PROVE  /\ pc'[j] = "done"
         /\ UNCHANGED <<activeJob, wsVars, sessions, queue, repoVars>>
<1> USE DEF TypeInv, TypeOK
<1>0. j \in Jobs
  OBVIOUS
<1>1. ASSUME NEW c \in Clients, Request(c)
      PROVE  FALSE
  <2>1. PICK i \in Jobs : Submit(c, i)
    BY <1>1 DEF Request, Accept, RejectStart, Reconnect, Cancel, Reset, Clear, taskVars
  <2> QED BY <2>1, <1>0 DEF Submit, TaskInv
<1>2. ASSUME NEW c \in Clients, RejectStep(c)
      PROVE  FALSE
  BY <1>2 DEF RejectStep, RejectGit, RejectFails, RejectFinish, taskVars
<1>3. ASSUME NEW i \in Jobs, Operation(i) \/ Engine(i)
      PROVE  FALSE
  BY <1>3 DEF Operation, Wiped, Built, Synced, RevParsed, Diffed, OpFails, OpCutShort,
     Engine, EngineStarts, EngineSkips, CoderReady, EngineEnds, NoCoder, opFrame,
     taskVars
<1>4. ASSUME NEW i \in Jobs, TaskStep(i)
      PROVE  /\ pc'[j] = "done"
             /\ UNCHANGED <<activeJob, wsVars, sessions, queue, repoVars>>
  <2>1. i = j
    BY <1>0, <1>4 DEF TaskStep, BeginInit, BeginSync, AfterWipe, AfterBuild,
       AfterSync, AfterRev, AfterEngine, PublishDiff, NoChanges, TaskFails,
       Unwind, NeverStarts, Await, End
  <2>2. ~Resumes(j, "wipe") /\ ~Resumes(j, "build") /\ ~Resumes(j, "sync")
        /\ ~Resumes(j, "rev") /\ ~Resumes(j, "engine") /\ ~Resumes(j, "diff")
    BY DEF Resumes, Stages
  <2>3. Unwind(j) \/ NeverStarts(j)
    BY <1>4, <2>1, <2>2 DEF TaskStep, BeginInit, BeginSync, AfterWipe, AfterBuild,
       AfterSync, AfterRev, AfterEngine, PublishDiff, NoChanges, TaskFails
  <2> QED BY <1>0, <2>3 DEF Unwind, NeverStarts, End, jobVars, opVars
<1> QED BY <1>1, <1>2, <1>3, <1>4 DEF Next

\* From task.cancel() on, a prompt task publishes nothing, moves no base
\* revision, frees no slot, starts no engine run and touches no file.
THEOREM CancelledTasksAreInert == Spec => CancelledTaskIsInert
<1>1. TypeInv /\ [Next]_vars =>
        [\A j \in cancelled : pc'[j] # pc[j] =>
           /\ pc'[j] = "done"
           /\ UNCHANGED <<activeJob, wsVars, sessions, queue, repoVars>>]_vars
  BY InertStep
<1> QED BY <1>1, TypeInvariance, PTL DEF Spec, CancelledTaskIsInert
-----------------------------------------------------------------------------
(* As long as nothing is disrupted there is one pipeline, the slot's.      *)

\* What the slot guards besides running tasks: a diff under review, and a
\* rejection, which goes on reviewing until it is finished.
UndisturbedInv ==
  /\ cancelled = {}
  /\ OneActivePipeline
  /\ \A c \in Clients : Reviewing(c) => activeJob = c
  /\ \A j \in Jobs : Runs(j) => ~Reviewing(owner[j])
  /\ \A c \in Clients : rejecting[c].st # "none" =>
       /\ rejecting[c].attached
       /\ rejecting[c].ws = workspaces[c]
       /\ Reviewing(c)

\* Requests keep it, of clients that only submit and review.
LEMMA UndisturbedRequest ==
  ASSUME Disruptions = {}, TypeInv, UndisturbedInv,
         NEW c \in Clients, Request(c) \/ RejectStep(c)
  PROVE  UndisturbedInv'
<1> USE ConstantsAssumption DEF UndisturbedInv, OneActivePipeline, OneAgentJob, Runs,
        Live, TypeInv, TypeOK, jobVars, wsVars, taskVars
<1>1. ASSUME NEW j \in Jobs, Submit(c, j)
      PROVE  UndisturbedInv'
  <2>1. activeJob = None
    BY <1>1 DEF Submit, SlotFree
  <2>2. \A i \in Jobs : ~Runs(i)
    BY <2>1 DEF TaskInv
  <2>3. \A d \in Clients : ~Reviewing(d) /\ rejecting[d].st = "none"
    BY <2>1
  <2>4. UNCHANGED <<workspaces, pendingDiff, rejecting, cancelled>>
    BY <1>1 DEF Submit
  <2>5. \A i \in Jobs : Runs(i)' => i = j
    BY <1>1, <2>2 DEF Submit
  <2>6. activeJob' = c /\ owner'[j] = c
    BY <1>1 DEF Submit
  <2> QED BY <2>3, <2>4, <2>5, <2>6 DEF Reviewing, HasWorkspace
<1>2. ASSUME Reviewing(c), activeJob' = None, UNCHANGED <<workspaces, taskVars>>,
             pendingDiff' = [pendingDiff EXCEPT ![workspaces[c]] = {}],
             \A d \in Clients : rejecting'[d].st # "none" => d # c /\ UNCHANGED rejecting[d]
      PROVE  UndisturbedInv'
  <2>1. activeJob = c
    BY <1>2
  <2>2. \A i \in Jobs : ~Runs(i)
    BY <1>2, <2>1
  <2>3. \A d \in Clients : d # c => ~Reviewing(d)
    BY <2>1
  <2>4. \A d \in Clients : ~Reviewing(d)'
    BY <1>2, <2>3 DEF Reviewing, HasWorkspace
  <2>5. \A d \in Clients : rejecting'[d].st = "none"
    BY <1>2, <2>3
  <2> QED BY <1>2, <2>2, <2>4, <2>5
<1>3. CASE Accept(c)
  <2>1. Reviewing(c) /\ rejecting[c].st = "none"
    BY <1>3 DEF Accept, MayReview, CanRequest
  <2>2. activeJob' = None /\ UNCHANGED <<workspaces, taskVars, rejecting>>
    BY <1>3, <2>1 DEF Accept, ClearJob
  <2>3. pendingDiff' = [pendingDiff EXCEPT ![workspaces[c]] = {}]
    BY <1>3 DEF Accept
  <2> QED BY <1>2, <2>1, <2>2, <2>3
<1>4. CASE RejectFinish(c)
  <2>1. Reviewing(c) /\ rejecting[c].ws = workspaces[c]
    BY <1>4 DEF RejectFinish
  <2>2. activeJob' = None /\ UNCHANGED <<workspaces, taskVars>>
    BY <1>4, <2>1 DEF RejectFinish, ClearJob
  <2>3. pendingDiff' = [pendingDiff EXCEPT ![workspaces[c]] = {}]
    BY <1>4, <2>1 DEF RejectFinish
  <2>4. \A d \in Clients : rejecting'[d].st # "none" => d # c /\ UNCHANGED rejecting[d]
    BY <1>4 DEF RejectFinish, NoReject
  <2> QED BY <1>2, <2>1, <2>2, <2>3, <2>4
<1>5. CASE RejectStart(c)
  <2>1. Reviewing(c)
    BY <1>5 DEF RejectStart, MayReview
  <2>2. UNCHANGED <<activeJob, workspaces, pendingDiff, taskVars>>
    BY <1>5 DEF RejectStart
  <2>3. \A d \in Clients : d # c => UNCHANGED rejecting[d]
    BY <1>5 DEF RejectStart
  <2>4. rejecting'[c].attached /\ rejecting'[c].ws = workspaces[c]
    BY <1>5 DEF RejectStart
  <2> QED BY <2>1, <2>2, <2>3, <2>4 DEF Reviewing, HasWorkspace
<1>6. CASE RejectGit(c)
  <2>1. UNCHANGED <<activeJob, workspaces, pendingDiff, taskVars>>
    BY <1>6 DEF RejectGit
  <2>2. rejecting[c].st = "git"
        /\ rejecting' = [rejecting EXCEPT ![c] = [@ EXCEPT !.st = "done"]]
    BY <1>6 DEF RejectGit
  <2>3. \A d \in Clients : d # c => UNCHANGED rejecting[d]
    BY <2>2
  <2>4. rejecting'[c].attached = rejecting[c].attached
        /\ rejecting'[c].ws = rejecting[c].ws
    BY <2>2 DEF Rejects
  <2> QED BY <2>1, <2>2, <2>3, <2>4 DEF Reviewing, HasWorkspace
<1>7. CASE RejectFails(c)
  <2>1. UNCHANGED <<activeJob, workspaces, pendingDiff, taskVars>>
    BY <1>7 DEF RejectFails
  <2>2. \A d \in Clients : d # c => UNCHANGED rejecting[d]
    BY <1>7 DEF RejectFails
  <2>3. rejecting'[c].st = "none"
    BY <1>7 DEF RejectFails, NoReject
  <2> QED BY <2>1, <2>2, <2>3 DEF Reviewing, HasWorkspace
<1>8. CASE Reconnect(c) \/ Cancel(c) \/ Reset(c)
  BY <1>8 DEF Reconnect, Cancel, Reset
<1>9. CASE Clear(c)
  BY <1>9 DEF Clear, Reviewing, HasWorkspace
<1> QED BY <1>1, <1>3, <1>4, <1>5, <1>6, <1>7, <1>8, <1>9 DEF Request, RejectStep

\* The prompt task keeps it.
LEMMA UndisturbedTask ==
  ASSUME TypeInv, UndisturbedInv, NEW j \in Jobs, TaskStep(j)
  PROVE  UndisturbedInv'
<1> USE ConstantsAssumption DEF UndisturbedInv, OneActivePipeline, OneAgentJob, Runs,
        Live, TypeInv, TypeOK, jobVars, wsVars, Stages
<1>0. Runs(j)
  BY DEF TaskStep, BeginInit, BeginSync, AfterWipe, AfterBuild,
     AfterSync, AfterRev, AfterEngine, PublishDiff, NoChanges, TaskFails,
     Unwind, NeverStarts, Resumes
<1>1. owner[j] \in Clients /\ activeJob = owner[j]
  BY <1>0 DEF TaskInv
<1>2. \A d \in Clients : ~Reviewing(d) /\ rejecting[d].st = "none"
  BY <1>0, <1>1
<1>3. \A i \in Jobs : Runs(i) => i = j
  BY <1>0
<1>4. UNCHANGED <<rejecting, cancelled, owner>>
  BY DEF TaskStep, BeginInit, BeginSync, AfterWipe, AfterBuild,
     AfterSync, AfterRev, AfterEngine, PublishDiff, NoChanges, TaskFails,
     Unwind, NeverStarts
<1>5. \A i \in Jobs : i # j => pc'[i] = pc[i]
  BY DEF TaskStep, BeginInit, BeginSync, AfterWipe, AfterBuild, AfterSync,
     AfterRev, AfterEngine, PublishDiff, NoChanges, TaskFails, Unwind,
     NeverStarts, Await, End
<1>6. \A i \in Jobs : Runs(i)' => i = j
  BY <1>3, <1>4, <1>5
<1>7. CASE PublishDiff(j)
  <2>1. UNCHANGED <<activeJob, workspaces>> /\ pc'[j] = "done"
    BY <1>7 DEF PublishDiff, End
  <2>2. \A w \in Jobs : w # held[j] => pendingDiff'[w] = pendingDiff[w]
    BY <1>7 DEF PublishDiff
  <2>3. held[j] \in Jobs /\ owner[held[j]] = owner[j]
    BY <1>7 DEF PublishDiff, Resumes, TaskInv, OwnerInv
  <2>4. ASSUME NEW d \in Clients, Reviewing(d)'
        PROVE  d = owner[j]
    <3>1. workspaces[d] # None /\ pendingDiff'[workspaces[d]] # {}
      BY <2>1, <2>4 DEF Reviewing, HasWorkspace
    <3>2. workspaces[d] = held[j]
      BY <1>2, <2>2, <3>1 DEF Reviewing, HasWorkspace
    <3> QED BY <2>3, <3>1, <3>2 DEF OwnerInv
  <2>5. \A i \in Jobs : ~Runs(i)'
    BY <1>6, <2>1
  <2> QED BY <1>1, <1>2, <1>4, <2>1, <2>4, <2>5
<1>8. CASE ~PublishDiff(j)
  <2>1. \A d \in Clients : ~Reviewing(d)'
    <3>1. CASE AfterBuild(j)
      BY <1>2, <3>1 DEF AfterBuild, Reviewing, HasWorkspace
    <3>2. CASE ~AfterBuild(j)
      <4>1. UNCHANGED <<workspaces, pendingDiff>>
        BY <1>8, <3>2 DEF TaskStep, BeginInit, BeginSync, AfterWipe, AfterSync,
           AfterRev, AfterEngine, NoChanges, TaskFails, Unwind, NeverStarts
      <4> QED BY <1>2, <4>1 DEF Reviewing, HasWorkspace
    <3> QED BY <3>1, <3>2
  <2>2. Runs(j)' => activeJob' = activeJob
    BY <1>8 DEF TaskStep, BeginInit, BeginSync, AfterWipe, AfterBuild,
       AfterSync, AfterRev, AfterEngine, NoChanges, TaskFails,
       Unwind, NeverStarts, End
  <2> QED BY <1>1, <1>2, <1>4, <1>6, <2>1, <2>2
<1> QED BY <1>7, <1>8

\* UndisturbedInv is kept as long as clients only submit and review.
LEMMA UndisturbedNext ==
  ASSUME Disruptions = {}, TypeInv, UndisturbedInv, [Next]_vars
  PROVE  UndisturbedInv'
<1>1. ASSUME NEW j \in Jobs, Operation(j) \/ Engine(j)
      PROVE  UndisturbedInv'
  <2>1. UNCHANGED <<activeJob, workspaces, pendingDiff, taskVars, rejecting>>
    BY <1>1 DEF Operation, Engine, Wiped, Built, Synced, RevParsed, Diffed, OpFails,
       OpCutShort, EngineStarts, EngineSkips, CoderReady, EngineEnds, NoCoder,
       opFrame, jobVars, wsVars
  <2> QED BY <2>1 DEF UndisturbedInv, OneActivePipeline, OneAgentJob, Runs, Live,
             Reviewing, HasWorkspace, taskVars
<1>2. CASE Next
  BY <1>1, <1>2, UndisturbedRequest, UndisturbedTask DEF Next
<1>3. CASE UNCHANGED vars
  BY <1>3 DEF vars, UndisturbedInv, OneActivePipeline, OneAgentJob, Runs, Live,
     Reviewing, HasWorkspace
<1> QED BY <1>2, <1>3

\* The daemon starts undisturbed.
LEMMA UndisturbedInit == Init => UndisturbedInv
BY ConstantsAssumption DEF Init, UndisturbedInv, OneActivePipeline, OneAgentJob,
   Runs, Live, Reviewing, HasWorkspace, NoReject

\* ... and stays so: one prompt runs, or one diff is under review.
THEOREM UndisturbedInvariance == Disruptions = {} => (Spec => []UndisturbedInv)
<1> SUFFICES ASSUME Disruptions = {}
             PROVE  Spec => []UndisturbedInv
  OBVIOUS
<1>1. TypeInv /\ UndisturbedInv /\ [Next]_vars => UndisturbedInv'
  BY UndisturbedNext
<1> QED BY <1>1, UndisturbedInit, TypeInvariance, PTL DEF Spec

\* When clients only submit and review, one prompt runs at a time in all of the
\* daemon, and the slot is its client's.
THEOREM OnePipelineWhenUndisturbed ==
  Disruptions = {} => (Spec => []OneActivePipeline)
<1>1. UndisturbedInv => OneActivePipeline
  BY DEF UndisturbedInv
<1> QED BY <1>1, UndisturbedInvariance, PTL
-----------------------------------------------------------------------------
(* The pipeline implements the abstract agent job, its liveness aside.     *)

\* Requests and rejections take the slot, settle a review, or stutter.
LEMMA RequestRefines ==
  ASSUME Disruptions = {}, TypeInv, UndisturbedInv,
         NEW c \in Clients, Request(c) \/ RejectStep(c)
  PROVE  [Slot!Next]_(Slot!vars)
<1> USE ConstantsAssumption DEF UndisturbedInv, TypeInv, TypeOK, jobVars, wsVars,
        Slot!Next, Slot!vars
<1>1. ASSUME NEW j \in Jobs, Submit(c, j)
      PROVE  Slot!Take(c)
  <2>1. activeJob = None /\ activeJob' = c
    BY <1>1 DEF Submit, SlotFree
  <2>2. ~Reviewing(c)'
    BY <1>1, <2>1 DEF Submit, Reviewing, HasWorkspace
  <2> QED BY <2>1, <2>2 DEF Slot!Take
<1>2. ASSUME Reviewing(c), activeJob' = None
      PROVE  Slot!Settle
  BY <1>2 DEF Slot!Settle
<1>3. CASE Accept(c)
  <2>1. Reviewing(c)
    BY <1>3 DEF Accept, MayReview
  <2> QED BY <1>2, <1>3, <2>1 DEF Accept, ClearJob
<1>4. CASE RejectFinish(c)
  <2>1. Reviewing(c)
    BY <1>4 DEF RejectFinish
  <2> QED BY <1>2, <1>4, <2>1 DEF RejectFinish, ClearJob
<1>5. CASE RejectStart(c) \/ RejectGit(c) \/ RejectFails(c) \/ Clear(c)
  BY <1>5 DEF RejectStart, RejectGit, RejectFails, Clear, Reviewing, HasWorkspace
<1>6. CASE Reconnect(c) \/ Cancel(c) \/ Reset(c)
  BY <1>6 DEF Reconnect, Cancel, Reset
<1> QED BY <1>1, <1>3, <1>4, <1>5, <1>6 DEF Request, RejectStep

\* The prompt task works, publishes its diff, or gives up.
LEMMA TaskRefines ==
  ASSUME TypeInv, UndisturbedInv, NEW j \in Jobs, TaskStep(j)
  PROVE  [Slot!Next]_(Slot!vars)
<1> USE ConstantsAssumption DEF UndisturbedInv, TypeInv, TypeOK, jobVars, wsVars,
        Slot!Next, Slot!vars
<1>0. Runs(j)
  BY DEF TaskStep, BeginInit, BeginSync, AfterWipe, AfterBuild,
     AfterSync, AfterRev, AfterEngine, PublishDiff, NoChanges, TaskFails,
     Unwind, NeverStarts, Resumes, Runs, Live, Stages
<1>1. owner[j] \in Clients /\ activeJob = owner[j] /\ ~Reviewing(activeJob)
  BY <1>0 DEF TaskInv, OneActivePipeline, Runs, Live
<1>2. CASE PublishDiff(j)
  BY <1>1, <1>2 DEF PublishDiff, Slot!Publish
<1>3. CASE NoChanges(j) \/ TaskFails(j)
  BY <1>1, <1>3 DEF NoChanges, TaskFails, ClearJob, Slot!GiveUp
<1>4. CASE AfterBuild(j)
  BY <1>1, <1>4 DEF AfterBuild, Reviewing, HasWorkspace
<1>5. CASE ~(PublishDiff(j) \/ NoChanges(j) \/ TaskFails(j) \/ AfterBuild(j))
  <2>1. UNCHANGED <<activeJob, workspaces, pendingDiff>>
    BY <1>5 DEF TaskStep, BeginInit, BeginSync, AfterWipe, AfterSync, AfterRev,
       AfterEngine, Unwind, NeverStarts, End
  <2> QED BY <1>1, <2>1 DEF Reviewing, HasWorkspace
<1> QED BY <1>2, <1>3, <1>4, <1>5

\* When clients only submit and review, the prompt pipeline behaves as the one
\* agent job of AgentJob: taken when free, worked on, and given up or reviewed.
THEOREM PipelineRefinesAgentJob ==
  Disruptions = {} => (Spec => Slot!Init /\ [][Slot!Next]_(Slot!vars))
<1> SUFFICES ASSUME Disruptions = {}
             PROVE  Spec => Slot!Init /\ [][Slot!Next]_(Slot!vars)
  OBVIOUS
<1>1. Init => Slot!Init
  BY DEF Init, Slot!Init
<1>2. TypeInv /\ UndisturbedInv /\ [Next]_vars => [Slot!Next]_(Slot!vars)
  <2> SUFFICES ASSUME TypeInv, UndisturbedInv, [Next]_vars
               PROVE  [Slot!Next]_(Slot!vars)
    OBVIOUS
  <2>1. ASSUME UNCHANGED <<activeJob, workspaces, pendingDiff>>
        PROVE  UNCHANGED Slot!vars
    BY <2>1 DEF Slot!vars, Reviewing, HasWorkspace
  <2>2. ASSUME NEW j \in Jobs, Operation(j) \/ Engine(j)
        PROVE  UNCHANGED Slot!vars
    BY <2>1, <2>2 DEF Operation, Engine, Wiped, Built, Synced, RevParsed, Diffed,
       OpFails, OpCutShort, EngineStarts, EngineSkips, CoderReady, EngineEnds,
       NoCoder, opFrame, jobVars, wsVars
  <2>3. CASE Next
    BY <2>2, <2>3, RequestRefines, TaskRefines DEF Next
  <2>4. CASE UNCHANGED vars
    BY <2>1, <2>4 DEF vars
  <2> QED BY <2>3, <2>4
<1> QED BY <1>1, <1>2, TypeInvariance, UndisturbedInvariance, PTL DEF Spec
=============================================================================
