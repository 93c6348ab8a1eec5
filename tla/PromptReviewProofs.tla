-------------------------- MODULE PromptReviewProofs --------------------------
(***************************************************************************)
(* The shadow repository and what is done with it: the diff shown is the   *)
(* prompt's own, it can be rejected, and what is accepted stays in.  All   *)
(* of it for any number of clients, jobs and directories, as long as the   *)
(* clients only submit and review.                                         *)
(***************************************************************************)
EXTENDS PromptOrchestratorProofs

\* What a task may await in a stage, not counting the outcome.
StageOps(s) == IF s = "engine" THEN {"queued", "run", "edit"} ELSE {s}

\* Nothing is under way but for a task that waits for it.
AwaitedInv ==
  \A j \in Jobs : op[j] # "none" =>
    pc[j] \in Stages /\ op[j] \in StageOps(pc[j]) \cup {"ok", "failed"}

\* The repository j works in, the revision noted for it, and what a commit of
\* the engine makes of a history.
Here(j) == shadow[Root(j)]
Noted(j) == baseRevision[held[j]]
Edited(history, j) == Commit(history, "edit", j, Tree(history) \cup {j})

\* From the sync on a task works with its client's workspace; the revision noted
\* there is that of the sync, with what was accepted in it, and only the edits
\* of this prompt come after it.
TaskHistory(j) ==
  /\ pc[j] \in {"sync", "rev", "engine", "diff"} => held[j] = workspaces[owner[j]]
  /\ pc[j] = "rev" \/ (pc[j] = "sync" /\ op[j] = "ok") => Here(j) # <<>>
  /\ pc[j] = "rev" /\ op[j] = "ok" => rev[j] = Here(j)
  /\ pc[j] \in {"engine", "diff"} =>
       /\ Noted(j) # <<>>
       /\ Here(j) \in {Noted(j), Edited(Noted(j), j)}
       /\ project[Root(j)] \subseteq Tree(Noted(j))
  /\ pc[j] = "engine" /\ op[j] \in StageOps("engine") => Here(j) = Noted(j)
  /\ pc[j] = "diff" => rev[j] = Noted(j)
  /\ pc[j] = "diff" /\ op[j] = "ok" => out[j] \subseteq {j} \cap Tree(Here(j))

\* While a diff is under review the revision noted for it is still one of the
\* repository's, has what was accepted before, and is what a rejection resets
\* to; until it has, the diff is in the repository.
ReviewHistory(c) ==
  Reviewing(c) =>
    /\ Known(baseRevision[workspaces[c]], shadow[RootOf[c]])
    /\ project[RootOf[c]] \subseteq Tree(baseRevision[workspaces[c]])
    /\ rejecting[c].st # "done" => pendingDiff[workspaces[c]] \subseteq Tree(shadow[RootOf[c]])
    /\ rejecting[c].st # "none" => rejecting[c].to = baseRevision[workspaces[c]]

HistoryInv ==
  /\ AwaitedInv
  /\ \A j \in Jobs : TaskHistory(j)
  /\ \A c \in Clients : ReviewHistory(c)
  /\ AcceptedInBaseline
-----------------------------------------------------------------------------
(* Histories.                                                              *)

\* Appending leaves the beginning of a sequence alone.
LEMMA AppendFacts ==
  ASSUME NEW S, NEW h \in Seq(S), NEW e \in S
  PROVE  /\ Append(h, e) # <<>>
         /\ Append(h, e)[Len(Append(h, e))] = e
         /\ h # <<>> => Append(h, e)[1] = h[1]
<1>1. Len(Append(h, e)) = Len(h) + 1 /\ Append(h, e)[Len(h) + 1] = e
  OBVIOUS
<1>2. Append(h, e) # <<>>
  BY <1>1
<1>3. h # <<>> => Append(h, e)[1] = h[1]
  OBVIOUS
<1> QED BY <1>1, <1>2, <1>3

\* A commit is the head of what it is made on, and has the tree it is made with.
LEMMA CommitFacts ==
  ASSUME NEW h \in Revisions, NEW j \in Jobs, NEW tree \in SUBSET Jobs,
         NEW kind \in {"baseline", "sync", "edit", "project"}
  PROVE  /\ Commit(h, kind, j, tree) # <<>>
         /\ Tree(Commit(h, kind, j, tree)) = tree
         /\ h # <<>> => Known(h, Commit(h, kind, j, tree))
<1> DEFINE commit == [kind |-> kind, by |-> j, tree |-> tree]
<1>1. h \in Seq(Commits) /\ commit \in Commits
  BY DEF Revisions, Commits
<1> HIDE DEF commit
<1>2. /\ Append(h, commit) # <<>>
      /\ Append(h, commit)[Len(Append(h, commit))] = commit
      /\ h # <<>> => Append(h, commit)[1] = h[1]
  BY <1>1, AppendFacts
<1>3. Commit(h, kind, j, tree) = Append(h, commit)
  BY DEF Commit, commit
<1> QED BY <1>2, <1>3 DEF Tree, Known, commit

\* What the engine commits has the edits of its prompt, and none of another.
LEMMA EditedFacts ==
  ASSUME NEW h \in Revisions, h # <<>>, NEW j \in Jobs, NEW g \in {h, Edited(h, j)}
  PROVE  /\ g \in Revisions /\ g # <<>> /\ Known(h, g)
         /\ Tree(h) \subseteq Tree(g)
         /\ SymDiff(Tree(h), Tree(g)) \subseteq {j} \cap Tree(g)
<1>1. Tree(h) \in SUBSET Jobs
  BY TreeType
<1>2. CASE g = h
  BY <1>2 DEF Known, SymDiff
<1>3. CASE g = Edited(h, j)
  <2>1. g = Commit(h, "edit", j, Tree(h) \cup {j}) /\ Tree(h) \cup {j} \in SUBSET Jobs
    BY <1>1, <1>3 DEF Edited
  <2>2. g \in Revisions /\ g # <<>> /\ Known(h, g) /\ Tree(g) = Tree(h) \cup {j}
    BY <2>1, CommitFacts, CommitType
  <2> QED BY <2>2 DEF SymDiff
<1> QED BY <1>2, <1>3

\* The daemon starts with no history at all.
LEMMA HistoryInit == Init => HistoryInv
BY ConstantsAssumption DEF Init, HistoryInv, AwaitedInv, TaskHistory, ReviewHistory,
   Reviewing, HasWorkspace, AcceptedInBaseline, Stages

\* Where a task is suspended in a stage no diff is under review or rejected,
\* and no other task is.
LEMMA AloneInStage ==
  ASSUME TypeInv, UndisturbedInv, NEW j \in Jobs, Live(j)
  PROVE  /\ owner[j] \in Clients /\ activeJob = owner[j] /\ Root(j) \in Roots
         /\ \A c \in Clients : ~Reviewing(c) /\ rejecting[c].st = "none"
         /\ \A i \in Jobs : i # j => pc[i] \in {"unborn", "done"}
<1>1. Runs(j) /\ pc[j] # "unborn"
  BY DEF UndisturbedInv, Runs, Live
<1>2. owner[j] \in Clients /\ activeJob = owner[j]
  BY <1>1 DEF TypeInv, TaskInv, UndisturbedInv, OneActivePipeline
<1>3. ASSUME NEW c \in Clients, Reviewing(c) PROVE FALSE
  <2>1. c = owner[j]
    BY <1>2, <1>3 DEF UndisturbedInv
  <2> QED BY <1>1, <1>3, <2>1 DEF UndisturbedInv
<1>4. \A i \in Jobs : i # j => ~Live(i)
  BY <1>1 DEF UndisturbedInv, OneActivePipeline, OneAgentJob, Runs
<1> QED BY <1>2, <1>3, <1>4, ConstantsAssumption DEF UndisturbedInv, Live, Root
-----------------------------------------------------------------------------
(* HistoryInv is inductive, together with UndisturbedInv.                  *)

\* Nothing of a repository, a task or a review changes.
LEMMA HistoryFrame ==
  ASSUME HistoryInv, UNCHANGED <<pc, op, rev, out, owner, held, workspaces, pendingDiff,
                                 baseRevision, shadow, project, rejecting>>
  PROVE  HistoryInv'
BY DEF HistoryInv, AwaitedInv, TaskHistory, Here, Noted, Root, ReviewHistory, Reviewing,
   HasWorkspace, AcceptedInBaseline

\* The diff under review is settled, and nothing else is reviewed or runs.
LEMMA Settled ==
  ASSUME TypeInv, UndisturbedInv', HistoryInv,
         \A j \in Jobs : ~Live(j), activeJob' = None,
         UNCHANGED <<pc, op>>, AcceptedInBaseline'
  PROVE  HistoryInv'
<1>1. \A c \in Clients : ~Reviewing(c)'
  BY ConstantsAssumption DEF UndisturbedInv
<1>2. \A j \in Jobs : pc'[j] \notin Stages
  BY DEF Live, Stages
<1>3. \A j \in Jobs : TaskHistory(j)'
  BY <1>2 DEF TaskHistory, Stages
<1>4. \A c \in Clients : ReviewHistory(c)'
  BY <1>1 DEF ReviewHistory
<1> QED BY <1>3, <1>4 DEF HistoryInv, AwaitedInv

\* Requests and rejections keep HistoryInv.
LEMMA HistoryRequest ==
  ASSUME Disruptions = {}, TypeInv, UndisturbedInv, UndisturbedInv', HistoryInv,
         NEW c \in Clients, Request(c) \/ RejectStep(c)
  PROVE  HistoryInv'
<1> USE ConstantsAssumption DEF jobVars, wsVars, taskVars, opVars, repoVars
<1>0. Reviewing(c) => \A j \in Jobs : ~Live(j)
  BY AloneInStage
<1>1. ASSUME NEW j \in Jobs, Submit(c, j) PROVE HistoryInv'
  <2>1. activeJob = None /\ pc[j] = "unborn" /\ pc' = [pc EXCEPT ![j] = "created"]
        /\ owner' = [owner EXCEPT ![j] = c]
    BY <1>1 DEF Submit, SlotFree
  <2>2. \A i \in Jobs : ~Live(i)
    BY <2>1, AloneInStage
  <2>3. \A i \in Jobs : pc'[i] \notin Stages
    BY <2>1, <2>2 DEF TypeInv, TypeOK, Live, Stages
  <2>4. \A i \in Jobs : TaskHistory(i)'
    BY <2>3 DEF TaskHistory, Stages
  <2>5. \A d \in Clients : ~Reviewing(d)'
    BY <1>1, <2>1 DEF Submit, UndisturbedInv, Reviewing, HasWorkspace
  <2>6. AwaitedInv'
    BY <1>1, <2>2 DEF Submit, HistoryInv, AwaitedInv, Live, Stages
  <2>7. AcceptedInBaseline'
    BY <1>1 DEF Submit, HistoryInv, AcceptedInBaseline
  <2> QED BY <2>4, <2>5, <2>6, <2>7 DEF HistoryInv, ReviewHistory
<1>2. CASE Accept(c)
  <2>1. Reviewing(c) /\ rejecting[c].st = "none"
    BY <1>2 DEF Accept, MayReview, CanRequest, UndisturbedInv
  <2>2. project' = [project EXCEPT ![RootOf[c]] = SymDiff(@, pendingDiff[workspaces[c]])]
    BY <1>2 DEF Accept, Shown
  <2>3. pendingDiff[workspaces[c]] \subseteq Tree(shadow[RootOf[c]])
    BY <2>1 DEF HistoryInv, ReviewHistory
  <2>4. AcceptedInBaseline'
    BY <1>2, <2>2, <2>3 DEF Accept, HistoryInv, AcceptedInBaseline, SymDiff, TypeInv, TypeOK
  <2>5. activeJob' = None /\ UNCHANGED <<pc, op>>
    BY <1>2, <2>1 DEF Accept, ClearJob, UndisturbedInv
  <2> QED BY <1>0, <2>1, <2>4, <2>5, Settled
<1>3. CASE RejectFinish(c)
  <2>1. Reviewing(c)
    BY <1>3 DEF RejectFinish, UndisturbedInv
  <2>2. activeJob' = None /\ UNCHANGED <<pc, op, shadow, project>>
    BY <1>3, <2>1 DEF RejectFinish, ClearJob, UndisturbedInv
  <2>3. AcceptedInBaseline'
    BY <2>2 DEF HistoryInv, AcceptedInBaseline
  <2> QED BY <1>0, <2>1, <2>2, <2>3, Settled
<1> DEFINE Others == \A d \in Clients : d # c => ~Reviewing(d)
<1>4. Reviewing(c) => Others
  BY DEF UndisturbedInv
<1>5. ASSUME Reviewing(c), UNCHANGED <<pc, op, workspaces, pendingDiff, baseRevision>>,
             AcceptedInBaseline', ReviewHistory(c)'
      PROVE  HistoryInv'
  <2>1. \A j \in Jobs : pc'[j] \notin Stages
    BY <1>0, <1>5 DEF Live, Stages
  <2>2. \A j \in Jobs : TaskHistory(j)'
    BY <2>1 DEF TaskHistory, Stages
  <2>3. \A d \in Clients : ReviewHistory(d)'
    BY <1>4, <1>5 DEF ReviewHistory, Reviewing, HasWorkspace
  <2> QED BY <1>5, <2>2, <2>3 DEF HistoryInv, AwaitedInv
<1>6. CASE RejectStart(c)
  <2>1. Reviewing(c) /\ rejecting[c].st = "none"
    BY <1>6 DEF RejectStart, MayReview
  <2>2. rejecting'[c].st = "git" /\ rejecting'[c].to = baseRevision[workspaces[c]]
    BY <1>6 DEF RejectStart, TypeInv, TypeOK
  <2>3. UNCHANGED <<pc, op, workspaces, pendingDiff, baseRevision, shadow, project>>
    BY <1>6 DEF RejectStart
  <2>4. ReviewHistory(c)'
    BY <2>1, <2>2, <2>3 DEF HistoryInv, ReviewHistory
  <2> QED BY <1>5, <2>1, <2>3, <2>4 DEF HistoryInv, AcceptedInBaseline
<1>7. CASE RejectGit(c)
  <2> DEFINE base == baseRevision[workspaces[c]]
  <2>1. rejecting[c].st = "git" /\ Reviewing(c)
    BY <1>7 DEF RejectGit, UndisturbedInv
  <2>2. /\ base = rejecting[c].to /\ base # <<>>
        /\ project[RootOf[c]] \subseteq Tree(base)
    BY <2>1 DEF HistoryInv, ReviewHistory, Known
  <2>3. shadow' = [shadow EXCEPT ![RootOf[c]] = base]
    BY <1>7, <2>2 DEF RejectGit, Resolve
  <2>4. UNCHANGED <<pc, op, workspaces, pendingDiff, baseRevision, project>>
    BY <1>7 DEF RejectGit
  <2>5. rejecting'[c].st = "done" /\ rejecting'[c].to = rejecting[c].to
    <3>1. rejecting' = [rejecting EXCEPT ![c] = [@ EXCEPT !.st = "done"]]
      BY <1>7 DEF RejectGit
    <3> QED BY <3>1 DEF TypeInv, TypeOK, Rejects
  <2>6. shadow'[RootOf[c]] = base
    BY <2>3 DEF TypeInv, TypeOK
  <2>7. ReviewHistory(c)'
    BY <2>2, <2>4, <2>5, <2>6 DEF ReviewHistory, Known
  <2>8. AcceptedInBaseline'
    BY <2>2, <2>3, <2>4 DEF HistoryInv, AcceptedInBaseline, TypeInv, TypeOK
  <2> QED BY <1>5, <2>1, <2>4, <2>7, <2>8
<1>8. CASE RejectFails(c)
  <2>1. rejecting[c].st = "git" /\ Reviewing(c)
    BY <1>8 DEF RejectFails, UndisturbedInv
  <2>2. rejecting'[c].st = "none"
    BY <1>8 DEF RejectFails, NoReject, TypeInv, TypeOK
  <2>3. UNCHANGED <<pc, op, workspaces, pendingDiff, baseRevision, shadow, project>>
    BY <1>8 DEF RejectFails
  <2>4. ReviewHistory(c)'
    BY <2>1, <2>2, <2>3 DEF HistoryInv, ReviewHistory
  <2> QED BY <1>5, <2>1, <2>3, <2>4 DEF HistoryInv, AcceptedInBaseline
<1>9. CASE Reconnect(c) \/ Cancel(c) \/ Reset(c)
  BY <1>9 DEF Reconnect, Cancel, Reset
<1>10. CASE Clear(c)
  BY <1>10, HistoryFrame DEF Clear
<1> QED BY <1>1, <1>2, <1>3, <1>6, <1>7, <1>8, <1>9, <1>10 DEF Request, RejectStep

\* No other task, and no review, has a claim while j is in _execute_prompt.
LEMMA OnlyTask ==
  ASSUME TypeInv, UndisturbedInv, UndisturbedInv', NEW j \in Jobs, Live(j),
         \A i \in Jobs : i # j => pc'[i] = pc[i] /\ op'[i] = op[i],
         HistoryInv, pc' \in [Jobs -> {"unborn", "created", "done"} \cup Stages],
         op'[j] # "none" => pc'[j] \in Stages /\ op'[j] \in StageOps(pc'[j]) \cup {"ok", "failed"},
         TaskHistory(j)', AcceptedInBaseline',
         \A c \in Clients : ReviewHistory(c)'
  PROVE  HistoryInv'
<1>1. \A i \in Jobs : i # j => pc[i] \in {"unborn", "done"}
  BY AloneInStage
<1>2. \A i \in Jobs : i # j => TaskHistory(i)'
  BY <1>1 DEF TaskHistory
<1>3. AwaitedInv'
  BY DEF HistoryInv, AwaitedInv
<1> QED BY <1>2, <1>3 DEF HistoryInv

\* The prompt task keeps HistoryInv.
LEMMA HistoryTask ==
  ASSUME TypeInv, UndisturbedInv, UndisturbedInv', HistoryInv, NEW j \in Jobs, TaskStep(j)
  PROVE  HistoryInv'
<1> USE ConstantsAssumption DEF jobVars, wsVars, opVars, repoVars
<1>0. Live(j) /\ j \notin cancelled
  BY DEF TaskStep, BeginInit, BeginSync, AfterWipe, AfterBuild, AfterSync, AfterRev,
     AfterEngine, PublishDiff, NoChanges, TaskFails, Unwind, NeverStarts, Resumes,
     Live, Stages, UndisturbedInv
<1>1. /\ owner[j] \in Clients /\ activeJob = owner[j] /\ Root(j) \in Roots
      /\ \A c \in Clients : ~Reviewing(c) /\ rejecting[c].st = "none"
      /\ \A i \in Jobs : i # j => pc[i] \in {"unborn", "done"}
  BY <1>0, AloneInStage
<1>2. /\ UNCHANGED <<shadow, project, owner, rejecting>>
      /\ \A i \in Jobs : i # j => pc'[i] = pc[i] /\ op'[i] = op[i]
      /\ pc' \in [Jobs -> {"unborn", "created", "done"} \cup Stages]
  BY DEF TaskStep, BeginInit, BeginSync, AfterWipe, AfterBuild, AfterSync, AfterRev,
     AfterEngine, PublishDiff, NoChanges, TaskFails, Unwind, NeverStarts, Await, End,
     TypeInv, TypeOK, Stages
<1>3. AcceptedInBaseline'
  BY <1>2 DEF HistoryInv, AcceptedInBaseline
<1>4. Root(j)' = Root(j) /\ Here(j)' = Here(j)
  BY <1>2 DEF Root, Here
<1>5. TaskHistory(j)
  BY DEF HistoryInv
<1>6. Live(j)' => \A c \in Clients : ReviewHistory(c)'
  <2>1. Live(j)' => Runs(j)'
    BY <1>0 DEF UndisturbedInv, Runs
  <2>2. Runs(j)' => activeJob' = owner'[j] /\ ~Reviewing(owner[j])'
    BY <1>1, <1>2 DEF UndisturbedInv, OneActivePipeline
  <2>3. ASSUME Runs(j)', NEW c \in Clients, Reviewing(c)' PROVE FALSE
    <3>1. c = owner[j]
      BY <1>2, <2>2, <2>3 DEF UndisturbedInv
    <3> QED BY <1>2, <2>2, <2>3, <3>1 DEF Reviewing, HasWorkspace
  <2> QED BY <2>1, <2>3 DEF ReviewHistory
\* A step to another suspension.
<1>7. ASSUME NEW s \in Stages, NEW o \in StageOps(s), Await(j, s, o), TaskHistory(j)'
      PROVE  HistoryInv'
  <2>1. pc'[j] = s /\ op'[j] = o /\ Live(j)'
    BY <1>7 DEF Await, TypeInv, TypeOK, Live, Stages
  <2> QED BY <1>0, <1>2, <1>3, <1>6, <1>7, <2>1, OnlyTask
\* The end of the task.
<1>8. ASSUME pc'[j] = "done", op'[j] = "none", \A c \in Clients : ReviewHistory(c)'
      PROVE  HistoryInv'
  <2>1. TaskHistory(j)'
    BY <1>8 DEF TaskHistory
  <2> QED BY <1>0, <1>2, <1>3, <1>8, <2>1, OnlyTask
<1>9. ASSUME pc'[j] = "done", op'[j] = "none", UNCHANGED <<workspaces, pendingDiff>>
      PROVE  HistoryInv'
  <2>1. \A c \in Clients : ReviewHistory(c)'
    BY <1>1, <1>9 DEF ReviewHistory, Reviewing, HasWorkspace
  <2> QED BY <1>8, <1>9, <2>1
<1>10. CASE BeginInit(j)
  <2>1. PICK s \in {"wipe", "build"} : Await(j, s, s)
    BY <1>10 DEF BeginInit
  <2>2. pc'[j] = s
    BY <2>1 DEF Await, TypeInv, TypeOK
  <2>3. TaskHistory(j)'
    BY <2>2 DEF TaskHistory
  <2> QED BY <1>7, <2>1, <2>3 DEF Stages, StageOps
<1>11. CASE BeginSync(j)
  <2>1. Await(j, "sync", "sync") /\ pc'[j] = "sync" /\ op'[j] = "sync"
    BY <1>11 DEF BeginSync, Await, TypeInv, TypeOK
  <2>2. held'[j] = workspaces'[owner'[j]]
    BY <1>11 DEF BeginSync, TypeInv, TypeOK
  <2>3. TaskHistory(j)'
    BY <2>1, <2>2 DEF TaskHistory
  <2> QED BY <1>7, <2>1, <2>3 DEF Stages, StageOps
<1>12. CASE AfterWipe(j)
  <2>1. Await(j, "build", "build") /\ pc'[j] = "build"
    BY <1>12 DEF AfterWipe, Await, TypeInv, TypeOK
  <2>2. TaskHistory(j)'
    BY <2>1 DEF TaskHistory
  <2> QED BY <1>7, <2>1, <2>2 DEF Stages, StageOps
<1>13. CASE AfterBuild(j)
  <2>1. Await(j, "sync", "sync") /\ pc'[j] = "sync" /\ op'[j] = "sync"
    BY <1>13 DEF AfterBuild, Await, TypeInv, TypeOK
  <2>2. held'[j] = workspaces'[owner'[j]]
    BY <1>1, <1>13 DEF AfterBuild, TypeInv, TypeOK
  <2>3. TaskHistory(j)'
    BY <2>1, <2>2 DEF TaskHistory
  <2> QED BY <1>7, <2>1, <2>3 DEF Stages, StageOps
<1>14. CASE AfterSync(j)
  <2>1. Await(j, "rev", "rev") /\ pc'[j] = "rev" /\ op'[j] = "rev"
    BY <1>14 DEF AfterSync, Await, TypeInv, TypeOK
  <2>2. held'[j] = workspaces'[owner'[j]] /\ Here(j)' # <<>>
    BY <1>4, <1>5, <1>14 DEF AfterSync, Resumes, TaskHistory
  <2>3. TaskHistory(j)'
    BY <2>1, <2>2 DEF TaskHistory
  <2> QED BY <1>7, <2>1, <2>3 DEF Stages, StageOps
<1>15. CASE AfterRev(j)
  <2>1. Await(j, "engine", "queued") /\ pc'[j] = "engine" /\ op'[j] = "queued"
    BY <1>15 DEF AfterRev, Await, TypeInv, TypeOK
  <2>2. pc[j] = "rev" /\ op[j] = "ok" /\ held[j] \in Jobs
    BY <1>15 DEF AfterRev, Resumes, TypeInv, TaskInv
  <2>3. held'[j] = workspaces'[owner'[j]] /\ Noted(j)' = Here(j) /\ Here(j) # <<>>
    BY <1>5, <1>15, <2>2 DEF AfterRev, NoteRevision, Noted, TaskHistory, TypeInv, TypeOK
  <2>4. project'[Root(j)'] \subseteq Tree(Noted(j)')
    BY <1>1, <1>2, <1>4, <2>3 DEF HistoryInv, AcceptedInBaseline, Here
  <2>5. TaskHistory(j)'
    BY <1>4, <2>1, <2>3, <2>4 DEF TaskHistory
  <2> QED BY <1>7, <2>1, <2>5 DEF Stages, StageOps
<1>16. CASE AfterEngine(j)
  <2>1. Await(j, "diff", "diff") /\ pc'[j] = "diff" /\ op'[j] = "diff"
    BY <1>16 DEF AfterEngine, Await, TypeInv, TypeOK
  <2>2. /\ UNCHANGED <<held, workspaces, baseRevision>> /\ rev'[j] = Noted(j)
        /\ pc[j] = "engine"
    BY <1>16 DEF AfterEngine, Resumes, Noted, TypeInv, TypeOK
  <2>3. Noted(j)' = Noted(j)
    BY <2>2 DEF Noted
  <2>4. Edited(Noted(j), j)' = Edited(Noted(j), j) /\ Tree(Noted(j))' = Tree(Noted(j))
    BY <2>3 DEF Edited, Commit, Tree
  <2>5. TaskHistory(j)'
    BY <1>2, <1>4, <1>5, <2>1, <2>2, <2>3, <2>4 DEF TaskHistory
  <2> QED BY <1>7, <2>1, <2>5 DEF Stages, StageOps
<1>17. CASE PublishDiff(j)
  <2>1. /\ pc[j] = "diff" /\ op[j] = "ok" /\ held[j] \in Jobs
        /\ pendingDiff' = [pendingDiff EXCEPT ![held[j]] = out[j]]
        /\ UNCHANGED <<activeJob, workspaces, baseRevision>>
        /\ pc'[j] = "done" /\ op'[j] = "none"
    BY <1>17 DEF PublishDiff, Resumes, End, TypeInv, TypeOK, TaskInv
  <2>2. ASSUME NEW c \in Clients, Reviewing(c)' PROVE ReviewHistory(c)'
    <3>1. c = owner[j] /\ workspaces[c] = held[j]
      BY <1>1, <1>5, <2>1, <2>2 DEF UndisturbedInv, TaskHistory
    <3>2. /\ Noted(j) = baseRevision'[workspaces'[c]] /\ Here(j) = shadow'[RootOf[c]]
          /\ Root(j) = RootOf[c] /\ pendingDiff'[workspaces'[c]] = out[j]
      BY <1>2, <2>1, <3>1 DEF Noted, Here, Root, TypeInv, TypeOK
    <3>3. /\ Noted(j) \in Revisions /\ Noted(j) # <<>>
          /\ Here(j) \in {Noted(j), Edited(Noted(j), j)}
      BY <1>5, <2>1 DEF TaskHistory, Noted, TypeInv, TypeOK
    <3>4. Known(Noted(j), Here(j))
      BY <3>3, EditedFacts
    <3>5. project'[RootOf[c]] \subseteq Tree(Noted(j)) /\ out[j] \subseteq Tree(Here(j))
      BY <1>2, <1>5, <2>1, <3>2 DEF TaskHistory
    <3> QED BY <1>1, <1>2, <3>2, <3>4, <3>5 DEF ReviewHistory
  <2> QED BY <1>8, <2>1, <2>2 DEF ReviewHistory
<1>18. CASE NoChanges(j)
  BY <1>9, <1>18 DEF NoChanges, End, Resumes, TypeInv, TypeOK
<1>19. CASE TaskFails(j)
  <2>1. op[j] \in {"none", "ok", "failed"}
    BY <1>19 DEF TaskFails, Resumes, HistoryInv, AwaitedInv, Stages
  <2> QED BY <1>9, <1>19, <2>1 DEF TaskFails, End, TypeInv, TypeOK
<1> QED BY <1>0, <1>10, <1>11, <1>12, <1>13, <1>14, <1>15, <1>16, <1>17, <1>18, <1>19
        DEF TaskStep, Unwind, NeverStarts, UndisturbedInv

\* What git, the file threads and the engine do for a task keeps HistoryInv.
LEMMA HistoryOperation ==
  ASSUME TypeInv, UndisturbedInv, UndisturbedInv', HistoryInv, NEW j \in Jobs,
         Operation(j) \/ Engine(j)
  PROVE  HistoryInv'
<1> USE ConstantsAssumption DEF opFrame, jobVars, wsVars, taskVars, opVars, repoVars
<1>0. op[j] # "none"
  BY DEF Operation, Wiped, Built, Synced, RevParsed, Diffed, OpFails, OpCutShort,
     Engine, EngineStarts, EngineSkips, CoderReady, EngineEnds, NoCoder
<1>1. /\ pc[j] \in Stages /\ op[j] \in StageOps(pc[j]) \cup {"ok", "failed"}
      /\ Live(j) /\ j \notin cancelled
  BY <1>0 DEF HistoryInv, AwaitedInv, Live, Stages, UndisturbedInv
<1>2. /\ Root(j) \in Roots /\ \A c \in Clients : ~Reviewing(c)
  BY <1>1, AloneInStage
<1>3. UNCHANGED <<activeJob, workspaces, pendingDiff, baseRevision, pc, owner, held, cancelled, rejecting, project>>
  BY DEF Operation, Wiped, Built, Synced, RevParsed, Diffed, OpFails, OpCutShort,
     Engine, EngineStarts, EngineSkips, CoderReady, EngineEnds, NoCoder
<1>4. \A c \in Clients : ReviewHistory(c)'
  BY <1>2, <1>3 DEF ReviewHistory, Reviewing, HasWorkspace
<1>5. Root(j)' = Root(j) /\ Noted(j)' = Noted(j)
  BY <1>3 DEF Root, Noted
<1>6. /\ TaskHistory(j) /\ AcceptedInBaseline
      /\ Here(j) \in Revisions /\ Tree(Here(j)) \in SUBSET Jobs
      /\ project[Root(j)] \in SUBSET Jobs
  BY <1>2, TreeType DEF HistoryInv, Here, TypeInv, TypeOK
\* The task has its outcome, or its engine run goes on.
<1>7. ASSUME NEW o \in StageOps(pc[j]) \cup {"ok", "failed"}, op' = [op EXCEPT ![j] = o],
             TaskHistory(j)', AcceptedInBaseline'
      PROVE  HistoryInv'
  BY <1>1, <1>3, <1>4, <1>7, OnlyTask DEF TypeInv, TypeOK
\* What is in the shadow repository changes for its directory only.
<1>8. ASSUME NEW h \in Revisions, SetShadow(j, h), project[Root(j)] \subseteq Tree(h) \/ h = <<>>
      PROVE  AcceptedInBaseline' /\ Here(j)' = h
  BY <1>2, <1>3, <1>5, <1>6, <1>8 DEF SetShadow, AcceptedInBaseline, Here, TypeInv, TypeOK
<1>9. ASSUME UNCHANGED shadow
      PROVE  AcceptedInBaseline' /\ Here(j)' = Here(j)
  BY <1>3, <1>5, <1>6, <1>9 DEF AcceptedInBaseline, Here
<1>10. Edited(Noted(j), j)' = Edited(Noted(j), j) /\ Tree(Noted(j))' = Tree(Noted(j))
  BY <1>5 DEF Edited, Commit, Tree
<1>11. CASE Wiped(j) \/ Built(j)
  <2>1. pc[j] \in {"wipe", "build"} /\ op' = [op EXCEPT ![j] = "ok"]
    BY <1>1, <1>11 DEF Wiped, Built, Completes, Stages, StageOps
  <2>2. TaskHistory(j)'
    BY <1>3, <2>1 DEF TaskHistory
  <2>3. CASE Wiped(j)
    <3>1. <<>> \in Revisions /\ SetShadow(j, <<>>)
      BY <2>3 DEF Wiped, Wipe, Revisions
    <3> QED BY <1>7, <1>8, <2>1, <2>2, <3>1
  <2>4. CASE Built(j)
    <3>1. SetShadow(j, Commit(Here(j), "baseline", j, project[Root(j)]))
      BY <2>1, <2>4 DEF Built, Here, UsersFiles
    <3>2. /\ Commit(Here(j), "baseline", j, project[Root(j)]) \in Revisions
          /\ Tree(Commit(Here(j), "baseline", j, project[Root(j)])) = project[Root(j)]
      BY <1>6, CommitType, CommitFacts
    <3> QED BY <1>7, <1>8, <2>1, <2>2, <3>1, <3>2
  <2> QED BY <1>11, <2>3, <2>4
<1>12. CASE Synced(j)
  <2>1. pc[j] = "sync" /\ op' = [op EXCEPT ![j] = "ok"] /\ Here(j) # <<>>
    BY <1>1, <1>12 DEF Synced, Completes, Stages, StageOps, Here
  <2>2. PICK tree \in {Tree(Here(j)), project[Root(j)]} :
          SetShadow(j, Commit(Here(j), "sync", j, tree))
    BY <1>12 DEF Synced, UsersFiles, Here
  <2>3. project[Root(j)] \subseteq tree /\ tree \in SUBSET Jobs
    BY <1>2, <1>6, <2>1 DEF AcceptedInBaseline, Here
  <2> DEFINE h == Commit(Here(j), "sync", j, tree)
  <2>4. h \in Revisions /\ h # <<>> /\ Tree(h) = tree
    BY <1>6, <2>3, CommitType, CommitFacts
  <2>5. SetShadow(j, h)
    BY <2>2
  <2> HIDE DEF h
  <2>6. AcceptedInBaseline' /\ Here(j)' = h
    BY <1>8, <2>3, <2>4, <2>5
  <2>7. TaskHistory(j)'
    BY <1>3, <1>6, <2>1, <2>4, <2>6 DEF TaskHistory
  <2> QED BY <1>7, <2>1, <2>6, <2>7
<1>13. CASE RevParsed(j)
  <2>1. pc[j] = "rev" /\ op' = [op EXCEPT ![j] = "ok"] /\ UNCHANGED shadow
    BY <1>1, <1>13 DEF RevParsed, Completes, Stages, StageOps
  <2>2. Here(j) # <<>>
    BY <1>6, <2>1 DEF TaskHistory
  <2>3. rev'[j] = Here(j)
    BY <1>13, <2>1, <2>2 DEF RevParsed, Gives, Here, TypeInv, TypeOK
  <2>4. TaskHistory(j)'
    BY <1>3, <1>6, <1>9, <2>1, <2>2, <2>3 DEF TaskHistory
  <2> QED BY <1>7, <1>9, <2>1, <2>4
<1>14. CASE Diffed(j)
  <2>1. pc[j] = "diff" /\ op' = [op EXCEPT ![j] = "ok"] /\ UNCHANGED <<shadow, rev>>
    BY <1>1, <1>14 DEF Diffed, Completes, Stages, StageOps
  <2>2. /\ rev[j] = Noted(j) /\ Noted(j) # <<>> /\ Noted(j) \in Revisions
        /\ Here(j) \in {Noted(j), Edited(Noted(j), j)}
    BY <1>6, <2>1 DEF TaskHistory, TypeInv, TypeOK
  <2>3. SymDiff(Tree(Noted(j)), Tree(Here(j))) \subseteq {j} \cap Tree(Here(j))
    BY <2>2, EditedFacts
  <2>4. out'[j] \in {SymDiff(Tree(Noted(j)), Tree(Here(j))), {}}
    BY <1>14, <2>1, <2>2 DEF Diffed, Gives, Resolve, Here, TypeInv, TypeOK
  <2>5. Tree(Here(j))' = Tree(Here(j))
    BY <1>9, <2>1 DEF Tree
  <2>6. TaskHistory(j)'
    BY <1>3, <1>5, <1>6, <1>9, <1>10, <2>1, <2>3, <2>4, <2>5 DEF TaskHistory
  <2> QED BY <1>7, <1>9, <2>1, <2>6
<1>15. CASE OpFails(j)
  <2>1. /\ op' = [op EXCEPT ![j] = "failed"] /\ op'[j] = "failed" /\ UNCHANGED rev
        /\ pc[j] \in {"wipe", "build", "sync", "rev", "diff"}
    BY <1>1, <1>15 DEF OpFails, Completes, Stages, StageOps, TypeInv, TypeOK
  <2>2. CASE UNCHANGED shadow
    <3>1. TaskHistory(j)'
      BY <1>3, <1>5, <1>6, <1>9, <1>10, <2>1, <2>2 DEF TaskHistory, StageOps
    <3> QED BY <1>7, <1>9, <2>1, <2>2, <3>1
  <2>3. CASE op[j] = "wipe" /\ SetShadow(j, <<>>)
    <3>1. pc[j] = "wipe"
      BY <1>1, <2>3 DEF StageOps, Stages
    <3>2. TaskHistory(j)'
      BY <1>3, <3>1 DEF TaskHistory
    <3>3. <<>> \in Revisions
      BY DEF Revisions
    <3>4. AcceptedInBaseline'
      BY <1>8, <2>3, <3>3
    <3> QED BY <1>7, <2>1, <3>2, <3>4
  <2> QED BY <1>15, <2>2, <2>3 DEF OpFails, Wipe
<1>16. CASE EngineStarts(j) \/ CoderReady(j) \/ NoCoder(j)
  <2>1. /\ pc[j] = "engine" /\ op[j] \in StageOps("engine")
        /\ UNCHANGED <<shadow, rev>>
    BY <1>1, <1>16 DEF EngineStarts, CoderReady, NoCoder, Stages, StageOps
  <2>2. PICK o \in {"run", "edit", "failed"} : op' = [op EXCEPT ![j] = o]
    BY <1>16, <2>1 DEF EngineStarts, CoderReady, NoCoder, Completes
  <2>3. TaskHistory(j)'
    BY <1>3, <1>5, <1>6, <1>9, <1>10, <2>1 DEF TaskHistory, StageOps
  <2> QED BY <1>7, <1>9, <2>1, <2>2, <2>3 DEF StageOps
<1>17. CASE EngineEnds(j)
  <2>1. pc[j] = "engine" /\ op[j] \in StageOps("engine") /\ UNCHANGED rev
    BY <1>1, <1>17 DEF EngineEnds, Stages, StageOps
  <2>2. PICK o \in {"ok", "failed"} : op' = [op EXCEPT ![j] = o]
    BY <1>17, <2>1 DEF EngineEnds, Completes
  <2>3. op'[j] \notin StageOps("engine")
    BY <2>2 DEF StageOps, TypeInv, TypeOK
  <2>4. /\ Here(j) = Noted(j) /\ Noted(j) # <<>> /\ Noted(j) \in Revisions
        /\ project[Root(j)] \subseteq Tree(Noted(j))
    BY <1>6, <2>1 DEF TaskHistory
  <2>5. CASE UNCHANGED shadow
    <3>1. TaskHistory(j)'
      BY <1>3, <1>5, <1>6, <1>9, <1>10, <2>1, <2>3, <2>5 DEF TaskHistory
    <3> QED BY <1>7, <1>9, <2>2, <2>5, <3>1
  <2>6. CASE SetShadow(j, Edited(Noted(j), j))
    <3>1. /\ Edited(Noted(j), j) \in Revisions /\ Edited(Noted(j), j) # <<>>
          /\ Tree(Noted(j)) \subseteq Tree(Edited(Noted(j), j))
      BY <2>4, EditedFacts
    <3>2. AcceptedInBaseline' /\ Here(j)' = Edited(Noted(j), j)
      BY <1>8, <2>4, <2>6, <3>1
    <3>3. TaskHistory(j)'
      BY <1>3, <1>5, <1>6, <1>10, <2>1, <2>3, <3>2 DEF TaskHistory
    <3> QED BY <1>7, <2>2, <3>2, <3>3
  <2> QED BY <1>17, <2>4, <2>5, <2>6 DEF EngineEnds, Edited, Here
<1> QED BY <1>1, <1>11, <1>12, <1>13, <1>14, <1>15, <1>16, <1>17
        DEF Operation, Engine, OpCutShort, EngineSkips

\* No step of clients that only submit and review leaves HistoryInv.
LEMMA HistoryNext ==
  ASSUME Disruptions = {}, TypeInv, UndisturbedInv, HistoryInv, [Next]_vars
  PROVE  HistoryInv'
<1>1. UndisturbedInv'
  BY UndisturbedNext
<1>2. CASE Next
  BY <1>1, <1>2, HistoryRequest, HistoryTask, HistoryOperation DEF Next
<1>3. CASE UNCHANGED vars
  BY <1>3, HistoryFrame DEF vars
<1> QED BY <1>2, <1>3

\* The revision noted for a prompt and the repository stay related as HistoryInv
\* says, from the sync to the end of the review.
THEOREM HistoryInvariance == Disruptions = {} => (Spec => []HistoryInv)
<1> SUFFICES ASSUME Disruptions = {}
             PROVE  Spec => []HistoryInv
  OBVIOUS
<1>1. TypeInv /\ UndisturbedInv /\ HistoryInv /\ [Next]_vars => HistoryInv'
  BY HistoryNext
<1> QED BY <1>1, HistoryInit, TypeInvariance, UndisturbedInvariance, PTL DEF Spec

\* A prompt never shows edits of another prompt as its own.
THEOREM DiffsAreOwn == Disruptions = {} => (Spec => []PublishedDiffIsOwn)
<1>1. HistoryInv => PublishedDiffIsOwn
  BY DEF HistoryInv, TaskHistory, PublishedDiffIsOwn, Resumes
<1> QED BY <1>1, HistoryInvariance, PTL

\* The revision that a diff under review would be rejected to can be named.
THEOREM ReviewsCanBeRejected == Disruptions = {} => (Spec => []ReviewCanBeRejected)
<1>1. HistoryInv => ReviewCanBeRejected
  BY DEF HistoryInv, ReviewHistory, ReviewCanBeRejected
<1> QED BY <1>1, HistoryInvariance, PTL

\* A repository the agent works on has what the user accepted, also after the
\* rejection of a later diff and the rebuilding of the repository.
THEOREM AcceptedStays == Disruptions = {} => (Spec => []AcceptedInBaseline)
<1>1. HistoryInv => AcceptedInBaseline
  BY DEF HistoryInv
<1> QED BY <1>1, HistoryInvariance, PTL
=============================================================================
