------------------------- MODULE PromptOrchestrator -------------------------
(***************************************************************************)
(* The prompt pipeline of the daemon: PromptOrchestrator with the job slot *)
(* (ActiveJobTracker), the shadow workspaces (ShadowManager, PreFlightSync,*)
(* DiffGenerator, AcceptanceFlow, RejectionFlow) and the Aider engine with *)
(* its single worker thread (AiderEngine, ThreadIsolatedBridge).           *)
(*                                                                         *)
(* Everything in the daemon but the engine runs on one asyncio loop, so a  *)
(* step of this module is what the loop runs from one suspension to the    *)
(* next.  A suspended task waits for an operation (a git process, a file   *)
(* thread, the engine) that takes effect on its own, at any time, and that *)
(* goes on when the task waiting for it is cancelled.                      *)
(*                                                                         *)
(* A Neovim instance makes one client_id, one session_id and one           *)
(* project_id and keeps them, so one identity, a client, stands for all    *)
(* three.  Several of them may have the same project directory open.       *)
(***************************************************************************)
EXTENDS Naturals, Sequences

CONSTANTS
  Clients,      \* Neovim instances
  Roots,        \* project directories
  RootOf,       \* the directory each client has open
  Jobs,         \* submissions; bounds how many prompts a behaviour accepts
  Disruptions,  \* what clients do besides submitting and reviewing:
                \*   "cancel"     agent/cancel
                \*   "reset"      agent/reset
                \*   "reconnect"  drop a connection whose reject is in progress
                \*   "blind"      accept or reject when nothing is under review
  None          \* no client, no job, no workspace

ASSUME ConstantsAssumption ==
  /\ RootOf \in [Clients -> Roots]
  /\ Disruptions \subseteq {"cancel", "reset", "reconnect", "blind"}
  /\ None \notin Clients \cup Jobs

VARIABLES
  activeJob,     \* ActiveJobTracker._active_job: the client whose job it is
  activeTasks,   \* PromptOrchestrator._active_tasks: the task of each session
  workspaces,    \* ShadowManager._workspaces: a client's ShadowWorkspace object,
                 \*   named by the job whose initialize() created it
  pendingDiff,   \* pending_diff of each object: the edits in it, {} for None
  baseRevision,  \* base_revision of each object, <<>> for None
  sessions,      \* AiderEngine._sessions: who has a Coder with its chat
  pc,            \* where the prompt task of each job is suspended
  owner,         \* the client that submitted the job
  held,          \* the ShadowWorkspace object the task works with
  cancelled,     \* tasks on which Task.cancel() was called
  op,            \* the operation the task awaits, or its outcome
  rev,           \* the revision that operation takes or gives
  out,           \* the diff that operation gives
  queue,         \* submissions to the executor that no worker has taken
  rejecting,     \* the handle_reject_diff of each client
  shadow,        \* history of the repository in the root's shadow directory,
                 \*   <<>> when there is none
  directory,     \* the roots that have a shadow directory
  project        \* agent edits in the user's own files

jobVars    == <<activeJob, activeTasks>>
wsVars     == <<workspaces, pendingDiff, baseRevision>>
taskVars   == <<pc, owner, held, cancelled>>
opVars     == <<op, rev, out, queue>>
repoVars   == <<shadow, directory, project>>
vars == <<activeJob, activeTasks, workspaces, pendingDiff, baseRevision,
          sessions, pc, owner, held, cancelled, op, rev, out, queue,
          rejecting, shadow, directory, project>>

Stages == {"wipe", "build", "sync", "rev", "engine", "diff"}

\* "queued", "run" and "edit" are the stages of an engine run: in the
\* executor's queue, building the Coder, inside coder.run.
Ops == {"none", "wipe", "build", "sync", "rev", "queued", "run", "edit",
        "diff", "ok", "failed"}

\* A commit: what made it, for which job, and the agent edits in its tree.  A
\* revision is named by the history that leads to it, as in git.
Commits   == [kind : {"baseline", "sync", "edit", "project"}, by : Jobs,
              tree : SUBSET Jobs]
Revisions == Seq(Commits)
Rejects   == [st : {"none", "git", "done"}, ws : Jobs \cup {None},
              to : Revisions, attached : BOOLEAN]

NoReject == [st |-> "none", ws |-> None, to |-> <<>>, attached |-> FALSE]

Init ==
  /\ activeJob = None
  /\ activeTasks = [c \in Clients |-> None]
  /\ workspaces = [c \in Clients |-> None]
  /\ pendingDiff = [w \in Jobs |-> {}]
  /\ baseRevision = [w \in Jobs |-> <<>>]
  /\ sessions = {}
  /\ pc = [j \in Jobs |-> "unborn"]
  /\ owner = [j \in Jobs |-> None]
  /\ held = [j \in Jobs |-> None]
  /\ cancelled = {}
  /\ op = [j \in Jobs |-> "none"]
  /\ rev = [j \in Jobs |-> <<>>]
  /\ out = [j \in Jobs |-> {}]
  /\ queue = <<>>
  /\ rejecting = [c \in Clients |-> NoReject]
  /\ shadow = [r \in Roots |-> <<>>]
  /\ directory \in SUBSET Roots   \* a daemon that was killed has left some
  /\ project = [r \in Roots |-> {}]
-----------------------------------------------------------------------------
(* The shadow repository.                                                  *)

Root(j) == RootOf[owner[j]]

Tree(history) == IF history = <<>> THEN {} ELSE history[Len(history)].tree

Commit(history, kind, j, tree) ==
  Append(history, [kind |-> kind, by |-> j, tree |-> tree])

\* A revision can be named while the repository it was made in exists: every
\* repository begins with a baseline commit of its own.
Known(revision, history) ==
  revision # <<>> /\ history # <<>> /\ revision[1] = history[1]

\* Mutant: what the docstrings of diff.py and lifecycle.py say, always HEAD~1.
ResolveParent(revision, history) == SubSeq(history, 1, Len(history) - 1)

\* `base_revision or "HEAD~1"`
Resolve(revision, history) ==
  IF revision = <<>> THEN SubSeq(history, 1, Len(history) - 1) ELSE revision

\* Mutant: only what the user has committed, as a `git clone` would copy.
UsersCommittedFiles(r) == {}

\* The agent edits in the user's files, saved in the directory r or in buffers.
UsersFiles(r) == project[r]

SymDiff(s, t) == (s \ t) \cup (t \ s)

\* What `git rev-parse HEAD` gives where the shadow repository is gone but its
\* directory is not: git finds the .git that surrounds it.
ProjectHead(j) == <<[kind |-> "project", by |-> j, tree |-> {}]>>
-----------------------------------------------------------------------------
(* The job slot.                                                           *)

\* Mutant: the constraint held per session instead of globally.
SlotFreeForSession(c) == activeJob # c

\* ActiveJobTracker.start_job does not raise.
SlotFree(c) == activeJob = None

\* Mutant: the comparison of clear_job the wrong way round.
ClearOthersJob(c) == activeJob' = IF activeJob # c THEN None ELSE activeJob

\* ActiveJobTracker.clear_job: only the session that has the slot frees it.
ClearJob(c) == activeJob' = IF activeJob = c THEN None ELSE activeJob

HasWorkspace(c) == workspaces[c] # None

\* The client has a diff that the daemon will let it accept.
Reviewing(c) == HasWorkspace(c) /\ pendingDiff[workspaces[c]] # {}

\* The server answers the requests of a connection one after the other, and a
\* rejection is the only handler here that is suspended in the middle.
CanRequest(c) == ~rejecting[c].attached

\* diff.lua: no diff, no accept or reject.  A "blind" client still shows a diff
\* that the daemon has dropped.
MayReview(c) == "blind" \in Disruptions \/ Reviewing(c)

\* What the client puts into its files when it accepts: the diff it was sent, or,
\* of a "blind" client, any it was ever sent.
Shown(c) == IF "blind" \in Disruptions THEN SUBSET {j \in Jobs : pc[j] = "done"}
                                       ELSE {pendingDiff[workspaces[c]]}

\* The task is suspended somewhere in _execute_prompt, or about to enter it.
Live(j) == pc[j] \notin {"unborn", "done"}

\* ... and was not cancelled.
Runs(j) == Live(j) /\ j \notin cancelled
-----------------------------------------------------------------------------
(* The request handlers.                                                   *)

\* handle_submit_prompt, when the slot is free: claim it and make the task.
Submit(c, j) ==
  /\ CanRequest(c)
  /\ SlotFree(c)
  /\ pc[j] = "unborn"
  /\ activeJob' = c
  /\ activeTasks' = [activeTasks EXCEPT ![c] = j]
  /\ pc' = [pc EXCEPT ![j] = "created"]
  /\ owner' = [owner EXCEPT ![j] = c]
  /\ UNCHANGED <<held, cancelled, wsVars, sessions, opVars, rejecting, repoVars>>

\* handle_accept_diff: the client has put the diff into its files, and HEAD,
\* which has it already, is the new baseline.
Accept(c) ==
  /\ CanRequest(c)
  /\ HasWorkspace(c)
  /\ MayReview(c)
  /\ pendingDiff' = [pendingDiff EXCEPT ![workspaces[c]] = {}]
  /\ baseRevision' = [baseRevision EXCEPT ![workspaces[c]] = <<>>]
  /\ \E diff \in Shown(c) : project' = [project EXCEPT ![RootOf[c]] = SymDiff(@, diff)]
  /\ ClearJob(c)
  /\ UNCHANGED <<activeTasks, workspaces, sessions, taskVars, opVars,
                 rejecting, shadow, directory>>

\* handle_reject_diff up to its suspension in `git reset --hard`.
RejectStart(c) ==
  /\ CanRequest(c)
  /\ rejecting[c].st = "none"
  /\ HasWorkspace(c)
  /\ MayReview(c)
  /\ rejecting' = [rejecting EXCEPT ![c] =
       [st |-> "git", ws |-> workspaces[c],
        to |-> baseRevision[workspaces[c]], attached |-> TRUE]]
  /\ UNCHANGED <<jobVars, wsVars, sessions, taskVars, opVars, repoVars>>

\* The reset succeeds.
RejectGit(c) ==
  LET history == shadow[RootOf[c]]
      target  == Resolve(rejecting[c].to, history)
  IN  /\ rejecting[c].st = "git"
      /\ Known(target, history)
      /\ shadow' = [shadow EXCEPT ![RootOf[c]] = target]
      /\ rejecting' = [rejecting EXCEPT ![c].st = "done"]
      /\ UNCHANGED <<jobVars, wsVars, sessions, taskVars, opVars, directory, project>>

\* The reset fails: the request fails and leaves everything as it is.
RejectFails(c) ==
  /\ rejecting[c].st = "git"
  /\ rejecting' = [rejecting EXCEPT ![c] = NoReject]
  /\ UNCHANGED <<jobVars, wsVars, sessions, taskVars, opVars, repoVars>>

\* The handler resumes, with the workspace object it looked up at the start.
RejectFinish(c) ==
  /\ rejecting[c].st = "done"
  /\ pendingDiff' = [pendingDiff EXCEPT ![rejecting[c].ws] = {}]
  /\ baseRevision' = [baseRevision EXCEPT ![rejecting[c].ws] = <<>>]
  /\ sessions' = sessions \ {c}
  /\ ClearJob(c)
  /\ rejecting' = [rejecting EXCEPT ![c] = NoReject]
  /\ UNCHANGED <<activeTasks, workspaces, taskVars, opVars, repoVars>>

\* The client's connection drops and it connects again; the handler of the old
\* connection runs on.
Reconnect(c) ==
  /\ "reconnect" \in Disruptions
  /\ rejecting[c].attached
  /\ rejecting' = [rejecting EXCEPT ![c].attached = FALSE]
  /\ UNCHANGED <<jobVars, wsVars, sessions, taskVars, opVars, repoVars>>

\* Mutant: task.cancel() without looking whether there is a task.
CancelAnyTask(c) ==
  /\ cancelled' = cancelled \cup {activeTasks[c]}
  /\ activeTasks' = [activeTasks EXCEPT ![c] = None]

\* task.cancel() on the task registered for c, if any.
CancelTask(c) ==
  /\ cancelled' = cancelled \cup ({activeTasks[c]} \ {None})
  /\ activeTasks' = [activeTasks EXCEPT ![c] = None]

\* handle_cancel.  engine.cancel does nothing.
Cancel(c) ==
  /\ "cancel" \in Disruptions
  /\ CanRequest(c)
  /\ CancelTask(c)
  /\ ClearJob(c)
  /\ UNCHANGED <<wsVars, sessions, pc, owner, held, opVars, rejecting, repoVars>>

\* handle_reset.  force_clear empties the slot, whoever has it.
Reset(c) ==
  /\ "reset" \in Disruptions
  /\ CanRequest(c)
  /\ CancelTask(c)
  /\ sessions' = sessions \ {c}
  /\ activeJob' = None
  /\ pendingDiff' = [w \in Jobs |-> IF w = workspaces[c] THEN {} ELSE pendingDiff[w]]
  /\ UNCHANGED <<workspaces, baseRevision, pc, owner, held, opVars, rejecting,
                 repoVars>>

\* handle_clear: this engine has no clear, so its session is reset.
Clear(c) ==
  /\ CanRequest(c)
  /\ sessions' = sessions \ {c}
  /\ UNCHANGED <<jobVars, wsVars, taskVars, opVars, rejecting, repoVars>>

Request(c) ==
  \/ \E j \in Jobs : Submit(c, j)
  \/ Accept(c)
  \/ RejectStart(c)
  \/ Reconnect(c)
  \/ Cancel(c)
  \/ Reset(c)
  \/ Clear(c)
-----------------------------------------------------------------------------
(* The prompt task, _execute_prompt.                                       *)

\* The task runs on to its next suspension, in stage s, awaiting o.
Await(j, s, o) ==
  /\ pc' = [pc EXCEPT ![j] = s]
  /\ op' = [op EXCEPT ![j] = o]

\* Mutant: the await is shielded from cancellation.
ResumesShielded(j, s) == pc[j] = s /\ op[j] = "ok"

\* The task resumes in stage s because what it awaits has succeeded.  Tasks that
\* were cancelled are woken first: they are ready at once, and the loop takes
\* what is ready in order.
Resumes(j, s) ==
  /\ pc[j] = s /\ op[j] = "ok"
  /\ \A i \in cancelled : pc[i] \notin Stages

\* The end of the task: `finally` drops whatever task its session has by now,
\* and the task's locals are gone.  An operation that was not complete when the
\* task was cancelled is on its own from here on.
End(j) ==
  /\ pc' = [pc EXCEPT ![j] = "done"]
  /\ op' = [op EXCEPT ![j] = IF @ \in {"ok", "failed"} THEN "none" ELSE @]
  /\ activeTasks' = [activeTasks EXCEPT ![owner[j]] = None]
  /\ held' = [held EXCEPT ![j] = None]
  /\ rev' = [rev EXCEPT ![j] = <<>>]
  /\ out' = [out EXCEPT ![j] = {}]

NoteRevision(j) == baseRevision' = [baseRevision EXCEPT ![held[j]] = rev[j]]

\* The first step, for a client that has no workspace: initialize() removes the
\* shadow directory if there is one; if there is none it makes it, and goes on
\* to list and copy the files, `git init`, and commit the baseline.
BeginInit(j) ==
  /\ pc[j] = "created" /\ j \notin cancelled
  /\ ~HasWorkspace(owner[j])
  /\ IF Root(j) \in directory THEN Await(j, "wipe", "wipe")
                              ELSE Await(j, "build", "build")
  /\ directory' = directory \cup {Root(j)}
  /\ UNCHANGED <<jobVars, wsVars, sessions, owner, held, cancelled, rev, out,
                 queue, rejecting, shadow, project>>

\* The first step, for a client that has one.
BeginSync(j) ==
  /\ pc[j] = "created" /\ j \notin cancelled
  /\ HasWorkspace(owner[j])
  /\ held' = [held EXCEPT ![j] = workspaces[owner[j]]]
  /\ Await(j, "sync", "sync")
  /\ UNCHANGED <<jobVars, wsVars, sessions, owner, cancelled, rev, out, queue,
                 rejecting, repoVars>>

AfterWipe(j) ==
  /\ Resumes(j, "wipe")
  /\ Await(j, "build", "build")
  /\ directory' = directory \cup {Root(j)}
  /\ UNCHANGED <<jobVars, wsVars, sessions, owner, held, cancelled, rev, out,
                 queue, rejecting, shadow, project>>

\* Register a new ShadowWorkspace, then write and commit the buffers.
AfterBuild(j) ==
  /\ Resumes(j, "build")
  /\ workspaces' = [workspaces EXCEPT ![owner[j]] = j]
  /\ pendingDiff' = [pendingDiff EXCEPT ![j] = {}]
  /\ baseRevision' = [baseRevision EXCEPT ![j] = <<>>]
  /\ held' = [held EXCEPT ![j] = j]
  /\ Await(j, "sync", "sync")
  /\ UNCHANGED <<jobVars, sessions, owner, cancelled, rev, out, queue,
                 rejecting, repoVars>>

AfterSync(j) ==
  /\ Resumes(j, "sync")
  /\ Await(j, "rev", "rev")
  /\ UNCHANGED <<jobVars, wsVars, sessions, owner, held, cancelled, rev, out,
                 queue, rejecting, repoVars>>

\* Note the base revision and hand the prompt to the engine's thread.
AfterRev(j) ==
  /\ Resumes(j, "rev")
  /\ NoteRevision(j)
  /\ Await(j, "engine", "queued")
  /\ queue' = Append(queue, j)
  /\ UNCHANGED <<jobVars, workspaces, pendingDiff, sessions, owner, held,
                 cancelled, rev, out, rejecting, repoVars>>

AfterEngine(j) ==
  /\ Resumes(j, "engine")
  /\ rev' = [rev EXCEPT ![j] = baseRevision[held[j]]]
  /\ Await(j, "diff", "diff")
  /\ UNCHANGED <<jobVars, wsVars, sessions, owner, held, cancelled, out, queue,
                 rejecting, repoVars>>

\* There is a diff: it becomes the pending one, and the job stays active.
PublishDiff(j) ==
  /\ Resumes(j, "diff")
  /\ out[j] # {}
  /\ pendingDiff' = [pendingDiff EXCEPT ![held[j]] = out[j]]
  /\ End(j)
  /\ UNCHANGED <<activeJob, workspaces, baseRevision, sessions, owner,
                 cancelled, queue, rejecting, repoVars>>

NoChanges(j) ==
  /\ Resumes(j, "diff")
  /\ out[j] = {}
  /\ ClearJob(owner[j])
  /\ End(j)
  /\ UNCHANGED <<wsVars, sessions, owner, cancelled, queue, rejecting, repoVars>>

\* An exception: what was awaited failed, the project has no .git, or no key
\* serves the prompt's mode any more (after the base revision was noted).
TaskFails(j) ==
  /\ j \notin cancelled
  /\ \/ /\ pc[j] \in Stages /\ op[j] = "failed"
        /\ UNCHANGED baseRevision
     \/ /\ pc[j] = "created" /\ ~HasWorkspace(owner[j])
        /\ UNCHANGED baseRevision
     \/ /\ Resumes(j, "rev")
        /\ NoteRevision(j)
  /\ ClearJob(owner[j])
  /\ End(j)
  /\ UNCHANGED <<workspaces, pendingDiff, sessions, owner, cancelled, queue,
                 rejecting, repoVars>>

\* CancelledError is thrown into the suspended task; no except clause takes it.
Unwind(j) ==
  /\ j \in cancelled /\ pc[j] \in Stages
  /\ End(j)
  /\ UNCHANGED <<activeJob, wsVars, sessions, owner, cancelled, queue,
                 rejecting, repoVars>>

\* Cancelled before its first step, the task never enters its body.
NeverStarts(j) ==
  /\ j \in cancelled /\ pc[j] = "created"
  /\ pc' = [pc EXCEPT ![j] = "done"]
  /\ UNCHANGED <<jobVars, wsVars, sessions, owner, held, cancelled, opVars,
                 rejecting, repoVars>>

TaskStep(j) ==
  \/ BeginInit(j)
  \/ BeginSync(j)
  \/ AfterWipe(j)
  \/ AfterBuild(j)
  \/ AfterSync(j)
  \/ AfterRev(j)
  \/ AfterEngine(j)
  \/ PublishDiff(j)
  \/ NoChanges(j)
  \/ TaskFails(j)
  \/ Unwind(j)
  \/ NeverStarts(j)
-----------------------------------------------------------------------------
(* The operations tasks await: git processes and file threads.             *)

\* The operation of j is over.
Completes(j, outcome) ==
  op' = [op EXCEPT ![j] = IF pc[j] = "done" THEN "none" ELSE outcome]

\* f with the value that the operation of j gives, if the task is there to take it.
Gives(f, j, value) == IF pc[j] = "done" THEN f ELSE [f EXCEPT ![j] = value]

\* The history of j's shadow directory becomes h.
SetShadow(j, h) == shadow' = [shadow EXCEPT ![Root(j)] = h]

opFrame == <<jobVars, wsVars, sessions, taskVars, queue, rejecting, project>>

Wipe(j) ==
  /\ SetShadow(j, <<>>)
  /\ directory' = directory \ {Root(j)}

Wiped(j) ==
  /\ op[j] = "wipe"
  /\ Wipe(j)
  /\ Completes(j, "ok")
  /\ UNCHANGED <<opFrame, rev, out>>

\* The baseline is a copy of the user's files.  On behalf of a task that is gone
\* nothing is copied any more: what is there is committed.
Built(j) ==
  LET history == shadow[Root(j)]
  IN  /\ op[j] = "build"
      /\ SetShadow(j, Commit(history, "baseline", j,
           IF pc[j] = "done" /\ history # <<>> THEN Tree(history)
                                               ELSE UsersFiles(Root(j))))
      /\ directory' = directory \cup {Root(j)}
      /\ Completes(j, "ok")
      /\ UNCHANGED <<opFrame, rev, out>>

\* The buffers sent are of files the agent has edited, and those are the user's
\* again, or of others.  On behalf of a task that is gone no buffer is written.
Synced(j) ==
  LET history == shadow[Root(j)]
  IN  /\ op[j] = "sync"
      /\ history # <<>>
      /\ \E tree \in {Tree(history), UsersFiles(Root(j))} :
           /\ pc[j] = "done" => tree = Tree(history)
           /\ SetShadow(j, Commit(history, "sync", j, tree))
      /\ Completes(j, "ok")
      /\ UNCHANGED <<opFrame, rev, out, directory>>

RevParsed(j) ==
  /\ op[j] = "rev"
  /\ Root(j) \in directory
  /\ rev' = Gives(rev, j, IF shadow[Root(j)] = <<>> THEN ProjectHead(j)
                           ELSE shadow[Root(j)])
  /\ Completes(j, "ok")
  /\ UNCHANGED <<opFrame, out, shadow, directory>>

\* `git diff base HEAD`.  Where the shadow repository is gone, git compares
\* revisions of the user's own repository, which the agent does not touch.
Diffed(j) ==
  LET history == shadow[Root(j)]
      from    == Resolve(rev[j], history)
  IN  /\ op[j] = "diff"
      /\ \/ /\ Known(from, history)
            /\ out' = Gives(out, j, SymDiff(Tree(from), Tree(history)))
         \/ /\ history = <<>> /\ Root(j) \in directory
            /\ rev[j] # <<>> /\ rev[j][1].kind = "project"
            /\ out' = Gives(out, j, {})
      /\ Completes(j, "ok")
      /\ UNCHANGED <<opFrame, rev, shadow, directory>>

\* rmtree may have removed the repository, or all, before it failed.
OpFails(j) ==
  /\ op[j] \in {"wipe", "build", "sync", "rev", "diff"}
  /\ \/ UNCHANGED <<shadow, directory>>
     \/ op[j] = "wipe" /\ Wipe(j)
     \/ op[j] = "wipe" /\ SetShadow(j, <<>>) /\ UNCHANGED directory
  /\ Completes(j, "failed")
  /\ UNCHANGED <<opFrame, rev, out>>

\* The await between two parts of an operation is where cancellation lands: the
\* rest is not done.
OpCutShort(j) ==
  /\ op[j] \in {"wipe", "build", "sync", "rev", "diff"}
  /\ j \in cancelled /\ pc[j] = "done"
  /\ op' = [op EXCEPT ![j] = "none"]
  /\ UNCHANGED <<opFrame, rev, out, shadow, directory>>

Operation(j) ==
  \/ Wiped(j)
  \/ Built(j)
  \/ Synced(j)
  \/ RevParsed(j)
  \/ Diffed(j)
  \/ OpFails(j)
  \/ OpCutShort(j)
-----------------------------------------------------------------------------
(* The engine: one worker thread, fed from the executor's queue.           *)

WorkerFree == \A j \in Jobs : op[j] \notin {"run", "edit"}

\* The worker takes the oldest submission.  Until a cancelled task has unwound
\* its submission may still be taken.
EngineStarts(j) ==
  /\ op[j] = "queued" /\ queue # <<>> /\ j = Head(queue)
  /\ WorkerFree
  /\ pc[j] # "done"
  /\ queue' = Tail(queue)
  /\ op' = [op EXCEPT ![j] = "run"]
  /\ UNCHANGED <<jobVars, wsVars, sessions, taskVars, rev, out, rejecting, repoVars>>

\* Its future was cancelled while it waited: the worker passes over it.
EngineSkips(j) ==
  /\ op[j] = "queued" /\ queue # <<>> /\ j = Head(queue)
  /\ WorkerFree
  /\ j \in cancelled
  /\ queue' = Tail(queue)
  /\ op' = [op EXCEPT ![j] = "none"]
  /\ UNCHANGED <<jobVars, wsVars, sessions, taskVars, rev, out, rejecting, repoVars>>

\* _run finds the session's own Coder, and stores nothing, or stores the one it has
\* made: also when the session was reset or cleared while it made it.
CoderReady(j) ==
  /\ op[j] = "run"
  /\ op' = [op EXCEPT ![j] = "edit"]
  /\ sessions' = sessions \cup {owner[j]}
  /\ UNCHANGED <<jobVars, wsVars, taskVars, rev, out, queue, rejecting, repoVars>>

\* coder.run returns or raises, after committing edits or none.
EngineEnds(j) ==
  /\ op[j] = "edit"
  /\ \/ UNCHANGED shadow
     \/ /\ shadow[Root(j)] # <<>>
        /\ SetShadow(j, Commit(shadow[Root(j)], "edit", j,
                               Tree(shadow[Root(j)]) \cup {j}))
  /\ \E outcome \in {"ok", "failed"} : Completes(j, outcome)
  /\ UNCHANGED <<opFrame, rev, out, directory>>

\* No Coder could be made: an unknown model, a repository that is not there.
NoCoder(j) ==
  /\ op[j] = "run"
  /\ Completes(j, "failed")
  /\ UNCHANGED <<opFrame, rev, out, shadow, directory>>

Engine(j) ==
  \/ EngineStarts(j)
  \/ EngineSkips(j)
  \/ CoderReady(j)
  \/ EngineEnds(j)
  \/ NoCoder(j)
-----------------------------------------------------------------------------
RejectStep(c) == RejectGit(c) \/ RejectFails(c) \/ RejectFinish(c)

Next ==
  \/ \E c \in Clients : Request(c) \/ RejectStep(c)
  \/ \E j \in Jobs : TaskStep(j) \/ Operation(j) \/ Engine(j)

Spec == Init /\ [][Next]_vars

(* The loop runs every task that is ready, git and the file threads end, and *)
(* so does an engine run; clients need not do anything.                      *)
Fairness ==
  /\ \A j \in Jobs : WF_vars(TaskStep(j)) /\ WF_vars(Operation(j)) /\ WF_vars(Engine(j))
  /\ \A c \in Clients : WF_vars(RejectStep(c))

FairSpec == Spec /\ Fairness
-----------------------------------------------------------------------------
(* Properties.                                                             *)

\* Every variable keeps to its set.
TypeOK ==
  /\ activeJob \in Clients \cup {None}
  /\ activeTasks \in [Clients -> Jobs \cup {None}]
  /\ workspaces \in [Clients -> Jobs \cup {None}]
  /\ pendingDiff \in [Jobs -> SUBSET Jobs]
  /\ baseRevision \in [Jobs -> Revisions]
  /\ sessions \subseteq Clients
  /\ pc \in [Jobs -> {"unborn", "created", "done"} \cup Stages]
  /\ owner \in [Jobs -> Clients \cup {None}]
  /\ held \in [Jobs -> Jobs \cup {None}]
  /\ cancelled \subseteq Jobs
  /\ op \in [Jobs -> Ops]
  /\ rev \in [Jobs -> Revisions]
  /\ out \in [Jobs -> SUBSET Jobs]
  /\ queue \in Seq(Jobs)
  /\ rejecting \in [Clients -> Rejects]
  /\ shadow \in [Roots -> Revisions]
  /\ directory \subseteq Roots
  /\ project \in [Roots -> SUBSET Jobs]

\* The slot is never held for nothing: its client has a prompt task that runs
\* and was not cancelled, or a diff to settle.  Otherwise every later submit
\* would be refused as busy (active_job.py) until somebody resets.
NoOrphanJob ==
  activeJob # None =>
    \/ Reviewing(activeJob)
    \/ \E j \in Jobs : Runs(j) /\ owner[j] = activeJob

\* From task.cancel() on, a prompt task does nothing but end: it publishes no
\* diff, moves no base revision, frees no slot, and starts no engine run.
CancelledTaskIsInert ==
  [][\A j \in cancelled : pc'[j] # pc[j] =>
       /\ pc'[j] = "done"
       /\ UNCHANGED <<activeJob, wsVars, sessions, queue, repoVars>>]_vars

\* There is one active agent job, in all of the daemon.
OneAgentJob == \A i, j \in Jobs : Runs(i) /\ Runs(j) => i = j

\* There is one agent job, and the slot says whose it is.
OneActivePipeline ==
  OneAgentJob /\ \A j \in Jobs : Runs(j) => activeJob = owner[j]

\* The diff a prompt task is about to publish has that prompt's edits only.
PublishedDiffIsOwn ==
  \A j \in Jobs : Resumes(j, "diff") => out[j] \subseteq {j}

\* As long as a diff is under review the revision it would be rejected to
\* exists: nobody has replaced the shadow repository.
ReviewCanBeRejected ==
  \A c \in Clients : Reviewing(c) =>
    Known(baseRevision[workspaces[c]], shadow[RootOf[c]])

\* What the user has accepted is in the files the agent works on.
AcceptedInBaseline ==
  \A r \in Roots : shadow[r] # <<>> => project[r] \subseteq Tree(shadow[r])

\* A live task that was not cancelled is the one agent/cancel would find.
LiveTaskRegistered ==
  \A j \in Jobs : Runs(j) => activeTasks[owner[j]] = j

\* A client's workspace is the repository that was made for it.
WorkspaceKeepsRepository ==
  \A c \in Clients : HasWorkspace(c) /\ shadow[RootOf[c]] # <<>> =>
    shadow[RootOf[c]][1].by = workspaces[c]

\* No edit of a cancelled prompt gets into the user's files.
CancelledEditsStayOut == \A r \in Roots : project[r] \cap cancelled = {}

\* A job does not stay active for ever without a diff to settle.
HeldJobProgresses ==
  \A c \in Clients : activeJob = c ~> activeJob # c \/ Reviewing(c)

\* The pipeline implements the abstract agent job.
Slot == INSTANCE AgentJob WITH
  holder <- activeJob,
  stage  <- IF activeJob = None THEN "free"
            ELSE IF Reviewing(activeJob) THEN "review" ELSE "working"

ImplementsAgentJob == Slot!Spec
=============================================================================
