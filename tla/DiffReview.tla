----------------------------- MODULE DiffReview -----------------------------
(***************************************************************************)
(* The review of one prompt's diff in Neovim: ui/diff.lua shows, applies   *)
(* or rejects it, utils/patch.lua applies it with git or, failing that,    *)
(* file by file in buffers which are then written.  Applying runs to its   *)
(* end before the user does anything else, but may fail at every file.     *)
(***************************************************************************)
EXTENDS Naturals, Sequences, FiniteSets

CONSTANTS
  Order,      \* files_changed: the files of the diff, each once
  New,        \* those it creates
  Unfound,    \* those whose base name, which _extract_file_diff takes for a Lua
              \*   pattern, is in no line of the diff: every name with a '-'
  MaxEdits,   \* how often the user changes a file
  Gone,       \* the user's text is not there any more
  None        \* no file, no buffer

Files == {Order[i] : i \in DOMAIN Order}

\* Of a file's text, how often the user has changed it and whether the diff's
\* hunks, which are elsewhere in the file, are in it.
Text == [user : (0 .. MaxEdits) \cup {Gone}, agent : BOOLEAN]
Fresh == [user |-> 0, agent |-> FALSE]

\* A diff without files is not shown.
ASSUME ReviewAssumption ==
  /\ Order \in Seq(Files) /\ Len(Order) = Cardinality(Files) /\ Len(Order) > 0
  /\ New \subseteq Files /\ Unfound \subseteq Files /\ MaxEdits \in Nat
  /\ Gone \notin Nat /\ None \notin Text

VARIABLES
  disk,        \* the files
  buffer,      \* their buffers
  base,        \* what the agent started from
  sent,        \* the buffers sent with the prompt: the keys of base_hashes
  job,         \* the prompt: "none", "running", "review", "accepted", "rejected"
  pending,     \* state.pending_diff is set
  pc, at,      \* "idle", or the loop of apply_transactional and where it is
  snapshots,   \* the buffers of its beginning
  applied,     \* the files it has changed buffers for
  result,      \* of the last apply: "none", "conflict", "failed", "raised", "applied"
  before,      \* the files at its beginning (history)
  rpc,         \* the request on its way: "none", "accept", "reject"
  lost         \* a request has failed

texts == <<disk, buffer>>
vars == <<texts, base, sent, job, pending, pc, at, snapshots, applied, result,
          before, rpc, lost>>

Nothing == [f \in Files |-> None]

Init ==
  /\ disk = [f \in Files |-> IF f \in New THEN None ELSE Fresh]
  /\ buffer = Nothing /\ base = Nothing /\ sent = {}
  /\ job = "none" /\ pending = FALSE
  /\ pc = "idle" /\ at = 0
  /\ snapshots = Nothing /\ applied = {} /\ result = "none" /\ before = Nothing
  /\ rpc = "none" /\ lost = FALSE
-----------------------------------------------------------------------------
(* The user's editing, and the prompt.                                     *)

HasBuffer(f) == buffer[f] # None
OnDisk(f)    == IF disk[f] = None THEN Fresh ELSE disk[f]
Modified(f)  == buffer[f] # OnDisk(f)

\* Nothing is being applied, and what the last apply kept is gone.
Idle ==
  /\ pc = "idle" /\ result' = "none"
  /\ snapshots' = Nothing /\ applied' = {} /\ before' = Nothing

Open(f) ==
  /\ Idle /\ ~HasBuffer(f)
  /\ buffer' = [buffer EXCEPT ![f] = OnDisk(f)]
  /\ UNCHANGED <<disk, base, sent, job, pending, pc, at, rpc, lost>>

Edit(f) ==
  /\ Idle /\ HasBuffer(f) /\ buffer[f].user \in 0 .. MaxEdits - 1
  /\ buffer' = [buffer EXCEPT ![f].user = @ + 1]
  /\ UNCHANGED <<disk, base, sent, job, pending, pc, at, rpc, lost>>

Save(f) ==
  /\ Idle /\ HasBuffer(f) /\ Modified(f)
  /\ disk' = [disk EXCEPT ![f] = buffer[f]]
  /\ UNCHANGED <<buffer, base, sent, job, pending, pc, at, rpc, lost>>

Wipe(f) ==
  /\ Idle /\ HasBuffer(f)
  /\ buffer' = [buffer EXCEPT ![f] = None]
  /\ UNCHANGED <<disk, base, sent, job, pending, pc, at, rpc, lost>>

\* The open buffers go with the prompt; the agent has the files for the others.
Submit ==
  /\ Idle /\ job = "none"
  /\ job' = "running"
  /\ sent' = {f \in Files : HasBuffer(f)}
  /\ base' = [f \in Files |-> IF HasBuffer(f) THEN buffer[f] ELSE disk[f]]
  /\ \A f \in New : base'[f] = None      \* else the diff would not create f
  /\ UNCHANGED <<texts, pending, pc, at, rpc, lost>>

\* ui/diff_ready: every changed file gets a buffer.
Show ==
  /\ Idle /\ job = "running"
  /\ job' = "review" /\ pending' = TRUE
  /\ buffer' = [f \in Files |-> IF HasBuffer(f) THEN buffer[f] ELSE OnDisk(f)]
  /\ UNCHANGED <<disk, base, sent, pc, at, rpc, lost>>
-----------------------------------------------------------------------------
(* diff.lua: apply and reject.                                             *)

\* Mutant: the conflicts are not looked for.
NoConflicts == {}

Conflicts == {f \in sent : HasBuffer(f) /\ buffer[f] # base[f]}

\* Mutant: the review is cleaned up although nothing was applied.
ConflictCleansUp ==
  /\ pc = "idle" /\ pending /\ Conflicts # {}
  /\ result' = "conflict" /\ pending' = FALSE
  /\ UNCHANGED <<texts, base, sent, job, pc, at, snapshots, applied, before, rpc, lost>>

Conflict ==
  /\ pc = "idle" /\ pending /\ Conflicts # {}
  /\ result' = "conflict"
  /\ UNCHANGED <<texts, base, sent, job, pending, pc, at, snapshots, applied, before, rpc, lost>>

\* Applied: the daemon is told, and the review is cleaned up before it answers.
Succeed == result' = "applied" /\ rpc' = "accept" /\ pending' = FALSE /\ pc' = "idle" /\ at' = 0

Snapshot == snapshots' = buffer /\ before' = disk /\ applied' = {}

MayApply == pc = "idle" /\ pending /\ Conflicts = {}

\* Mutant: the buffers are not read again.
NoReload(files) == buffer

\* `edit!` of every changed file that has a buffer.
Reload(files) == [f \in Files |-> IF HasBuffer(f) THEN files[f] ELSE None]

\* git apply finds its hunks in the files: in all of them or it changes none.
ApplyByGit ==
  /\ MayApply /\ Snapshot
  /\ \A f \in New : disk[f] = None
  /\ disk' = [f \in Files |-> [OnDisk(f) EXCEPT !.agent = TRUE]]
  /\ buffer' = Reload(disk')
  /\ Succeed
  /\ UNCHANGED <<base, sent, job, lost>>

\* It does not: there is no git, another directory, a hunk does not fit, ...
GitFails ==
  /\ MayApply /\ Snapshot
  /\ pc' = "patch" /\ at' = 1 /\ result' = "none"
  /\ UNCHANGED <<texts, base, sent, job, pending, rpc, lost>>

\* Mutant: only what was written is restored.
RestoreWritten ==
  [f \in Files |-> IF f \in applied /\ disk[f] = buffer[f] /\ snapshots[f] # None
                   THEN snapshots[f] ELSE buffer[f]]

\* _rollback: buffers only, and only those there were.
Restored ==
  [f \in Files |-> IF f \in applied /\ snapshots[f] # None THEN snapshots[f] ELSE buffer[f]]

Rollback ==
  /\ result' = "failed" /\ pc' = "idle" /\ at' = 0
  /\ buffer' = Restored
  /\ UNCHANGED <<disk, base, sent, job, pending, snapshots, applied, before, rpc, lost>>

\* _extract_file_diff gives a part of the diff for f.
Found(f) == f \notin Unfound

\* The loop goes on to the next file, the writing after the last one.
Advance ==
  IF at < Len(Order) THEN at' = at + 1 /\ pc' = pc
  ELSE at' = 1 /\ pc' = "write"

\* Mutant: the text is that of the base, with the hunks.
PatchedBase(f) == [user |-> IF base[f] = None THEN 0 ELSE base[f].user, agent |-> TRUE]

\* What patching the buffer of f makes of it.  A file that has none is taken for
\* a new one: its text is the diff's added lines.
Patched(f) ==
  IF HasBuffer(f) THEN [buffer[f] EXCEPT !.agent = TRUE]
  ELSE [user |-> IF disk[f] = None THEN 0 ELSE Gone, agent |-> TRUE]

\* Mutant: what is patched is written at once.
PatchAndWrite ==
  /\ pc = "patch" /\ Found(Order[at])
  /\ buffer' = [buffer EXCEPT ![Order[at]] = Patched(Order[at])]
  /\ disk' = [disk EXCEPT ![Order[at]] = Patched(Order[at])]
  /\ applied' = applied \cup {Order[at]}
  /\ Advance
  /\ UNCHANGED <<base, sent, job, pending, snapshots, result, before, rpc, lost>>

Patch ==
  /\ pc = "patch" /\ Found(Order[at])
  /\ buffer' = [buffer EXCEPT ![Order[at]] = Patched(Order[at])]
  /\ applied' = applied \cup {Order[at]}
  /\ Advance
  /\ UNCHANGED <<disk, base, sent, job, pending, snapshots, result, before, rpc, lost>>

\* No part of the diff is found for the file: with or without a buffer, it is
\* passed over, and that is not a failure.
PatchOverlooks ==
  /\ pc = "patch" /\ ~Found(Order[at])
  /\ Advance
  /\ UNCHANGED <<texts, base, sent, job, pending, snapshots, applied, result, before, rpc, lost>>

\* A file without a buffer and without added lines is opened and left as it is.
PatchSkips ==
  /\ pc = "patch" /\ Found(Order[at]) /\ ~HasBuffer(Order[at]) /\ disk[Order[at]] # None
  /\ buffer' = [buffer EXCEPT ![Order[at]] = disk[Order[at]]]
  /\ Advance
  /\ UNCHANGED <<disk, base, sent, job, pending, snapshots, applied, result, before, rpc, lost>>

\* A hunk does not fit the buffer, or there is none (a rename, a mode change).
PatchFails == pc = "patch" /\ Found(Order[at]) /\ HasBuffer(Order[at]) /\ Rollback

\* Neovim raises (a buffer that is not modifiable, `edit`, a malformed pattern),
\* and nobody catches it: what was patched stays so, and the review goes on.
PatchRaises ==
  /\ pc = "patch" /\ pc' = "idle" /\ at' = 0 /\ result' = "raised"
  /\ \/ buffer' = buffer
     \/ /\ Found(Order[at]) /\ ~HasBuffer(Order[at])
        /\ buffer' = [buffer EXCEPT ![Order[at]] = OnDisk(Order[at])]
  /\ UNCHANGED <<disk, base, sent, job, pending, snapshots, applied, before, rpc, lost>>

\* `write`, for those that were changed.
Write ==
  /\ pc = "write"
  /\ disk' = IF Order[at] \in applied THEN [disk EXCEPT ![Order[at]] = buffer[Order[at]]] ELSE disk
  /\ IF at < Len(Order)
     THEN at' = at + 1 /\ UNCHANGED <<pc, result, rpc, pending>>
     ELSE Succeed
  /\ UNCHANGED <<buffer, base, sent, job, snapshots, applied, before, lost>>

WriteFails == pc = "write" /\ Order[at] \in applied /\ Rollback

Reject ==
  /\ Idle /\ pending
  /\ pending' = FALSE /\ rpc' = "reject"
  /\ UNCHANGED <<texts, base, sent, job, pc, at, lost>>

\* The daemon settles the diff, or the request fails; the client forgets it.
Settle ==
  /\ Idle /\ rpc # "none" /\ rpc' = "none"
  /\ \/ job' = (IF rpc = "accept" THEN "accepted" ELSE "rejected") /\ lost' = lost
     \/ job' = job /\ lost' = TRUE
  /\ UNCHANGED <<texts, base, sent, pending, pc, at>>

User == \E f \in Files : Open(f) \/ Edit(f) \/ Save(f) \/ Wipe(f)

PatchFile == Patch \/ PatchOverlooks \/ PatchSkips \/ PatchFails \/ PatchRaises

Apply == Conflict \/ ApplyByGit \/ GitFails \/ PatchFile \/ Write \/ WriteFails

Next == User \/ Submit \/ Show \/ Apply \/ Reject \/ Settle

Spec == Init /\ [][Next]_vars
-----------------------------------------------------------------------------
(* Properties.                                                             *)

Texts == [Files -> Text \cup {None}]

\* Every variable keeps to its set.
TypeOK ==
  /\ disk \in Texts /\ buffer \in Texts /\ base \in Texts
  /\ snapshots \in Texts /\ before \in Texts
  /\ sent \subseteq Files /\ applied \subseteq Files
  /\ job \in {"none", "running", "review", "accepted", "rejected"}
  /\ pc \in {"idle", "patch", "write"}
  /\ at \in 0 .. Len(Order) /\ (pc # "idle" => at > 0)
  /\ result \in {"none", "conflict", "failed", "raised", "applied"}
  /\ rpc \in {"none", "accept", "reject"}
  /\ pending \in BOOLEAN /\ lost \in BOOLEAN

Snapped == {f \in Files : snapshots[f] # None}

\* Whatever file an apply fails at, in patching or in writing, every buffer
\* there was has its text back.
FailureRestoresBuffers == result = "failed" => \A f \in Snapped : buffer[f] = snapshots[f]

\* The diff's hunks are in the buffer of f and, the same, in its file.
Carried(f) == buffer[f].agent /\ disk[f] = buffer[f]

\* After a success, whichever of the two ways it went, each file that had a buffer
\* is either patched and written or, when the diff was not found for it, has
\* neither its buffer nor itself touched: none is left half way.
EachFileWhole ==
  result = "applied" =>
    \A f \in Snapped : \/ Carried(f)
                       \/ ~Found(f) /\ buffer[f] = snapshots[f] /\ disk[f] = before[f]

\* An apply that Neovim stopped has written no file and lost nothing of what the
\* user wrote, and its diff can still be applied or rejected.
RaisedApplyIsUnwritten ==
  result = "raised" =>
    pending /\ disk = before /\ \A f \in Snapped : buffer[f].user = snapshots[f].user

\* A success "writes the changes across all affected buffers" (README.md): it does
\* not, TLC finds the file that PatchOverlooks passes over.
SuccessIsComplete == result = "applied" => \A f \in Snapped : Carried(f)

\* An apply takes nothing of what the user wrote in an open buffer, unless it
\* was not saved: git applies to the files, and they are loaded again.
SavedTextKept ==
  result = "applied" =>
    \A f \in Snapped : buffer[f].user = snapshots[f].user \/ before[f] # snapshots[f]

\* What is accepted is what the agent made of the buffers that were sent, so that
\* the daemon's new baseline is the user's text (unsaved buffers apart).
BaselineIsUsersText ==
  result = "applied" =>
    \A f \in sent \cap Snapped : buffer[f].user = base[f].user \/ before[f] # snapshots[f]

\* While the daemon waits for the review of a diff its client can still settle
\* it or is about to, unless a request was lost.
ReviewCanBeSettled == job = "review" => pending \/ rpc # "none" \/ lost

\* A failed apply has written nothing: "Do not write partial changes to disk"
\* (docs/Specifications.md, 14.6).
FailureWritesNothing == result = "failed" => disk = before
=============================================================================
