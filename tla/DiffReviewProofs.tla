-------------------------- MODULE DiffReviewProofs --------------------------
(***************************************************************************)
(* Theorems about DiffReview: what an apply leaves of the user's text,     *)
(* wherever it fails, for any diff and any number of edits.                *)
(***************************************************************************)
EXTENDS DiffReview, TLAPS

LEMMA FilesOfOrder ==
  /\ Len(Order) \in Nat \ {0} /\ Order \in Seq(Files)
  /\ \A i \in 1 .. Len(Order) : Order[i] \in Files
  /\ \A f \in Files : \E i \in 1 .. Len(Order) : Order[i] = f
<1>1. Len(Order) \in Nat \ {0} /\ Order \in Seq(Files) /\ DOMAIN Order = 1 .. Len(Order)
  BY ReviewAssumption
<1>2. \A f \in Files : \E i \in DOMAIN Order : Order[i] = f
  BY Zenon DEF Files
<1> QED BY <1>1, <1>2

LEMMA TextFacts ==
  /\ None \notin Text /\ Fresh \in Text
  /\ \A t \in Text : [t EXCEPT !.agent = TRUE] \in Text
                     /\ [t EXCEPT !.agent = TRUE].user = t.user
                     /\ [t EXCEPT !.agent = TRUE].agent = TRUE
  /\ \A t \in Text : t.user \in 0 .. MaxEdits - 1 => [t EXCEPT !.user = @ + 1] \in Text
  /\ [user |-> 0, agent |-> TRUE] \in Text /\ [user |-> Gone, agent |-> TRUE] \in Text
<1>1. 0 \in 0 .. MaxEdits /\ MaxEdits \in Nat /\ None \notin Text
  BY ReviewAssumption
<1>2. Fresh \in Text /\ [user |-> 0, agent |-> TRUE] \in Text /\ [user |-> Gone, agent |-> TRUE] \in Text
  BY <1>1 DEF Text, Fresh
<1>3. ASSUME NEW t \in Text
      PROVE  /\ [t EXCEPT !.agent = TRUE] \in Text
             /\ [t EXCEPT !.agent = TRUE].user = t.user
             /\ [t EXCEPT !.agent = TRUE].agent = TRUE
  BY DEF Text
<1>4. ASSUME NEW t \in Text, t.user \in 0 .. MaxEdits - 1
      PROVE  [t EXCEPT !.user = @ + 1] \in Text
  <2>1. t.user + 1 \in 0 .. MaxEdits
    BY <1>1, <1>4
  <2> QED BY <2>1 DEF Text
<1> QED BY <1>1, <1>2, <1>3, <1>4

-----------------------------------------------------------------------------
(* The loop of apply_transactional.                                        *)

Applying == pc # "idle"

\* What the loop has not come to is as it was, and so is what it finds no diff for;
\* what it has patched keeps the user's text; no file is written before all are
\* patched; what was sent is what the agent started from.
LoopInv ==
  /\ Applying => result = "none"
  /\ Applying => \A f \in Snapped : f \notin applied => buffer[f] = snapshots[f]
  /\ Applying => \A f \in Snapped : buffer[f] # None /\ buffer[f].user = snapshots[f].user
  /\ Applying => \A f \in applied : buffer[f] # None /\ buffer[f].agent
  /\ Applying => \A f \in applied : Found(f)
  /\ Applying => pending
  /\ pc = "patch" => disk = before
  /\ pc = "patch" => \A i \in 1 .. Len(Order) :
       i < at /\ Order[i] \in Snapped /\ Found(Order[i]) => Order[i] \in applied
  /\ pc = "write" => \A f \in Snapped : Found(f) => f \in applied
  /\ pc = "write" => \A f \in Files : f \notin applied => disk[f] = before[f]
  /\ pc = "write" =>
       \A i \in 1 .. Len(Order) : i < at /\ Order[i] \in applied => disk[Order[i]] = buffer[Order[i]]
  /\ Applying \/ result = "applied" => \A f \in sent \cap Snapped : snapshots[f] = base[f]

ReviewInv ==
  /\ TypeOK
  /\ LoopInv
  /\ FailureRestoresBuffers
  /\ EachFileWhole
  /\ SavedTextKept
  /\ RaisedApplyIsUnwritten
  /\ ReviewCanBeSettled

\* A success is of the type there is.
LEMMA SucceedTypes ==
  ASSUME Succeed
  PROVE  /\ result' = "applied" /\ rpc' \in {"none", "accept", "reject"} /\ pending' \in BOOLEAN
         /\ pc' = "idle" /\ at' \in 0 .. Len(Order)
<1>1. 0 \in 0 .. Len(Order)
  <2>1. Len(Order) \in Nat /\ 0 <= Len(Order)
    BY FilesOfOrder
  <2> QED BY <2>1
<1> QED BY <1>1, Zenon DEF Succeed

LEMMA NothingIsTexts == Nothing \in Texts
BY DEF Nothing, Texts

LEMMA ReviewInitially == Init => ReviewInv
<1> SUFFICES ASSUME Init PROVE ReviewInv
  OBVIOUS
<1>1. TypeOK
  <2>1. disk \in Texts /\ 0 \in 0 .. Len(Order)
    BY TextFacts, FilesOfOrder DEF Init, Texts
  <2> QED BY <2>1, NothingIsTexts DEF Init, TypeOK
<1> QED BY <1>1 DEF Init, ReviewInv, LoopInv, Applying, FailureRestoresBuffers,
          EachFileWhole, SavedTextKept,
              RaisedApplyIsUnwritten, ReviewCanBeSettled

(* Steps outside an apply forget the last one.                             *)
LEMMA IdleKeepsLoop ==
  ASSUME Idle, pc' = pc
  PROVE  LoopInv' /\ FailureRestoresBuffers' /\ EachFileWhole' /\ SavedTextKept' /\ RaisedApplyIsUnwritten'
BY DEF Idle, Nothing, LoopInv, Applying, Snapped, FailureRestoresBuffers, EachFileWhole, SavedTextKept, RaisedApplyIsUnwritten

LEMMA IdleKeepsTypes ==
  ASSUME TypeOK, Idle, disk' \in Texts, buffer' \in Texts, base' \in Texts, sent' \subseteq Files,
         job' \in {"none", "running", "review", "accepted", "rejected"},
         pending' \in BOOLEAN, pc' = pc, at' = at, rpc' \in {"none", "accept", "reject"},
         lost' \in BOOLEAN
  PROVE  TypeOK'
BY NothingIsTexts DEF TypeOK, Idle

LEMMA OutsideApply ==
  ASSUME ReviewInv, User \/ Submit \/ Show \/ Reject \/ Settle
  PROVE  ReviewInv'
<1> USE DEF ReviewInv
<1>1. ASSUME NEW f \in Files, Open(f) PROVE ReviewInv'
  <2>1. buffer' \in Texts
    BY <1>1, TextFacts DEF Open, OnDisk, TypeOK, Texts
  <2> QED BY <1>1, <2>1, IdleKeepsLoop, IdleKeepsTypes DEF Open, TypeOK, ReviewCanBeSettled
<1>2. ASSUME NEW f \in Files, Edit(f) PROVE ReviewInv'
  <2>1. buffer' \in Texts
    <3>1. buffer[f] \in Text /\ [buffer[f] EXCEPT !.user = @ + 1] \in Text
      BY <1>2, TextFacts DEF Edit, HasBuffer, TypeOK, Texts
    <3> QED BY <1>2, <3>1 DEF Edit, TypeOK, Texts
  <2> QED BY <1>2, <2>1, IdleKeepsLoop, IdleKeepsTypes DEF Edit, TypeOK, ReviewCanBeSettled
<1>3. ASSUME NEW f \in Files, Save(f) PROVE ReviewInv'
  <2>1. disk' \in Texts
    BY <1>3 DEF Save, TypeOK, Texts
  <2> QED BY <1>3, <2>1, IdleKeepsLoop, IdleKeepsTypes DEF Save, TypeOK, ReviewCanBeSettled
<1>4. ASSUME NEW f \in Files, Wipe(f) PROVE ReviewInv'
  <2>1. buffer' \in Texts
    BY <1>4 DEF Wipe, TypeOK, Texts
  <2> QED BY <1>4, <2>1, IdleKeepsLoop, IdleKeepsTypes DEF Wipe, TypeOK, ReviewCanBeSettled
<1>5. CASE Submit
  <2>1. base' \in Texts /\ sent' \subseteq Files
    BY <1>5 DEF Submit, TypeOK, Texts
  <2> QED BY <1>5, <2>1, IdleKeepsLoop, IdleKeepsTypes DEF Submit, texts, TypeOK, ReviewCanBeSettled
<1>6. CASE Show
  <2>1. buffer' \in Texts
    BY <1>6, TextFacts DEF Show, OnDisk, TypeOK, Texts
  <2> QED BY <1>6, <2>1, IdleKeepsLoop, IdleKeepsTypes DEF Show, TypeOK, ReviewCanBeSettled
<1>7. CASE Reject
  BY <1>7, IdleKeepsLoop, IdleKeepsTypes DEF Reject, texts, TypeOK, ReviewCanBeSettled
<1>8. CASE Settle
  BY <1>8, IdleKeepsLoop, IdleKeepsTypes DEF Settle, texts, TypeOK, ReviewCanBeSettled
<1> QED BY <1>1, <1>2, <1>3, <1>4, <1>5, <1>6, <1>7, <1>8 DEF User

(* An apply: with git, or the loop and its steps.                          *)

LEMMA ConflictStep == ReviewInv /\ Conflict => ReviewInv'
BY DEF Conflict, texts, ReviewInv, TypeOK, LoopInv, Applying, Snapped, FailureRestoresBuffers,
       EachFileWhole, SavedTextKept,
              RaisedApplyIsUnwritten, ReviewCanBeSettled

\* Without a conflict what is snapshot of a sent buffer is what the agent got.
LEMMA SnapshotIsBase ==
  ASSUME TypeOK, MayApply, Snapshot, sent' = sent, base' = base
  PROVE  \A f \in sent' \cap Snapped' : snapshots'[f] = base'[f]
BY DEF MayApply, Conflicts, Snapshot, Snapped, HasBuffer

LEMMA GitStep == ReviewInv /\ ApplyByGit => ReviewInv'
<1> SUFFICES ASSUME ReviewInv, ApplyByGit PROVE ReviewInv'
  OBVIOUS
<1> USE DEF ReviewInv
<1>1. ASSUME NEW f \in Files
      PROVE  OnDisk(f) \in Text /\ disk'[f] \in Text /\ disk'[f].agent /\ disk'[f].user = OnDisk(f).user
  <2>1. OnDisk(f) \in Text
    BY TextFacts DEF OnDisk, TypeOK, Texts
  <2>2. disk'[f] = [OnDisk(f) EXCEPT !.agent = TRUE]
    BY DEF ApplyByGit
  <2> QED BY <2>1, <2>2, TextFacts
<1>2. disk' \in Texts /\ buffer' \in Texts
  <2>1. disk' \in Texts
    BY <1>1 DEF ApplyByGit, Texts
  <2> QED BY <2>1 DEF ApplyByGit, Reload, Texts
<1>3. \A f \in Files : HasBuffer(f) => buffer'[f] = disk'[f]
  BY DEF ApplyByGit, Reload
<1>4. Snapped' = {f \in Files : HasBuffer(f)} /\ snapshots' = buffer /\ before' = disk
  BY DEF ApplyByGit, Snapshot, Snapped, HasBuffer
<1>5. TypeOK'
  <2>1. snapshots' \in Texts /\ before' \in Texts /\ applied' \subseteq Files
    BY DEF ApplyByGit, Snapshot, TypeOK
  <2>2. /\ base' = base /\ sent' = sent /\ job' = job /\ lost' = lost
        /\ Succeed
    BY DEF ApplyByGit
  <2> QED BY <1>2, <2>1, <2>2, SucceedTypes DEF TypeOK
<1>6. EachFileWhole'
  BY <1>1, <1>3, <1>4 DEF EachFileWhole, Carried
<1>7. SavedTextKept'
  <2> SUFFICES ASSUME NEW f \in Snapped', before'[f] = snapshots'[f]
               PROVE  buffer'[f].user = snapshots'[f].user
    BY DEF SavedTextKept
  <2>1. f \in Files /\ buffer[f] # None /\ disk[f] = buffer[f]
    BY <1>4 DEF HasBuffer
  <2>2. OnDisk(f) = buffer[f]
    BY <2>1 DEF OnDisk
  <2> QED BY <1>1, <1>3, <1>4, <2>1, <2>2 DEF HasBuffer
<1>8. LoopInv' /\ FailureRestoresBuffers' /\ RaisedApplyIsUnwritten' /\ ReviewCanBeSettled'
  BY SnapshotIsBase DEF ApplyByGit, Succeed, LoopInv, Applying, FailureRestoresBuffers, RaisedApplyIsUnwritten, ReviewCanBeSettled
<1> QED BY <1>5, <1>6, <1>7, <1>8

LEMMA GitFailsStep == ReviewInv /\ GitFails => ReviewInv'
<1> SUFFICES ASSUME ReviewInv, GitFails PROVE ReviewInv'
  OBVIOUS
<1> USE DEF ReviewInv
<1>1. TypeOK'
  BY FilesOfOrder DEF GitFails, Snapshot, texts, TypeOK
<1>2. \A f \in sent' \cap Snapped' : snapshots'[f] = base'[f]
  BY SnapshotIsBase DEF GitFails
<1>3. LoopInv'
  BY <1>2 DEF GitFails, MayApply, Snapshot, texts, LoopInv, Applying, Snapped
<1> QED BY <1>1, <1>3 DEF GitFails, texts, FailureRestoresBuffers, EachFileWhole, SavedTextKept,
              RaisedApplyIsUnwritten, ReviewCanBeSettled

\* The file the loop is at, and those it has passed.
LEMMA AtFile ==
  ASSUME TypeOK, Applying
  PROVE  /\ at \in 1 .. Len(Order) /\ Order[at] \in Files
         /\ at < Len(Order) => at + 1 \in 1 .. Len(Order) /\ \A i \in 1 .. Len(Order) : i < at + 1 <=> i < at \/ i = at
         /\ ~(at < Len(Order)) => \A i \in 1 .. Len(Order) : i < at \/ i = at
         /\ \A i \in 1 .. Len(Order) : ~(i < 1)
BY FilesOfOrder, SMTT(30) DEF TypeOK, Applying

\* After an Advance the files before the new place are those before the old one
\* and the one it was at.
LEMMA Advanced ==
  ASSUME ReviewInv, pc = "patch", Advance, result' = result, pending' = pending, rpc' = rpc, job' = job, lost' = lost,
         sent' = sent, base' = base, snapshots' = snapshots, before' = before, disk' = disk,
         buffer' \in Texts, applied' \subseteq Files, applied \subseteq applied',
         Order[at] \in Snapped /\ Found(Order[at]) => Order[at] \in applied',
         \A f \in applied' : Found(f),
         \A f \in Snapped : f \notin applied' => buffer'[f] = snapshots[f],
         \A f \in Snapped : buffer'[f] # None /\ buffer'[f].user = snapshots[f].user,
         \A f \in applied' : buffer'[f] # None /\ buffer'[f].agent
  PROVE  ReviewInv'
<1> USE DEF ReviewInv
<1>0. Applying /\ result = "none"
  BY DEF LoopInv, Applying
<1>1. TypeOK'
  <2>1. at' \in 1 .. Len(Order) /\ pc' \in {"patch", "write"}
    BY AtFile, FilesOfOrder, <1>0 DEF Advance
  <2>2. at' \in 0 .. Len(Order) /\ at' > 0
    BY <2>1, FilesOfOrder
  <2>3. result' = "none"
    BY <1>0
  <2> QED BY <2>1, <2>2, <2>3 DEF TypeOK
<1>2. Snapped' = Snapped
  BY DEF Snapped
<1>3. CASE at < Len(Order)
  <2>1. at' = at + 1 /\ pc' = "patch"
    BY <1>3 DEF Advance
  <2>2. \A i \in 1 .. Len(Order) : i < at' /\ Order[i] \in Snapped /\ Found(Order[i]) => Order[i] \in applied'
    <3>1. \A i \in 1 .. Len(Order) : i < at' => i < at \/ i = at
      BY <1>0, <1>3, <2>1, AtFile
    <3>2. \A i \in 1 .. Len(Order) : i < at /\ Order[i] \in Snapped /\ Found(Order[i]) => Order[i] \in applied
      BY DEF LoopInv
    <3> QED BY <3>1, <3>2
  <2> QED BY <1>0, <1>1, <1>2, <2>1, <2>2
          DEF LoopInv, Applying, FailureRestoresBuffers, EachFileWhole, SavedTextKept,
              RaisedApplyIsUnwritten, ReviewCanBeSettled
<1>4. CASE ~(at < Len(Order))
  <2>1. at' = 1 /\ pc' = "write"
    BY <1>4 DEF Advance
  <2>2. \A i \in 1 .. Len(Order) : Order[i] \in Snapped /\ Found(Order[i]) => Order[i] \in applied'
    <3>1. \A i \in 1 .. Len(Order) : i < at \/ i = at
      BY <1>0, <1>4, AtFile
    <3>2. \A i \in 1 .. Len(Order) : i < at /\ Order[i] \in Snapped /\ Found(Order[i]) => Order[i] \in applied
      BY DEF LoopInv
    <3> QED BY <3>1, <3>2
  <2>3. \A f \in Snapped : Found(f) => f \in applied'
    BY <2>2, FilesOfOrder DEF Snapped
  <2>4. \A i \in 1 .. Len(Order) : ~(i < at')
    BY <2>1
  <2> QED BY <1>0, <1>1, <1>2, <2>1, <2>3, <2>4
          DEF LoopInv, Applying, FailureRestoresBuffers, EachFileWhole, SavedTextKept,
              RaisedApplyIsUnwritten, ReviewCanBeSettled
<1> QED BY <1>3, <1>4

LEMMA PatchStep == ReviewInv /\ Patch => ReviewInv'
<1> SUFFICES ASSUME ReviewInv, Patch PROVE ReviewInv'
  OBVIOUS
<1> USE DEF ReviewInv
<1> DEFINE g == Order[at]
<1>1. Applying /\ g \in Files /\ result = "none"
  BY AtFile DEF Patch, Applying, LoopInv
<1>2. /\ Patched(g) \in Text /\ Patched(g).agent
      /\ HasBuffer(g) => Patched(g).user = buffer[g].user
  BY <1>1, TextFacts DEF Patched, HasBuffer, TypeOK, Texts
<1>3. buffer' = [buffer EXCEPT ![g] = Patched(g)] /\ applied' = applied \cup {g}
  BY DEF Patch
<1> HIDE DEF g
<1>4. buffer' \in Texts /\ applied' \subseteq Files /\ Patched(g) # None
  BY <1>1, <1>2, <1>3, TextFacts DEF TypeOK, Texts
<1>5. \A f \in Files : buffer'[f] = IF f = g THEN Patched(g) ELSE buffer[f]
  BY <1>3 DEF TypeOK, Texts
<1>6. \A f \in Snapped : f \notin applied' => buffer'[f] = snapshots[f]
  BY <1>1, <1>3, <1>5 DEF LoopInv, Snapped
<1>7. \A f \in Snapped : buffer'[f] # None /\ buffer'[f].user = snapshots[f].user
  BY <1>1, <1>2, <1>4, <1>5 DEF LoopInv, Snapped, HasBuffer
<1>8. \A f \in applied' : buffer'[f] # None /\ buffer'[f].agent
  BY <1>1, <1>2, <1>3, <1>4, <1>5 DEF LoopInv, TypeOK
<1>9. \A f \in applied' : Found(f)
  BY <1>1, <1>3 DEF LoopInv, Patch, g
<1> QED BY <1>3, <1>4, <1>6, <1>7, <1>8, <1>9, Advanced DEF Patch, g

\* A file without a diff: nothing changes but the place.
LEMMA PatchOverlooksStep == ReviewInv /\ PatchOverlooks => ReviewInv'
<1> SUFFICES ASSUME ReviewInv, PatchOverlooks PROVE ReviewInv'
  OBVIOUS
<1>1. Applying /\ TypeOK /\ LoopInv
  BY DEF PatchOverlooks, Applying, ReviewInv
<1>2. buffer' \in Texts /\ applied' \subseteq Files
  BY <1>1 DEF PatchOverlooks, texts, TypeOK
<1>3. \A f \in Snapped : f \notin applied' => buffer'[f] = snapshots[f]
  BY <1>1 DEF PatchOverlooks, texts, LoopInv
<1>4. \A f \in Snapped : buffer'[f] # None /\ buffer'[f].user = snapshots[f].user
  BY <1>1 DEF PatchOverlooks, texts, LoopInv
<1>5. \A f \in applied' : buffer'[f] # None /\ buffer'[f].agent /\ Found(f)
  BY <1>1 DEF PatchOverlooks, texts, LoopInv
<1> QED BY <1>2, <1>3, <1>4, <1>5, Advanced DEF PatchOverlooks, texts

LEMMA PatchSkipsStep == ReviewInv /\ PatchSkips => ReviewInv'
<1> SUFFICES ASSUME ReviewInv, PatchSkips PROVE ReviewInv'
  OBVIOUS
<1> USE DEF ReviewInv
<1> DEFINE g == Order[at]
<1>1. Applying /\ g \in Files /\ buffer[g] = None
  BY AtFile DEF PatchSkips, Applying, HasBuffer
<1>2. g \notin applied /\ g \notin Snapped
  BY <1>1 DEF LoopInv
<1>3. buffer' = [buffer EXCEPT ![g] = disk[g]] /\ applied' = applied
  BY DEF PatchSkips
<1> HIDE DEF g
<1>4. buffer' \in Texts /\ applied' \subseteq Files
  BY <1>1, <1>3 DEF TypeOK, Texts
<1>5. \A f \in Files : f # g => buffer'[f] = buffer[f]
  BY <1>3 DEF TypeOK, Texts
<1>6. \A f \in Snapped : f \in Files /\ f # g
  BY <1>2 DEF Snapped
<1>7. \A f \in applied : f \in Files /\ f # g
  BY <1>2 DEF TypeOK
<1>8. \A f \in Snapped : f \notin applied' => buffer'[f] = snapshots[f]
  BY <1>1, <1>3, <1>5, <1>6 DEF LoopInv
<1>9. \A f \in Snapped : buffer'[f] # None /\ buffer'[f].user = snapshots[f].user
  BY <1>1, <1>5, <1>6 DEF LoopInv
<1>10. \A f \in applied' : buffer'[f] # None /\ buffer'[f].agent
  BY <1>1, <1>3, <1>5, <1>7 DEF LoopInv
<1>11. \A f \in applied' : Found(f)
  BY <1>1, <1>3 DEF LoopInv
<1> QED BY <1>2, <1>3, <1>4, <1>8, <1>9, <1>10, <1>11, Advanced DEF PatchSkips, g

\* An error of Neovim: only a file without a snapshot may have got a buffer.
LEMMA PatchRaisesStep == ReviewInv /\ PatchRaises => ReviewInv'
<1> SUFFICES ASSUME ReviewInv, PatchRaises PROVE ReviewInv'
  OBVIOUS
<1> USE DEF ReviewInv
<1> DEFINE g == Order[at]
<1>1. Applying /\ g \in Files /\ disk = before /\ pending
  BY AtFile DEF PatchRaises, Applying, LoopInv
<1>2. OnDisk(g) \in Text
  BY <1>1, TextFacts DEF OnDisk, TypeOK, Texts
<1>3. \/ buffer' = buffer
      \/ buffer[g] = None /\ buffer' = [buffer EXCEPT ![g] = OnDisk(g)]
  BY DEF PatchRaises, HasBuffer
<1>4. Snapped' = Snapped /\ disk' = disk /\ before' = before /\ pending' = pending /\ snapshots' = snapshots
  BY DEF PatchRaises, Snapped
<1>5. pc' = "idle" /\ at' = 0 /\ result' = "raised"
  BY DEF PatchRaises
<1> HIDE DEF g
<1>6. buffer' \in Texts
  BY <1>1, <1>2, <1>3 DEF TypeOK, Texts
<1>7. TypeOK'
  BY <1>5, <1>6, FilesOfOrder DEF PatchRaises, TypeOK
<1>8. \A f \in Snapped : buffer[f] # None /\ buffer[f].user = snapshots[f].user
  BY <1>1 DEF LoopInv
<1>9. \A f \in Snapped : buffer'[f] = buffer[f]
  BY <1>3, <1>8 DEF TypeOK, Texts, Snapped
<1>10. RaisedApplyIsUnwritten'
  BY <1>1, <1>4, <1>8, <1>9 DEF RaisedApplyIsUnwritten
<1> QED BY <1>5, <1>7, <1>10 DEF PatchRaises, LoopInv, Applying, FailureRestoresBuffers,
          EachFileWhole, SavedTextKept, ReviewCanBeSettled

LEMMA RollbackStep ==
  ASSUME ReviewInv, Applying, Rollback
  PROVE  ReviewInv'
<1> USE DEF ReviewInv
<1>1. buffer' \in Texts /\ \A f \in Snapped : buffer'[f] = snapshots[f]
  BY DEF Rollback, Restored, LoopInv, Snapped, TypeOK, Texts
<1>2. TypeOK'
  BY <1>1, FilesOfOrder DEF Rollback, TypeOK
<1> QED BY <1>1, <1>2 DEF Rollback, LoopInv, Applying, Snapped, FailureRestoresBuffers,
          EachFileWhole, SavedTextKept,
              RaisedApplyIsUnwritten, ReviewCanBeSettled

LEMMA WriteStep == ReviewInv /\ Write => ReviewInv'
<1> SUFFICES ASSUME ReviewInv, Write PROVE ReviewInv'
  OBVIOUS
<1> USE DEF ReviewInv
<1> DEFINE g == Order[at]
<1>1. Applying /\ g \in Files /\ pc = "write" /\ result = "none"
  BY AtFile DEF Write, Applying, LoopInv
<1>2. disk' = IF g \in applied THEN [disk EXCEPT ![g] = buffer[g]] ELSE disk
  BY DEF Write
<1> HIDE DEF g
<1>3. disk' \in Texts /\ \A f \in Files : disk'[f] = IF f = g /\ g \in applied THEN buffer[g] ELSE disk[f]
  BY <1>1, <1>2 DEF TypeOK, Texts
<1>4. Snapped' = Snapped /\ Snapped \subseteq Files /\ \A f \in Snapped : Found(f) => f \in applied
  BY <1>1 DEF Write, LoopInv, Snapped
<1>5. \A i \in 1 .. Len(Order) : (i < at \/ i = at) /\ Order[i] \in applied => disk'[Order[i]] = buffer[Order[i]]
  <2> SUFFICES ASSUME NEW i \in 1 .. Len(Order), i < at \/ i = at, Order[i] \in applied
               PROVE  disk'[Order[i]] = buffer[Order[i]]
    OBVIOUS
  <2>1. CASE Order[i] = g
    BY <1>3, <2>1, FilesOfOrder
  <2>2. CASE Order[i] # g
    <3>1. i < at
      BY <2>2 DEF g
    <3> QED BY <1>1, <1>3, <2>2, <3>1, FilesOfOrder DEF LoopInv
  <2> QED BY <2>1, <2>2
<1>6. CASE at < Len(Order)
  <2>1. at' = at + 1 /\ pc' = pc /\ result' = result /\ rpc' = rpc /\ pending' = pending
    BY <1>6 DEF Write
  <2>2. TypeOK'
    BY <1>1, <1>3, <1>6, <2>1, AtFile DEF Write, TypeOK
  <2>3. \A i \in 1 .. Len(Order) : i < at' /\ Order[i] \in applied => disk'[Order[i]] = buffer[Order[i]]
    BY <1>1, <1>5, <1>6, <2>1, AtFile
  <2>4. LoopInv'
    <3>1. \A f \in Files : f \notin applied => disk'[f] = before[f]
      BY <1>1, <1>3 DEF LoopInv
    <3> QED BY <1>1, <1>4, <2>1, <2>3, <3>1 DEF Write, LoopInv, Applying
  <2> QED BY <1>1, <2>1, <2>2, <2>4 DEF Write, FailureRestoresBuffers, EachFileWhole, SavedTextKept,
              RaisedApplyIsUnwritten, ReviewCanBeSettled
<1>7. CASE ~(at < Len(Order))
  <2>1. Succeed
    BY <1>7 DEF Write
  <2>2. TypeOK'
    BY <1>3, <2>1, SucceedTypes DEF Write, TypeOK
  <2>3. \A f \in Snapped : buffer[f].user = snapshots[f].user
    BY <1>1 DEF LoopInv
  <2>5. \A f \in Snapped : f \in applied => disk'[f] = buffer[f] /\ buffer[f].agent
    <3>1. \A i \in 1 .. Len(Order) : Order[i] \in applied => disk'[Order[i]] = buffer[Order[i]]
      BY <1>1, <1>5, <1>7, AtFile
    <3>2. \A f \in Snapped : f \in applied => disk'[f] = buffer[f]
      BY <1>4, <3>1, FilesOfOrder
    <3> QED BY <1>1, <1>4, <3>2 DEF LoopInv
  <2>6. \A f \in Snapped : f \notin applied => ~Found(f) /\ buffer[f] = snapshots[f] /\ disk'[f] = before[f]
    BY <1>1, <1>3, <1>4 DEF LoopInv
  <2>4. \A f \in sent' \cap Snapped' : snapshots'[f] = base'[f]
    BY <1>1, <1>4 DEF Write, LoopInv
  <2>7. EachFileWhole'
    BY <1>4, <2>5, <2>6 DEF Write, EachFileWhole, Carried, Found
  <2>8. result' = "applied" /\ pc' = "idle" /\ rpc' = "accept"
    BY <2>1 DEF Succeed
  <2>9. SavedTextKept'
    BY <1>4, <2>3 DEF Write, SavedTextKept
  <2>10. LoopInv'
    BY <2>4, <2>8 DEF LoopInv, Applying
  <2> QED BY <2>2, <2>7, <2>8, <2>9, <2>10
          DEF FailureRestoresBuffers, RaisedApplyIsUnwritten, ReviewCanBeSettled
<1> QED BY <1>6, <1>7

LEMMA ReviewUnchanged == ReviewInv /\ UNCHANGED vars => ReviewInv'
BY DEF vars, texts, ReviewInv, TypeOK, LoopInv, Applying, Snapped, FailureRestoresBuffers, Carried,
       EachFileWhole, SavedTextKept,
              RaisedApplyIsUnwritten, ReviewCanBeSettled

\* The invariant of the review, for any diff, edits, conflicts and failures.
THEOREM ReviewInvariance == Spec => []ReviewInv
<1>1. ReviewInv /\ [Next]_vars => ReviewInv'
  <2> SUFFICES ASSUME ReviewInv, [Next]_vars PROVE ReviewInv'
    OBVIOUS
  <2>1. PatchFails \/ WriteFails => ReviewInv'
    BY RollbackStep DEF PatchFails, WriteFails, Applying
  <2> QED BY <2>1, OutsideApply, ConflictStep, GitStep, GitFailsStep, PatchStep, PatchOverlooksStep,
             PatchSkipsStep, PatchRaisesStep, WriteStep, ReviewUnchanged DEF Next, Apply, PatchFile
<1> QED BY ReviewInitially, <1>1, PTL DEF Spec

\* Every variable keeps to its set.
THEOREM ReviewTypes == Spec => []TypeOK
BY ReviewInvariance, PTL DEF ReviewInv

\* Wherever an apply fails, the buffers have their text back.
THEOREM FailedApplyRestores == Spec => []FailureRestoresBuffers
BY ReviewInvariance, PTL DEF ReviewInv

\* After a successful apply each affected buffer and its file have the hunks, both,
\* or no diff was found for the file and neither was touched.
THEOREM AppliedFilesAreWhole == Spec => []EachFileWhole
BY ReviewInvariance, PTL DEF ReviewInv

\* An apply that Neovim stopped has written nothing and lost no text.
THEOREM RaisedAppliesAreUnwritten == Spec => []RaisedApplyIsUnwritten
BY ReviewInvariance, PTL DEF ReviewInv

\* An apply takes nothing of what the user wrote and had saved.
THEOREM SavedTextIsKept == Spec => []SavedTextKept
BY ReviewInvariance, PTL DEF ReviewInv

\* What is accepted was made from the user's text.
THEOREM AcceptedBaseline == Spec => []BaselineIsUsersText
<1>1. ReviewInv => BaselineIsUsersText
  BY DEF ReviewInv, LoopInv, SavedTextKept, BaselineIsUsersText
<1> QED BY ReviewInvariance, <1>1, PTL

\* A diff under review in the daemon can be settled by its client.
THEOREM ReviewsAreSettled == Spec => []ReviewCanBeSettled
BY ReviewInvariance, PTL DEF ReviewInv
=============================================================================
