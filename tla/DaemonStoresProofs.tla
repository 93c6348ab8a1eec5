------------------------- MODULE DaemonStoresProofs -------------------------
(***************************************************************************)
(* Theorems about DaemonStores: what becomes of keys, records and context  *)
(* files under every sequence of calls, failures and kills.                *)
(***************************************************************************)
EXTENDS DaemonStores, SequenceTheorems, TLAPS

-----------------------------------------------------------------------------
(* The vault.                                                              *)

Cut(s, i) == SubSeq(s, 1, i - 1) \o SubSeq(s, i + 1, Len(s))

LEMMA AppendedKeys ==
  ASSUME NEW s \in Seq(Keys), NEW k \in Keys
  PROVE  /\ Append(s, k) \in Seq(Keys)
         /\ KeySet(Append(s, k)) = KeySet(s) \cup {k}
<1>1. /\ Append(s, k) \in Seq(Keys) /\ Len(s) \in Nat /\ DOMAIN s = 1 .. Len(s)
      /\ DOMAIN Append(s, k) = 1 .. Len(s) + 1
      /\ Append(s, k)[Len(s) + 1] = k
      /\ \A i \in 1 .. Len(s) : Append(s, k)[i] = s[i]
  OBVIOUS
<1>2. 1 .. Len(s) + 1 = (1 .. Len(s)) \cup {Len(s) + 1}
  BY <1>1
<1> DEFINE longer == Append(s, k)
<1> HIDE DEF longer
<1>3. longer \in Seq(Keys) /\ DOMAIN longer = (DOMAIN s) \cup {Len(s) + 1}
      /\ longer[Len(s) + 1] = k /\ \A i \in DOMAIN s : longer[i] = s[i]
  BY <1>1, <1>2, Zenon DEF longer
<1>4. KeySet(longer) = KeySet(s) \cup {k}
  BY <1>3 DEF KeySet
<1> QED BY <1>3, <1>4, Zenon DEF longer

LEMMA CutKeys ==
  ASSUME NEW s \in Seq(Keys), NEW i \in DOMAIN s
  PROVE  /\ Cut(s, i) \in Seq(Keys)
         /\ KeySet(s) \ {s[i]} \subseteq KeySet(Cut(s, i))
<1> DEFINE front == SubSeq(s, 1, i - 1)
           back  == SubSeq(s, i + 1, Len(s))
<1>1. i \in 1 .. Len(s) /\ Len(s) \in Nat
  OBVIOUS
<1>2. front \in Seq(Keys) /\ Len(front) = i - 1 /\ \A j \in 1 .. i - 1 : front[j] = s[j]
  BY <1>1, SubSeqProperties
<1>3. back \in Seq(Keys) /\ Len(back) = Len(s) - i
      /\ \A j \in 1 .. Len(s) - i : back[j] = s[i + j]
  BY <1>1, SubSeqProperties
<1>4. /\ Cut(s, i) \in Seq(Keys)
      /\ Len(Cut(s, i)) = Len(s) - 1
      /\ \A j \in 1 .. Len(s) - 1 : Cut(s, i)[j] = IF j < i THEN s[j] ELSE s[j + 1]
  <2> HIDE DEF front, back
  <2>1. Cut(s, i) = front \o back
    BY DEF Cut, front, back
  <2>2. /\ Cut(s, i) \in Seq(Keys)
        /\ Len(Cut(s, i)) = Len(front) + Len(back)
        /\ \A j \in 1 .. Len(front) + Len(back) :
             Cut(s, i)[j] = IF j <= Len(front) THEN front[j] ELSE back[j - Len(front)]
    <3> DEFINE whole == front \o back
    <3> HIDE DEF whole
    <3>1. /\ whole \in Seq(Keys) /\ Len(whole) = Len(front) + Len(back)
          /\ \A j \in 1 .. Len(front) + Len(back) :
               whole[j] = IF j <= Len(front) THEN front[j] ELSE back[j - Len(front)]
      BY <1>2, <1>3, ConcatProperties, Zenon DEF whole
    <3>2. Cut(s, i) = whole
      BY <2>1 DEF whole
    <3> QED BY <3>1, <3>2, Zenon
  <2>3. Len(front) + Len(back) = Len(s) - 1
    BY <1>1, <1>2, <1>3
  <2>4. ASSUME NEW j \in 1 .. Len(s) - 1
        PROVE  Cut(s, i)[j] = IF j < i THEN s[j] ELSE s[j + 1]
    <3>1. CASE j < i
      BY <1>1, <1>2, <2>2, <2>3, <3>1
    <3>2. CASE j >= i
      <4>1. j - (i - 1) \in 1 .. Len(s) - i /\ ~(j <= i - 1) /\ ~(j < i)
        BY <1>1, <3>2
      <4>2. Cut(s, i)[j] = back[j - (i - 1)]
        BY <1>2, <2>2, <2>3, <4>1
      <4>3. back[j - (i - 1)] = s[i + (j - (i - 1))]
        BY <1>3, <4>1
      <4>4. i + (j - (i - 1)) = j + 1
        BY <1>1
      <4> QED BY <4>1, <4>2, <4>3, <4>4
    <3> QED BY <1>1, <3>1, <3>2
  <2> QED BY <2>2, <2>3, <2>4
<1>5. ASSUME NEW j \in DOMAIN s, s[j] # s[i]
      PROVE  s[j] \in KeySet(Cut(s, i))
  <2>1. CASE j < i
    <3>1. j \in DOMAIN Cut(s, i) /\ Cut(s, i)[j] = s[j]
      BY <1>1, <1>4, <2>1
    <3> QED BY <3>1 DEF KeySet
  <2>2. CASE j > i
    <3>1. j - 1 \in DOMAIN Cut(s, i) /\ Cut(s, i)[j - 1] = s[j]
      BY <1>1, <1>4, <2>2
    <3> QED BY <3>1 DEF KeySet
  <2> QED BY <1>1, <1>5, <2>1, <2>2
<1> QED BY <1>4, <1>5 DEF KeySet

(* What is being written follows from what is there, and what is there does *)
(* not change for a reader before it is renamed.                           *)
WriteIsOneStep ==
  /\ step = "create" => file = None
  /\ step = "fill" => file = Torn
  /\ adds # None => drops = None
  /\ step # "idle" /\ adds # None => target = Append(Readable(file), adds)
  /\ step # "idle" /\ drops # None =>
       \E i \in DOMAIN Readable(file) : target = Cut(Readable(file), i) /\ drops = Readable(file)[i]
  /\ step \in {"open", "dump", "rename"} => adds # None \/ drops # None

VaultInv == VaultTypeOK /\ WriteIsOneStep /\ KeysSurvive

LEMMA ReadableType == VaultTypeOK => Readable(file) \in Seq(Keys)
BY DEF VaultTypeOK, Contents, Readable

LEMMA VaultInitially == VaultInit => VaultInv
BY VaultAssumption DEF VaultInit, VaultInv, VaultTypeOK, WriteIsOneStep, KeysSurvive, Contents

LEMMA VaultUnchanged == VaultInv /\ UNCHANGED vaultVars => VaultInv'
BY DEF vaultVars, VaultInv, VaultTypeOK, WriteIsOneStep, KeysSurvive, Readable, KeySet, Contents, Cut

LEMMA InterruptedKeepsVault == VaultInv /\ Interrupted => VaultInv'
BY DEF Interrupted, VaultInv, VaultTypeOK, WriteIsOneStep, KeysSurvive, Readable, KeySet, Contents

(* To a reader a rename appends a key or takes one out.                    *)
LEMMA RenameIsOneStep ==
  ASSUME VaultInv, Rename
  PROVE  /\ VaultInv'
         /\ KS!Add \/ KS!Remove
<1> USE VaultAssumption
<1>1. tmp = target /\ target \in Seq(Keys) /\ file' = target /\ Readable(file)' = target
      /\ Readable(file) \in Seq(Keys)
  BY ReadableType DEF VaultInv, VaultTypeOK, Rename, Readable
<1>2. CASE adds # None
  <2>1. adds \in Keys /\ drops = None /\ target = Append(Readable(file), adds)
    BY <1>2 DEF VaultInv, VaultTypeOK, WriteIsOneStep, Rename
  <2>2. KeysSurvive'
    BY <1>1, <2>1, AppendedKeys DEF KeysSurvive, Rename, VaultInv
  <2>3. KS!Add
    BY <1>1, <2>1 DEF KS!Add
  <2> QED BY <1>1, <2>1, <2>2, <2>3 DEF VaultInv, VaultTypeOK, WriteIsOneStep, Rename, Contents
<1>3. CASE adds = None
  <2>1. PICK i \in DOMAIN Readable(file) :
          target = Cut(Readable(file), i) /\ drops = Readable(file)[i]
    BY <1>3 DEF VaultInv, WriteIsOneStep, Rename
  <2>2. KeySet(Readable(file)) \ {drops} \subseteq KeySet(target)
    BY <1>1, <2>1, CutKeys
  <2>3. kept' \subseteq kept \ {drops}
    BY <1>3 DEF Rename
  <2>4. KeysSurvive'
    BY <1>1, <2>2, <2>3 DEF KeysSurvive, VaultInv
  <2>5. KS!Remove
    <3>1. i \in 1 .. Len(Readable(file)) /\ Readable(file)' = KS!Without(Readable(file), i)
      BY <1>1, <2>1 DEF KS!Without, Cut
    <3> QED BY <3>1 DEF KS!Remove
  <2> QED BY <1>1, <1>3, <2>3, <2>4, <2>5 DEF VaultInv, VaultTypeOK, WriteIsOneStep, Rename, Contents
<1> QED BY <1>2, <1>3

(* No other call changes what is read.                                     *)
LEMMA VaultStep ==
  ASSUME VaultInv, VaultNext
  PROVE  /\ VaultInv'
         /\ KS!Add \/ KS!Remove \/ UNCHANGED Readable(file)
<1> USE VaultAssumption DEF VaultInv, VaultTypeOK, WriteIsOneStep, KeysSurvive, Contents
<1>1. ASSUME NEW k \in Keys, SetKey(k) PROVE VaultInv' /\ UNCHANGED Readable(file)
  <2>1. Append(Readable(file), k) \in Seq(Keys) /\ UNCHANGED Readable(file)
    BY <1>1, ReadableType DEF SetKey, Readable
  <2> QED BY <1>1, <2>1 DEF SetKey, FirstStep
<1>2. ASSUME NEW i \in DOMAIN Readable(file), DeleteKey(i) PROVE VaultInv' /\ UNCHANGED Readable(file)
  <2> DEFINE s == Readable(file)
  <2>1. s \in Seq(Keys) /\ s[i] \in Keys /\ UNCHANGED s
    BY <1>2, ReadableType DEF DeleteKey, Readable
  <2>2. target' = Cut(s, i) /\ target' \in Seq(Keys) /\ drops' = s[i] /\ adds' = None
    BY <1>2, <2>1, CutKeys DEF DeleteKey, Cut
  <2>3. file # None
    BY <1>2 DEF Readable
  <2> HIDE DEF s
  <2>4. \E j \in DOMAIN s' : target' = Cut(s', j) /\ drops' = s'[j]
    BY <2>1, <2>2 DEF s
  <2> QED BY <1>2, <2>1, <2>2, <2>3, <2>4 DEF DeleteKey, FirstStep, s
<1>3. ListKeys => VaultInv' /\ UNCHANGED Readable(file)
  BY DEF ListKeys, Readable
<1>4. Create => VaultInv' /\ UNCHANGED Readable(file)
  BY DEF Create, Readable
<1>5. Fill => VaultInv' /\ UNCHANGED Readable(file)
  BY DEF Fill, Readable
<1>6. OpenTmp => VaultInv' /\ UNCHANGED Readable(file)
  BY DEF OpenTmp, Readable
<1>7. Dump => VaultInv' /\ UNCHANGED Readable(file)
  BY DEF Dump, Readable
<1>8. VaultFails => VaultInv' /\ UNCHANGED Readable(file)
  BY InterruptedKeepsVault DEF VaultFails, Interrupted, Readable
<1> QED BY <1>1, <1>2, <1>3, <1>4, <1>5, <1>6, <1>7, <1>8, RenameIsOneStep DEF VaultNext
-----------------------------------------------------------------------------
(* The ledger.                                                             *)

Taken(m) == IF m \in batch /\ flush = "insert" THEN 1 ELSE 0
Queued(m) == IF m \in queue THEN 1 ELSE 0

\* How often a record is written, or is going to be.
Copies(m) == txn[m] + table[m] + Queued(m) + Taken(m)

(* A record has one copy or, if something failed, was never queued, none.   *)
(* Nothing is left uncommitted by a flush that was not disturbed, and only *)
(* what came late is in the queue when close has taken it.                 *)
CopiesInv ==
  /\ \A m \in Metrics : Copies(m) <= 1
  /\ \A m \in Metrics : m \notin recorded => Copies(m) = 0
  /\ ~disturbed => \A m \in recorded : Copies(m) = 1
  /\ ~disturbed /\ flush # "commit" => \A m \in Metrics : txn[m] = 0
  /\ running \in {"flushed", "closed"} => queue \subseteq late
  /\ running = "closed" => flush = "none"

LedgerInv == LedgerTypeOK /\ CopiesInv

LEMMA LedgerInitially == LedgerInit => LedgerInv
<1> SUFFICES ASSUME LedgerInit PROVE LedgerInv
  OBVIOUS
<1>1. \A m \in Metrics : Copies(m) = 0 /\ txn[m] = 0
  BY DEF LedgerInit, NoRows, Copies, Taken, Queued
<1>2. LedgerTypeOK
  BY DEF LedgerInit, NoRows, LedgerTypeOK
<1> QED BY <1>1, <1>2 DEF LedgerInit, LedgerInv, CopiesInv

LEMMA LedgerUnchanged == LedgerInv /\ UNCHANGED ledgerVars => LedgerInv'
BY DEF ledgerVars, LedgerInv, LedgerTypeOK, CopiesInv, Copies, Taken, Queued

LEMMA LedgerKilledStep == LedgerInv /\ LedgerKilled => LedgerInv'
<1> SUFFICES ASSUME LedgerInv, LedgerKilled PROVE LedgerInv'
  OBVIOUS
<1>1. LedgerTypeOK'
  BY DEF LedgerKilled, LedgerInv, LedgerTypeOK, NoRows
<1>2. \A m \in Metrics : Copies(m)' = table[m] /\ table[m] \in Nat /\ table[m] <= Copies(m)
  BY DEF LedgerKilled, LedgerInv, LedgerTypeOK, NoRows, Copies, Taken, Queued
<1>3. \A m \in Metrics : Copies(m) \in Nat
  BY DEF LedgerInv, LedgerTypeOK, Copies, Taken, Queued
<1> QED BY <1>1, <1>2, <1>3 DEF LedgerKilled, LedgerInv, CopiesInv

LEMMA LedgerStep ==
  ASSUME LedgerInv, LedgerNext
  PROVE  LedgerInv'
<1> USE DEF LedgerInv, LedgerTypeOK
<1> DEFINE Kept == /\ \A m \in Metrics : Copies(m)' = Copies(m)
                   /\ recorded' = recorded
                   /\ disturbed' = disturbed
                   /\ \A m \in Metrics : Copies(m) \in Nat
<1>1. ASSUME NEW m \in Metrics, Record(m) PROVE LedgerInv'
  <2>1. \A x \in Metrics : Copies(x)' = Copies(x) + (IF x = m THEN 1 ELSE 0)
    <3>1. m \notin queue /\ ~(Copies(m) >= 1)
      BY <1>1 DEF Record, CopiesInv, Copies, Queued, Taken
    <3> QED BY <1>1, <3>1 DEF Record, Copies, Queued, Taken
  <2>2. \A x \in Metrics : Copies(x) \in Nat
    BY DEF Copies, Queued, Taken
  <2> QED BY <1>1, <2>1, <2>2 DEF Record, CopiesInv
<1>2. CASE Take
  <2>1. Kept
    BY <1>2 DEF Take, Copies, Queued, Taken
  <2> QED BY <1>2, <2>1 DEF Take, CopiesInv
<1>3. CASE Insert
  <2>1. Kept
    BY <1>3 DEF Insert, Plus, Copies, Queued, Taken
  <2> QED BY <1>3, <2>1 DEF Insert, Plus, CopiesInv
<1>4. CASE Commit
  <2>1. Kept
    BY <1>4 DEF Commit, NoRows, Copies, Queued, Taken
  <2> QED BY <1>4, <2>1 DEF Commit, NoRows, CopiesInv
<1>5. CASE InsertFails
  <2>1. \A m \in Metrics : Copies(m)' <= Copies(m) /\ Copies(m) \in Nat /\ Copies(m)' \in Nat
    BY <1>5 DEF InsertFails, Plus, Copies, Queued, Taken
  <2> QED BY <1>5, <2>1 DEF InsertFails, Plus, CopiesInv
<1>6. CASE CommitFails
  <2>1. \A m \in Metrics : Copies(m)' = Copies(m) /\ Copies(m) \in Nat
    BY <1>6 DEF CommitFails, Copies, Queued, Taken
  <2> QED BY <1>6, <2>1 DEF CommitFails, CopiesInv
<1>7. CASE Close
  <2>1. \A m \in Metrics : Copies(m)' = Copies(m) /\ Copies(m) \in Nat
    BY <1>7 DEF Close, Plus, NoRows, Copies, Queued, Taken
  <2>2. LedgerTypeOK'
    BY <1>7 DEF Close, Plus, NoRows
  <2>3. ~disturbed' => \A m \in Metrics : txn[m]' = 0
    <3> SUFFICES ASSUME ~disturbed', NEW m \in Metrics PROVE txn'[m] = 0
      OBVIOUS
    <3>1. CASE flush = "commit"
      BY <1>7, <3>1 DEF Close, NoRows
    <3>2. CASE flush = "none"
      BY <1>7, <3>2 DEF Close, CopiesInv
    <3> QED BY <1>7, <3>1, <3>2 DEF Close
  <2> QED BY <1>7, <2>1, <2>2, <2>3 DEF Close, CopiesInv
<1>8. CASE CloseConnection
  <2>1. \A m \in Metrics :
          /\ Copies(m)' <= Copies(m) /\ Copies(m) \in Nat /\ Copies(m)' \in Nat
          /\ ~disturbed => Copies(m)' = Copies(m)
    BY <1>8 DEF CloseConnection, NoRows, CopiesInv, Copies, Queued, Taken
  <2>2. LedgerTypeOK' /\ \A m \in Metrics : txn'[m] = 0
    BY <1>8 DEF CloseConnection, NoRows
  <2>3. recorded' = recorded /\ disturbed' = disturbed /\ queue' \subseteq late' /\ flush' = "none"
    BY <1>8 DEF CloseConnection, CopiesInv
  <2>4. /\ \A m \in Metrics : Copies(m)' <= 1 /\ (m \notin recorded => Copies(m)' = 0)
        /\ ~disturbed => \A m \in recorded : Copies(m)' = 1
    BY <2>1 DEF CopiesInv
  <2> QED BY <2>2, <2>3, <2>4, Zenon DEF CopiesInv
<1> QED BY <1>1, <1>2, <1>3, <1>4, <1>5, <1>6, <1>7, <1>8 DEF LedgerNext

LEMMA LedgerSafe == LedgerInv => WrittenOnce /\ ClosedIsComplete
<1> SUFFICES ASSUME LedgerInv PROVE WrittenOnce /\ ClosedIsComplete
  OBVIOUS
<1>1. WrittenOnce
  BY DEF LedgerInv, CopiesInv, Copies, Queued, Taken, WrittenOnce
<1>2. ClosedIsComplete
  <2> SUFFICES ASSUME running = "closed", ~disturbed, NEW m \in recorded \ late PROVE table[m] = 1
    BY DEF ClosedIsComplete
  <2>1. m \in Metrics /\ table[m] \in Nat /\ Copies(m) = 1 /\ txn[m] = 0 /\ m \notin queue /\ flush = "none"
    BY DEF LedgerInv, LedgerTypeOK, CopiesInv
  <2> QED BY <2>1 DEF Copies, Queued, Taken
<1> QED BY <1>1, <1>2
-----------------------------------------------------------------------------
(* The sessions.                                                           *)

\* A session with files has an entry of its own, whatever the engine keeps.
ContextInv ==
  /\ ContextTypeOK
  /\ \A s \in Sessions, p \in Paths :
       /\ p \in editable[s] <=> asked[s][p] = "editable"
       /\ p \in readOnly[s] <=> asked[s][p] = "read_only"
       /\ asked[s][p] # "out" => s \in known

LEMMA ContextInitially == ContextInit => ContextInv
BY DEF ContextInit, Empty, Modes, ContextInv, ContextTypeOK

LEMMA ContextUnchanged == ContextInv /\ UNCHANGED contextVars => ContextInv'
BY DEF contextVars, ContextInv, ContextTypeOK

LEMMA ContextKilledStep == ContextInv /\ ContextKilled => ContextInv'
BY DEF ContextKilled, Empty, Modes, ContextInv, ContextTypeOK

LEMMA PlaceKeepsContext ==
  ASSUME ContextInv, NEW s \in Sessions, NEW p \in Paths, NEW mode \in Modes, Place(s, p, mode)
  PROVE  ContextInv'
BY DEF Place, Modes, ContextInv, ContextTypeOK

LEMMA ContextStep ==
  ASSUME ContextInv, ContextNext
  PROVE  ContextInv'
<1>1. PICK s \in Sessions :
        \/ \E p \in Paths :
             AddFile(s, p) \/ DropFile(s, p) \/ (\E b \in BOOLEAN : ReadOnly(s, p, b))
        \/ ListFiles(s) \/ ResetSession(s) \/ PromptRuns(s) \/ EngineForgets(s)
  BY DEF ContextNext
<1>2. ASSUME NEW p \in Paths,
             AddFile(s, p) \/ DropFile(s, p) \/ (\E b \in BOOLEAN : ReadOnly(s, p, b))
      PROVE  ContextInv'
  <2>1. \E mode \in Modes : Place(s, p, mode)
    BY <1>2 DEF AddFile, DropFile, ReadOnly, Modes
  <2> QED BY <2>1, PlaceKeepsContext
<1>3. ListFiles(s) => ContextInv'
  BY DEF ListFiles, ContextInv, ContextTypeOK
<1>4. ResetSession(s) => ContextInv'
  BY DEF ResetSession, Modes, ContextInv, ContextTypeOK
<1>5. PromptRuns(s) \/ EngineForgets(s) => ContextInv'
  BY DEF PromptRuns, EngineForgets, ContextInv, ContextTypeOK
<1> QED BY <1>1, <1>2, <1>3, <1>4, <1>5
-----------------------------------------------------------------------------
(* The stores of one process.                                              *)

StoresInv == VaultInv /\ LedgerInv /\ ContextInv

LEMMA StoresStep ==
  ASSUME StoresInv, [Next]_vars
  PROVE  /\ StoresInv'
         /\ KS!Add \/ KS!Remove \/ UNCHANGED Readable(file)
<1> USE DEF StoresInv
<1>1. CASE VaultNext /\ UNCHANGED <<ledgerVars, contextVars>>
  BY <1>1, VaultStep, LedgerUnchanged, ContextUnchanged
<1>2. CASE LedgerNext /\ UNCHANGED <<vaultVars, contextVars>>
  BY <1>2, LedgerStep, VaultUnchanged, ContextUnchanged DEF vaultVars, Readable
<1>3. CASE ContextNext /\ UNCHANGED <<vaultVars, ledgerVars>>
  BY <1>3, ContextStep, VaultUnchanged, LedgerUnchanged DEF vaultVars, Readable
<1>4. CASE Killed
  BY <1>4, InterruptedKeepsVault, LedgerKilledStep, ContextKilledStep DEF Killed, Interrupted, Readable
<1>5. CASE UNCHANGED vars
  BY <1>5, VaultUnchanged, LedgerUnchanged, ContextUnchanged DEF vars, vaultVars, Readable
<1> QED BY <1>1, <1>2, <1>3, <1>4, <1>5 DEF Next

LEMMA StoresInitially == Init => StoresInv
BY VaultInitially, LedgerInitially, ContextInitially DEF Init, StoresInv

\* The vault, the ledger and the sessions keep their invariants, wherever a call
\* fails and the daemon is killed.
THEOREM StoresInvariance == Spec => []StoresInv
<1>1. StoresInv /\ [Next]_vars => StoresInv'
  BY StoresStep
<1> QED BY StoresInitially, <1>1, PTL DEF Spec

\* Every variable keeps to its set.
THEOREM StoresTypes == Spec => []TypeOK
<1>1. StoresInv => TypeOK
  BY DEF StoresInv, VaultInv, LedgerInv, ContextInv, TypeOK
<1> QED BY StoresInvariance, <1>1, PTL

\* A key whose set_key has returned is in the vault until it is deleted.
THEOREM KeysAreNeverLost == Spec => []KeysSurvive
<1>1. StoresInv => KeysSurvive
  BY DEF StoresInv, VaultInv
<1> QED BY StoresInvariance, <1>1, PTL

\* Whoever reads the vault sees keys being added and taken out in one step each.
THEOREM VaultRefinesKeyStore == Spec => ImplementsKeyStore
<1>1. Init => KS!Init
  BY VaultAssumption DEF Init, VaultInit, KS!Init, Readable
<1>2. StoresInv /\ [Next]_vars => [KS!Add \/ KS!Remove]_(Readable(file))
  BY StoresStep
<1> QED BY StoresInvariance, <1>1, <1>2, PTL DEF Spec, ImplementsKeyStore, KS!Spec

\* No record of the ledger is written twice.
THEOREM RecordsAreWrittenOnce == Spec => []WrittenOnce
<1>1. StoresInv => WrittenOnce
  BY LedgerSafe DEF StoresInv
<1> QED BY StoresInvariance, <1>1, PTL

\* No record is missing from a ledger that was closed when nothing had failed.
THEOREM ClosedLedgerIsComplete == Spec => []ClosedIsComplete
<1>1. StoresInv => ClosedIsComplete
  BY LedgerSafe DEF StoresInv
<1> QED BY StoresInvariance, <1>1, PTL

\* A session's files are as was last asked of each.
THEOREM ContextFollowsRequests == Spec => []ContextIsAsAsked
<1>1. StoresInv => ContextIsAsAsked
  BY DEF StoresInv, ContextInv, ContextIsAsAsked, Listed
<1> QED BY StoresInvariance, <1>1, PTL
=============================================================================
