------------------------------ MODULE KeyVault ------------------------------
(***************************************************************************)
(* state/vault.py: LocalVault keeps the API keys of a provider in a file   *)
(* which it replaces by a new one.  It runs on the daemon's loop without   *)
(* awaiting anything, but may fail or be killed between any two of its     *)
(* calls of the operating system.                                          *)
(***************************************************************************)
EXTENDS Naturals, Sequences

CONSTANTS
  Keys,   \* the keys of one provider, each there at most once
  Torn,   \* a file that was truncated and not yet filled
  None    \* no file, no key

ASSUME VaultAssumption == Torn \notin Seq(Keys) /\ None \notin Seq(Keys) \cup Keys /\ Torn # None

VARIABLES
  file,      \* the vault
  tmp,       \* its .tmp
  step,      \* the call that comes next: "idle", "create", "fill", "open", "dump", "rename"
  target,    \* what is to be written
  adds,      \* the key that set_key adds, or None
  drops,     \* the key that delete_key takes out, or None
  kept       \* the keys whose set_key has returned and that were not deleted (history)

vaultVars == <<file, tmp, step, target, adds, drops, kept>>

Contents == Seq(Keys) \cup {Torn, None}

VaultInit ==
  /\ file = None /\ tmp = None
  /\ step = "idle" /\ target = <<>> /\ adds = None /\ drops = None
  /\ kept = {}
-----------------------------------------------------------------------------
\* _read_vault: what is not JSON counts as empty.
Readable(c) == IF c \in {Torn, None} THEN <<>> ELSE c

KeySet(s) == {s[i] : i \in DOMAIN s}

\* Mutant: the empty vault is written whether there is one or not.
CreateAlways == "create"

\* _ensure_vault_exists.
FirstStep == IF file = None THEN "create" ELSE "open"

\* set_key appends, also a key that is there already; here a provider's keys differ,
\* so that a key is known by its value.
SetKey(k) ==
  /\ step = "idle" /\ k \notin KeySet(Readable(file))
  /\ step' = FirstStep
  /\ target' = Append(Readable(file), k) /\ adds' = k /\ drops' = None
  /\ UNCHANGED <<file, tmp, kept>>

\* An index out of range changes nothing.
DeleteKey(i) ==
  /\ step = "idle" /\ i \in DOMAIN Readable(file)
  /\ step' = FirstStep
  /\ target' = SubSeq(Readable(file), 1, i - 1) \o SubSeq(Readable(file), i + 1, Len(Readable(file)))
  /\ adds' = None /\ drops' = Readable(file)[i]
  /\ UNCHANGED <<file, tmp, kept>>

\* list_keys and get_key read, and make sure there is a file.
ListKeys ==
  /\ step = "idle" /\ file = None
  /\ step' = "create" /\ target' = <<>> /\ adds' = None /\ drops' = None
  /\ UNCHANGED <<file, tmp, kept>>

Create ==
  /\ step = "create"
  /\ file' = Torn /\ step' = "fill"
  /\ UNCHANGED <<tmp, target, adds, drops, kept>>

Fill ==
  /\ step = "fill"
  /\ file' = <<>>
  /\ step' = IF adds = None /\ drops = None THEN "idle" ELSE "open"
  /\ UNCHANGED <<tmp, target, adds, drops, kept>>

\* Mutant: the vault itself is opened for writing.
OpenVault ==
  /\ step = "open"
  /\ file' = Torn /\ tmp' = Torn /\ step' = "dump"
  /\ UNCHANGED <<target, adds, drops, kept>>

OpenTmp ==
  /\ step = "open"
  /\ tmp' = Torn /\ step' = "dump"
  /\ UNCHANGED <<file, target, adds, drops, kept>>

\* json.dump, flush, fsync.
Dump ==
  /\ step = "dump"
  /\ tmp' = target /\ step' = "rename"
  /\ UNCHANGED <<file, target, adds, drops, kept>>

\* os.rename, and the request returns.
Rename ==
  /\ step = "rename"
  /\ file' = tmp /\ tmp' = None /\ step' = "idle"
  /\ kept' = (kept \cup ({adds} \cap Keys)) \ {drops}
  /\ UNCHANGED <<target, adds, drops>>

\* A call raises: the request fails where it is, or the daemon ends there.
Interrupted == step' = "idle" /\ UNCHANGED <<file, tmp, target, adds, drops, kept>>
VaultFails  == step # "idle" /\ Interrupted

VaultNext ==
  \/ \E k \in Keys : SetKey(k)
  \/ \E i \in DOMAIN Readable(file) : DeleteKey(i)
  \/ ListKeys \/ Create \/ Fill \/ OpenTmp \/ Dump \/ Rename \/ VaultFails

VaultSpec == VaultInit /\ [][VaultNext]_vaultVars
-----------------------------------------------------------------------------
\* Every variable keeps to its set, and what is renamed is complete.
VaultTypeOK ==
  /\ step = "rename" => tmp = target
  /\ file \in Contents /\ tmp \in Contents
  /\ step \in {"idle", "create", "fill", "open", "dump", "rename"}
  /\ target \in Seq(Keys)
  /\ adds \in Keys \cup {None} /\ drops \in Keys \cup {None}
  /\ kept \subseteq Keys

\* A key whose set_key has returned is there until it is deleted, wherever the
\* calls after it fail and the daemon is killed.
KeysSurvive == kept \subseteq KeySet(Readable(file))

KS == INSTANCE KeyStore WITH keys <- Readable(file)

\* To whoever reads the vault, setting and deleting a key is one step that
\* happens or does not (KeyStore).
ImplementsKeyStore == KS!Spec
=============================================================================
