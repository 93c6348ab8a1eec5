------------------------------ MODULE KeyStore ------------------------------
(***************************************************************************)
(* What a store of API keys promises: a key is added at the end or taken   *)
(* out, each in one step; nothing else ever happens to the keys.           *)
(***************************************************************************)
EXTENDS Naturals, Sequences

CONSTANT Keys

VARIABLE keys

Init == keys = <<>>

Add == \E k \in Keys : keys' = Append(keys, k)

\* What s is without its i-th element.
Without(s, i) == SubSeq(s, 1, i - 1) \o SubSeq(s, i + 1, Len(s))

Remove == \E i \in 1 .. Len(keys) : keys' = Without(keys, i)

Spec == Init /\ [][Add \/ Remove]_keys
=============================================================================
