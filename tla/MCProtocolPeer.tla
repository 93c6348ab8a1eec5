--------------------------- MODULE MCProtocolPeer ---------------------------
(* An instance of ProtocolPeer for TLC.                                    *)
EXTENDS ProtocolPeer

CONSTANTS good, bad, large, blank

\* Two requests of the largest size, one with bad params, one that is too large
\* by the length of a frame, and a blank line, in any order.
SomeShapes == (good :> "request") @@ (bad :> "params") @@ (large :> "request") @@ (blank :> "blank")
SomeSizes  == (good :> 1) @@ (bad :> 1) @@ (large :> 3) @@ (blank :> 1)
=============================================================================
