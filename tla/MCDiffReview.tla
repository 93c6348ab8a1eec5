---------------------------- MODULE MCDiffReview ----------------------------
(* An instance of DiffReview for TLC: a file there is, a new one and one    *)
(* whose name has a dash in it, and is not found in the diff.               *)
EXTENDS DiffReview

CONSTANTS one, new, dashed

Changed == <<one, dashed, new>>
=============================================================================
