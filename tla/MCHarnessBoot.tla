--------------------------- MODULE MCHarnessBoot ---------------------------
(* Two worktrees whose ranges of ports overlap. *)
EXTENDS HarnessBoot

CONSTANTS w1, w2

OverlappingOffset(w) == IF w = w1 THEN 0 ELSE 1
=============================================================================
