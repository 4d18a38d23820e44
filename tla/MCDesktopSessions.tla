------------------------- MODULE MCDesktopSessions -------------------------
(* Instances of DesktopSessions for TLC. *)
EXTENDS DesktopSessions, TLC

CONSTANTS d1, d2, c1, c2, old, none

SessionSymmetry == Permutations(Sessions)
=============================================================================
