--------------------------- MODULE MCStreamResume ---------------------------
(* Instances of StreamResume for TLC. *)
EXTENDS StreamResume, TLC

CONSTANTS s1, s2, k1, k2, p1, none

(* Two answers of one conversation, as of two messages or of two workers.    *)
MCConvOf == (s1 :> k1) @@ (s2 :> k1)

(* Two answers of one chunk and two switches, or one answer of two chunks    *)
(* with two switches and a lost connection.                                  *)
MCBudgets == {[streams |-> {s1, s2}, chunks |-> 1, selects |-> 2, drops |-> 0],
              [streams |-> {s1}, chunks |-> 2, selects |-> 2, drops |-> 1]}
=============================================================================
