----------------------------- MODULE MCRagIndex -----------------------------
(* Instances of RagIndex for TLC. *)
EXTENDS RagIndex

CONSTANTS f1, f2, none

(* One document is edited and removed; the other, if it is there, stays as it *)
(* is, and is indexed before the first, after it, or without success.         *)
MCNext == RagNext /\ disk'[f2] = disk[f2]
MCFairSpec == RagInit /\ [][MCNext]_ragVars /\ WF_ragVars(RunStep)
=============================================================================
