------------------------ MODULE MCSubAgentDelegation ------------------------
(* An instance of SubAgentDelegation for TLC: a lead, a planner under it and *)
(* two workers of one type, hence of one name, under the planner.            *)
EXTENDS SubAgentDelegation, TLC

CONSTANTS lead, planner, w1, w2, none

MCParent == (planner :> lead) @@ (w1 :> planner) @@ (w2 :> planner)
MCName == (planner :> "planner") @@ (w1 :> "worker") @@ (w2 :> "worker")
=============================================================================
