------------------------- MODULE DelegationPromise -------------------------
(***************************************************************************)
(* What delegation to sub-agents promises a parent agent, and nothing of   *)
(* how: the parent asks for a round of delegations, each is settled once,  *)
(* with a result or an error, and the parent goes on when, and only when,  *)
(* all of the round are settled (the Promise.all of src/src/agents/        *)
(* worker.ts:395-440 over delegateToSubAgent).                             *)
(***************************************************************************)
CONSTANTS
  Agents,    \* all agents of a team
  SubAgents, \* those that are delegated to, each in one delegation
  Parent     \* who delegates to a sub-agent

VARIABLES
  outcome, \* what became of a delegation
  round    \* the delegations an agent waits for

vars == <<outcome, round>>

Settled == {"resolved", "rejected"}

Init ==
  /\ outcome = [a \in SubAgents |-> "none"]
  /\ round = [p \in Agents |-> {}]

Ask(p) ==
  /\ round[p] = {}
  /\ \E S \in SUBSET {a \in SubAgents : Parent[a] = p /\ outcome[a] = "none"} :
       /\ S # {}
       /\ round' = [round EXCEPT ![p] = S]
       /\ outcome' = [a \in SubAgents |-> IF a \in S THEN "asked" ELSE outcome[a]]

Settle(a) ==
  /\ outcome[a] = "asked"
  /\ \E o \in Settled : outcome' = [outcome EXCEPT ![a] = o]
  /\ UNCHANGED round

Resume(p) ==
  /\ round[p] # {}
  /\ \A a \in round[p] : outcome[a] \in Settled
  /\ round' = [round EXCEPT ![p] = {}]
  /\ UNCHANGED outcome

Next == (\E p \in Agents : Ask(p) \/ Resume(p)) \/ (\E a \in SubAgents : Settle(a))

Spec == Init /\ [][Next]_vars

(* No delegation stays open, and no parent waits, for ever.                  *)
Fairness ==
  /\ \A a \in SubAgents : WF_vars(Settle(a))
  /\ \A p \in Agents : WF_vars(Resume(p))
FairSpec == Spec /\ Fairness
=============================================================================
