------------------------- MODULE SubAgentDelegation -------------------------
(***************************************************************************)
(* A team of workers (src/src/agents/worker.ts) under a lead the supervisor *)
(* has spawned: delegateToSubAgent, the task_result message that settles   *)
(* it through the agent registry (src/src/agents/registry.ts), its timeout *)
(* and its cleanup.  A worker that times out is not stopped: it goes on    *)
(* beside whatever its parent does next, and it may itself be waiting for  *)
(* sub-agents of its own.                                                  *)
(*                                                                         *)
(* Every delegation creates an agent with a fresh id, so a delegation is   *)
(* identified by its sub-agent.                                            *)
(***************************************************************************)
EXTENDS Naturals, FiniteSets

CONSTANTS
  Lead,        \* the worker the supervisor spawned
  SubAgents,   \* agents that may be created below it
  Parent,      \* who creates a sub-agent
  Name,        \* the display name its identity gets from the template
  NoAgent,     \* no entry in the name index
  CanDelegate, \* agents whose type may delegate
  MaxRound     \* bound of the model: delegate calls in one answer of the LLM

Agents == {Lead} \cup SubAgents
Names == {Name[a] : a \in SubAgents}

ASSUME TeamAssumption ==
  /\ Lead \notin SubAgents
  /\ NoAgent \notin SubAgents
  /\ Parent \in [SubAgents -> Agents]
  /\ DOMAIN Name = SubAgents
  /\ CanDelegate \subseteq Agents
  /\ IsFiniteSet(SubAgents)
  /\ MaxRound \in Nat

VARIABLES
  run,          \* where an agent's handleDelegatedTask is
  asked,        \* the delegations it awaits, delegationPromises
  outcome,      \* what became of a delegation
  closed,       \* delegations whose delegateToSubAgent has returned or thrown
  subAgents,    \* subAgents of an agent
  pending,      \* pendingSubAgentResults of an agent
  timers,       \* delegations whose timeout is armed
  agents,       \* the registry's agents
  byName,       \* the registry's agentsByName
  collected,    \* collectedSources, by the agent that found the source
  childSources, \* subAgentCitations: [from, src]
  report        \* the sources the accepted task_result of an agent carried

registryVars == <<subAgents, agents, byName>>
sourceVars   == <<collected, childSources, report>>
vars == <<run, asked, outcome, closed, subAgents, pending, timers, agents, byName,
          collected, childSources, report>>

Running == {"llm", "waiting", "citing"}
Settled == {"resolved", "rejected"}
ParentOf(w) == IF w = Lead THEN NoAgent ELSE Parent[w]

-----------------------------------------------------------------------------
Init ==
  /\ run = [w \in Agents |-> IF w = Lead THEN "llm" ELSE "none"]
  /\ asked = [w \in Agents |-> {}]
  /\ outcome = [a \in SubAgents |-> "none"]
  /\ closed = {}
  /\ subAgents = [w \in Agents |-> {}]
  /\ pending = [w \in Agents |-> {}]
  /\ timers = {}
  /\ agents = {Lead}
  /\ byName = [n \in Names |-> NoAgent]
  /\ collected = [w \in Agents |-> {}]
  /\ childSources = [w \in Agents |-> {}]
  /\ report = [a \in SubAgents |-> {}]

(* A round of tools other than delegate brings sources. *)
Search(w) ==
  /\ run[w] = "llm"
  /\ w \notin collected[w]
  /\ collected' = [collected EXCEPT ![w] = @ \cup {w}]
  /\ UNCHANGED <<run, asked, outcome, closed, registryVars, pending, timers,
                 childSources, report>>

(* The LLM answers with delegate calls: all of them are started at once. *)
Ask(w) ==
  /\ run[w] = "llm" /\ w \in CanDelegate
  /\ \E S \in SUBSET {a \in SubAgents : Parent[a] = w /\ outcome[a] = "none"} :
       /\ S # {} /\ Cardinality(S) <= MaxRound
       /\ asked' = [asked EXCEPT ![w] = S]
       /\ outcome' = [a \in SubAgents |-> IF a \in S THEN "asked" ELSE outcome[a]]
  /\ run' = [run EXCEPT ![w] = "waiting"]
  /\ UNCHANGED <<closed, registryVars, pending, timers, sourceVars>>

(* registry.canDelegate throws: the target type or the workflow is wrong. *)
Refuse(a) ==
  /\ outcome[a] = "asked"
  /\ outcome' = [outcome EXCEPT ![a] = "rejected"]
  /\ closed' = closed \cup {a}
  /\ UNCHANGED <<run, asked, registryVars, pending, timers, sourceVars>>

(* Mutant: no timeout is armed. *)
SpawnUntimed(a) ==
  /\ outcome[a] = "asked"
  /\ outcome' = [outcome EXCEPT ![a] = "open"]
  /\ subAgents' = [subAgents EXCEPT ![Parent[a]] = @ \cup {a}]
  /\ agents' = agents \cup {a}
  /\ byName' = [byName EXCEPT ![Name[a]] = a]
  /\ pending' = [pending EXCEPT ![Parent[a]] = @ \cup {a}]
  /\ run' = [run EXCEPT ![a] = "llm"]
  /\ UNCHANGED <<asked, closed, timers, sourceVars>>

(* delegateToSubAgent up to its await of the result: the agent is created,   *)
(* registered under its id and its name, awaited with a timeout and started. *)
Spawn(a) ==
  /\ outcome[a] = "asked"
  /\ outcome' = [outcome EXCEPT ![a] = "open"]
  /\ subAgents' = [subAgents EXCEPT ![Parent[a]] = @ \cup {a}]
  /\ agents' = agents \cup {a}
  /\ byName' = [byName EXCEPT ![Name[a]] = a]
  /\ pending' = [pending EXCEPT ![Parent[a]] = @ \cup {a}]
  /\ timers' = timers \cup {a}
  /\ run' = [run EXCEPT ![a] = "llm"]
  /\ UNCHANGED <<asked, closed, sourceVars>>

(* The pending entry of a delegation is taken out and its promise settled;   *)
(* the finally of the promise clears the timeout.                            *)
Settle(a, o) ==
  /\ pending' = [pending EXCEPT ![Parent[a]] = @ \ {a}]
  /\ timers' = timers \ {a}
  /\ outcome' = [outcome EXCEPT ![a] = o]

(* Mutant: a result nobody waits for adds its sources all the same. *)
TaskResultLate(w, ok, sources) ==
  IF w # Lead /\ ParentOf(w) \in agents
  THEN /\ IF w \in pending[ParentOf(w)]
          THEN Settle(w, IF ok THEN "resolved" ELSE "rejected")
          ELSE UNCHANGED <<pending, timers, outcome>>
       /\ childSources' = [childSources EXCEPT ![Parent[w]] =
                              @ \cup {[from |-> w, src |-> s] : s \in sources}]
       /\ report' = [report EXCEPT ![w] = sources]
  ELSE UNCHANGED <<pending, timers, outcome, childSources, report>>

(* A task_result on its way through the registry, which drops it when the    *)
(* parent is no longer registered, to the parent's handleAgentCommunication, *)
(* which ignores it when nobody waits for it any more.                       *)
TaskResult(w, ok, sources) ==
  IF w # Lead /\ ParentOf(w) \in agents /\ w \in pending[ParentOf(w)]
  THEN /\ Settle(w, IF ok THEN "resolved" ELSE "rejected")
       /\ IF ok
          THEN /\ childSources' = [childSources EXCEPT ![Parent[w]] =
                                     @ \cup {[from |-> w, src |-> s] : s \in sources}]
               /\ report' = [report EXCEPT ![w] = sources]
          ELSE UNCHANGED <<childSources, report>>
  ELSE UNCHANGED <<pending, timers, outcome, childSources, report>>

(* Mutant: the sources of the sub-agents are cleared before they are merged. *)
MergeNothing(w) ==
  /\ run[w] = "llm"
  /\ run' = [run EXCEPT ![w] = "citing"]
  /\ childSources' = [childSources EXCEPT ![w] = {}]
  /\ UNCHANGED <<asked, outcome, closed, registryVars, pending, timers, collected, report>>

(* The tool loop ends: the sources of the sub-agents join the agent's own.   *)
MergeSources(w) ==
  /\ run[w] = "llm"
  /\ run' = [run EXCEPT ![w] = "citing"]
  /\ collected' = [collected EXCEPT ![w] = @ \cup {c.src : c \in childSources[w]}]
  /\ childSources' = [childSources EXCEPT ![w] = {}]
  /\ UNCHANGED <<asked, outcome, closed, registryVars, pending, timers, report>>

(* The citations are built, the answer is saved and reported: the sources    *)
(* are those the answer cites or, if it cites none, all; an empty answer     *)
(* counts as a failure.                                                      *)
Report(w) ==
  /\ run[w] = "citing"
  /\ run' = [run EXCEPT ![w] = "ended"]
  /\ \/ \E cited \in SUBSET collected[w] :
          TaskResult(w, TRUE, IF cited = {} THEN collected[w] ELSE cited)
     \/ TaskResult(w, FALSE, {})
  /\ UNCHANGED <<asked, closed, registryVars, collected>>

(* The LLM or a tool throws; the failure is reported like a result.          *)
Fail(w) ==
  /\ run[w] = "llm"
  /\ run' = [run EXCEPT ![w] = "ended"]
  /\ TaskResult(w, FALSE, {})
  /\ UNCHANGED <<asked, closed, registryVars, collected>>

(* Telling the user of the failure fails as well: handleDelegatedTask        *)
(* rejects and the parent's catch settles the delegation, registered or not. *)
Throw(a) ==
  /\ run[a] = "llm"
  /\ run' = [run EXCEPT ![a] = "ended"]
  /\ IF a \in pending[Parent[a]]
     THEN Settle(a, "rejected")
     ELSE UNCHANGED <<pending, timers, outcome>>
  /\ UNCHANGED <<asked, closed, registryVars, sourceVars>>

(* SUB_AGENT_TIMEOUT_MS after the start. *)
Timeout(a) ==
  /\ a \in timers
  /\ IF a \in pending[Parent[a]]
     THEN Settle(a, "rejected")
     ELSE timers' = timers \ {a} /\ UNCHANGED <<pending, outcome>>
  /\ UNCHANGED <<run, asked, closed, registryVars, sourceVars>>

(* Mutant: only a successful sub-agent is cleaned up. *)
CleanupOnSuccess(a) ==
  /\ outcome[a] \in Settled /\ a \notin closed
  /\ closed' = closed \cup {a}
  /\ IF outcome[a] = "resolved"
     THEN /\ subAgents' = [subAgents EXCEPT ![Parent[a]] = @ \ {a}]
          /\ agents' = agents \ {a}
          /\ byName' = [byName EXCEPT ![Name[a]] = NoAgent]
     ELSE UNCHANGED registryVars
  /\ UNCHANGED <<run, asked, outcome, pending, timers, sourceVars>>

(* The rest of delegateToSubAgent after its await, on success and on error:  *)
(* unregisterAgent drops whatever is indexed under the agent's name.         *)
Cleanup(a) ==
  /\ outcome[a] \in Settled /\ a \notin closed
  /\ closed' = closed \cup {a}
  /\ subAgents' = [subAgents EXCEPT ![Parent[a]] = @ \ {a}]
  /\ agents' = agents \ {a}
  /\ byName' = [byName EXCEPT ![Name[a]] = NoAgent]
  /\ UNCHANGED <<run, asked, outcome, pending, timers, sourceVars>>

(* Mutant: Promise.race, the first outcome is enough. *)
ResumeEarly(w) ==
  /\ run[w] = "waiting"
  /\ asked[w] \cap closed # {}
  /\ run' = [run EXCEPT ![w] = "llm"]
  /\ asked' = [asked EXCEPT ![w] = {}]
  /\ UNCHANGED <<outcome, closed, registryVars, pending, timers, sourceVars>>

(* Promise.all has all outcomes: the next round of the tool loop. *)
Resume(w) ==
  /\ run[w] = "waiting"
  /\ asked[w] \subseteq closed
  /\ run' = [run EXCEPT ![w] = "llm"]
  /\ asked' = [asked EXCEPT ![w] = {}]
  /\ UNCHANGED <<outcome, closed, registryVars, pending, timers, sourceVars>>

Work(w) ==
  Search(w) \/ Ask(w) \/ MergeSources(w) \/ Report(w) \/ Fail(w) \/ Resume(w)
Delegation(a) == Refuse(a) \/ Spawn(a) \/ Throw(a) \/ Timeout(a) \/ Cleanup(a)

Next == (\E w \in Agents : Work(w)) \/ (\E a \in SubAgents : Delegation(a))

Spec == Init /\ [][Next]_vars

(* Timers fire, callbacks and continuations run; nothing is assumed of the   *)
(* LLM, which may never answer.                                              *)
Fairness ==
  /\ \A a \in SubAgents : /\ WF_vars(Refuse(a) \/ Spawn(a))
                          /\ WF_vars(Timeout(a))
                          /\ WF_vars(Cleanup(a))
  /\ \A w \in Agents : WF_vars(Resume(w))
FairSpec == Spec /\ Fairness
-----------------------------------------------------------------------------
(* Every variable has its type: the name index holds sub-agents only.        *)
TypeOK ==
  /\ run \in [Agents -> {"none", "llm", "waiting", "citing", "ended"}]
  /\ asked \in [Agents -> SUBSET SubAgents]
  /\ outcome \in [SubAgents -> {"none", "asked", "open", "resolved", "rejected"}]
  /\ closed \subseteq SubAgents
  /\ subAgents \in [Agents -> SUBSET SubAgents]
  /\ pending \in [Agents -> SUBSET SubAgents]
  /\ timers \subseteq SubAgents
  /\ agents \subseteq Agents
  /\ byName \in [Names -> SubAgents \cup {NoAgent}]
  /\ collected \in [Agents -> SUBSET Agents]
  /\ childSources \in [Agents -> SUBSET [from : SubAgents, src : Agents]]
  /\ report \in [SubAgents -> SUBSET Agents]

(* An open delegation can always be settled: exactly while it is open its    *)
(* parent holds the pending entry and the timeout is armed, and the parent   *)
(* waits for it.                                                             *)
OpenIsTracked ==
  \A a \in SubAgents :
    /\ (outcome[a] = "open") <=> (a \in pending[Parent[a]])
    /\ (outcome[a] = "open") <=> (a \in timers)
    /\ outcome[a] \in {"asked", "open"}
         => run[Parent[a]] = "waiting" /\ a \in asked[Parent[a]]

(* A sub-agent is registered, under its parent and in the registry, from its *)
(* spawning until its delegation is over, whichever way it ends, and the     *)
(* name index never leads to an agent that is gone.                          *)
NothingLeftBehind ==
  /\ \A a \in SubAgents :
       LET there == outcome[a] \in {"open"} \cup Settled /\ a \notin closed
       IN /\ a \in agents <=> there
          /\ a \in subAgents[Parent[a]] <=> there
  /\ \A n \in Names : byName[n] = NoAgent \/ (byName[n] \in agents /\ Name[byName[n]] = n)

(* Only a delegation that was resolved contributes sources: a result that    *)
(* comes after the timeout adds none.                                        *)
SourcesFromResolved ==
  \A w \in Agents : \A c \in childSources[w] :
    Parent[c.from] = w /\ outcome[c.from] = "resolved" /\ c.src \in report[c.from]

(* No source that a resolved sub-agent reported is lost to its parent.       *)
SourcesKept ==
  \A a \in SubAgents :
    LET p == Parent[a] IN
    outcome[a] = "resolved" =>
      \A s \in report[a] :
        \/ run[p] = "ended"
        \/ s \in collected[p]
        \/ run[p] # "citing" /\ [from |-> a, src |-> s] \in childSources[p]

(* Every delegation is settled once and the parent waits for all of a round. *)
Promise == INSTANCE DelegationPromise WITH
  outcome <- [a \in SubAgents |-> IF outcome[a] = "open" THEN "asked" ELSE outcome[a]],
  round <- asked
KeepsPromise == Promise!Spec

(* It also keeps the promise that nothing stays open, although the LLM may   *)
(* never answer.                                                             *)
KeepsFairPromise == Promise!Fairness
=============================================================================
