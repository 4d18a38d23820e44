--------------------- MODULE SubAgentDelegation_proofs ---------------------
(***************************************************************************)
(* Proofs about SubAgentDelegation, for every team: any tree of agents,    *)
(* any names, any number of delegations in a round.                        *)
(***************************************************************************)
EXTENDS SubAgentDelegation, TLAPS

USE DEF Agents, Running, Settled, registryVars, sourceVars

(* What a delegation of a round is: created by the agent that awaits it, and *)
(* not started before it is spawned; an agent waits while, and only while,   *)
(* its round is not empty.                                                   *)
RoundInv ==
  /\ \A w \in Agents : (run[w] = "waiting") <=> (asked[w] # {})
  /\ \A w \in Agents : \A a \in asked[w] : Parent[a] = w /\ outcome[a] # "none"
  /\ \A a \in SubAgents : outcome[a] \in {"none", "asked"} => run[a] = "none"
  /\ \A a \in closed : outcome[a] \in Settled
  /\ \A a \in SubAgents : a \in timers => a \in pending[Parent[a]]

(* The invariant of the bookkeeping; the registry and the sources rest on it. *)
TrackInv == TypeOK /\ RoundInv /\ OpenIsTracked

(* A task_result changes nothing, or settles the delegation it answers.      *)
LEMMA TaskResultCases ==
  ASSUME NEW w \in Agents, NEW ok, NEW sources, TaskResult(w, ok, sources)
  PROVE  \/ UNCHANGED <<pending, timers, outcome, childSources, report>>
         \/ /\ w \in SubAgents /\ w \in pending[Parent[w]]
            /\ \/ /\ Settle(w, "resolved") /\ ok
                  /\ childSources' = [childSources EXCEPT ![Parent[w]] =
                                        @ \cup {[from |-> w, src |-> s] : s \in sources}]
                  /\ report' = [report EXCEPT ![w] = sources]
               \/ Settle(w, "rejected") /\ UNCHANGED <<childSources, report>>
<1>1. CASE w # Lead /\ ParentOf(w) \in agents /\ w \in pending[ParentOf(w)]
  <2>1. w \in SubAgents /\ ParentOf(w) = Parent[w]
    BY <1>1 DEF ParentOf
  <2>2. CASE ok
    BY <1>1, <2>1, <2>2 DEF TaskResult
  <2>3. CASE ~ok
    BY <1>1, <2>1, <2>3 DEF TaskResult
  <2> QED
    BY <2>2, <2>3
<1>2. CASE ~(w # Lead /\ ParentOf(w) \in agents /\ w \in pending[ParentOf(w)])
  BY <1>2 DEF TaskResult
<1> QED
  BY <1>1, <1>2

(* A sub-agent ends its work without a change of who waits for whom, and its *)
(* own delegation, if still open, is settled.                                *)
Ends(w) ==
  /\ run[w] \in {"llm", "citing"}
  /\ run' = [run EXCEPT ![w] = "ended"]
  /\ UNCHANGED <<asked, closed, registryVars, collected>>

LEMMA ReportEnds ==
  ASSUME TypeOK, NEW w \in Agents, Report(w) \/ Fail(w)
  PROVE  /\ Ends(w)
         /\ \E ok \in BOOLEAN : \E sources \in SUBSET Agents :
              /\ TaskResult(w, ok, sources)
              /\ ok => sources \subseteq collected[w]
<1>1. collected[w] \subseteq Agents
  BY DEF TypeOK
<1>2. CASE Report(w)
  <2>1. CASE \E cited \in SUBSET collected[w] :
               TaskResult(w, TRUE, IF cited = {} THEN collected[w] ELSE cited)
    <3>1. PICK cited \in SUBSET collected[w] :
               TaskResult(w, TRUE, IF cited = {} THEN collected[w] ELSE cited)
      BY <2>1
    <3>2. (IF cited = {} THEN collected[w] ELSE cited) \in SUBSET collected[w]
      OBVIOUS
    <3> QED
      BY <1>1, <1>2, <3>1, <3>2 DEF Report, Ends
  <2>2. CASE TaskResult(w, FALSE, {})
    BY <1>2, <2>2 DEF Report, Ends
  <2> QED
    BY <1>2, <2>1, <2>2 DEF Report
<1>3. CASE Fail(w)
  BY <1>3 DEF Fail, Ends
<1> QED
  BY <1>2, <1>3

(* The initial state is typed and tracks nothing. *)
LEMMA InitTrack == Init => TrackInv
<1> SUFFICES ASSUME Init PROVE TrackInv
  OBVIOUS
<1> USE TeamAssumption
<1>1. TypeOK
  BY DEF Init, TypeOK
<1>2. RoundInv
  BY DEF Init, RoundInv
<1>3. OpenIsTracked
  BY DEF Init, OpenIsTracked
<1> QED
  BY <1>1, <1>2, <1>3 DEF TrackInv

(* Settling a delegation that is pending keeps the bookkeeping, whatever     *)
(* else the sub-agent's own step does.                                       *)
LEMMA SettleTrack ==
  ASSUME TrackInv, NEW a \in SubAgents, NEW o \in Settled, a \in pending[Parent[a]],
         Settle(a, o), UNCHANGED <<asked, closed>>,
         (run' = run) \/ Ends(a)
  PROVE  /\ pending' \in [Agents -> SUBSET SubAgents]
         /\ timers' \subseteq SubAgents
         /\ outcome' \in [SubAgents -> {"none", "asked", "open", "resolved", "rejected"}]
         /\ run' \in [Agents -> {"none", "llm", "waiting", "citing", "ended"}]
         /\ RoundInv' /\ OpenIsTracked'
<1> USE TeamAssumption
<1>1. /\ pending' \in [Agents -> SUBSET SubAgents]
      /\ timers' \subseteq SubAgents
      /\ outcome' \in [SubAgents -> {"none", "asked", "open", "resolved", "rejected"}]
      /\ run' \in [Agents -> {"none", "llm", "waiting", "citing", "ended"}]
  <2>1. /\ pending' \in [Agents -> SUBSET SubAgents]
        /\ timers' \subseteq SubAgents
    BY DEF TrackInv, TypeOK, Settle
  <2>2. outcome' \in [SubAgents -> {"none", "asked", "open", "resolved", "rejected"}]
    BY DEF TrackInv, TypeOK, Settle
  <2>3. run' \in [Agents -> {"none", "llm", "waiting", "citing", "ended"}]
    BY DEF TrackInv, TypeOK, Ends
  <2> QED
    BY <2>1, <2>2, <2>3
<1>2. outcome[a] = "open"
  BY DEF TrackInv, OpenIsTracked
<1>3. /\ \A b \in SubAgents : outcome'[b] = IF b = a THEN o ELSE outcome[b]
      /\ \A b \in SubAgents : b \in pending'[Parent[b]] <=> b \in pending[Parent[b]] /\ b # a
      /\ \A b \in SubAgents : b \in timers' <=> b \in timers /\ b # a
  BY DEF TrackInv, TypeOK, Settle
<1>4. \A w \in Agents : (run'[w] = "waiting") <=> (run[w] = "waiting")
  BY DEF TrackInv, TypeOK, Ends
<1>5. \A b \in SubAgents : run'[b] # run[b] => b = a
  BY DEF TrackInv, TypeOK, Ends
<1>6. RoundInv'
  <2>1. \A w \in Agents : (run'[w] = "waiting") <=> (asked'[w] # {})
    BY <1>4 DEF TrackInv, RoundInv
  <2>2. \A w \in Agents : \A b \in asked'[w] : Parent[b] = w /\ outcome'[b] # "none"
    BY <1>3 DEF TrackInv, RoundInv, TypeOK
  <2>3. \A b \in SubAgents : outcome'[b] \in {"none", "asked"} => run'[b] = "none"
    BY <1>3, <1>5 DEF TrackInv, RoundInv
  <2>4. \A b \in closed' : outcome'[b] \in Settled
    BY <1>3 DEF TrackInv, RoundInv, TypeOK
  <2>5. \A b \in SubAgents : b \in timers' => b \in pending'[Parent[b]]
    BY <1>3 DEF TrackInv, RoundInv
  <2> QED
    BY <2>1, <2>2, <2>3, <2>4, <2>5 DEF RoundInv
<1>7. OpenIsTracked'
  BY <1>2, <1>3, <1>4 DEF TrackInv, OpenIsTracked
<1> QED
  BY <1>1, <1>6, <1>7

(* An agent that ends while its own delegation is not open disturbs nothing. *)
LEMMA EndTrack ==
  ASSUME TrackInv, NEW w \in Agents, Ends(w), UNCHANGED <<pending, timers, outcome>>
  PROVE  /\ run' \in [Agents -> {"none", "llm", "waiting", "citing", "ended"}]
         /\ RoundInv' /\ OpenIsTracked'
<1> USE TeamAssumption
<1>1. run' \in [Agents -> {"none", "llm", "waiting", "citing", "ended"}]
  BY DEF TrackInv, TypeOK, Ends
<1>2. /\ \A v \in Agents : (run'[v] = "waiting") <=> (run[v] = "waiting")
      /\ \A a \in SubAgents : run[a] = "none" => run'[a] = "none"
  BY DEF TrackInv, TypeOK, Ends
<1>3. RoundInv'
  BY <1>2 DEF TrackInv, RoundInv, Ends
<1>4. OpenIsTracked'
  BY <1>2 DEF TrackInv, OpenIsTracked, Ends
<1> QED
  BY <1>1, <1>3, <1>4

(* Reporting keeps the bookkeeping, whether somebody waits for the report or *)
(* the registry drops it.                                                    *)
LEMMA ReportTrack ==
  ASSUME TrackInv, NEW w \in Agents, Report(w) \/ Fail(w)
  PROVE  TrackInv'
<1> USE TeamAssumption
<1>1. Ends(w)
  BY ReportEnds DEF TrackInv
<1>2. PICK ok \in BOOLEAN, sources \in SUBSET Agents : TaskResult(w, ok, sources)
  BY ReportEnds DEF TrackInv
<1>3. CASE UNCHANGED <<pending, timers, outcome, childSources, report>>
  <2>1. /\ run' \in [Agents -> {"none", "llm", "waiting", "citing", "ended"}]
        /\ RoundInv' /\ OpenIsTracked'
    BY <1>1, <1>3, EndTrack
  <2>2. TypeOK'
    BY <1>1, <1>3, <2>1 DEF TrackInv, TypeOK, Ends
  <2> QED
    BY <2>1, <2>2 DEF TrackInv
<1>4. ASSUME w \in SubAgents, w \in pending[Parent[w]], NEW o \in Settled, Settle(w, o),
             childSources' \in [Agents -> SUBSET [from : SubAgents, src : Agents]],
             report' \in [SubAgents -> SUBSET Agents]
      PROVE  TrackInv'
  <2>1. /\ pending' \in [Agents -> SUBSET SubAgents]
        /\ timers' \subseteq SubAgents
        /\ outcome' \in [SubAgents -> {"none", "asked", "open", "resolved", "rejected"}]
        /\ run' \in [Agents -> {"none", "llm", "waiting", "citing", "ended"}]
        /\ RoundInv' /\ OpenIsTracked'
    BY <1>1, <1>4, SettleTrack DEF Ends
  <2>2. TypeOK'
    BY <1>1, <1>4, <2>1 DEF TrackInv, TypeOK, Ends
  <2> QED
    BY <2>1, <2>2 DEF TrackInv
<1>5. ASSUME w \in SubAgents
      PROVE  \A s \in SUBSET Agents :
               /\ [childSources EXCEPT ![Parent[w]] =
                     @ \cup {[from |-> w, src |-> x] : x \in s}]
                    \in [Agents -> SUBSET [from : SubAgents, src : Agents]]
               /\ [report EXCEPT ![w] = s] \in [SubAgents -> SUBSET Agents]
  BY <1>5 DEF TrackInv, TypeOK
<1>6. childSources \in [Agents -> SUBSET [from : SubAgents, src : Agents]]
      /\ report \in [SubAgents -> SUBSET Agents]
  BY DEF TrackInv, TypeOK
<1>7. \/ UNCHANGED <<pending, timers, outcome, childSources, report>>
      \/ /\ w \in SubAgents /\ w \in pending[Parent[w]]
         /\ \E o \in Settled : Settle(w, o)
         /\ childSources' \in [Agents -> SUBSET [from : SubAgents, src : Agents]]
         /\ report' \in [SubAgents -> SUBSET Agents]
  <2>1. CASE UNCHANGED <<pending, timers, outcome, childSources, report>>
    BY <2>1
  <2>2. CASE ~UNCHANGED <<pending, timers, outcome, childSources, report>>
    <3>1. /\ w \in SubAgents /\ w \in pending[Parent[w]]
          /\ \/ /\ Settle(w, "resolved")
                /\ childSources' = [childSources EXCEPT ![Parent[w]] =
                                      @ \cup {[from |-> w, src |-> s] : s \in sources}]
                /\ report' = [report EXCEPT ![w] = sources]
             \/ Settle(w, "rejected") /\ UNCHANGED <<childSources, report>>
      BY <1>2, <2>2, TaskResultCases
    <3>2. /\ childSources' \in [Agents -> SUBSET [from : SubAgents, src : Agents]]
          /\ report' \in [SubAgents -> SUBSET Agents]
      BY <1>5, <1>6, <3>1
    <3> QED
      BY <3>1, <3>2
  <2> QED
    BY <2>1, <2>2
<1> QED
  BY <1>3, <1>4, <1>7

(* No step disturbs the bookkeeping of open delegations. *)
LEMMA TrackStep == TrackInv /\ [Next]_vars => TrackInv'
<1> SUFFICES ASSUME TrackInv, [Next]_vars PROVE TrackInv'
  OBVIOUS
<1> USE TeamAssumption
<1>1. ASSUME NEW w \in Agents, Search(w) PROVE TrackInv'
  BY <1>1 DEF TrackInv, TypeOK, RoundInv, OpenIsTracked, Search
<1>2. ASSUME NEW w \in Agents, Ask(w) PROVE TrackInv'
  <2>1. PICK S \in SUBSET {a \in SubAgents : Parent[a] = w /\ outcome[a] = "none"} :
          /\ S # {}
          /\ asked' = [asked EXCEPT ![w] = S]
          /\ outcome' = [a \in SubAgents |-> IF a \in S THEN "asked" ELSE outcome[a]]
    BY <1>2 DEF Ask
  <2>2. /\ run[w] = "llm" /\ run' = [run EXCEPT ![w] = "waiting"]
        /\ UNCHANGED <<closed, registryVars, pending, timers, sourceVars>>
    BY <1>2 DEF Ask
  <2>3. TypeOK'
    BY <2>1, <2>2 DEF TrackInv, TypeOK
  <2>4. RoundInv'
    <3>1. \A v \in Agents : (run'[v] = "waiting") <=> (asked'[v] # {})
      BY <2>1, <2>2 DEF TrackInv, TypeOK, RoundInv
    <3>2. \A v \in Agents : \A a \in asked'[v] : Parent[a] = v /\ outcome'[a] # "none"
      BY <2>1, <2>2 DEF TrackInv, TypeOK, RoundInv
    <3>3. \A a \in SubAgents : outcome'[a] \in {"none", "asked"} => run'[a] = "none"
      BY <2>1, <2>2 DEF TrackInv, TypeOK, RoundInv
    <3>4. \A a \in closed' : outcome'[a] \in Settled
      BY <2>1, <2>2 DEF TrackInv, TypeOK, RoundInv
    <3> QED
      BY <2>2, <3>1, <3>2, <3>3, <3>4 DEF TrackInv, RoundInv
  <2>5. OpenIsTracked'
    <3>1. ASSUME NEW a \in SubAgents, a \in S
          PROVE  outcome'[a] = "asked" /\ outcome[a] = "none" /\ Parent[a] = w
                 /\ run'[w] = "waiting" /\ a \in asked'[w]
      BY <2>1, <2>2, <3>1 DEF TrackInv, TypeOK
    <3>2. ASSUME NEW a \in SubAgents, a \notin S
          PROVE  outcome'[a] = outcome[a] /\ run'[Parent[a]] \in {run[Parent[a]], "waiting"}
                 /\ (run[Parent[a]] = "waiting" => asked'[Parent[a]] = asked[Parent[a]])
      BY <2>1, <2>2, <3>2 DEF TrackInv, TypeOK
    <3> QED
      BY <2>2, <3>1, <3>2 DEF TrackInv, OpenIsTracked
  <2> QED
    BY <2>3, <2>4, <2>5 DEF TrackInv
<1>3. ASSUME NEW w \in Agents, MergeSources(w) PROVE TrackInv'
  <2>1. TypeOK'
    BY <1>3 DEF TrackInv, TypeOK, MergeSources
  <2>2. RoundInv'
    BY <1>3 DEF TrackInv, TypeOK, RoundInv, MergeSources
  <2>3. OpenIsTracked'
    BY <1>3 DEF TrackInv, TypeOK, OpenIsTracked, MergeSources
  <2> QED
    BY <2>1, <2>2, <2>3 DEF TrackInv
<1>4. ASSUME NEW w \in Agents, Report(w) \/ Fail(w) PROVE TrackInv'
  BY <1>4, ReportTrack
<1>5. ASSUME NEW w \in Agents, Resume(w) PROVE TrackInv'
  <2>1. TypeOK'
    BY <1>5 DEF TrackInv, TypeOK, Resume
  <2>2. RoundInv'
    BY <1>5 DEF TrackInv, TypeOK, RoundInv, Resume
  <2>3. \A a \in SubAgents : Parent[a] = w => outcome[a] \notin {"asked", "open"}
    BY <1>5 DEF TrackInv, RoundInv, OpenIsTracked, Resume
  <2>4. OpenIsTracked'
    BY <1>5, <2>3 DEF TrackInv, TypeOK, OpenIsTracked, Resume
  <2> QED
    BY <2>1, <2>2, <2>4 DEF TrackInv
<1>6. ASSUME NEW a \in SubAgents, Refuse(a) PROVE TrackInv'
  <2>1. TypeOK'
    BY <1>6 DEF TrackInv, TypeOK, Refuse
  <2>2. RoundInv'
    BY <1>6 DEF TrackInv, TypeOK, RoundInv, Refuse
  <2>3. OpenIsTracked'
    BY <1>6 DEF TrackInv, TypeOK, OpenIsTracked, Refuse
  <2> QED
    BY <2>1, <2>2, <2>3 DEF TrackInv
<1>7. ASSUME NEW a \in SubAgents, Spawn(a) PROVE TrackInv'
  <2>1. TypeOK'
    BY <1>7 DEF TrackInv, TypeOK, Spawn, Names
  <2>2. /\ \A b \in SubAgents : outcome'[b] = IF b = a THEN "open" ELSE outcome[b]
        /\ \A b \in SubAgents : b \in pending'[Parent[b]] <=> b \in pending[Parent[b]] \/ b = a
        /\ \A b \in SubAgents : b \in timers' <=> b \in timers \/ b = a
        /\ \A v \in Agents : run'[v] = IF v = a THEN "llm" ELSE run[v]
    BY <1>7 DEF TrackInv, TypeOK, Spawn
  <2>3. run[a] = "none" /\ outcome[a] = "asked"
    BY <1>7 DEF TrackInv, RoundInv, Spawn
  <2>4. asked' = asked /\ closed' = closed
    BY <1>7 DEF Spawn
  <2>5. RoundInv'
    <3>1. \A v \in Agents : (run'[v] = "waiting") <=> (asked'[v] # {})
      BY <2>2, <2>3, <2>4 DEF TrackInv, RoundInv
    <3>2. \A v \in Agents : \A b \in asked'[v] : Parent[b] = v /\ outcome'[b] # "none"
      BY <2>2, <2>4 DEF TrackInv, RoundInv, TypeOK
    <3>3. \A b \in SubAgents : outcome'[b] \in {"none", "asked"} => run'[b] = "none"
      BY <2>2 DEF TrackInv, RoundInv
    <3>4. \A b \in closed' : outcome'[b] \in Settled
      BY <2>2, <2>3, <2>4 DEF TrackInv, RoundInv, TypeOK
    <3>5. \A b \in SubAgents : b \in timers' => b \in pending'[Parent[b]]
      BY <2>2 DEF TrackInv, RoundInv
    <3> QED
      BY <3>1, <3>2, <3>3, <3>4, <3>5 DEF RoundInv
  <2>6. OpenIsTracked'
    BY <2>2, <2>3, <2>4 DEF TrackInv, OpenIsTracked
  <2> QED
    BY <2>1, <2>5, <2>6 DEF TrackInv
<1>8. ASSUME NEW a \in SubAgents, Throw(a) PROVE TrackInv'
  <2>1. Ends(a) /\ UNCHANGED <<childSources, report>>
    BY <1>8 DEF Throw, Ends
  <2>2. /\ run' \in [Agents -> {"none", "llm", "waiting", "citing", "ended"}]
        /\ RoundInv' /\ OpenIsTracked'
        /\ pending' \in [Agents -> SUBSET SubAgents]
        /\ timers' \subseteq SubAgents
        /\ outcome' \in [SubAgents -> {"none", "asked", "open", "resolved", "rejected"}]
    <3>1. CASE a \in pending[Parent[a]]
      BY <1>8, <2>1, <3>1, SettleTrack DEF Throw, Ends
    <3>2. CASE a \notin pending[Parent[a]]
      <4>1. UNCHANGED <<pending, timers, outcome>>
        BY <1>8, <3>2 DEF Throw
      <4> QED
        BY <2>1, <4>1, EndTrack DEF TrackInv, TypeOK
    <3> QED
      BY <3>1, <3>2
  <2>3. TypeOK'
    BY <2>1, <2>2 DEF TrackInv, TypeOK, Ends
  <2> QED
    BY <2>2, <2>3 DEF TrackInv
<1>9. ASSUME NEW a \in SubAgents, Timeout(a) PROVE TrackInv'
  <2>1. a \in pending[Parent[a]]
    BY <1>9 DEF Timeout, TrackInv, RoundInv
  <2>2. Settle(a, "rejected") /\ UNCHANGED <<run, asked, closed, registryVars, sourceVars>>
    BY <1>9, <2>1 DEF Timeout
  <2>3. /\ pending' \in [Agents -> SUBSET SubAgents]
        /\ timers' \subseteq SubAgents
        /\ outcome' \in [SubAgents -> {"none", "asked", "open", "resolved", "rejected"}]
        /\ RoundInv' /\ OpenIsTracked'
    BY <2>1, <2>2, SettleTrack
  <2>4. TypeOK'
    BY <2>2, <2>3 DEF TrackInv, TypeOK
  <2> QED
    BY <2>3, <2>4 DEF TrackInv
<1>10. ASSUME NEW a \in SubAgents, Cleanup(a) PROVE TrackInv'
  <2>1. TypeOK'
    BY <1>10 DEF TrackInv, TypeOK, Cleanup, Names
  <2>2. RoundInv' /\ OpenIsTracked'
    BY <1>10 DEF TrackInv, RoundInv, OpenIsTracked, Cleanup
  <2> QED
    BY <2>1, <2>2 DEF TrackInv
<1>11. CASE UNCHANGED vars
  BY <1>11 DEF TrackInv, TypeOK, RoundInv, OpenIsTracked, vars
<1> QED
  BY <1>1, <1>2, <1>3, <1>4, <1>5, <1>6, <1>7, <1>8, <1>9, <1>10, <1>11
     DEF Next, Work, Delegation

LEMMA TrackInductive == Spec => []TrackInv
  BY InitTrack, TrackStep, PTL DEF Spec

(* Type correctness; the name index leads to sub-agents only.                *)
THEOREM TypeCorrect == Spec => []TypeOK
<1>1. TrackInv => TypeOK
  BY DEF TrackInv
<1> QED
  BY <1>1, TrackInductive, PTL

(* An open delegation is pending at its parent, timed, and waited for, in    *)
(* every team.                                                               *)
THEOREM Tracking == Spec => []OpenIsTracked
<1>1. TrackInv => OpenIsTracked
  BY DEF TrackInv
<1> QED
  BY <1>1, TrackInductive, PTL

-----------------------------------------------------------------------------
(* The registry. *)

RegistryInv == TrackInv /\ NothingLeftBehind

(* A report, a failure or a timeout settles a delegation at most from open,  *)
(* and unregisters nobody.                                                   *)
LEMMA SettleRegistry ==
  ASSUME RegistryInv, NEW a \in SubAgents, NEW o \in Settled, a \in pending[Parent[a]],
         Settle(a, o), UNCHANGED <<closed, registryVars>>
  PROVE  NothingLeftBehind'
<1>1. outcome[a] = "open" /\ outcome' = [outcome EXCEPT ![a] = o]
  BY DEF RegistryInv, TrackInv, OpenIsTracked, Settle
<1>2. \A b \in SubAgents :
        outcome'[b] \in {"open"} \cup Settled <=> outcome[b] \in {"open"} \cup Settled
  BY <1>1 DEF RegistryInv, TrackInv, TypeOK
<1> QED
  BY <1>2 DEF RegistryInv, NothingLeftBehind

LEMMA RegistryStep == RegistryInv /\ [Next]_vars => NothingLeftBehind'
<1> SUFFICES ASSUME RegistryInv, [Next]_vars PROVE NothingLeftBehind'
  OBVIOUS
<1> USE TeamAssumption
<1>1. ASSUME NEW w \in Agents, Search(w) \/ MergeSources(w) \/ Resume(w)
      PROVE  NothingLeftBehind'
  <2>1. UNCHANGED <<outcome, closed, registryVars>>
    BY <1>1 DEF Search, MergeSources, Resume
  <2> QED
    BY <2>1 DEF RegistryInv, NothingLeftBehind
<1>2. ASSUME NEW w \in Agents, Ask(w) PROVE NothingLeftBehind'
  <2>1. \A a \in SubAgents : \/ outcome'[a] = outcome[a]
                             \/ outcome[a] = "none" /\ outcome'[a] = "asked"
    BY <1>2 DEF Ask, RegistryInv, TrackInv, TypeOK
  <2>2. UNCHANGED <<closed, registryVars>>
    BY <1>2 DEF Ask
  <2> QED
    BY <2>1, <2>2 DEF RegistryInv, NothingLeftBehind
<1>3. ASSUME NEW w \in Agents, Report(w) \/ Fail(w) PROVE NothingLeftBehind'
  <2>1. Ends(w) /\ \E ok \in BOOLEAN, sources \in SUBSET Agents : TaskResult(w, ok, sources)
    BY <1>3, ReportEnds DEF RegistryInv, TrackInv
  <2>2. \/ UNCHANGED outcome
        \/ w \in SubAgents /\ w \in pending[Parent[w]] /\ \E o \in Settled : Settle(w, o)
    BY <2>1, TaskResultCases
  <2>3. CASE UNCHANGED outcome
    BY <2>1, <2>3 DEF RegistryInv, NothingLeftBehind, Ends
  <2> QED
    BY <2>1, <2>2, <2>3, SettleRegistry DEF Ends
<1>4. ASSUME NEW a \in SubAgents, Throw(a) \/ Timeout(a) PROVE NothingLeftBehind'
  <2>1. /\ UNCHANGED <<closed, registryVars>>
        /\ \/ a \in pending[Parent[a]] /\ Settle(a, "rejected")
           \/ UNCHANGED outcome
    BY <1>4 DEF Throw, Timeout
  <2>2. CASE UNCHANGED outcome
    BY <2>1, <2>2 DEF RegistryInv, NothingLeftBehind
  <2> QED
    BY <2>1, <2>2, SettleRegistry
<1>5. ASSUME NEW a \in SubAgents, Refuse(a) PROVE NothingLeftBehind'
  BY <1>5 DEF Refuse, RegistryInv, TrackInv, TypeOK, NothingLeftBehind
<1>6. ASSUME NEW a \in SubAgents, Spawn(a) PROVE NothingLeftBehind'
  <2>1. /\ outcome[a] = "asked" /\ closed' = closed
        /\ \A b \in SubAgents : outcome'[b] = IF b = a THEN "open" ELSE outcome[b]
        /\ \A b \in SubAgents : b \in subAgents'[Parent[b]] <=> b \in subAgents[Parent[b]] \/ b = a
        /\ agents' = agents \cup {a}
        /\ \A n \in Names : byName'[n] = IF n = Name[a] THEN a ELSE byName[n]
    BY <1>6 DEF Spawn, RegistryInv, TrackInv, TypeOK, Names
  <2>2. a \notin closed
    BY <2>1 DEF RegistryInv, TrackInv, RoundInv
  <2> QED
    BY <2>1, <2>2 DEF RegistryInv, NothingLeftBehind
<1>7. ASSUME NEW a \in SubAgents, Cleanup(a) PROVE NothingLeftBehind'
  <2>1. /\ outcome' = outcome /\ closed' = closed \cup {a}
        /\ \A b \in SubAgents : b \in subAgents'[Parent[b]] <=> b \in subAgents[Parent[b]] /\ b # a
        /\ agents' = agents \ {a}
        /\ \A n \in Names : byName'[n] = IF n = Name[a] THEN NoAgent ELSE byName[n]
    BY <1>7 DEF Cleanup, RegistryInv, TrackInv, TypeOK, Names
  <2> QED
    BY <2>1 DEF RegistryInv, NothingLeftBehind
<1>8. CASE UNCHANGED vars
  BY <1>8 DEF RegistryInv, NothingLeftBehind, vars
<1> QED
  BY <1>1, <1>2, <1>3, <1>4, <1>5, <1>6, <1>7, <1>8 DEF Next, Work, Delegation

(* Whichever way a delegation ends, its sub-agent is registered until then   *)
(* and not afterwards, and no name leads to an agent that is gone.           *)
THEOREM RegistryClean == Spec => []NothingLeftBehind
<1>1. Init => RegistryInv
  <2>1. Init => NothingLeftBehind
    BY TeamAssumption DEF Init, NothingLeftBehind
  <2> QED
    BY <2>1, InitTrack DEF RegistryInv
<1>2. RegistryInv /\ [Next]_vars => RegistryInv'
  BY RegistryStep, TrackStep DEF RegistryInv
<1>3. RegistryInv => NothingLeftBehind
  BY DEF RegistryInv
<1> QED
  BY <1>1, <1>2, <1>3, PTL DEF Spec

-----------------------------------------------------------------------------
(* The sources. *)

SourceInv == TrackInv /\ SourcesFromResolved /\ SourcesKept

(* A step that leaves outcomes, reports and children's sources alone, does   *)
(* not start citing and forgets no collected source, keeps the invariant.    *)
LEMMA QuietSources ==
  ASSUME SourceInv, UNCHANGED <<childSources, report>>,
         \A a \in SubAgents : (outcome'[a] = "resolved") <=> (outcome[a] = "resolved"),
         \A w \in Agents : collected[w] \subseteq collected'[w],
         \A w \in Agents : run[w] = "ended" => run'[w] = "ended",
         \A w \in Agents : run'[w] = "citing" => run[w] = "citing"
  PROVE  SourcesFromResolved' /\ SourcesKept'
<1> USE TeamAssumption
<1>1. SourcesFromResolved'
  <2>1. \A w \in Agents : \A c \in childSources[w] : c.from \in SubAgents
    BY DEF SourceInv, TrackInv, TypeOK
  <2> QED
    BY <2>1 DEF SourceInv, SourcesFromResolved
<1>2. SourcesKept'
  BY DEF SourceInv, SourcesKept
<1> QED
  BY <1>1, <1>2

(* A result that settles its delegation adds its sources to the parent's,    *)
(* and the parent, which waits for it, has not merged them yet.              *)
LEMMA ResultSources ==
  ASSUME SourceInv, NEW w \in SubAgents, w \in pending[Parent[w]], Ends(w),
         NEW sources \in SUBSET Agents, Settle(w, "resolved"),
         childSources' = [childSources EXCEPT ![Parent[w]] =
                            @ \cup {[from |-> w, src |-> s] : s \in sources}],
         report' = [report EXCEPT ![w] = sources]
  PROVE  SourcesFromResolved' /\ SourcesKept'
<1> USE TeamAssumption
<1> DEFINE p == Parent[w]
           new == {[from |-> w, src |-> s] : s \in sources}
<1>1. /\ outcome[w] = "open" /\ run[p] = "waiting" /\ p \in Agents /\ p # w
  BY DEF SourceInv, TrackInv, OpenIsTracked, Ends
<1>2. /\ \A a \in SubAgents : outcome'[a] = IF a = w THEN "resolved" ELSE outcome[a]
      /\ \A a \in SubAgents : report'[a] = IF a = w THEN sources ELSE report[a]
      /\ \A v \in Agents : run'[v] = IF v = w THEN "ended" ELSE run[v]
      /\ \A v \in Agents : childSources'[v] = IF v = p THEN childSources[v] \cup new
                                                      ELSE childSources[v]
      /\ collected' = collected
  BY <1>1 DEF SourceInv, TrackInv, TypeOK, Settle, Ends
<1>3. ASSUME NEW v \in Agents, NEW c \in childSources'[v]
      PROVE  Parent[c.from] = v /\ outcome'[c.from] = "resolved" /\ c.src \in report'[c.from]
  <2>1. CASE c \in childSources[v]
    <3>1. /\ c.from \in SubAgents /\ Parent[c.from] = v
          /\ outcome[c.from] = "resolved" /\ c.src \in report[c.from]
      BY <2>1 DEF SourceInv, TrackInv, TypeOK, SourcesFromResolved
    <3> QED
      BY <1>1, <1>2, <3>1
  <2>2. CASE v = p /\ c \in new
    BY <1>2, <2>2
  <2> QED
    BY <1>2, <2>1, <2>2
<1>4. SourcesKept'
  <2> SUFFICES ASSUME NEW a \in SubAgents, outcome'[a] = "resolved", NEW s \in report'[a]
               PROVE  \/ run'[Parent[a]] = "ended"
                      \/ s \in collected'[Parent[a]]
                      \/ /\ run'[Parent[a]] # "citing"
                         /\ [from |-> a, src |-> s] \in childSources'[Parent[a]]
    BY DEF SourcesKept
  <2>1. CASE a = w
    <3>1. s \in sources /\ [from |-> w, src |-> s] \in new
      BY <1>2, <2>1
    <3>2. run'[p] = "waiting"
      BY <1>1, <1>2
    <3>3. childSources'[p] = childSources[p] \cup new
      BY <1>1, <1>2
    <3> HIDE DEF new
    <3>4. [from |-> w, src |-> s] \in childSources'[p]
      BY <3>1, <3>3
    <3> QED
      BY <2>1, <3>2, <3>4
  <2>2. CASE a # w
    <3>1. outcome[a] = "resolved" /\ s \in report[a]
      BY <1>2, <2>2
    <3>2. \/ run[Parent[a]] = "ended"
          \/ s \in collected[Parent[a]]
          \/ /\ run[Parent[a]] # "citing"
             /\ [from |-> a, src |-> s] \in childSources[Parent[a]]
      BY <3>1 DEF SourceInv, SourcesKept
    <3> QED
      BY <1>2, <3>2
  <2> QED
    BY <2>1, <2>2
<1> QED
  BY <1>3, <1>4 DEF SourcesFromResolved

LEMMA SourceStep == SourceInv /\ [Next]_vars => SourcesFromResolved' /\ SourcesKept'
<1> SUFFICES ASSUME SourceInv, [Next]_vars PROVE SourcesFromResolved' /\ SourcesKept'
  OBVIOUS
<1> USE TeamAssumption
<1> DEFINE Quiet ==
      /\ UNCHANGED <<childSources, report>>
      /\ \A a \in SubAgents : (outcome'[a] = "resolved") <=> (outcome[a] = "resolved")
      /\ \A w \in Agents : collected[w] \subseteq collected'[w]
      /\ \A w \in Agents : run[w] = "ended" => run'[w] = "ended"
      /\ \A w \in Agents : run'[w] = "citing" => run[w] = "citing"
<1>1. ASSUME NEW a \in SubAgents, a \in pending[Parent[a]]
      PROVE  outcome[a] = "open"
  BY <1>1 DEF SourceInv, TrackInv, OpenIsTracked
<1>2. ASSUME NEW w \in Agents, Search(w) \/ Resume(w) PROVE Quiet
  BY <1>2 DEF SourceInv, TrackInv, TypeOK, Search, Resume
<1>3. ASSUME NEW w \in Agents, Ask(w) PROVE Quiet
  <2>1. \A a \in SubAgents : \/ outcome'[a] = outcome[a]
                             \/ outcome[a] = "none" /\ outcome'[a] = "asked"
    BY <1>3 DEF Ask, SourceInv, TrackInv, TypeOK
  <2> QED
    BY <1>3, <2>1 DEF SourceInv, TrackInv, TypeOK, Ask
<1>4. ASSUME NEW w \in Agents, MergeSources(w) PROVE SourcesFromResolved' /\ SourcesKept'
  <2>1. /\ UNCHANGED <<outcome, report>>
        /\ \A v \in Agents : childSources'[v] = IF v = w THEN {} ELSE childSources[v]
        /\ \A v \in Agents : run'[v] = IF v = w THEN "citing" ELSE run[v]
        /\ \A v \in Agents : collected'[v] =
              IF v = w THEN collected[v] \cup {c.src : c \in childSources[v]} ELSE collected[v]
        /\ run[w] = "llm"
    BY <1>4 DEF MergeSources, SourceInv, TrackInv, TypeOK
  <2>2. SourcesFromResolved'
    BY <2>1 DEF SourceInv, SourcesFromResolved
  <2>3. ASSUME NEW a \in SubAgents, outcome'[a] = "resolved", NEW s \in report'[a]
        PROVE  \/ run'[Parent[a]] = "ended"
               \/ s \in collected'[Parent[a]]
               \/ /\ run'[Parent[a]] # "citing"
                  /\ [from |-> a, src |-> s] \in childSources'[Parent[a]]
    <3>1. \/ run[Parent[a]] = "ended"
          \/ s \in collected[Parent[a]]
          \/ /\ run[Parent[a]] # "citing"
             /\ [from |-> a, src |-> s] \in childSources[Parent[a]]
      BY <2>1, <2>3 DEF SourceInv, SourcesKept
    <3>2. Parent[a] \in Agents
      OBVIOUS
    <3>3. CASE Parent[a] # w
      BY <2>1, <3>1, <3>2, <3>3
    <3>4. CASE Parent[a] = w
      <4>1. [from |-> a, src |-> s] \in childSources[w] => s \in collected'[w]
        <5>1. [from |-> a, src |-> s].src = s
          OBVIOUS
        <5>2. [from |-> a, src |-> s] \in childSources[w]
                => s \in {c.src : c \in childSources[w]}
          BY <5>1
        <5> QED
          BY <2>1, <5>2
      <4>2. s \in collected[w] => s \in collected'[w]
        BY <2>1
      <4> QED
        BY <2>1, <3>1, <3>4, <4>1, <4>2
    <3> QED
      BY <3>3, <3>4
  <2> QED
    BY <2>2, <2>3 DEF SourcesKept
<1>5. ASSUME NEW w \in Agents, Report(w) \/ Fail(w) PROVE SourcesFromResolved' /\ SourcesKept'
  <2>1. Ends(w)
    BY <1>5, ReportEnds DEF SourceInv, TrackInv
  <2>2. PICK ok \in BOOLEAN, sources \in SUBSET Agents : TaskResult(w, ok, sources)
    BY <1>5, ReportEnds DEF SourceInv, TrackInv
  <2>3. ASSUME \/ UNCHANGED <<outcome, childSources, report>>
               \/ /\ w \in SubAgents /\ w \in pending[Parent[w]]
                  /\ Settle(w, "rejected") /\ UNCHANGED <<childSources, report>>
        PROVE  Quiet
    <3>1. \A a \in SubAgents : (outcome'[a] = "resolved") <=> (outcome[a] = "resolved")
      BY <1>1, <2>3 DEF Settle, SourceInv, TrackInv, TypeOK
    <3> QED
      BY <2>1, <2>3, <3>1 DEF Ends, SourceInv, TrackInv, TypeOK
  <2>4. \/ UNCHANGED <<outcome, childSources, report>>
        \/ /\ w \in SubAgents /\ w \in pending[Parent[w]]
           /\ \/ /\ Settle(w, "resolved")
                 /\ childSources' = [childSources EXCEPT ![Parent[w]] =
                                       @ \cup {[from |-> w, src |-> s] : s \in sources}]
                 /\ report' = [report EXCEPT ![w] = sources]
              \/ Settle(w, "rejected") /\ UNCHANGED <<childSources, report>>
    BY <2>2, TaskResultCases
  <2>5. CASE /\ w \in SubAgents /\ w \in pending[Parent[w]]
             /\ Settle(w, "resolved")
             /\ childSources' = [childSources EXCEPT ![Parent[w]] =
                                   @ \cup {[from |-> w, src |-> s] : s \in sources}]
             /\ report' = [report EXCEPT ![w] = sources]
    BY <2>1, <2>5, ResultSources
  <2>6. CASE Quiet
    BY <2>6, QuietSources
  <2> QED
    BY <2>3, <2>4, <2>5, <2>6
<1>6. ASSUME NEW a \in SubAgents, Throw(a) \/ Timeout(a) PROVE Quiet
  <2>1. /\ UNCHANGED <<childSources, report, collected>>
        /\ run' = run \/ (run[a] = "llm" /\ run' = [run EXCEPT ![a] = "ended"])
        /\ \/ a \in pending[Parent[a]] /\ Settle(a, "rejected")
           \/ UNCHANGED outcome
    BY <1>6 DEF Throw, Timeout
  <2>2. \A b \in SubAgents : (outcome'[b] = "resolved") <=> (outcome[b] = "resolved")
    BY <1>1, <2>1 DEF Settle, SourceInv, TrackInv, TypeOK
  <2> QED
    BY <2>1, <2>2 DEF SourceInv, TrackInv, TypeOK
<1>7. ASSUME NEW a \in SubAgents, Refuse(a) \/ Spawn(a) \/ Cleanup(a) PROVE Quiet
  <2>1. Spawn(a) => run[a] = "none"
    BY DEF Spawn, SourceInv, TrackInv, RoundInv
  <2>2. \A b \in SubAgents : (outcome'[b] = "resolved") <=> (outcome[b] = "resolved")
    BY <1>7 DEF Refuse, Spawn, Cleanup, SourceInv, TrackInv, TypeOK
  <2>3. /\ UNCHANGED <<childSources, report, collected>>
        /\ run' = run \/ (run[a] = "none" /\ run' = [run EXCEPT ![a] = "llm"])
    BY <1>7, <2>1 DEF Refuse, Spawn, Cleanup
  <2> QED
    BY <2>2, <2>3 DEF SourceInv, TrackInv, TypeOK
<1>8. UNCHANGED vars => Quiet
  BY DEF vars
<1>9. Quiet => SourcesFromResolved' /\ SourcesKept'
  BY QuietSources
<1> QED
  BY <1>2, <1>3, <1>4, <1>5, <1>6, <1>7, <1>8, <1>9 DEF Next, Work, Delegation

LEMMA SourceInductive == Spec => []SourceInv
<1>1. Init => SourceInv
  <2>1. Init => SourcesFromResolved /\ SourcesKept
    BY TeamAssumption DEF Init, SourcesFromResolved, SourcesKept
  <2> QED
    BY <2>1, InitTrack DEF SourceInv
<1>2. SourceInv /\ [Next]_vars => SourceInv'
  BY SourceStep, TrackStep DEF SourceInv
<1> QED
  BY <1>1, <1>2, PTL DEF Spec

(* A sub-agent that failed or timed out contributes no source, whenever its  *)
(* own result arrives.                                                       *)
THEOREM OnlyResolvedSources == Spec => []SourcesFromResolved
<1>1. SourceInv => SourcesFromResolved
  BY DEF SourceInv
<1> QED
  BY <1>1, SourceInductive, PTL

(* However results, failures and timeouts interleave, the sources a resolved *)
(* sub-agent reported are its parent's until the parent has answered.        *)
THEOREM NoSourceLost == Spec => []SourcesKept
<1>1. SourceInv => SourcesKept
  BY DEF SourceInv
<1> QED
  BY <1>1, SourceInductive, PTL

-----------------------------------------------------------------------------
(* The refinement. *)

(* Every step of the team is a step of the promise or changes nothing of it. *)
LEMMA PromiseStep == TrackInv /\ [Next]_vars => [Promise!Next]_(Promise!vars)
<1> SUFFICES ASSUME TrackInv, [Next]_vars PROVE [Promise!Next]_(Promise!vars)
  OBVIOUS
<1> USE TeamAssumption
<1> DEFINE out == [a \in SubAgents |-> IF outcome[a] = "open" THEN "asked" ELSE outcome[a]]
<1> USE DEF Promise!vars, Promise!Settled
<1>1. ASSUME NEW a \in SubAgents, NEW o \in Settled, outcome[a] \in {"asked", "open"},
             outcome' = [outcome EXCEPT ![a] = o], asked' = asked
      PROVE  Promise!Next
  <2>1. out[a] = "asked" /\ out' = [out EXCEPT ![a] = o]
    BY <1>1 DEF TrackInv, TypeOK
  <2>2. Promise!Settle(a)
    BY <1>1, <2>1 DEF Promise!Settle
  <2> QED
    BY <2>2 DEF Promise!Next
<1>2. ASSUME outcome' = outcome, asked' = asked PROVE UNCHANGED Promise!vars
  BY <1>2
<1>3. ASSUME NEW a \in SubAgents, a \in pending[Parent[a]] PROVE outcome[a] = "open"
  BY <1>3 DEF TrackInv, OpenIsTracked
<1>4. ASSUME NEW w \in Agents, Search(w) \/ MergeSources(w) PROVE UNCHANGED Promise!vars
  BY <1>2, <1>4 DEF Search, MergeSources
<1>5. ASSUME NEW w \in Agents, Ask(w) PROVE Promise!Next
  <2>1. PICK S \in SUBSET {a \in SubAgents : Parent[a] = w /\ outcome[a] = "none"} :
          /\ S # {}
          /\ asked' = [asked EXCEPT ![w] = S]
          /\ outcome' = [a \in SubAgents |-> IF a \in S THEN "asked" ELSE outcome[a]]
    BY <1>5 DEF Ask
  <2>2. asked[w] = {}
    BY <1>5 DEF Ask, TrackInv, RoundInv
  <2>3. S \in SUBSET {a \in SubAgents : Parent[a] = w /\ out[a] = "none"}
    BY DEF TrackInv, TypeOK
  <2>4. out' = [a \in SubAgents |-> IF a \in S THEN "asked" ELSE out[a]]
    BY <2>1
  <2>5. Promise!Ask(w)
    BY <2>1, <2>2, <2>3, <2>4 DEF Promise!Ask
  <2> QED
    BY <2>5 DEF Promise!Next
<1>6. ASSUME NEW w \in Agents, Report(w) \/ Fail(w) PROVE [Promise!Next]_(Promise!vars)
  <2>1. Ends(w) /\ \E ok \in BOOLEAN, sources \in SUBSET Agents : TaskResult(w, ok, sources)
    BY <1>6, ReportEnds DEF TrackInv
  <2>2. \/ UNCHANGED outcome
        \/ w \in SubAgents /\ w \in pending[Parent[w]] /\ \E o \in Settled : Settle(w, o)
    BY <2>1, TaskResultCases
  <2> QED
    BY <1>1, <1>2, <1>3, <2>1, <2>2 DEF Ends, Settle
<1>7. ASSUME NEW w \in Agents, Resume(w) PROVE Promise!Next
  <2>1. asked[w] # {}
    BY <1>7 DEF Resume, TrackInv, RoundInv
  <2>2. \A a \in asked[w] : out[a] \in {"resolved", "rejected"}
    BY <1>7 DEF Resume, TrackInv, RoundInv, TypeOK
  <2>3. out' = out /\ asked' = [asked EXCEPT ![w] = {}]
    BY <1>7 DEF Resume
  <2>4. Promise!Resume(w)
    BY <2>1, <2>2, <2>3 DEF Promise!Resume
  <2> QED
    BY <2>4 DEF Promise!Next
<1>8. ASSUME NEW a \in SubAgents, Refuse(a) PROVE Promise!Next
  BY <1>1, <1>8 DEF Refuse
<1>9. ASSUME NEW a \in SubAgents, Spawn(a) PROVE UNCHANGED Promise!vars
  <2>1. out' = out
    BY <1>9 DEF Spawn, TrackInv, TypeOK
  <2> QED
    BY <1>9, <2>1 DEF Spawn
<1>10. ASSUME NEW a \in SubAgents, Throw(a) \/ Timeout(a)
       PROVE  [Promise!Next]_(Promise!vars)
  <2>1. /\ asked' = asked
        /\ \/ a \in pending[Parent[a]] /\ Settle(a, "rejected")
           \/ outcome' = outcome
    BY <1>10 DEF Throw, Timeout
  <2> QED
    BY <1>1, <1>2, <1>3, <2>1 DEF Settle
<1>11. ASSUME NEW a \in SubAgents, Cleanup(a) PROVE UNCHANGED Promise!vars
  BY <1>2, <1>11 DEF Cleanup
<1>12. CASE UNCHANGED vars
  BY <1>2, <1>12 DEF vars
<1> QED
  BY <1>4, <1>5, <1>6, <1>7, <1>8, <1>9, <1>10, <1>11, <1>12 DEF Next, Work, Delegation

(* Every team of workers implements the promise: each delegation is settled  *)
(* once, and its parent goes on when, and only when, its round is settled.   *)
THEOREM PromiseKept == Spec => KeepsPromise
<1>1. Init => Promise!Init
  BY DEF Init, Promise!Init
<1> QED
  BY <1>1, PromiseStep, TrackInductive, PTL DEF Spec, KeepsPromise, Promise!Spec
=============================================================================
