-------------------------- MODULE Sessions_proofs --------------------------
(***************************************************************************)
(* Proofs about the two managers of sessions: DesktopSessions, for any     *)
(* number of sessions, closers, launches and attempts, and, from the line  *)
(* "Browser sessions" on, BrowserSessions, for any number of calls, steps  *)
(* and crashes.                                                            *)
(***************************************************************************)
EXTENDS DesktopSessions, BrowserSessions, SequenceTheorems, TLAPS

(* The calls that wait are different and have not begun.                    *)
QueueWaits ==
  /\ \A i \in 1..Len(queue) : pc[queue[i]] = "queued"
  /\ \A i, j \in 1..Len(queue) : queue[i] = queue[j] => i = j

(* A call of resumeSession only seeks a server and connects.                *)
ResumedPcs ==
  /\ \A s \in resumed : pc[s] \in {"seeking", "connecting", "capturing"} \cup Ended
  /\ \A s \in Sessions : pc[s] = "seeking" => s \in resumed

(* Only a call of createSession that has begun can be aborted.              *)
FreshUnaborted ==
  \A s \in Sessions : s \in resumed \/ pc[s] \in {"none", "queued"}
                        => s \notin controllers /\ s \notin aborted

(* One call of createSession at a time, and a launch is prepared while no   *)
(* sandbox runs that the call has seen.                                     *)
OneCreates ==
  \A r, s \in Sessions \ resumed : pc[r] \in Creating /\ pc[s] \in Creating => r = s
PreparedUnused == \A s \in Sessions : pc[s] = "preparing" => up = 0 \/ s \in blind

CallInv == QueueWaits /\ ResumedPcs /\ FreshUnaborted /\ OneCreates /\ PreparedUnused
DesktopInv == TypeOK /\ CallInv

-----------------------------------------------------------------------------
LEMMA NumberKinds ==
  /\ 0 \in Launches /\ 1 \in Launches /\ 0 \in 0..MaxTries - 1
  /\ \A n \in Launches : n < MaxLaunches => n + 1 \in Launches
  /\ \A n \in 0..MaxTries - 1 : n + 1 < MaxTries => n + 1 \in 0..MaxTries - 1
BY DesktopAssumption DEF Launches

LEMMA StringKinds ==
  /\ {"queued", "seeking", "checking", "finding", "stopping", "preparing", "starting",
      "discovering", "probing", "connecting", "capturing", "retrying", "killing", "removing",
      "resolved", "rejected"} \subseteq Pcs
  /\ {"provisioning", "starting", "active", "busy", "error", "closed"} \subseteq Statuses
BY DEF Pcs, Creating, Awaiting, Ended, Statuses

LEMMA InitTypes == Init => TypeOK
BY NumberKinds, DesktopAssumption
   DEF Init, TypeOK, Pcs, Creating, Awaiting, Ended, Statuses, Work, IdleCloser, Dirs

(* The steps with more than one outcome.                                    *)
LEMMA GotoTypes ==
  ASSUME TypeOK, NEW s \in Sessions, NEW p \in Pcs, Goto(s, p)
  PROVE  pc' \in [Sessions -> Pcs]
BY DEF TypeOK, Goto

LEMMA CheckTypes == ASSUME TypeOK, NEW s \in Sessions, Check(s) PROVE TypeOK'
<1>1. Goto(s, "finding") \/ Goto(s, "preparing") BY DEF Check, MakeDir
<1>b. blind' \subseteq Sessions BY DEF Check, TypeOK
<1>2. pc' \in [Sessions -> Pcs] BY <1>1, GotoTypes, StringKinds
<1>3. \/ UNCHANGED <<dirs, tempDir>>
      \/ dirs' = dirs \cup {s} /\ tempDir' = [tempDir EXCEPT ![s] = s]
  BY DEF Check, MakeDir, fileVars
<1>4. address' = address BY DEF Check, MakeDir, fileVars
<1>5. /\ dirs \subseteq Dirs /\ s \in Dirs
      /\ tempDir \in [Sessions -> Dirs \cup {NoDir}]
  BY DEF TypeOK, Dirs
<1>6. dirs' \subseteq Dirs BY <1>3, <1>5
<1>7. tempDir' \in [Sessions -> Dirs \cup {NoDir}] BY <1>3, <1>5
<1> QED BY <1>b, <1>2, <1>4, <1>6, <1>7 DEF Check, TypeOK, sessVars

LEMMA FindsTypes == ASSUME TypeOK, NEW s \in Sessions, Find(s) PROVE TypeOK'
<1>1. Goto(s, "killing") \/ Goto(s, "probing") \/ Goto(s, "stopping") BY DEF Find
<1>2. pc' \in [Sessions -> Pcs] BY <1>1, GotoTypes, StringKinds
<1>3. \/ UNCHANGED <<tempDir, host>>
      \/ \E d \in dirs : tempDir' = [tempDir EXCEPT ![s] = d] /\ host' = [host EXCEPT ![s] = address[d]]
  BY DEF Find
<1>4. \A d \in dirs : d \in Dirs /\ address[d] \in Launches BY DEF TypeOK
<1>5. tempDir' \in [Sessions -> Dirs \cup {NoDir}] /\ host' \in [Sessions -> Launches]
  BY <1>3, <1>4 DEF TypeOK
<1> QED BY <1>2, <1>5 DEF Find, TypeOK, boxVars

LEMMA ConnectFailsTypes == ASSUME TypeOK, NEW s \in Sessions, ConnectFails(s) PROVE TypeOK'
<1>1. Goto(s, "killing") \/ Goto(s, "rejected") \/ Goto(s, "retrying") BY DEF ConnectFails, Throw
<1>2. pc' \in [Sessions -> Pcs] BY <1>1, GotoTypes, StringKinds
<1>3. \/ tries' = tries
      \/ tries[s] + 1 < MaxTries /\ tries' = [tries EXCEPT ![s] = tries[s] + 1]
  BY DEF ConnectFails
<1>4. tries' \in [Sessions -> 0..MaxTries - 1]
  <2>1. tries \in [Sessions -> 0..MaxTries - 1] BY DEF TypeOK
  <2>2. tries[s] + 1 < MaxTries => tries[s] + 1 \in 0..MaxTries - 1 BY <2>1, NumberKinds
  <2> QED BY <1>3, <2>1, <2>2
<1>5. \E st \in Statuses : status' = [status EXCEPT ![s] = st] BY StringKinds DEF ConnectFails
<1>6. link' = link \/ link' = [link EXCEPT ![s] = 0] BY DEF ConnectFails
<1>7. controllers' \subseteq controllers BY DEF ConnectFails, Throw
<1>8. status' \in [Sessions -> Statuses] /\ link' \in [Sessions -> Launches]
  BY <1>5, <1>6, NumberKinds DEF TypeOK
<1> QED BY <1>2, <1>4, <1>7, <1>8 DEF ConnectFails, TypeOK, boxVars, fileVars

LEMMA UpKind == TypeOK => up \in Launches
<1> SUFFICES ASSUME TypeOK PROVE up \in Launches OBVIOUS
<1>1. up \in 0..launched /\ launched \in 0..MaxLaunches BY DEF TypeOK, Launches
<1>2. MaxLaunches \in Nat BY DesktopAssumption
<1> QED BY <1>1, <1>2 DEF Launches

LEMMA SeekTypes == ASSUME TypeOK, NEW s \in Sessions, Seek(s) PROVE TypeOK'
<1>1. Goto(s, "connecting") \/ Goto(s, "rejected") BY DEF Seek
<1>2. pc' \in [Sessions -> Pcs] BY <1>1, GotoTypes, StringKinds
<1>3. \/ UNCHANGED <<host, status, open>>
      \/ /\ host' = [host EXCEPT ![s] = up] /\ status' = [status EXCEPT ![s] = "starting"]
         /\ open' = open \cup {s}
  BY DEF Seek
<1>4. up \in Launches BY UpKind
<1>5. /\ host' \in [Sessions -> Launches] /\ status' \in [Sessions -> Statuses]
      /\ open' \subseteq Sessions
  BY <1>3, <1>4, StringKinds DEF TypeOK
<1> QED BY <1>2, <1>5 DEF Seek, TypeOK, boxVars, fileVars

LEMMA StopTypes ==
  ASSUME TypeOK, TryStop
  PROVE  up' \in 0..launched /\ home' \in Dirs \cup {NoDir}
BY DEF TypeOK, TryStop, Stop, Launches

LEMMA RemoveTypes ==
  ASSUME TypeOK, NEW s \in Sessions \cup {NoSession}, RemoveDir(s)
  PROVE  /\ dirs' \subseteq Dirs /\ address' \in [Dirs -> Launches]
         /\ tempDir' \in [Sessions -> Dirs \cup {NoDir}]
BY NumberKinds DEF TypeOK, RemoveDir

LEMMA CloserTypes == ASSUME TypeOK, NEW c \in Closers, CloseStep(c) PROVE TypeOK'
<1> DEFINE Kinds == [pc : {"none", "killing", "removing", "done"}, s : Sessions \cup {NoSession}]
<1>1. closer[c] \in Kinds BY DEF TypeOK
<1>2. ASSUME NEW p \in {"removing", "done"}, closer' = [closer EXCEPT ![c].pc = p]
      PROVE  closer' \in [Closers -> Kinds]
  <2>1. closer' = [closer EXCEPT ![c] = [closer[c] EXCEPT !.pc = p]] BY <1>2
  <2>2. [closer[c] EXCEPT !.pc = p] \in Kinds BY <1>1
  <2> HIDE DEF Kinds
  <2>3. closer \in [Closers -> Kinds] BY DEF TypeOK, Kinds
  <2> QED BY <2>1, <2>2, <2>3
<1>3. closer' \in [Closers -> Kinds] BY <1>2 DEF CloseStep, CloseKill, CloseRemove
<1>4. CASE CloseKill(c)
  <2>1. up' \in 0..launched /\ home' \in Dirs \cup {NoDir}
    BY <1>4, StopTypes DEF CloseKill
  <2> QED BY <1>3, <1>4, <2>1 DEF CloseKill, TypeOK, callVars, sessVars, fileVars
<1>5. CASE CloseRemove(c)
  <2>1. open' \subseteq open BY <1>5 DEF CloseRemove
  <2>2. /\ dirs' \subseteq Dirs /\ address' \in [Dirs -> Launches]
        /\ tempDir' \in [Sessions -> Dirs \cup {NoDir}]
    BY <1>1, <1>5, RemoveTypes DEF CloseRemove
  <2> QED BY <1>3, <1>5, <2>1, <2>2 DEF CloseRemove, TypeOK, callVars, boxVars
<1> QED BY <1>4, <1>5 DEF CloseStep

(* The steps of a call before it has a sandbox.                             *)
LEMMA FindTypes ==
  ASSUME TypeOK, NEW s \in Sessions,
         Create(s) \/ Begin(s) \/ Check(s) \/ Find(s) \/ StopAll(s) \/ Spawn(s)
  PROVE  TypeOK'
<1> USE DesktopAssumption, StringKinds DEF TypeOK, Dirs, callVars, sessVars, boxVars, fileVars
<1>g. \A p \in Pcs : Goto(s, p) => pc' \in [Sessions -> Pcs] BY DEF Goto
<1>1. CASE Create(s)
  <2>1. queue' \in Seq(Sessions) BY <1>1, <1>g, AppendProperties DEF Create
  <2> QED BY <1>1, <1>g, <2>1 DEF Create
<1>2. CASE Begin(s)
  <2>1. queue' \in Seq(Sessions) BY <1>2, <1>g, HeadTailProperties DEF Begin
  <2> QED BY <1>2, <1>g, <2>1 DEF Begin
<1>3. CASE Check(s) BY <1>3, CheckTypes
<1>4. CASE Find(s) BY <1>4, FindsTypes
<1>5. CASE StopAll(s)
  <2>1. up' \in 0..launched /\ home' \in Dirs \cup {NoDir} BY <1>5, StopTypes DEF StopAll
  <2>2. blind' \subseteq Sessions BY <1>5 DEF StopAll
  <2> QED BY <1>5, <1>g, <2>1, <2>2 DEF StopAll, MakeDir
<1>6. CASE Spawn(s)
  <2>1. launched + 1 \in Launches /\ blind' \subseteq Sessions
    BY <1>6, NumberKinds DEF Spawn
  <2>2. up' \in 0..launched + 1 BY <1>6 DEF Spawn, Launches
  <2>3. home' \in Dirs \cup {NoDir} BY <1>6 DEF Spawn
  <2> QED BY <1>6, <1>g, <2>1, <2>2, <2>3 DEF Spawn
<1> QED BY <1>1, <1>2, <1>3, <1>4, <1>5, <1>6

(* The steps of a call that has one.                                        *)
LEMMA ConnectTypes ==
  ASSUME TypeOK, NEW s \in Sessions,
         \/ Fails(s) \/ Started(s) \/ Discover(s) \/ Probe(s) \/ Connect(s) \/ Capture(s)
         \/ ConnectFails(s) \/ Retry(s)
  PROVE  TypeOK'
<1> USE DesktopAssumption, StringKinds DEF TypeOK, Dirs, callVars, sessVars, boxVars, fileVars
<1>g. \A p \in Pcs : Goto(s, p) => pc' \in [Sessions -> Pcs] BY DEF Goto
<1>1. CASE Fails(s) BY <1>1, <1>g DEF Fails, Throw
<1>2. CASE Started(s) BY <1>2, <1>g DEF Started
<1>3. CASE Discover(s)
  <2>1. tempDir[s] \in Sessions \cup {Old} BY <1>3, <1>g DEF Discover
  <2>2. address[tempDir[s]] \in Launches BY <2>1
  <2> QED BY <1>3, <1>g, <2>2 DEF Discover
<1>4. CASE Probe(s) BY <1>4, <1>g DEF Probe
<1>5. CASE Connect(s) BY <1>5, <1>g DEF Connect
<1>6. CASE Capture(s) BY <1>6, <1>g DEF Capture
<1>7. CASE ConnectFails(s) BY <1>7, ConnectFailsTypes
<1>8. CASE Retry(s) BY <1>8, <1>g DEF Retry
<1> QED BY <1>1, <1>2, <1>3, <1>4, <1>5, <1>6, <1>7, <1>8

(* The ends of a call, and calls of resumeSession.                          *)
LEMMA EndTypes ==
  ASSUME TypeOK, NEW s \in Sessions,
         Abort(s) \/ Kill(s) \/ CleanUp(s) \/ Resume(s) \/ Seek(s)
  PROVE  TypeOK'
<1> USE DesktopAssumption, StringKinds DEF TypeOK, Dirs, callVars, sessVars, boxVars, fileVars
<1>g. \A p \in Pcs : Goto(s, p) => pc' \in [Sessions -> Pcs] BY DEF Goto
<1>1. CASE Abort(s) BY <1>1, <1>g DEF Abort
<1>2. CASE Kill(s) BY <1>2, <1>g, StopTypes DEF Kill
<1>3. CASE CleanUp(s) BY <1>3, <1>g, RemoveTypes DEF CleanUp
<1>4. CASE Resume(s) BY <1>4, <1>g DEF Resume
<1>5. CASE Seek(s) BY <1>5, SeekTypes
<1> QED BY <1>1, <1>2, <1>3, <1>4, <1>5

LEMMA CloseTypes ==
  ASSUME TypeOK, NEW c \in Closers,
         CloseKill(c) \/ CloseRemove(c) \/ \E s \in Sessions : Close(c, s)
  PROVE  TypeOK'
<1> USE DesktopAssumption, StringKinds DEF TypeOK, Dirs, callVars, sessVars, boxVars, fileVars
<1>1. CASE CloseKill(c) BY <1>1, CloserTypes DEF CloseStep
<1>2. CASE CloseRemove(c) BY <1>2, CloserTypes DEF CloseStep
<1>3. ASSUME NEW s \in Sessions, Close(c, s) PROVE TypeOK' BY <1>3, NumberKinds DEF Close
<1> QED BY <1>1, <1>2, <1>3

WorkStep(s) ==
  \/ Action(s) \/ ActionEnds(s) \/ Instruct(s) \/ Step(s) \/ StepEnds(s)
  \/ InstructionEnds(s) \/ InstructionFails(s)

LEMMA WorkTypes ==
  ASSUME TypeOK, NEW s \in Sessions, WorkStep(s)
  PROVE  TypeOK'
<1>1. \E w \in SUBSET Work, st \in Statuses : Does(s, w, st)
  <2>1. work[s] \in SUBSET Work BY DEF TypeOK
  <2> QED BY <2>1 DEF WorkStep, Action, ActionEnds, Instruct, Step, StepEnds, InstructionEnds,
          InstructionFails, Work, Statuses
<1>2. PICK w \in SUBSET Work, st \in Statuses : Does(s, w, st) BY <1>1
<1> QED BY <1>2 DEF Does, TypeOK, callVars, boxVars, fileVars

LEMMA BoxTypes ==
  ASSUME TypeOK, Report \/ SandboxCrash \/ (\E s \in Sessions : Disconnect(s)) \/ UNCHANGED vars
  PROVE  TypeOK'
<1> USE NumberKinds DEF TypeOK, Statuses, callVars, sessVars, boxVars, fileVars
<1>1. CASE Report BY <1>1, UpKind DEF Report
<1>2. CASE SandboxCrash BY <1>2 DEF SandboxCrash, Stop, Launches
<1>3. ASSUME NEW s \in Sessions, Disconnect(s) PROVE TypeOK' BY <1>3 DEF Disconnect
<1>4. CASE UNCHANGED vars BY <1>4 DEF vars
<1> QED BY <1>1, <1>2, <1>3, <1>4

LEMMA TypesKept == TypeOK /\ [Next]_vars => TypeOK'
BY FindTypes, ConnectTypes, EndTypes, CloseTypes, WorkTypes, BoxTypes
   DEF Next, CreateStep, CloseStep, WorkStep

(* Every variable keeps its kind.                                           *)
THEOREM TypeCorrect == Spec => []TypeOK
BY InitTypes, TypesKept, PTL DEF Spec

-----------------------------------------------------------------------------
(* What the steps of a call that has begun have in common.                  *)
Moves(s) ==
  /\ pc[s] \in Creating
  /\ UNCHANGED <<queue, resumed, aborted>>
  /\ \E p \in Creating \cup Ended :
       /\ pc' = [pc EXCEPT ![s] = p]
       /\ s \in resumed => p \in {"capturing"} \cup Ended
       /\ p = "preparing" => up' = 0 \/ s \in blind'
       /\ blind \subseteq blind' \cup {s}
       /\ controllers' = controllers \/ (controllers' = controllers \ {s} /\ p \in Ended)
       /\ up' \in {0, up} \/ (pc[s] = "preparing" /\ p # "preparing")

LEMMA StepMoves ==
  ASSUME TypeOK, CallInv, NEW s \in Sessions, CreateStep(s), ~Begin(s)
  PROVE  Moves(s)
<1> USE DEF Goto, Creating, Awaiting, Ended, boxVars, fileVars, sessVars
<1>r. s \in resumed => pc[s] \in {"seeking", "connecting", "capturing", "resolved", "rejected"}
      /\ s \notin aborted
  BY DEF CallInv, ResumedPcs, FreshUnaborted
<1>1. CASE Check(s)
  <2>1. CASE Goto(s, "finding") BY <1>1, <1>r, <2>1 DEF Check, MakeDir, Moves
  <2>2. CASE MakeDir(s) BY <1>1, <1>r, <2>2 DEF Check, MakeDir, Moves
  <2> QED BY <1>1, <2>1, <2>2 DEF Check
<1>2. CASE Find(s) BY <1>2, <1>r DEF Find, Moves
<1>3. CASE StopAll(s) BY <1>3, <1>r DEF StopAll, TryStop, Stop, MakeDir, Moves
<1>4. CASE Spawn(s) BY <1>4, <1>r DEF Spawn, Moves
<1>5. CASE Fails(s)
  <2>1. s \notin resumed BY <1>5, <1>r DEF Fails
  <2>2. CASE s \in aborted BY <1>5, <2>1, <2>2 DEF Fails, Throw, Moves
  <2>3. CASE s \notin aborted BY <1>5, <2>1, <2>3 DEF Fails, Throw, Moves
  <2> QED BY <2>2, <2>3
<1>6. CASE Started(s) BY <1>6, <1>r DEF Started, Moves
<1>7. CASE Discover(s) BY <1>7, <1>r DEF Discover, Moves
<1>8. CASE Probe(s) BY <1>8, <1>r DEF Probe, Moves
<1>9. CASE Connect(s) BY <1>9, <1>r DEF Connect, Moves
<1>10. CASE Capture(s) BY <1>10, <1>r DEF Capture, Moves
<1>11. CASE ConnectFails(s)
  <2>1. /\ s \notin aborted /\ pc[s] \in {"connecting", "capturing"}
        /\ UNCHANGED <<queue, resumed, aborted, up, blind>>
    BY <1>11 DEF ConnectFails
  <2>2. \/ Goto(s, "rejected") /\ controllers' = controllers \ {s}
        \/ s \notin resumed /\ Goto(s, "retrying") /\ controllers' = controllers
    BY <1>11, <2>1 DEF ConnectFails, Throw
  <2> QED BY <2>1, <2>2 DEF Moves
<1>12. CASE Retry(s) BY <1>12, <1>r DEF Retry, Moves
<1>13. CASE Abort(s) BY <1>13, <1>r DEF Abort, Moves
<1>14. CASE Kill(s) BY <1>14, <1>r DEF Kill, TryStop, Stop, Moves
<1>15. CASE CleanUp(s) BY <1>15, <1>r DEF CleanUp, Moves
<1> QED BY <1>1, <1>2, <1>3, <1>4, <1>5, <1>6, <1>7, <1>8, <1>9, <1>10, <1>11, <1>12, <1>13,
        <1>14, <1>15 DEF CreateStep

LEMMA MovesKeeps ==
  ASSUME TypeOK, CallInv, CreationAbortable, NEW s \in Sessions, Moves(s)
  PROVE  CallInv' /\ CreationAbortable'
<1> USE DEF CallInv, TypeOK
<1>1. PICK p \in Creating \cup Ended :
        /\ pc' = [pc EXCEPT ![s] = p]
        /\ s \in resumed => p \in {"capturing"} \cup Ended
        /\ p = "preparing" => up' = 0 \/ s \in blind'
        /\ blind \subseteq blind' \cup {s}
        /\ controllers' = controllers \/ (controllers' = controllers \ {s} /\ p \in Ended)
        /\ up' \in {0, up} \/ (pc[s] = "preparing" /\ p # "preparing")
  BY DEF Moves
<1>2. pc[s] \in Creating /\ UNCHANGED <<queue, resumed, aborted>> BY DEF Moves
<1>3. pc[s] \notin {"none", "queued", "seeking"} /\ p \notin {"none", "queued", "seeking"}
  BY <1>1, <1>2 DEF Creating, Awaiting, Ended
<1>4. \A r \in Sessions : pc'[r] = IF r = s THEN p ELSE pc[r] BY <1>1
<1>5. QueueWaits'
  <2>1. \A i \in 1..Len(queue) : queue[i] \in Sessions OBVIOUS
  <2> QED BY <1>2, <1>3, <1>4, <2>1 DEF QueueWaits
<1>6. ResumedPcs' BY <1>1, <1>2, <1>3, <1>4 DEF ResumedPcs
<1>7. FreshUnaborted' BY <1>1, <1>2, <1>3, <1>4 DEF FreshUnaborted
<1>8. OneCreates' BY <1>2, <1>4 DEF OneCreates
<1>9. PreparedUnused'
  <2>1. CASE up' \in {0, up}
    <3>1. ASSUME NEW r \in Sessions \ {s}, pc'[r] = "preparing" PROVE up' = 0 \/ r \in blind'
      BY <1>1, <1>4, <2>1, <3>1 DEF PreparedUnused
    <3>2. pc'[s] = "preparing" => up' = 0 \/ s \in blind' BY <1>1, <1>4
    <3> QED BY <3>1, <3>2 DEF PreparedUnused
  <2>2. CASE pc[s] = "preparing" /\ p # "preparing"
    <3>1. \A r \in Sessions : pc[r] = "preparing" => r = s
      BY <2>2 DEF OneCreates, ResumedPcs, Creating, Ended
    <3> QED BY <1>4, <2>2, <3>1 DEF PreparedUnused
  <2> QED BY <1>1, <2>1, <2>2
<1>10. CreationAbortable'
  <2>1. p \in Ended => p \notin Creating BY DEF Ended, Creating, Awaiting
  <2> QED BY <1>1, <1>2, <1>4, <2>1 DEF CreationAbortable
<1> QED BY <1>5, <1>6, <1>7, <1>8, <1>9, <1>10

(* A call comes, its turn comes, or it resumes.                             *)
LEMMA ComesKeeps ==
  ASSUME TypeOK, CallInv, CreationAbortable, NEW s \in Sessions,
         Create(s) \/ Begin(s) \/ Resume(s) \/ Seek(s)
  PROVE  CallInv' /\ CreationAbortable'
<1>t. queue \in Seq(Sessions) /\ pc \in [Sessions -> Pcs] /\ resumed \subseteq Sessions
  BY DEF TypeOK
<1> USE <1>t DEF CallInv
<1>q. \A i \in 1..Len(queue) : queue[i] \in Sessions OBVIOUS
<1>1. CASE Create(s)
  <2>1. /\ pc[s] = "none" /\ queue' = Append(queue, s)
        /\ UNCHANGED <<resumed, controllers, aborted, up, blind>>
        /\ \A r \in Sessions : pc'[r] = IF r = s THEN "queued" ELSE pc[r]
    BY <1>1 DEF Create, Goto, boxVars
  <2>2. /\ Len(queue') = Len(queue) + 1 /\ queue'[Len(queue) + 1] = s
        /\ \A i \in 1..Len(queue) : queue'[i] = queue[i]
    BY <2>1, AppendProperties
  <2>3. \A i \in 1..Len(queue) : queue[i] # s BY <2>1 DEF QueueWaits
  <2>4. Len(queue) \in Nat BY LenProperties
  <2>5. QueueWaits'
    <3>1. \A i \in 1..Len(queue') : i \in 1..Len(queue) \/ i = Len(queue) + 1 BY <2>2, <2>4
    <3>2. ASSUME NEW i \in 1..Len(queue') PROVE pc'[queue'[i]] = "queued"
      <4>1. CASE i \in 1..Len(queue) BY <1>q, <2>1, <2>2, <2>3, <4>1 DEF QueueWaits
      <4>2. CASE i = Len(queue) + 1 BY <1>q, <2>1, <2>2, <4>2
      <4> QED BY <3>1, <4>1, <4>2
    <3>3. ASSUME NEW i \in 1..Len(queue'), NEW j \in 1..Len(queue'), queue'[i] = queue'[j]
          PROVE  i = j
      <4>1. CASE i \in 1..Len(queue) /\ j \in 1..Len(queue)
        <5>1. queue[i] = queue[j] BY <2>2, <3>3, <4>1
        <5> QED BY <4>1, <5>1 DEF QueueWaits
      <4>2. CASE i = Len(queue) + 1 /\ j \in 1..Len(queue) BY <2>2, <2>3, <3>3, <4>2
      <4>3. CASE j = Len(queue) + 1 /\ i \in 1..Len(queue) BY <2>2, <2>3, <3>3, <4>3
      <4> QED BY <3>1, <4>1, <4>2, <4>3
    <3> QED BY <3>2, <3>3 DEF QueueWaits
  <2>6. ResumedPcs' BY <2>1 DEF ResumedPcs, Ended
  <2>7. FreshUnaborted' BY <2>1 DEF FreshUnaborted
  <2>c. "queued" \notin Creating BY DEF Creating, Awaiting
  <2>8. OneCreates' /\ PreparedUnused' BY <2>1, <2>c DEF OneCreates, PreparedUnused
  <2>9. CreationAbortable' BY <2>1, <2>c DEF CreationAbortable
  <2> QED BY <2>5, <2>6, <2>7, <2>8, <2>9
<1>2. CASE Begin(s)
  <2>1. /\ queue # <<>> /\ s = Head(queue) /\ queue' = Tail(queue)
        /\ \A r \in Sessions \ resumed : pc[r] \notin Creating
        /\ controllers' = controllers \cup {s}
        /\ UNCHANGED <<resumed, aborted, up, blind>>
        /\ \A r \in Sessions : pc'[r] = IF r = s THEN "checking" ELSE pc[r]
    BY <1>2 DEF Begin, Goto, boxVars
  <2>2. /\ Len(queue) \in Nat \ {0} /\ queue[1] = s /\ Len(queue') = Len(queue) - 1
        /\ \A i \in 1..Len(queue') : queue'[i] = queue[i + 1]
    BY <2>1, HeadTailProperties, LenProperties, EmptySeq
  <2>3. pc[s] = "queued" BY <2>2 DEF QueueWaits
  <2>4. s \notin resumed BY <2>3 DEF ResumedPcs, Ended
  <2>5. QueueWaits'
    <3>1. \A i \in 1..Len(queue') : i + 1 \in 1..Len(queue) /\ i + 1 # 1 BY <2>2
    <3>2. \A i \in 1..Len(queue') : queue'[i] # s BY <2>2, <3>1 DEF QueueWaits
    <3>3. \A i \in 1..Len(queue') : pc'[queue'[i]] = "queued"
      BY <1>q, <2>1, <2>2, <3>1, <3>2 DEF QueueWaits
    <3>4. ASSUME NEW i \in 1..Len(queue'), NEW j \in 1..Len(queue'), queue'[i] = queue'[j]
          PROVE  i = j
      <4>1. queue[i + 1] = queue[j + 1] BY <2>2, <3>4
      <4>2. i + 1 = j + 1 BY <3>1, <4>1 DEF QueueWaits
      <4> QED BY <4>2
    <3> QED BY <3>3, <3>4 DEF QueueWaits
  <2>6. ResumedPcs' BY <2>1, <2>4 DEF ResumedPcs
  <2>7. FreshUnaborted' BY <2>1, <2>3, <2>4 DEF FreshUnaborted
  <2>8. OneCreates' /\ PreparedUnused' BY <2>1 DEF OneCreates, PreparedUnused
  <2>9. CreationAbortable' BY <2>1, <2>3 DEF CreationAbortable, FreshUnaborted
  <2> QED BY <2>5, <2>6, <2>7, <2>8, <2>9
<1>3. CASE Resume(s) \/ Seek(s)
  <2>1. /\ pc[s] = "none" \/ (pc[s] = "seeking" /\ s \in resumed)
        /\ UNCHANGED <<queue, controllers, aborted, up, blind>>
        /\ resumed' = resumed \cup {s}
        /\ \E p \in {"seeking", "connecting", "rejected"} :
             \A r \in Sessions : pc'[r] = IF r = s THEN p ELSE pc[r]
    BY <1>3 DEF Resume, Seek, Goto, boxVars, ResumedPcs
  <2>2. PICK p \in {"seeking", "connecting", "rejected"} :
             \A r \in Sessions : pc'[r] = IF r = s THEN p ELSE pc[r]
    BY <2>1
  <2>3. \A i \in 1..Len(queue) : queue[i] # s BY <2>1 DEF QueueWaits
  <2>4. QueueWaits' BY <1>q, <2>1, <2>2, <2>3 DEF QueueWaits
  <2>5. ResumedPcs' BY <2>1, <2>2 DEF ResumedPcs, Ended
  <2>6. FreshUnaborted' BY <2>1, <2>2 DEF FreshUnaborted
  <2>7. OneCreates' /\ PreparedUnused' /\ CreationAbortable'
    BY <2>1, <2>2 DEF OneCreates, PreparedUnused, CreationAbortable
  <2> QED BY <2>4, <2>5, <2>6, <2>7
<1> QED BY <1>1, <1>2, <1>3

(* Everybody else leaves the calls alone, but may abort one.                *)
LEMMA OthersKeep ==
  ASSUME TypeOK, CallInv, CreationAbortable,
         \/ \E s \in Sessions : WorkStep(s) \/ Disconnect(s)
         \/ \E c \in Closers : CloseStep(c) \/ \E s \in Sessions : Close(c, s)
         \/ Report \/ SandboxCrash \/ UNCHANGED vars
  PROVE  CallInv' /\ CreationAbortable'
<1>1. UNCHANGED <<callVars, blind>> /\ up' \in {0, up}
  BY DEF WorkStep, Action, ActionEnds, Instruct, Step, StepEnds, InstructionEnds, InstructionFails,
     Does, Disconnect, CloseStep, CloseKill, CloseRemove, Close, Report, SandboxCrash, TryStop, Stop,
     boxVars, vars
<1>2. \/ UNCHANGED <<controllers, aborted>>
      \/ \E s \in Sessions : /\ controllers' = controllers \ {s}
                             /\ aborted' = IF s \in controllers THEN aborted \cup {s} ELSE aborted
  BY DEF WorkStep, Action, ActionEnds, Instruct, Step, StepEnds, InstructionEnds, InstructionFails,
     Does, Disconnect, CloseStep, CloseKill, CloseRemove, Close, Report, SandboxCrash, vars
<1>3. QueueWaits' /\ ResumedPcs' /\ OneCreates' /\ PreparedUnused'
  BY <1>1 DEF CallInv, QueueWaits, ResumedPcs, OneCreates, PreparedUnused, callVars
<1>4. FreshUnaborted' /\ CreationAbortable'
  BY <1>1, <1>2 DEF CallInv, FreshUnaborted, CreationAbortable, callVars
<1> QED BY <1>3, <1>4 DEF CallInv

LEMMA CallsKept == DesktopInv /\ CreationAbortable /\ [Next]_vars => CallInv' /\ CreationAbortable'
BY StepMoves, MovesKeeps, ComesKeeps, OthersKeep DEF DesktopInv, Next, WorkStep

LEMMA InitCalls == Init => CallInv /\ CreationAbortable
<1> SUFFICES ASSUME Init PROVE CallInv /\ CreationAbortable
  OBVIOUS
<1>1. \A s \in Sessions : pc[s] = "none" BY DEF Init
<1>2. Len(queue) = 0 /\ resumed = {} /\ controllers = {} /\ aborted = {} BY DEF Init
<1> QED BY <1>1, <1>2 DEF CallInv, QueueWaits, ResumedPcs, FreshUnaborted, OneCreates,
     PreparedUnused, CreationAbortable, Creating, Awaiting

(* A creation has its controller as long as it was not aborted.             *)
THEOREM AbortableCorrect == Spec => []CreationAbortable
<1>1. Init => DesktopInv /\ CreationAbortable BY InitTypes, InitCalls DEF DesktopInv
<1>2. DesktopInv /\ CreationAbortable /\ [Next]_vars => DesktopInv' /\ CreationAbortable'
  BY TypesKept, CallsKept DEF DesktopInv
<1> QED BY <1>1, <1>2, PTL DEF Spec

(* The sandbox is launched while one runs only by a call that missed it or  *)
(* could not kill it.                                                       *)
THEOREM LaunchesCorrect == Spec => NoDoubleLaunch
<1>1. Init => DesktopInv /\ CreationAbortable BY InitTypes, InitCalls DEF DesktopInv
<1>2. DesktopInv /\ CreationAbortable /\ [Next]_vars => DesktopInv' /\ CreationAbortable'
  BY TypesKept, CallsKept DEF DesktopInv
<1> DEFINE Allowed == \E s \in blind : pc[s] = "preparing" /\ pc'[s] # "preparing"
<1>3. DesktopInv /\ [Next]_vars => (launched' # launched /\ up # 0 => Allowed)
  <2> SUFFICES ASSUME DesktopInv, Next, launched' # launched, up # 0 PROVE Allowed
    BY DEF vars, boxVars
  <2>1. \A s \in Sessions : CreateStep(s) => Spawn(s)
    BY DEF CreateStep, Begin, Check, Find, StopAll, Fails, Started, Discover, Probe,
       Connect, Capture, ConnectFails, Retry, Abort, Kill, CleanUp, boxVars
  <2>2. \A s \in Sessions : ~WorkStep(s) /\ ~Create(s) /\ ~Resume(s) /\ ~Seek(s) /\ ~Disconnect(s)
    BY DEF WorkStep, Action, ActionEnds, Instruct, Step, StepEnds, InstructionEnds,
       InstructionFails, Does, Create, Resume, Seek, Disconnect, boxVars
  <2>3. \A c \in Closers : ~CloseStep(c) /\ \A s \in Sessions : ~Close(c, s)
    BY DEF CloseStep, CloseKill, CloseRemove, Close, boxVars
  <2>4. ~Report /\ ~SandboxCrash BY DEF Report, SandboxCrash, boxVars
  <2>5. PICK s \in Sessions : Spawn(s) BY <2>1, <2>2, <2>3, <2>4 DEF Next, WorkStep
  <2>6. pc[s] = "preparing" /\ s \in blind
    BY <2>5 DEF Spawn, DesktopInv, CallInv, PreparedUnused
  <2>7. pc'[s] # "preparing" BY <2>5 DEF Spawn, Goto, DesktopInv, TypeOK
  <2> QED BY <2>6, <2>7
<1> QED BY <1>1, <1>2, <1>3, PTL DEF Spec, NoDoubleLaunch

(* A session is busy only while something is done in it.                    *)
THEOREM BusyCorrect == Spec => []BusyIsWorking
<1> USE DEF BusyIsWorking
<1>1. Init => BusyIsWorking BY DEF Init
<1>2. TypeOK /\ BusyIsWorking /\ [Next]_vars => BusyIsWorking'
  <2> SUFFICES ASSUME TypeOK, BusyIsWorking, [Next]_vars PROVE BusyIsWorking'
    OBVIOUS
  <2>1. ASSUME NEW s \in Sessions, WorkStep(s) PROVE BusyIsWorking'
    <3>1. \E w \in SUBSET Work, st \in Statuses : Does(s, w, st) /\ (st = "busy" => w # {})
      <4>1. work[s] \in SUBSET Work BY DEF TypeOK
      <4> QED BY <2>1, <4>1 DEF WorkStep, Action, ActionEnds, Instruct, Step, StepEnds,
              InstructionEnds, InstructionFails, Work, Statuses
    <3> QED BY <3>1 DEF Does, TypeOK
  <2>2. CASE UNCHANGED <<work, status>> BY <2>2
  <2>3. ASSUME work' = work, NEW s \in Sessions, NEW st \in Statuses \ {"busy"},
               status' = [status EXCEPT ![s] = st]
        PROVE  BusyIsWorking'
    BY <2>3 DEF TypeOK
  <2>4. ASSUME NEW s \in Sessions, CreateStep(s) PROVE BusyIsWorking'
    <3>1. work' = work
      BY <2>4 DEF CreateStep, Begin, Check, Find, StopAll, Spawn, Fails, Started, Discover, Probe,
         Connect, Capture, ConnectFails, Retry, Abort, Kill, CleanUp
    <3>2. status' = status \/ \E st \in Statuses \ {"busy"} : status' = [status EXCEPT ![s] = st]
      <4>1. CASE Abort(s)
        <5>1. CASE pc[s] \in {"connecting", "capturing"} BY <4>1, <5>1 DEF Abort, Statuses
        <5>2. CASE pc[s] \notin {"connecting", "capturing"}
          BY <4>1, <5>2 DEF Abort, TypeOK
        <5> QED BY <5>1, <5>2
      <4>2. CASE ConnectFails(s) BY <4>2 DEF ConnectFails, Statuses
      <4>3. CASE Probe(s) \/ Capture(s) \/ Retry(s)
        BY <4>3 DEF Probe, Capture, Retry, Statuses
      <4> QED BY <2>4, <4>1, <4>2, <4>3 DEF CreateStep, Begin, Check, Find, StopAll, Spawn, Fails,
              Started, Discover, Connect, Kill, CleanUp, sessVars
    <3> QED BY <2>2, <2>3, <3>1, <3>2
  <2>5. ASSUME NEW s \in Sessions, Create(s) \/ Resume(s) \/ Seek(s) \/ Disconnect(s)
        PROVE  BusyIsWorking'
    <3>1. /\ work' = work
          /\ status' = status \/ \E st \in Statuses \ {"busy"} : status' = [status EXCEPT ![s] = st]
      BY <2>5 DEF Create, Resume, Seek, Disconnect, Statuses, sessVars
    <3> QED BY <2>2, <2>3, <3>1
  <2>6. ASSUME NEW c \in Closers, NEW s \in Sessions, Close(c, s) PROVE BusyIsWorking'
    BY <2>3, <2>6 DEF Close, Statuses
  <2>7. ASSUME NEW c \in Closers, CloseStep(c) PROVE BusyIsWorking'
    BY <2>2, <2>7 DEF CloseStep, CloseKill, CloseRemove, sessVars
  <2>8. CASE Report \/ SandboxCrash \/ UNCHANGED vars
    BY <2>2, <2>8 DEF Report, SandboxCrash, vars, sessVars
  <2> QED BY <2>1, <2>4, <2>5, <2>6, <2>7, <2>8 DEF Next, WorkStep
<1> QED BY <1>1, <1>2, TypeCorrect, PTL DEF Spec
-----------------------------------------------------------------------------
(* Why a session that is handed over is still the manager's.  Only a closer  *)
(* sets a session to closed, and it takes it out of the map later; so the    *)
(* map, the status and the closers are followed together: nobody has touched *)
(* a session before its creation begins, and nobody touches it during its    *)
(* creation without aborting it.                                             *)
IsClosing(c, s) == closer[c].pc \in {"killing", "removing"} /\ closer[c].s = s
Untouched(s) == status[s] # "closed" /\ \A c \in Closers : ~IsClosing(c, s)

OpenInv ==
  /\ \A s \in Sessions : pc[s] \in {"none", "queued"} => s \notin open /\ Untouched(s)
  /\ \A s \in Sessions \ resumed :
       pc[s] \in Creating /\ s \notin aborted => s \in open /\ Untouched(s)

LEMMA InitOpen == Init => OpenInv
BY DEF Init, OpenInv, Untouched, IsClosing, IdleCloser, Creating, Awaiting

(* Steps that close nothing: a session that is made was made before, or      *)
(* begins now and is put into the map.                                       *)
LEMMA OpenStays ==
  ASSUME OpenInv, UNCHANGED <<closer, aborted>>,
         \A s \in Sessions : status'[s] = "closed" => status[s] = "closed",
         \A s \in Sessions : pc'[s] \in {"none", "queued"} =>
           pc[s] \in {"none", "queued"} /\ (s \in open' => s \in open),
         \A s \in Sessions \ resumed' : pc'[s] \in Creating =>
           /\ s \notin resumed
           /\ \/ pc[s] \in Creating /\ (s \in open => s \in open')
              \/ pc[s] = "queued" /\ s \in open'
  PROVE  OpenInv'
<1>1. \A s \in Sessions : Untouched(s) => Untouched(s)'
  BY DEF Untouched, IsClosing
<1> QED BY <1>1 DEF OpenInv

(* What a step of a creation that has begun does to the map.                 *)
LEMMA StepOpens ==
  ASSUME TypeOK, CallInv, NEW s \in Sessions, CreateStep(s), ~Begin(s)
  PROVE  /\ closer' = closer
         /\ status' = status \/ \E st \in Statuses \ {"closed"} : status' = [status EXCEPT ![s] = st]
         /\ open' = open \/ (open' = open \ {s} /\ pc'[s] = "rejected")
         /\ pc'[s] = "resolved" => Capture(s)
<1> USE DEF TypeOK, Goto, sessVars, boxVars, fileVars, Statuses
<1>1. CASE Check(s) BY <1>1 DEF Check, MakeDir
<1>2. CASE Find(s) BY <1>2 DEF Find
<1>3. CASE StopAll(s) BY <1>3 DEF StopAll, MakeDir
<1>4. CASE Spawn(s) BY <1>4 DEF Spawn
<1>5. CASE Fails(s) BY <1>5 DEF Fails, Throw
<1>6. CASE Started(s) BY <1>6 DEF Started
<1>7. CASE Discover(s) BY <1>7 DEF Discover
<1>8. CASE Probe(s) BY <1>8 DEF Probe
<1>9. CASE Connect(s) BY <1>9 DEF Connect
<1>10. CASE Capture(s) BY <1>10 DEF Capture
<1>11. CASE ConnectFails(s) BY <1>11 DEF ConnectFails, Throw
<1>12. CASE Retry(s) BY <1>12 DEF Retry
<1>13. CASE Abort(s)
  <2>1. CASE pc[s] \in {"connecting", "capturing"} BY <1>13, <2>1 DEF Abort
  <2>2. CASE pc[s] \notin {"connecting", "capturing"} BY <1>13, <2>2 DEF Abort
  <2> QED BY <2>1, <2>2
<1>14. CASE Kill(s) BY <1>14 DEF Kill
<1>15. CASE CleanUp(s) BY <1>15 DEF CleanUp
<1> QED BY <1>1, <1>2, <1>3, <1>4, <1>5, <1>6, <1>7, <1>8, <1>9, <1>10, <1>11, <1>12, <1>13,
        <1>14, <1>15 DEF CreateStep

LEMMA CreateStepOpens ==
  ASSUME TypeOK, CallInv, OpenInv, NEW s \in Sessions, CreateStep(s)
  PROVE  OpenInv'
<1>t. pc \in [Sessions -> Pcs] /\ status \in [Sessions -> Statuses] BY DEF TypeOK
<1>1. CASE Begin(s)
  <2>1. /\ queue # <<>> /\ s = Head(queue) /\ open' = open \cup {s}
        /\ UNCHANGED <<closer, aborted, status, resumed>>
        /\ \A r \in Sessions : pc'[r] = IF r = s THEN "checking" ELSE pc[r]
    BY <1>1, <1>t DEF Begin, Goto
  <2>2. pc[s] = "queued"
    <3>1. Len(queue) \in Nat \ {0} /\ queue[1] = s
      BY <2>1, HeadTailProperties, LenProperties, EmptySeq DEF TypeOK
    <3> QED BY <3>1 DEF CallInv, QueueWaits
  <2>3. s \notin resumed BY <2>2 DEF CallInv, ResumedPcs, Ended
  <2> QED BY <2>1, <2>2, <2>3, OpenStays
<1>2. CASE ~Begin(s)
  <2>1. Moves(s) BY <1>2, StepMoves
  <2>2. PICK p \in Creating \cup Ended : pc' = [pc EXCEPT ![s] = p] BY <2>1 DEF Moves
  <2>3. /\ pc[s] \in Creating /\ UNCHANGED <<resumed, aborted>>
        /\ \A r \in Sessions : pc'[r] = IF r = s THEN p ELSE pc[r]
    BY <1>t, <2>1, <2>2 DEF Moves
  <2>4. /\ closer' = closer
        /\ status' = status \/ \E st \in Statuses \ {"closed"} : status' = [status EXCEPT ![s] = st]
        /\ open' = open \/ (open' = open \ {s} /\ pc'[s] = "rejected")
    BY <1>2, StepOpens
  <2>5. \A r \in Sessions : status'[r] = "closed" => status[r] = "closed" BY <1>t, <2>4
  <2>6. p \notin {"none", "queued"} /\ (p = "rejected" => p \notin Creating)
    BY DEF Creating, Awaiting, Ended
  <2> QED BY <2>3, <2>4, <2>5, <2>6, OpenStays
<1> QED BY <1>1, <1>2

(* Everybody else but the closers.                                           *)
LEMMA OtherStepOpens ==
  ASSUME TypeOK, CallInv, OpenInv,
         \/ \E s \in Sessions :
              Create(s) \/ Resume(s) \/ Seek(s) \/ WorkStep(s) \/ Disconnect(s)
         \/ Report \/ SandboxCrash \/ UNCHANGED vars
  PROVE  OpenInv'
<1>t. pc \in [Sessions -> Pcs] /\ status \in [Sessions -> Statuses] BY DEF TypeOK
<1>1. ASSUME NEW s \in Sessions, Create(s) PROVE OpenInv'
  <2>1. /\ pc[s] = "none" /\ UNCHANGED <<resumed, open, status, closer, aborted>>
        /\ \A r \in Sessions : pc'[r] = IF r = s THEN "queued" ELSE pc[r]
    BY <1>1, <1>t DEF Create, Goto, sessVars
  <2> QED BY <2>1, OpenStays DEF Creating, Awaiting
<1>2. ASSUME NEW s \in Sessions, Resume(s) PROVE OpenInv'
  <2>1. /\ pc[s] = "none" /\ UNCHANGED <<open, status, closer, aborted>>
        /\ resumed' = resumed \cup {s}
        /\ \A r \in Sessions : pc'[r] = IF r = s THEN "seeking" ELSE pc[r]
    BY <1>2, <1>t DEF Resume, Goto, sessVars
  <2> QED BY <2>1, OpenStays
<1>3. ASSUME NEW s \in Sessions, Seek(s) PROVE OpenInv'
  <2>1. /\ pc[s] = "seeking" /\ s \in resumed /\ UNCHANGED <<resumed, closer, aborted>>
        /\ open' = open \/ open' = open \cup {s}
        /\ status' = status \/ status' = [status EXCEPT ![s] = "starting"]
        /\ Goto(s, "connecting") \/ Goto(s, "rejected")
    BY <1>3 DEF Seek, CallInv, ResumedPcs
  <2>2. \A r \in Sessions \ {s} : pc'[r] = pc[r] BY <1>t, <2>1 DEF Goto
  <2>3. pc'[s] \notin {"none", "queued"} BY <1>t, <2>1 DEF Goto
  <2>4. \A r \in Sessions : status'[r] = "closed" => status[r] = "closed" BY <1>t, <2>1
  <2> QED BY <2>1, <2>2, <2>3, <2>4, OpenStays
<1>4. ASSUME NEW s \in Sessions, WorkStep(s) PROVE OpenInv'
  <2>1. \E w, st : st \in {"busy", "active", "error", status[s]} /\ Does(s, w, st)
    BY <1>4 DEF WorkStep, Action, ActionEnds, Instruct, Step, StepEnds, InstructionEnds,
       InstructionFails
  <2>2. PICK w, st : st \in {"busy", "active", "error", status[s]} /\ Does(s, w, st) BY <2>1
  <2>3. \A r \in Sessions : status'[r] = "closed" => status[r] = "closed" BY <1>t, <2>2 DEF Does
  <2> QED BY <2>2, <2>3, OpenStays DEF Does, callVars
<1>5. ASSUME NEW s \in Sessions, Disconnect(s) PROVE OpenInv'
  <2>1. \A r \in Sessions : status'[r] = "closed" => status[r] = "closed"
    BY <1>5, <1>t DEF Disconnect
  <2> QED BY <1>5, <2>1, OpenStays DEF Disconnect, callVars
<1>6. CASE Report \/ SandboxCrash \/ UNCHANGED vars
  BY <1>6, OpenStays DEF Report, SandboxCrash, vars, callVars, sessVars
<1> QED BY <1>1, <1>2, <1>3, <1>4, <1>5, <1>6

(* The closers: one takes only what is in the map, aborts it if it is being  *)
(* made, and removes what it took.                                           *)
LEMMA CloserOpens ==
  ASSUME TypeOK, CallInv, CreationAbortable, OpenInv, NEW c \in Closers,
         CloseStep(c) \/ \E s \in Sessions : Close(c, s)
  PROVE  OpenInv'
<1>k. closer \in [Closers -> [pc : {"none", "killing", "removing", "done"},
                             s : Sessions \cup {NoSession}]]
      /\ status \in [Sessions -> Statuses]
  BY DEF TypeOK
<1>1. ASSUME NEW s \in Sessions, Close(c, s) PROVE OpenInv'
  <2>1. /\ s \in open /\ UNCHANGED <<pc, resumed, open>>
        /\ aborted' = (IF s \in controllers THEN aborted \cup {s} ELSE aborted)
        /\ status' = [status EXCEPT ![s] = "closed"]
        /\ \A d \in Closers \ {c} : closer'[d] = closer[d]
        /\ closer'[c].s = s
    BY <1>1, <1>k DEF Close, callVars
  <2>2. \A r \in Sessions \ {s} : Untouched(r) => Untouched(r)'
    BY <1>k, <2>1 DEF Untouched, IsClosing
  <2>3. pc[s] \notin {"none", "queued"} BY <2>1 DEF OpenInv
  <2>4. s \notin resumed /\ pc[s] \in Creating => s \in aborted'
    BY <2>1 DEF CreationAbortable
  <2>5. aborted \subseteq aborted' BY <2>1
  <2> QED BY <2>1, <2>2, <2>3, <2>4, <2>5 DEF OpenInv
<1>2. CASE CloseKill(c)
  <2>1. /\ UNCHANGED <<pc, resumed, open, aborted, status>> /\ closer[c].pc = "killing"
        /\ closer' = [closer EXCEPT ![c].pc = "removing"]
    BY <1>2 DEF CloseKill, callVars, sessVars
  <2>2. /\ \A d \in Closers \ {c} : closer'[d] = closer[d]
        /\ closer'[c].s = closer[c].s
    BY <1>k, <2>1
  <2>3. \A r \in Sessions : Untouched(r) => Untouched(r)'
    BY <2>1, <2>2 DEF Untouched, IsClosing
  <2> QED BY <2>1, <2>3 DEF OpenInv
<1>3. CASE CloseRemove(c)
  <2>1. /\ UNCHANGED <<pc, resumed, aborted, status>> /\ closer[c].pc = "removing"
        /\ open' = open \ {closer[c].s} /\ closer' = [closer EXCEPT ![c].pc = "done"]
    BY <1>3 DEF CloseRemove, callVars
  <2>2. /\ \A d \in Closers \ {c} : closer'[d] = closer[d]
        /\ closer'[c].pc = "done"
    BY <1>k, <2>1
  <2>3. \A r \in Sessions : Untouched(r) => Untouched(r)' /\ r # closer[c].s
    BY <2>1, <2>2 DEF Untouched, IsClosing
  <2> QED BY <2>1, <2>3 DEF OpenInv
<1> QED BY <1>1, <1>2, <1>3 DEF CloseStep

LEMMA OpenKept == DesktopInv /\ CreationAbortable /\ OpenInv /\ [Next]_vars => OpenInv'
BY CreateStepOpens, OtherStepOpens, CloserOpens DEF DesktopInv, Next, WorkStep

(* The only step that answers a call of createSession with its session is    *)
(* the one that has taken the first screenshot.                              *)
LEMMA CaptureResolves ==
  ASSUME TypeOK, CallInv, NEW s \in Sessions, [Next]_vars,
         pc[s] # "resolved", pc'[s] = "resolved"
  PROVE  Capture(s)
<1>t. pc \in [Sessions -> Pcs] BY DEF TypeOK
<1>1. ASSUME NEW r \in Sessions, CreateStep(r) PROVE Capture(s)
  <2>1. CASE Begin(r) BY <1>1, <1>t, <2>1 DEF Begin, Goto
  <2>2. CASE ~Begin(r)
    <3>1. r = s BY <1>1, <1>t, <2>2, StepMoves DEF Moves
    <3> QED BY <1>1, <2>2, <3>1, StepOpens
  <2> QED BY <2>1, <2>2
<1>2. ASSUME NEW r \in Sessions, Create(r) \/ Resume(r) \/ Seek(r) PROVE FALSE
  BY <1>2, <1>t DEF Create, Resume, Seek, Goto
<1>3. ASSUME pc' = pc PROVE FALSE
  BY <1>3
<1>4. \A r \in Sessions : WorkStep(r) \/ Disconnect(r) => pc' = pc
  BY DEF WorkStep, Action, ActionEnds, Instruct, Step, StepEnds, InstructionEnds,
     InstructionFails, Does, Disconnect, callVars
<1>5. \A c \in Closers : CloseStep(c) \/ (\E r \in Sessions : Close(c, r)) => pc' = pc
  BY DEF CloseStep, CloseKill, CloseRemove, Close, callVars
<1>6. Report \/ SandboxCrash \/ UNCHANGED vars => pc' = pc
  BY DEF Report, SandboxCrash, vars, callVars
<1> QED BY <1>1, <1>2, <1>3, <1>4, <1>5, <1>6 DEF Next, WorkStep

(* A call of createSession hands over a session that is in the manager's map *)
(* and was not closed: a close while it was made has aborted it.             *)
THEOREM CreatedCorrect == Spec => CreatedIsOpen
<1>1. Init => DesktopInv /\ CreationAbortable /\ OpenInv
  BY InitTypes, InitCalls, InitOpen DEF DesktopInv
<1>2. DesktopInv /\ CreationAbortable /\ OpenInv /\ [Next]_vars
        => DesktopInv' /\ CreationAbortable' /\ OpenInv'
  BY TypesKept, CallsKept, OpenKept DEF DesktopInv
<1>3. DesktopInv /\ OpenInv /\ [Next]_vars
        => \A s \in Sessions \ resumed :
             pc[s] # "resolved" /\ pc'[s] = "resolved" => s \in open' /\ status[s] # "closed"
  <2> SUFFICES ASSUME DesktopInv, OpenInv, [Next]_vars, NEW s \in Sessions \ resumed,
                      pc[s] # "resolved", pc'[s] = "resolved"
               PROVE  s \in open' /\ status[s] # "closed"
    OBVIOUS
  <2>1. Capture(s) BY CaptureResolves DEF DesktopInv
  <2>2. pc[s] \in Creating /\ s \notin aborted /\ open' = open
    BY <2>1 DEF Capture, Creating, Awaiting
  <2> QED BY <2>2 DEF OpenInv, Untouched
<1> QED BY <1>1, <1>2, <1>3, PTL DEF Spec, CreatedIsOpen
-----------------------------------------------------------------------------
(* Browser sessions                                                          *)

(* What the proofs need to know of the kinds of values.                      *)
BrowserKinds ==
  /\ at \in [Calls -> Places] /\ of \in [Calls -> Calls \cup {None}]
  /\ chain \in [Calls -> Calls \cup {None}] /\ steps \in [Calls -> Nat]
  /\ sessions \subseteq Calls
  /\ browsers \in Nat /\ running \subseteq 1..browsers

USE DEF Calls, None

LEMMA InitBrowserKinds == BrowserInit => BrowserKinds
BY DEF BrowserInit, BrowserKinds, None, Places

LEMMA StandKinds ==
  ASSUME BrowserKinds, NEW c \in Calls, NEW place \in Places, Stand(c, place)
  PROVE  /\ at' \in [Calls -> Places]
         /\ at'[c] = place /\ \A d \in Calls \ {c} : at'[d] = at[d]
BY DEF BrowserKinds, Stand

LEMMA PlaceKinds ==
  {"idle", "listing", "launching", "opening", "paging", "describing", "closing", "quitting",
   "acting", "looking", "asking", "doing", "wrapping", "done"} \subseteq Places
BY DEF Places

(* The places of a call that makes a session, of one that uses one, and of   *)
(* one whose session is made.                                                *)
Making == {"listing", "launching", "opening", "paging", "describing"}
Using == {"acting", "looking", "asking", "doing", "wrapping"}
Born == {"opening", "paging", "describing", "done"}

-----------------------------------------------------------------------------
(* What the steps of a call have in common, by what the call is about.       *)

(* A step that makes a session, or does not find that it has to.             *)
MakeStep(c) ==
  \/ CreateSession(c) \/ ListNext(c) \/ Listed(c)
  \/ LaunchFails(c) \/ ContextOpened(c) \/ PageOpened(c)
  \/ InitializeFails(c) \/ Described(c)

UseStep(c) ==
  \/ \E s \in Calls : Navigate(c, s) \/ Act(c, s) \/ InstructPage(c, s)
  \/ Acted(c) \/ Looked(c) \/ Answered(c) \/ AskFails(c)
  \/ Done(c) \/ Wrapped(c)

CloseStepOf(c) ==
  \/ Shutdown(c) \/ Closed(c)
  \/ \E s \in Calls :
       CloseSession(c, s) \/ PageClosed(c, s) \/ ContextClosed(c, s)

BrowserStep(c) == Launched(c) \/ AllClosed(c) \/ BrowserClosed(c)

LEMMA StepsOfCalls ==
  ASSUME BrowserNext
  PROVE  \/ \E c \in Calls : MakeStep(c) \/ UseStep(c) \/ CloseStepOf(c) \/ BrowserStep(c)
         \/ \E b \in running : Crash(b)
BY DEF BrowserNext, BeginCall, Continue, MakeStep, UseStep, CloseStepOf, BrowserStep

(* createSession of the manager.                                             *)
LEMMA CreateMakes ==
  ASSUME BrowserKinds, NEW c \in Calls, CreateInManager(c)
  PROVE  /\ UNCHANGED <<browser, browsers, running, raced, quit, of, steps, locks, chain, closing,
                        shown, torn, context, page, contexts, pages>>
         /\ \A d \in Calls \ {c} : at'[d] = at[d]
         /\ \/ browser = 0 /\ at'[c] = "launching" /\ sessions' = sessions
            \/ at'[c] = "opening" /\ sessions' = sessions \cup {c}
         /\ at' \in [Calls -> Places]
<1>1. CASE browser = 0
  BY <1>1, StandKinds, PlaceKinds DEF CreateInManager, managerVars
<1>2. CASE browser # 0
  BY <1>2, StandKinds, PlaceKinds DEF CreateInManager, Start, managerVars
<1> QED
  BY <1>1, <1>2

LEMMA MakeMoves ==
  ASSUME BrowserKinds, NEW c \in Calls, MakeStep(c)
  PROVE  /\ UNCHANGED <<browser, browsers, running, raced, quit, steps, locks, chain, closing, torn>>
         /\ \A d \in Calls \ {c} : at'[d] = at[d] /\ of'[d] = of[d]
         /\ at[c] \in Making \cup {"idle"} /\ at'[c] \in Making \cup {"done"}
         /\ at'[c] = "launching" => browser = 0
         /\ at' \in [Calls -> Places] /\ of' \in [Calls -> Calls \cup {None}]
         /\ sessions' \subseteq Calls
<1> USE DEF managerVars, sessionVars, Making
<1>k. at \in [Calls -> Places] /\ of \in [Calls -> Calls \cup {None}]
      /\ sessions \subseteq Calls
  BY DEF BrowserKinds
<1>1. CASE CreateSession(c)
  <2>1. at[c] = "idle"
    BY <1>1 DEF CreateSession
  <2>2. CASE CreateInManager(c)
    BY <1>k, <2>1, <2>2, CreateMakes
  <2>3. CASE /\ Stand(c, "done")
             /\ UNCHANGED <<managerVars, sessions, torn, of, steps, locks, chain, closing>>
    BY <1>k, <2>1, <2>3, StandKinds, PlaceKinds
  <2>4. CASE /\ Stand(c, "listing")
             /\ \E s \in Found \cup {None} : of' = [of EXCEPT ![c] = s]
             /\ UNCHANGED <<managerVars, sessions, torn, steps, locks, chain, closing>>
    <3>1. Found \subseteq Calls
      BY <1>k DEF Found
    <3> QED
      BY <1>k, <2>1, <2>4, <3>1, StandKinds, PlaceKinds
  <2> QED
    BY <1>1, <2>2, <2>3, <2>4 DEF CreateSession
<1>2. CASE ListNext(c)
  <2>1. Found \subseteq Calls
    BY <1>k DEF Found
  <2> QED
    BY <1>2, <1>k, <2>1 DEF ListNext
<1>3. CASE Listed(c)
  <2>1. at[c] = "listing"
    BY <1>3 DEF Listed
  <2>2. CASE CreateInManager(c)
    BY <1>k, <2>1, <2>2, CreateMakes
  <2>3. CASE /\ Stand(c, "done")
             /\ UNCHANGED <<managerVars, sessions, torn, of, steps, locks, chain, closing>>
    BY <1>k, <2>1, <2>3, StandKinds, PlaceKinds
  <2> QED
    BY <1>3, <2>2, <2>3 DEF Listed
<1>4. CASE LaunchFails(c)
  BY <1>4, <1>k, StandKinds, PlaceKinds DEF LaunchFails
<1>5. CASE ContextOpened(c)
  BY <1>5, <1>k, StandKinds, PlaceKinds DEF ContextOpened
<1>6. CASE PageOpened(c)
  BY <1>6, <1>k, StandKinds, PlaceKinds DEF PageOpened
<1>7. CASE InitializeFails(c)
  BY <1>7, <1>k, StandKinds, PlaceKinds DEF InitializeFails
<1>8. CASE Described(c)
  BY <1>8, <1>k, StandKinds, PlaceKinds DEF Described
<1> QED
  BY <1>1, <1>2, <1>3, <1>4, <1>5, <1>6, <1>7, <1>8 DEF MakeStep

LEMMA UseMoves ==
  ASSUME BrowserKinds, NEW c \in Calls, UseStep(c)
  PROVE  /\ UNCHANGED <<browser, browsers, running, raced, quit, sessions, context, page, contexts,
                        pages, torn, closing, shown>>
         /\ \A d \in Calls \ {c} : at'[d] = at[d] /\ of'[d] = of[d] /\ steps'[d] = steps[d]
         /\ at[c] \in Using \cup {"idle"} /\ at'[c] \in Using \cup {"done"}
         /\ at' \in [Calls -> Places] /\ of' \in [Calls -> Calls \cup {None}]
         /\ steps' \in [Calls -> Nat] /\ chain' \in [Calls -> Calls \cup {None}]
<1> USE DEF managerVars, sessionVars, Using
<1>k. /\ at \in [Calls -> Places] /\ of \in [Calls -> Calls \cup {None}]
      /\ steps \in [Calls -> Nat] /\ chain \in [Calls -> Calls \cup {None}]
      /\ \A s \in Calls : [chain EXCEPT ![s] = c] \in [Calls -> Calls \cup {None}]
      /\ None \in Calls \cup {None}
  BY DEF BrowserKinds
<1>e. End(c) => Stand(c, "done")
  BY DEF End
<1>1. ASSUME NEW s \in Calls, Navigate(c, s)
      PROVE  /\ Stand(c, "acting") \/ Stand(c, "done")
             /\ at[c] = "idle" /\ of' = [of EXCEPT ![c] = s]
             /\ UNCHANGED <<managerVars, sessionVars, steps, chain, closing, shown>>
  BY <1>1 DEF Navigate
<1>2. ASSUME NEW s \in Calls, NEW place \in {"acting", "looking"}, Take(c, s, place)
      PROVE  /\ Stand(c, place) \/ Stand(c, "done")
             /\ at[c] = "idle" /\ of' = [of EXCEPT ![c] = s]
             /\ steps' = steps \/ steps' = [steps EXCEPT ![c] = 1]
             /\ UNCHANGED <<managerVars, sessionVars, chain, closing, shown>>
  BY <1>2 DEF Take
<1>3. ASSUME Acted(c) \/ AskFails(c) \/ Wrapped(c)
      PROVE  /\ Stand(c, "wrapping") \/ Stand(c, "done")
             /\ at[c] \in Using
             /\ UNCHANGED <<managerVars, sessionVars, of, steps, chain, closing, shown>>
  BY <1>3, <1>e DEF Acted, AskFails, Wrapped
<1>4. ASSUME Looked(c)
      PROVE  /\ Stand(c, "asking") \/ Stand(c, "done")
             /\ at[c] = "looking"
             /\ chain' = chain \/ chain' = [chain EXCEPT ![of[c]] = None]
             /\ UNCHANGED <<managerVars, sessionVars, of, steps, closing, shown>>
  BY <1>4, <1>e DEF Looked
<1>5. ASSUME Answered(c)
      PROVE  /\ at' = at \/ \E place \in {"doing", "wrapping", "done"} : Stand(c, place)
             /\ at[c] = "asking" /\ chain' = [chain EXCEPT ![of[c]] = c]
             /\ steps' = steps \/ steps' = [steps EXCEPT ![c] = @ + 1]
             /\ UNCHANGED <<managerVars, sessionVars, of, closing, shown>>
  BY <1>5, <1>e DEF Answered
<1>6. ASSUME Done(c)
      PROVE  /\ \E place \in {"asking", "wrapping", "done"} : Stand(c, place)
             /\ at[c] = "doing"
             /\ steps' = steps \/ steps' = [steps EXCEPT ![c] = @ + 1]
             /\ UNCHANGED <<managerVars, sessionVars, of, chain, closing, shown>>
  BY <1>6, <1>e DEF Done
<1>7. /\ UNCHANGED <<managerVars, sessionVars, closing, shown>>
      /\ at[c] \in Using \cup {"idle"}
      /\ (at' = at /\ at[c] = "asking") \/ \E place \in Using \cup {"done"} : Stand(c, place)
      /\ of' = of \/ \E s \in Calls : of' = [of EXCEPT ![c] = s]
      /\ steps' = steps \/ (\E n \in Nat : steps' = [steps EXCEPT ![c] = n])
      /\ chain' = chain \/ \E x \in {c, None} : chain' = [chain EXCEPT ![of[c]] = x]
  <2>1. steps[c] + 1 \in Nat /\ 1 \in Nat
    BY <1>k
  <2>2. CASE \E s \in Calls : Navigate(c, s)
    BY <1>1, <2>2
  <2>3. CASE \E s \in Calls : Act(c, s) \/ InstructPage(c, s)
    BY <1>2, <2>1, <2>3 DEF Act, InstructPage
  <2>4. CASE Acted(c) \/ AskFails(c) \/ Wrapped(c)
    BY <1>3, <2>4
  <2>5. CASE Looked(c)
    BY <1>4, <2>5
  <2>6. CASE Answered(c)
    BY <1>5, <2>1, <2>6
  <2>7. CASE Done(c)
    BY <1>6, <2>1, <2>7
  <2> QED
    BY <2>2, <2>3, <2>4, <2>5, <2>6, <2>7 DEF UseStep
<1>8. Using \cup {"done"} \subseteq Places
  BY PlaceKinds
<1>9. /\ at' \in [Calls -> Places] /\ at'[c] \in Using \cup {"done"}
      /\ \A d \in Calls \ {c} : at'[d] = at[d]
  BY <1>k, <1>7, <1>8, StandKinds
<1>10. of' \in [Calls -> Calls \cup {None}] /\ \A d \in Calls \ {c} : of'[d] = of[d]
  <2>1. CASE of' = of
    BY <1>k, <2>1
  <2>2. ASSUME NEW s \in Calls, of' = [of EXCEPT ![c] = s]
        PROVE  of' \in [Calls -> Calls \cup {None}] /\ \A d \in Calls \ {c} : of'[d] = of[d]
    BY <1>k, <2>2
  <2> QED
    BY <1>7, <2>1, <2>2
<1>11. steps' \in [Calls -> Nat] /\ \A d \in Calls \ {c} : steps'[d] = steps[d]
  <2>1. CASE steps' = steps
    BY <1>k, <2>1
  <2>2. ASSUME NEW n \in Nat, steps' = [steps EXCEPT ![c] = n]
        PROVE  steps' \in [Calls -> Nat] /\ \A d \in Calls \ {c} : steps'[d] = steps[d]
    BY <1>k, <2>2
  <2> QED
    BY <1>7, <2>1, <2>2
<1>12. chain' \in [Calls -> Calls \cup {None}]
  BY <1>k, <1>7
<1> QED
  BY <1>7, <1>9, <1>10, <1>11, <1>12

LEMMA CloseMoves ==
  ASSUME BrowserKinds, NEW c \in Calls, CloseStepOf(c)
  PROVE  /\ UNCHANGED <<browser, browsers, running, raced, quit, steps, locks>>
         /\ \A d \in Calls \ {c} : at'[d] = at[d] /\ of'[d] = of[d]
         /\ (at'[c] = at[c] /\ of'[c] = of[c]) \/ at'[c] \in {"closing", "done"}
         /\ at'[c] = at[c] \/ at[c] \in {"idle", "closing"}
         /\ \A s \in Calls : chain'[s] \in {None, chain[s]}
         /\ at' \in [Calls -> Places] /\ of' \in [Calls -> Calls \cup {None}]
         /\ chain' \in [Calls -> Calls \cup {None}] /\ sessions' \subseteq sessions
<1> USE DEF managerVars, sessionVars, toolVars
<1>k. /\ at \in [Calls -> Places] /\ of \in [Calls -> Calls \cup {None}]
      /\ chain \in [Calls -> Calls \cup {None}]
  BY DEF BrowserKinds
<1>b. ASSUME NEW S, BeginClose(c, S)
      PROVE  /\ \A s \in Calls : chain'[s] \in {None, chain[s]}
             /\ chain' \in [Calls -> Calls \cup {None}] /\ sessions' \subseteq sessions
  BY <1>b, <1>k DEF BeginClose, Forget
<1>1. CASE Shutdown(c)
  BY <1>1, <1>b, <1>k, StandKinds, PlaceKinds DEF Shutdown
<1>2. CASE Closed(c)
  BY <1>2, <1>k, StandKinds, PlaceKinds DEF Closed, BrowserKinds
<1>3. ASSUME NEW s \in Calls, CloseSession(c, s)
      PROVE  /\ at[c] = "idle" /\ of' = [of EXCEPT ![c] = s] /\ Stand(c, "closing")
             /\ BeginClose(c, {s} \cap sessions)
             /\ UNCHANGED <<browser, browsers, running, raced, quit, steps, locks>>
  BY <1>3 DEF CloseSession
<1>4. ASSUME NEW s \in Calls, PageClosed(c, s)
      PROVE  /\ UNCHANGED <<browser, browsers, running, raced, quit, steps, locks, at, of, chain>>
             /\ sessions' \subseteq sessions
  BY <1>4 DEF PageClosed, Forget
<1>5. ASSUME NEW s \in Calls, ContextClosed(c, s)
      PROVE  /\ UNCHANGED <<browser, browsers, running, raced, quit, steps, locks, at, of, chain>>
             /\ sessions' \subseteq sessions
  BY <1>5 DEF ContextClosed, Forget
<1>6. ASSUME NEW s \in Calls, CloseSession(c, s)
      PROVE  /\ of' \in [Calls -> Calls \cup {None}] /\ \A d \in Calls \ {c} : of'[d] = of[d]
  BY <1>3, <1>6, <1>k
<1> QED
  BY <1>1, <1>2, <1>3, <1>4, <1>5, <1>6, <1>b, <1>k, StandKinds, PlaceKinds DEF CloseStepOf

LEMMA BrowserMoves ==
  ASSUME BrowserKinds, NEW c \in Calls, BrowserStep(c)
  PROVE  /\ UNCHANGED <<of, steps, locks, chain, closing, torn, context, page, shown>>
         /\ \A d \in Calls \ {c} : at'[d] = at[d]
         /\ at[c] \in {"launching", "closing", "quitting"}
         /\ at'[c] \in {"opening", "quitting", "done"}
         /\ at' \in [Calls -> Places]
         /\ contexts' \subseteq contexts /\ pages' \subseteq pages
         /\ \/ Launched(c) /\ at'[c] = "opening" /\ sessions' = sessions \cup {c}
            \/ at'[c] \in {"quitting", "done"} /\ sessions' = sessions
<1> USE DEF managerVars, sessionVars
<1>k. at \in [Calls -> Places]
  BY DEF BrowserKinds
<1>1. CASE Launched(c)
  BY <1>1, <1>k, StandKinds, PlaceKinds DEF Launched, Start
<1>2. CASE AllClosed(c)
  BY <1>2, <1>k, StandKinds, PlaceKinds DEF AllClosed
<1>3. CASE BrowserClosed(c)
  BY <1>3, <1>k, StandKinds, PlaceKinds DEF BrowserClosed, Gone
<1> QED
  BY <1>1, <1>2, <1>3 DEF BrowserStep

LEMMA BrowserKindsStep ==
  ASSUME BrowserKinds, [BrowserNext]_browserVars
  PROVE  BrowserKinds'
<1>k. browsers \in Nat /\ running \subseteq 1..browsers /\ steps \in [Calls -> Nat]
      /\ chain \in [Calls -> Calls \cup {None}] /\ of \in [Calls -> Calls \cup {None}]
      /\ sessions \subseteq Calls
  BY DEF BrowserKinds
<1>1. ASSUME NEW c \in Calls, MakeStep(c) PROVE BrowserKinds'
  BY <1>1, <1>k, MakeMoves DEF BrowserKinds
<1>2. ASSUME NEW c \in Calls, UseStep(c) PROVE BrowserKinds'
  BY <1>2, <1>k, UseMoves DEF BrowserKinds
<1>3. ASSUME NEW c \in Calls, CloseStepOf(c) PROVE BrowserKinds'
  BY <1>3, <1>k, CloseMoves DEF BrowserKinds
<1>4. ASSUME NEW c \in Calls, BrowserStep(c) PROVE BrowserKinds'
  <2>1. \/ browsers' = browsers + 1 /\ running' = running \cup {browsers'}
        \/ browsers' = browsers /\ running' \subseteq running
    BY <1>4 DEF BrowserStep, Launched, AllClosed, BrowserClosed, Gone
  <2>2. browsers' \in Nat /\ running' \subseteq 1..browsers'
    <3>1. ASSUME browsers' = browsers + 1, running' = running \cup {browsers'}
          PROVE  browsers' \in Nat /\ running' \subseteq 1..browsers'
      <4>1. 1..browsers \subseteq 1..browsers'
        BY <1>k, <3>1
      <4>2. browsers' \in 1..browsers'
        BY <1>k, <3>1
      <4> QED
        BY <1>k, <3>1, <4>1, <4>2
    <3>2. ASSUME browsers' = browsers, running' \subseteq running
          PROVE  browsers' \in Nat /\ running' \subseteq 1..browsers'
      BY <1>k, <3>2
    <3> QED
      BY <2>1, <3>1, <3>2
  <2> QED
    BY <1>4, <1>k, <2>2, BrowserMoves DEF BrowserKinds
<1>5. ASSUME NEW b \in running, Crash(b) PROVE BrowserKinds'
  BY <1>5, <1>k DEF BrowserKinds, Crash, Gone, toolVars
<1>6. CASE UNCHANGED browserVars
  BY <1>6 DEF BrowserKinds, browserVars, managerVars, sessionVars, toolVars
<1> QED
  BY <1>1, <1>2, <1>3, <1>4, <1>5, <1>6, StepsOfCalls

(* The variables that BrowserKinds leaves out.                               *)
SetKinds ==
  /\ sessions \subseteq Calls /\ named \subseteq Calls /\ context \subseteq Calls
  /\ page \subseteq Calls /\ ready \subseteq Calls /\ contexts \subseteq Calls
  /\ pages \subseteq Calls /\ locks \subseteq Calls /\ shown \subseteq Calls
  /\ torn \subseteq Calls

StageKinds ==
  /\ stage \in [Calls -> {"none", "starting", "active", "error", "closed"}]
  /\ closing \subseteq Calls \X Calls \X {"page", "context"}
  /\ crashes \in 0..MaxCrashes

CountKinds ==
  /\ browser \in 0..browsers /\ quit \in 0..browsers /\ raced \subseteq 1..browsers
  /\ given \in [Calls -> 0..browsers]

OtherKinds == SetKinds /\ StageKinds /\ CountKinds

LEMMA InitOtherKinds == BrowserInit => OtherKinds
BY BrowserAssumption DEF BrowserInit, OtherKinds, SetKinds, StageKinds, CountKinds

LEMMA OtherKindsKept ==
  ASSUME BrowserKinds, OtherKinds, [BrowserNext]_browserVars
  PROVE  OtherKinds'
<1> USE DEF managerVars, sessionVars, toolVars
<1>1. ASSUME NEW c \in Calls, CreateSession(c) PROVE OtherKinds'
  <2>1. SetKinds'
    BY <1>1
    DEF CreateSession, CreateInManager, Start, Found, OtherKinds,
      SetKinds
  <2>2. StageKinds'
    BY <1>1
    DEF CreateSession, CreateInManager, Start, Found, OtherKinds,
      SetKinds, StageKinds
  <2>3. CountKinds'
    BY <1>1
    DEF CreateSession, CreateInManager, Start, Found, OtherKinds,
      CountKinds, BrowserKinds
  <2> QED
    BY <2>1, <2>2, <2>3 DEF OtherKinds
<1>2. ASSUME NEW c \in Calls, ListNext(c) PROVE OtherKinds'
  <2>1. SetKinds'
    BY <1>2 DEF ListNext, OtherKinds, SetKinds
  <2>2. StageKinds'
    BY <1>2 DEF ListNext, OtherKinds, SetKinds, StageKinds
  <2>3. CountKinds'
    BY <1>2 DEF ListNext, OtherKinds, CountKinds, BrowserKinds
  <2> QED
    BY <2>1, <2>2, <2>3 DEF OtherKinds
<1>3. ASSUME NEW c \in Calls, Listed(c) PROVE OtherKinds'
  <2>1. SetKinds'
    BY <1>3 DEF Listed, CreateInManager, Start, OtherKinds, SetKinds
  <2>2. StageKinds'
    BY <1>3 DEF Listed, CreateInManager, Start, OtherKinds, SetKinds, StageKinds
  <2>3. CountKinds'
    BY <1>3
    DEF Listed, CreateInManager, Start, OtherKinds, CountKinds, BrowserKinds
  <2> QED
    BY <2>1, <2>2, <2>3 DEF OtherKinds
<1>4. ASSUME NEW c \in Calls, Launched(c) PROVE OtherKinds'
  <2>1. SetKinds'
    BY <1>4 DEF Launched, Start, OtherKinds, SetKinds
  <2>2. StageKinds'
    BY <1>4 DEF Launched, Start, OtherKinds, SetKinds, StageKinds
  <2>3. CountKinds'
    BY <1>4 DEF Launched, Start, OtherKinds, CountKinds, BrowserKinds
  <2> QED
    BY <2>1, <2>2, <2>3 DEF OtherKinds
<1>5. ASSUME NEW c \in Calls, LaunchFails(c) PROVE OtherKinds'
  <2>1. SetKinds'
    BY <1>5 DEF LaunchFails, OtherKinds, SetKinds
  <2>2. StageKinds'
    BY <1>5 DEF LaunchFails, OtherKinds, SetKinds, StageKinds
  <2>3. CountKinds'
    BY <1>5 DEF LaunchFails, OtherKinds, CountKinds, BrowserKinds
  <2> QED
    BY <2>1, <2>2, <2>3 DEF OtherKinds
<1>6. ASSUME NEW c \in Calls, ContextOpened(c) PROVE OtherKinds'
  <2>1. SetKinds'
    BY <1>6 DEF ContextOpened, OtherKinds, SetKinds
  <2>2. StageKinds'
    BY <1>6 DEF ContextOpened, OtherKinds, SetKinds, StageKinds
  <2>3. CountKinds'
    BY <1>6 DEF ContextOpened, OtherKinds, CountKinds, BrowserKinds
  <2> QED
    BY <2>1, <2>2, <2>3 DEF OtherKinds
<1>7. ASSUME NEW c \in Calls, PageOpened(c) PROVE OtherKinds'
  <2>1. SetKinds'
    BY <1>7 DEF PageOpened, OtherKinds, SetKinds
  <2>2. StageKinds'
    BY <1>7 DEF PageOpened, OtherKinds, SetKinds, StageKinds
  <2>3. CountKinds'
    BY <1>7 DEF PageOpened, OtherKinds, CountKinds, BrowserKinds
  <2> QED
    BY <2>1, <2>2, <2>3 DEF OtherKinds
<1>8. ASSUME NEW c \in Calls, InitializeFails(c) PROVE OtherKinds'
  <2>1. SetKinds'
    BY <1>8 DEF InitializeFails, OtherKinds, SetKinds
  <2>2. StageKinds'
    BY <1>8 DEF InitializeFails, OtherKinds, SetKinds, StageKinds
  <2>3. CountKinds'
    BY <1>8 DEF InitializeFails, OtherKinds, CountKinds, BrowserKinds
  <2> QED
    BY <2>1, <2>2, <2>3 DEF OtherKinds
<1>9. ASSUME NEW c \in Calls, Described(c) PROVE OtherKinds'
  <2>1. SetKinds'
    BY <1>9 DEF Described, OtherKinds, SetKinds
  <2>2. StageKinds'
    BY <1>9 DEF Described, OtherKinds, SetKinds, StageKinds
  <2>3. CountKinds'
    BY <1>9 DEF Described, OtherKinds, CountKinds, BrowserKinds
  <2> QED
    BY <2>1, <2>2, <2>3 DEF OtherKinds
<1>10. ASSUME NEW c \in Calls, NEW s \in Calls, CloseSession(c, s) PROVE OtherKinds'
  <2>1. SetKinds'
    BY <1>10 DEF CloseSession, BeginClose, Forget, OtherKinds, SetKinds
  <2>2. StageKinds'
    BY <1>10
    DEF CloseSession, BeginClose, Forget, OtherKinds, SetKinds,
      StageKinds
  <2>3. CountKinds'
    BY <1>10
    DEF CloseSession, BeginClose, Forget, OtherKinds, CountKinds,
      BrowserKinds
  <2> QED
    BY <2>1, <2>2, <2>3 DEF OtherKinds
<1>11. ASSUME NEW c \in Calls, Shutdown(c) PROVE OtherKinds'
  <2>1. SetKinds'
    BY <1>11 DEF Shutdown, BeginClose, Forget, OtherKinds, SetKinds
  <2>2. StageKinds'
    BY <1>11
    DEF Shutdown, BeginClose, Forget, OtherKinds, SetKinds, StageKinds
  <2>3. CountKinds'
    BY <1>11
    DEF Shutdown, BeginClose, Forget, OtherKinds, CountKinds,
      BrowserKinds
  <2> QED
    BY <2>1, <2>2, <2>3 DEF OtherKinds
<1>12. ASSUME NEW c \in Calls, NEW s \in Calls, PageClosed(c, s) PROVE OtherKinds'
  <2>1. SetKinds'
    BY <1>12 DEF PageClosed, Forget, OtherKinds, SetKinds
  <2>2. StageKinds'
    BY <1>12 DEF PageClosed, Forget, OtherKinds, SetKinds, StageKinds
  <2>3. CountKinds'
    BY <1>12 DEF PageClosed, Forget, OtherKinds, CountKinds, BrowserKinds
  <2> QED
    BY <2>1, <2>2, <2>3 DEF OtherKinds
<1>13. ASSUME NEW c \in Calls, NEW s \in Calls, ContextClosed(c, s) PROVE OtherKinds'
  <2>1. SetKinds'
    BY <1>13 DEF ContextClosed, Forget, OtherKinds, SetKinds
  <2>2. StageKinds'
    BY <1>13 DEF ContextClosed, Forget, OtherKinds, SetKinds, StageKinds
  <2>3. CountKinds'
    BY <1>13 DEF ContextClosed, Forget, OtherKinds, CountKinds, BrowserKinds
  <2> QED
    BY <2>1, <2>2, <2>3 DEF OtherKinds
<1>14. ASSUME NEW c \in Calls, Closed(c) PROVE OtherKinds'
  <2>1. SetKinds'
    BY <1>14 DEF Closed, OtherKinds, SetKinds
  <2>2. StageKinds'
    BY <1>14 DEF Closed, OtherKinds, SetKinds, StageKinds
  <2>3. CountKinds'
    BY <1>14 DEF Closed, OtherKinds, CountKinds, BrowserKinds
  <2> QED
    BY <2>1, <2>2, <2>3 DEF OtherKinds
<1>15. ASSUME NEW c \in Calls, AllClosed(c) PROVE OtherKinds'
  <2>1. SetKinds'
    BY <1>15 DEF AllClosed, OtherKinds, SetKinds
  <2>2. StageKinds'
    BY <1>15 DEF AllClosed, OtherKinds, SetKinds, StageKinds
  <2>3. CountKinds'
    BY <1>15 DEF AllClosed, OtherKinds, CountKinds, BrowserKinds
  <2> QED
    BY <2>1, <2>2, <2>3 DEF OtherKinds
<1>16. ASSUME NEW c \in Calls, BrowserClosed(c) PROVE OtherKinds'
  <2>1. SetKinds'
    BY <1>16 DEF BrowserClosed, Gone, OtherKinds, SetKinds
  <2>2. StageKinds'
    BY <1>16 DEF BrowserClosed, Gone, OtherKinds, SetKinds, StageKinds
  <2>3. CountKinds'
    BY <1>16 DEF BrowserClosed, Gone, OtherKinds, CountKinds, BrowserKinds
  <2> QED
    BY <2>1, <2>2, <2>3 DEF OtherKinds
<1>17. ASSUME NEW c \in Calls, UseStep(c) PROVE OtherKinds'
  <2>1. /\ UNCHANGED <<managerVars, sessionVars, closing, shown>>
        /\ \/ locks' = locks \/ locks' = locks \ {e \in {of[c]} : steps[c] > 0}
           \/ \E s \in Calls : locks' = locks \cup {s}
    BY <1>17 DEF UseStep, Navigate, Act, InstructPage, Take,
       Acted, Looked, Answered, AskFails, Done,
       Wrapped, End
  <2> QED
    BY <2>1 DEF OtherKinds, SetKinds, StageKinds, CountKinds
<1>18. ASSUME NEW b \in running, Crash(b) PROVE OtherKinds'
  <2>1. crashes' \in 0..MaxCrashes
    BY <1>18, BrowserAssumption DEF Crash, OtherKinds, StageKinds
  <2> QED
    BY <1>18, <2>1 DEF Crash, Gone, OtherKinds, SetKinds, StageKinds, CountKinds
<1>19. CASE UNCHANGED browserVars
  BY <1>19 DEF browserVars, OtherKinds, SetKinds, StageKinds, CountKinds
<1> QED
  BY <1>1, <1>2, <1>3, <1>4, <1>5, <1>6, <1>7, <1>8, <1>9, <1>10, <1>11, <1>12,
     <1>13, <1>14, <1>15, <1>16, <1>17, <1>18, <1>19, StepsOfCalls
  DEF MakeStep, CloseStepOf, BrowserStep

(* Every variable of the browser sessions has its type.                      *)
THEOREM BrowserTypeCorrect == BrowserSpec => []BrowserTypeOK
<1>1. BrowserInit => BrowserKinds /\ OtherKinds
  BY InitBrowserKinds, InitOtherKinds
<1>2. BrowserKinds /\ OtherKinds /\ [BrowserNext]_browserVars => BrowserKinds' /\ OtherKinds'
  BY BrowserKindsStep, OtherKindsKept
<1>3. BrowserKinds /\ OtherKinds => BrowserTypeOK
  BY DEF BrowserKinds, OtherKinds, SetKinds, StageKinds, CountKinds, BrowserTypeOK
<1> QED
  BY <1>1, <1>2, <1>3, PTL DEF BrowserSpec

-----------------------------------------------------------------------------
(* Why a browser that runs beside the manager's was raced.  A launch begins  *)
(* only without a browser, so that one which is there when it ends came      *)
(* beside it; and what a shutdown closes is the manager's browser, or        *)
(* another one has come beside it.                                           *)
RaceInv ==
  /\ OrphansAreRaced
  /\ \A c \in Calls : at[c] = "launching" => browser \in {0} \cup raced
  /\ \A c \in Calls : at[c] = "quitting" => browser \in {quit} \cup raced

LEMMA RaceStays ==
  ASSUME RaceInv, UNCHANGED <<browser, raced, quit>>, running' \subseteq running,
         \A c \in Calls : at'[c] = "launching" => at[c] = "launching" \/ browser = 0,
         \A c \in Calls : at'[c] = "quitting" => at[c] = "quitting"
  PROVE  RaceInv'
BY DEF RaceInv, OrphansAreRaced

LEMMA LaunchRaces ==
  ASSUME BrowserKinds, RaceInv, NEW c \in Calls, Launched(c)
  PROVE  RaceInv'
<1>1. /\ at[c] = "launching" /\ browsers' = browsers + 1 /\ browser' = browsers'
      /\ running' = running \cup {browsers'} /\ quit' = quit
      /\ raced' = IF Launching # {c} \/ ShuttingDown
                  THEN raced \cup {browsers'} ELSE raced
  BY DEF Launched
<1>2. at'[c] = "opening" /\ \A d \in Calls \ {c} : at'[d] = at[d]
  BY PlaceKinds, StandKinds DEF Launched, Start
<1>3. 0 \notin running /\ browser \in {0} \cup raced
  BY <1>1 DEF BrowserKinds, RaceInv
<1>4. OrphansAreRaced'
  BY <1>1, <1>3 DEF RaceInv, OrphansAreRaced
<1>5. ASSUME NEW d \in Calls, at'[d] \in {"launching", "quitting"}
      PROVE  browser' \in raced'
  <2>1. d # c /\ at[d] \in {"launching", "quitting"}
    BY <1>2, <1>5
  <2>2. Launching # {c} \/ ShuttingDown
    BY <2>1 DEF Launching, ShuttingDown
  <2> QED
    BY <1>1, <2>2
<1> QED
  BY <1>4, <1>5 DEF RaceInv

LEMMA RaceStep ==
  ASSUME BrowserKinds, RaceInv, [BrowserNext]_browserVars
  PROVE  RaceInv'
<1>1. ASSUME NEW c \in Calls, MakeStep(c) PROVE RaceInv'
  BY <1>1, MakeMoves, RaceStays DEF Making
<1>2. ASSUME NEW c \in Calls, UseStep(c) PROVE RaceInv'
  BY <1>2, UseMoves, RaceStays DEF Using
<1>3. ASSUME NEW c \in Calls, CloseStepOf(c) PROVE RaceInv'
  BY <1>3, CloseMoves, RaceStays
<1>4. ASSUME NEW c \in Calls, AllClosed(c) PROVE RaceInv'
  <2>1. /\ UNCHANGED <<browser, raced, running>> /\ quit' = browser
        /\ at'[c] \in {"quitting", "done"} /\ \A d \in Calls \ {c} : at'[d] = at[d]
    BY <1>4, StandKinds, PlaceKinds DEF AllClosed
  <2> QED
    BY <2>1 DEF RaceInv, OrphansAreRaced
<1>5. ASSUME NEW c \in Calls, BrowserClosed(c) PROVE RaceInv'
  <2>1. /\ at[c] = "quitting" /\ browser' = 0 /\ quit' = 0 /\ raced' = raced
        /\ running' = running \ {quit}
    BY <1>5 DEF BrowserClosed, Gone
  <2>2. browser \in {quit} \cup raced
    BY <2>1 DEF RaceInv
  <2> QED
    BY <2>1, <2>2 DEF RaceInv, OrphansAreRaced
<1>6. ASSUME NEW b \in running, Crash(b) PROVE RaceInv'
  BY <1>6, RaceStays DEF Crash, Gone, toolVars
<1>7. CASE UNCHANGED browserVars
  BY <1>7, RaceStays DEF browserVars, managerVars, toolVars
<1> QED
  BY <1>1, <1>2, <1>3, <1>4, <1>5, <1>6, <1>7, StepsOfCalls, LaunchRaces DEF BrowserStep

LEMMA InitRaces == BrowserInit => RaceInv
BY DEF BrowserInit, RaceInv, OrphansAreRaced

(* A browser that runs is the one the manager will close, or it was launched *)
(* beside another launch or a shutdown.                                      *)
THEOREM OrphansCorrect == BrowserSpec => []OrphansAreRaced
<1>1. RaceInv => OrphansAreRaced
  BY DEF RaceInv
<1> QED
  BY <1>1, InitBrowserKinds, BrowserKindsStep, InitRaces, RaceStep, PTL DEF BrowserSpec

-----------------------------------------------------------------------------
(* Why an instruction is alone in its conversation with the model.  Who has  *)
(* steps and a place at which a session is used has the session's lock, and  *)
(* nobody else has such a place with this session.                           *)
Holds(c) == at[c] \in Using /\ steps[c] > 0

LockInv ==
  /\ \A c \in Calls : at[c] = "idle" => steps[c] = 0
  /\ \A c \in Calls : at[c] \in Using => of[c] \in Calls
  /\ \A c \in Calls : at[c] \in {"looking", "asking", "doing"} => steps[c] > 0
  /\ \A c \in Calls : Holds(c) => of[c] \in locks
  /\ \A c, d \in Calls : Holds(c) /\ Holds(d) /\ of[c] = of[d] => c = d
  /\ ChainIsOwn

LEMMA InitLocks == BrowserInit => LockInv
BY DEF BrowserInit, LockInv, Holds, Using, ChainIsOwn

(* Steps of calls that use no session, some of which end conversations.      *)
LEMMA LocksStay ==
  ASSUME LockInv, UNCHANGED <<steps, locks>>,
         \A s \in Calls : chain'[s] \in {None, chain[s]},
         \A d \in Calls : (at'[d] = at[d] /\ of'[d] = of[d]) \/ at'[d] \notin Using \cup {"idle"}
  PROVE  LockInv'
<1>1. \A d \in Calls : Holds(d)' => Holds(d) /\ of'[d] = of[d]
  BY DEF Holds
<1>2. ChainIsOwn'
  <2> SUFFICES ASSUME NEW d \in Calls, at'[d] \in {"asking", "doing"}
               PROVE  chain'[of'[d]] \in {None, d}
    BY DEF ChainIsOwn
  <2>1. at'[d] = at[d] /\ of'[d] = of[d] /\ of[d] \in Calls
    BY DEF Using, LockInv
  <2> QED
    BY <2>1 DEF LockInv, ChainIsOwn
<1> QED
  BY <1>1, <1>2 DEF LockInv, Using

(* A call goes on with its session, and nobody else is in the way.           *)
LEMMA GoesOnLocked ==
  ASSUME LockInv, NEW c \in Calls, at[c] \in Using, at'[c] \in Using, UNCHANGED <<of, locks>>,
         \A d \in Calls \ {c} : at'[d] = at[d] /\ steps'[d] = steps[d],
         steps'[c] > 0 <=> steps[c] > 0,
         at'[c] \in {"looking", "asking", "doing"} => steps'[c] > 0,
         \A s \in Calls : s # of[c] => chain'[s] = chain[s],
         chain'[of[c]] = chain[of[c]] \/ steps[c] > 0,
         at'[c] \in {"asking", "doing"} => chain'[of[c]] \in {None, c}
  PROVE  LockInv'
<1>1. \A d \in Calls : Holds(d)' => Holds(d)
  BY DEF Holds
<1>2. ChainIsOwn'
  <2> SUFFICES ASSUME NEW d \in Calls, at'[d] \in {"asking", "doing"}, d # c
               PROVE  chain'[of[d]] \in {None, d}
    BY DEF ChainIsOwn
  <2>1. at[d] \in {"asking", "doing"} /\ of[d] \in Calls /\ Holds(d)
    BY DEF Using, LockInv, Holds
  <2>2. chain[of[d]] \in {None, d}
    BY <2>1 DEF LockInv, ChainIsOwn
  <2>3. of[d] # of[c] \/ ~(steps[c] > 0)
    BY <2>1 DEF LockInv, Holds
  <2> QED
    BY <2>1, <2>2, <2>3
<1> QED
  BY <1>1, <1>2 DEF LockInv, Using

LEMMA EndsLocked ==
  ASSUME BrowserKinds, LockInv, NEW c \in Calls, at[c] \in Using, End(c),
         UNCHANGED <<of, steps>>,
         \A s \in Calls : s # of[c] => chain'[s] = chain[s],
         chain'[of[c]] = chain[of[c]] \/ steps[c] > 0
  PROVE  LockInv'
<1>1. at'[c] = "done" /\ \A d \in Calls \ {c} : at'[d] = at[d]
  BY StandKinds, PlaceKinds DEF End
<1>2. \A d \in Calls : Holds(d)' => Holds(d) /\ d # c
  BY <1>1 DEF Holds, Using
<1>3. ASSUME NEW d \in Calls, Holds(d)' PROVE of[d] \in locks'
  <2>1. Holds(d) /\ d # c /\ of[d] \in locks
    BY <1>2, <1>3 DEF LockInv
  <2>2. steps[c] > 0 => of[d] # of[c]
    BY <2>1 DEF LockInv, Holds
  <2> QED
    BY <2>1, <2>2 DEF End
<1>4. ChainIsOwn'
  <2> SUFFICES ASSUME NEW d \in Calls, at'[d] \in {"asking", "doing"}
               PROVE  chain'[of[d]] \in {None, d}
    BY DEF ChainIsOwn
  <2>1. d # c /\ at[d] \in {"asking", "doing"} /\ of[d] \in Calls /\ Holds(d)
    BY <1>1 DEF Using, LockInv, Holds
  <2>2. chain[of[d]] \in {None, d}
    BY <2>1 DEF LockInv, ChainIsOwn
  <2>3. of[d] # of[c] \/ ~(steps[c] > 0)
    BY <2>1 DEF LockInv, Holds
  <2> QED
    BY <2>1, <2>2, <2>3
<1> QED
  BY <1>1, <1>2, <1>3, <1>4 DEF LockInv, Using

(* A call begins to use a session, with its lock or, to navigate, without.   *)
LEMMA TakeLocks ==
  ASSUME BrowserKinds, LockInv, NEW c \in Calls, NEW s \in Calls,
         \/ Navigate(c, s)
         \/ \E place \in {"acting", "looking"} : Take(c, s, place)
  PROVE  LockInv'
<1>k. /\ at \in [Calls -> Places] /\ of \in [Calls -> Calls \cup {None}]
      /\ steps \in [Calls -> Nat]
  BY DEF BrowserKinds
<1>1. /\ at[c] = "idle" /\ chain' = chain /\ of' = [of EXCEPT ![c] = s]
      /\ \/ Stand(c, "acting") /\ UNCHANGED <<steps, locks>>
         \/ Stand(c, "done") /\ UNCHANGED <<steps, locks>>
         \/ /\ \E place \in {"acting", "looking"} : Stand(c, place)
            /\ s \notin locks /\ steps' = [steps EXCEPT ![c] = 1] /\ locks' = locks \cup {s}
  BY DEF Navigate, Take
<1>2. /\ of'[c] = s /\ steps[c] = 0 /\ ~Holds(c)
      /\ \A d \in Calls \ {c} : of'[d] = of[d] /\ at'[d] = at[d] /\ steps'[d] = steps[d]
  <2>1. \A d \in Calls \ {c} : at'[d] = at[d]
    BY <1>1, StandKinds, PlaceKinds
  <2>2. \A d \in Calls \ {c} : steps'[d] = steps[d]
    BY <1>1, <1>k
  <2> QED
    BY <1>1, <1>k, <2>1, <2>2 DEF LockInv, Holds, Using
<1>3. \A d \in Calls \ {c} : Holds(d)' <=> Holds(d)
  BY <1>2 DEF Holds
<1>4. at'[c] \in {"acting", "looking", "done"}
  BY <1>1, StandKinds, PlaceKinds
<1>5. ChainIsOwn'
  BY <1>1, <1>2, <1>4 DEF LockInv, ChainIsOwn
<1>6. CASE /\ Stand(c, "acting") \/ Stand(c, "done")
           /\ UNCHANGED <<steps, locks>>
  <2>1. at'[c] \in {"acting", "done"} /\ ~Holds(c)'
    BY <1>2, <1>6, StandKinds, PlaceKinds DEF Holds
  <2> QED
    BY <1>2, <1>3, <1>5, <1>6, <2>1 DEF LockInv, Using
<1>7. CASE s \notin locks /\ steps' = [steps EXCEPT ![c] = 1] /\ locks' = locks \cup {s}
  <2>1. steps'[c] = 1
    BY <1>7, <1>k
  <2>2. \A d \in Calls \ {c} : Holds(d)' => of'[d] # s
    BY <1>2, <1>3, <1>7 DEF LockInv
  <2> QED
    BY <1>2, <1>3, <1>4, <1>5, <1>7, <2>1, <2>2 DEF LockInv, Using
<1> QED
  BY <1>1, <1>6, <1>7

LEMMA UseLocks ==
  ASSUME BrowserKinds, LockInv, NEW c \in Calls, UseStep(c)
  PROVE  LockInv'
<1>k. /\ at \in [Calls -> Places] /\ of \in [Calls -> Calls \cup {None}]
      /\ steps \in [Calls -> Nat] /\ chain \in [Calls -> Calls \cup {None}]
  BY DEF BrowserKinds
<1>u. at[c] \in Using => of[c] \in Calls
  BY DEF LockInv
<1>1. CASE \E s \in Calls : Navigate(c, s) \/ Act(c, s) \/ InstructPage(c, s)
  BY <1>1, TakeLocks DEF Act, InstructPage
<1>2. CASE Acted(c)
  <2>1. at[c] = "acting" /\ UNCHANGED <<of, steps, chain>>
    BY <1>2 DEF Acted
  <2>2. CASE End(c)
    BY <2>1, <2>2, EndsLocked DEF Using
  <2>3. CASE Stand(c, "wrapping") /\ locks' = locks
    <3>1. at'[c] = "wrapping" /\ \A d \in Calls \ {c} : at'[d] = at[d]
      BY <2>3, StandKinds, PlaceKinds
    <3> QED
      BY <2>1, <2>3, <3>1, GoesOnLocked DEF Using
  <2> QED
    BY <1>2, <2>2, <2>3 DEF Acted
<1>3. CASE AskFails(c) \/ Wrapped(c)
  BY <1>3, EndsLocked DEF AskFails, Wrapped, Using
<1>4. CASE Looked(c)
  <2>1. at[c] = "looking" /\ UNCHANGED <<of, steps>> /\ steps[c] > 0 /\ of[c] \in Calls
    BY <1>4, <1>u DEF Looked, LockInv, Using
  <2>2. CASE End(c) /\ chain' = chain
    BY <2>1, <2>2, EndsLocked DEF Using
  <2>3. CASE Stand(c, "asking") /\ chain' = [chain EXCEPT ![of[c]] = None] /\ locks' = locks
    <3>1. at'[c] = "asking" /\ \A d \in Calls \ {c} : at'[d] = at[d]
      BY <2>3, StandKinds, PlaceKinds
    <3>2. chain'[of[c]] = None /\ \A s \in Calls : s # of[c] => chain'[s] = chain[s]
      BY <1>k, <2>1, <2>3
    <3> QED
      BY <2>1, <2>3, <3>1, <3>2, GoesOnLocked DEF Using
  <2> QED
    BY <1>4, <2>2, <2>3 DEF Looked
<1>5. CASE Answered(c)
  <2>1. /\ at[c] = "asking" /\ of' = of /\ steps[c] > 0 /\ of[c] \in Calls
        /\ chain' = [chain EXCEPT ![of[c]] = c]
    BY <1>5, <1>u DEF Answered, LockInv, Using
  <2>2. chain'[of[c]] = c /\ \A s \in Calls : s # of[c] => chain'[s] = chain[s]
    BY <1>k, <2>1
  <2>3. CASE End(c) /\ steps' = steps
    BY <2>1, <2>2, <2>3, EndsLocked DEF Using
  <2>4. CASE (Stand(c, "doing") \/ Stand(c, "wrapping")) /\ UNCHANGED <<steps, locks>>
    <3>1. at'[c] \in {"doing", "wrapping"} /\ \A d \in Calls \ {c} : at'[d] = at[d]
      BY <2>4, StandKinds, PlaceKinds
    <3> QED
      BY <2>1, <2>2, <2>4, <3>1, GoesOnLocked DEF Using
  <2>5. CASE steps' = [steps EXCEPT ![c] = @ + 1] /\ UNCHANGED <<at, locks>>
    <3>1. steps'[c] = steps[c] + 1 /\ \A d \in Calls \ {c} : steps'[d] = steps[d]
      BY <1>k, <2>5
    <3>2. steps'[c] > 0
      BY <1>k, <3>1
    <3> QED
      BY <2>1, <2>2, <2>5, <3>1, <3>2, GoesOnLocked DEF Using
  <2> QED
    BY <1>5, <2>3, <2>4, <2>5 DEF Answered
<1>6. CASE Done(c)
  <2>1. /\ at[c] = "doing" /\ UNCHANGED <<of, chain>> /\ steps[c] > 0 /\ of[c] \in Calls
        /\ chain[of[c]] \in {None, c}
    BY <1>6, <1>u DEF Done, LockInv, Using, ChainIsOwn
  <2>2. CASE End(c) /\ steps' = steps
    BY <2>1, <2>2, EndsLocked DEF Using
  <2>3. CASE Stand(c, "wrapping") /\ UNCHANGED <<steps, locks>>
    <3>1. at'[c] = "wrapping" /\ \A d \in Calls \ {c} : at'[d] = at[d]
      BY <2>3, StandKinds, PlaceKinds
    <3> QED
      BY <2>1, <2>3, <3>1, GoesOnLocked DEF Using
  <2>4. CASE Stand(c, "asking") /\ steps' = [steps EXCEPT ![c] = @ + 1] /\ locks' = locks
    <3>1. at'[c] = "asking" /\ \A d \in Calls \ {c} : at'[d] = at[d]
      BY <2>4, StandKinds, PlaceKinds
    <3>2. steps'[c] = steps[c] + 1 /\ \A d \in Calls \ {c} : steps'[d] = steps[d]
      BY <1>k, <2>4
    <3>3. steps'[c] > 0
      BY <1>k, <3>2
    <3> QED
      BY <2>1, <2>4, <3>1, <3>2, <3>3, GoesOnLocked DEF Using
  <2> QED
    BY <1>6, <2>2, <2>3, <2>4 DEF Done
<1> QED
  BY <1>1, <1>2, <1>3, <1>4, <1>5, <1>6 DEF UseStep

LEMMA LockStep ==
  ASSUME BrowserKinds, LockInv, [BrowserNext]_browserVars
  PROVE  LockInv'
<1>1. ASSUME NEW c \in Calls, MakeStep(c) PROVE LockInv'
  BY <1>1, MakeMoves, LocksStay DEF Making, Using
<1>2. ASSUME NEW c \in Calls, CloseStepOf(c) PROVE LockInv'
  BY <1>2, CloseMoves, LocksStay DEF Using
<1>3. ASSUME NEW c \in Calls, BrowserStep(c) PROVE LockInv'
  BY <1>3, BrowserMoves, LocksStay DEF Using
<1>4. ASSUME NEW b \in running, Crash(b) PROVE LockInv'
  BY <1>4, LocksStay DEF Crash, toolVars
<1>5. CASE UNCHANGED browserVars
  BY <1>5, LocksStay DEF browserVars, toolVars
<1> QED
  BY <1>1, <1>2, <1>3, <1>4, <1>5, UseLocks, StepsOfCalls

(* Of two calls of browser_action at work, actions or instructions, neither  *)
(* uses the session of the other.                                            *)
THEOREM LocksCorrect ==
  BrowserSpec => [](\A c, d \in Calls : Holds(c) /\ Holds(d) /\ of[c] = of[d] => c = d)
<1>1. LockInv => \A c, d \in Calls : Holds(c) /\ Holds(d) /\ of[c] = of[d] => c = d
  BY DEF LockInv
<1> QED
  BY <1>1, InitBrowserKinds, BrowserKindsStep, InitLocks, LockStep, PTL DEF BrowserSpec

(* What a session's strategy remembers of the model is of the instruction    *)
(* that asks, however instructions, actions, closes and failures overlap.    *)
THEOREM ChainCorrect == BrowserSpec => []ChainIsOwn
<1>1. LockInv => ChainIsOwn
  BY DEF LockInv
<1> QED
  BY <1>1, InitBrowserKinds, BrowserKindsStep, InitLocks, LockStep, PTL DEF BrowserSpec

-----------------------------------------------------------------------------
(* Why only what a torn session left behind outlives its session.  What is   *)
(* open is a field of its session, so that a close finds it; what a session  *)
(* is still given after its close was begun, it is given because its call    *)
(* was not through with it, which makes it torn.                             *)
OutliveInv ==
  /\ OnlyTornOutlive
  /\ pages \ sessions \subseteq torn
  /\ contexts \subseteq context /\ pages \subseteq page
  /\ \A s \in Calls : s \in sessions => at[s] \in Born
  /\ \A s \in Calls : at[s] \in {"opening", "paging"} /\ s \notin sessions => s \in torn
  /\ \A c, s \in Calls, what \in {"page", "context"} : <<c, s, what>> \in closing =>
       at[s] \in Born /\ (at[s] \in {"opening", "paging"} => s \in torn)

LEMMA InitOutlives == BrowserInit => OutliveInv
BY DEF BrowserInit, OutliveInv, OnlyTornOutlive, Born

(* Steps that open and close nothing.                                        *)
LEMMA OutliveStays ==
  ASSUME OutliveInv, NEW c \in Calls, UNCHANGED <<closing, torn, context, page>>,
         contexts' \subseteq contexts, pages' \subseteq pages, shown' \subseteq shown,
         \A d \in Calls \ {c} : at'[d] = at[d],
         \/ /\ sessions' = sessions
            /\ at'[c] \in {"opening", "paging"} => at'[c] = at[c]
            /\ at[c] \in Born => at'[c] \in Born
         \/ at[c] \notin Born /\ at'[c] = "opening" /\ sessions' = sessions \cup {c}
  PROVE  OutliveInv'
<1>1. OnlyTornOutlive'
  BY DEF OutliveInv, OnlyTornOutlive
<1>2. pages' \ sessions' \subseteq torn' /\ contexts' \subseteq context' /\ pages' \subseteq page'
  BY DEF OutliveInv
<1>3. \A s \in Calls : s \in sessions' => at'[s] \in Born
  BY DEF OutliveInv, Born
<1>4. \A s \in Calls : at'[s] \in {"opening", "paging"} /\ s \notin sessions' => s \in torn'
  BY DEF OutliveInv
<1>5. ASSUME NEW d \in Calls, NEW s \in Calls, NEW what \in {"page", "context"},
             <<d, s, what>> \in closing
      PROVE  at'[s] \in Born /\ (at'[s] \in {"opening", "paging"} => s \in torn')
  BY <1>5 DEF OutliveInv
<1> QED
  BY <1>1, <1>2, <1>3, <1>4, <1>5 DEF OutliveInv

(* The steps that make a session.                                            *)
LEMMA MakeOutlives ==
  ASSUME BrowserKinds, OutliveInv, NEW c \in Calls, MakeStep(c)
  PROVE  OutliveInv'
<1> USE DEF managerVars, sessionVars
<1>0. \A d \in Calls \ {c} : at'[d] = at[d]
  BY MakeMoves
<1>1. ASSUME CreateInManager(c), at[c] \in {"idle", "listing"}
      PROVE  OutliveInv'
  BY <1>1, CreateMakes, OutliveStays DEF Born
<1>2. ASSUME at'[c] = "done" \/ (at[c] = "idle" /\ at'[c] = "listing") \/ at'[c] = at[c],
             UNCHANGED <<closing, torn, context, page, contexts, pages, shown, sessions>>
      PROVE  OutliveInv'
  BY <1>0, <1>2, OutliveStays DEF Born
<1>3. CASE CreateSession(c)
  <2>1. CASE at[c] = "idle" /\ CreateInManager(c)
    BY <1>1, <2>1
  <2>2. CASE /\ at[c] = "idle" /\ (Stand(c, "done") \/ Stand(c, "listing"))
             /\ UNCHANGED <<closing, torn, context, page, contexts, pages, shown, sessions>>
    <3>1. at'[c] = "done" \/ at'[c] = "listing"
      BY <2>2, StandKinds, PlaceKinds
    <3> QED
      BY <1>2, <2>2, <3>1
  <2> QED
    BY <1>3, <2>1, <2>2 DEF CreateSession
<1>4. CASE ListNext(c)
  BY <1>2, <1>4 DEF ListNext
<1>5. CASE LaunchFails(c) \/ InitializeFails(c)
  <2>1. /\ Stand(c, "done")
        /\ UNCHANGED <<closing, torn, context, page, contexts, pages, shown, sessions>>
    BY <1>5 DEF LaunchFails, InitializeFails
  <2>2. at'[c] = "done"
    BY <2>1, StandKinds, PlaceKinds
  <2> QED
    BY <1>2, <2>1, <2>2
<1>6. CASE Listed(c)
  <2>1. CASE at[c] = "listing" /\ CreateInManager(c)
    BY <1>1, <2>1
  <2>2. CASE /\ Stand(c, "done")
             /\ UNCHANGED <<closing, torn, context, page, contexts, pages, shown, sessions>>
    <3>1. at'[c] = "done"
      BY <2>2, StandKinds, PlaceKinds
    <3> QED
      BY <1>2, <2>2, <3>1
  <2> QED
    BY <1>6, <2>1, <2>2 DEF Listed
<1>7. CASE ContextOpened(c)
  <2>1. /\ at[c] = "opening" /\ contexts' = contexts \cup {c} /\ context' = context \cup {c}
        /\ UNCHANGED <<sessions, page, pages, torn, closing, shown>>
        /\ at'[c] = "paging"
    BY <1>7, StandKinds, PlaceKinds DEF ContextOpened
  <2>2. c \in sessions \/ c \in torn
    BY <2>1 DEF OutliveInv
  <2> QED
    BY <1>0, <2>1, <2>2 DEF OutliveInv, OnlyTornOutlive, Born
<1>8. CASE PageOpened(c)
  <2>1. /\ at[c] = "paging" /\ pages' = pages \cup {c} /\ page' = page \cup {c}
        /\ UNCHANGED <<sessions, context, contexts, torn, closing, shown>>
        /\ at'[c] = "describing"
    BY <1>8, StandKinds, PlaceKinds DEF PageOpened
  <2>2. c \in sessions \/ c \in torn
    BY <2>1 DEF OutliveInv
  <2> QED
    BY <1>0, <2>1, <2>2 DEF OutliveInv, OnlyTornOutlive, Born
<1>9. CASE Described(c)
  <2>1. /\ shown' = (IF c \in pages THEN shown \cup {c} ELSE shown)
        /\ UNCHANGED <<sessions, context, contexts, page, pages, torn, closing>>
        /\ at[c] = "describing" /\ at'[c] = "done"
    BY <1>9, StandKinds, PlaceKinds DEF Described
  <2> QED
    BY <1>0, <2>1 DEF OutliveInv, OnlyTornOutlive, Born
<1> QED
  BY <1>3, <1>4, <1>5, <1>6, <1>7, <1>8, <1>9 DEF MakeStep

(* The beginning of a close, of sessions the manager has.                    *)
LEMMA BeginCloseOutlives ==
  ASSUME OutliveInv, NEW c \in Calls, at[c] = "idle", at'[c] = "closing",
         \A d \in Calls \ {c} : at'[d] = at[d],
         UNCHANGED <<context, page, contexts, pages>>,
         NEW S \in SUBSET sessions, BeginClose(c, S)
  PROVE  OutliveInv'
<1>1. /\ torn' = torn \cup {s \in S : at[s] \in {"opening", "paging"}}
      /\ closing' = closing \cup {<<c, s, "page">> : s \in S \cap page}
                            \cup {<<c, s, "context">> : s \in (S \cap context) \ page}
      /\ sessions' = sessions \ (S \ (page \cup context))
      /\ shown' = shown \ (S \ (page \cup context))
  BY DEF BeginClose, Forget
<1>2. c \notin sessions /\ at[c] \notin Born /\ at'[c] \notin Born
  BY DEF OutliveInv, Born
<1>3. OnlyTornOutlive' /\ pages' \ sessions' \subseteq torn'
  BY <1>1 DEF OutliveInv, OnlyTornOutlive
<1>4. \A s \in Calls : s \in sessions' => at'[s] \in Born
  BY <1>1, <1>2 DEF OutliveInv
<1>5. \A s \in Calls : at'[s] \in {"opening", "paging"} /\ s \notin sessions' => s \in torn'
  BY <1>1, <1>2 DEF OutliveInv
<1>6. ASSUME NEW d \in Calls, NEW s \in Calls, NEW what \in {"page", "context"},
             <<d, s, what>> \in closing'
      PROVE  at'[s] \in Born /\ (at'[s] \in {"opening", "paging"} => s \in torn')
  <2>1. <<d, s, what>> \in closing \/ s \in S
    BY <1>1, <1>6
  <2>2. CASE <<d, s, what>> \in closing
    BY <1>1, <1>2, <2>2 DEF OutliveInv
  <2>3. CASE s \in S
    BY <1>1, <1>2, <2>3 DEF OutliveInv
  <2> QED
    BY <2>1, <2>2, <2>3
<1> QED
  BY <1>3, <1>4, <1>5, <1>6 DEF OutliveInv

LEMMA CloseOutlives ==
  ASSUME BrowserKinds, OutliveInv, NEW c \in Calls, CloseStepOf(c)
  PROVE  OutliveInv'
<1>1. ASSUME NEW s \in Calls, CloseSession(c, s) PROVE OutliveInv'
  <2>1. /\ at[c] = "idle" /\ UNCHANGED <<context, page, contexts, pages>>
        /\ BeginClose(c, {s} \cap sessions) /\ Stand(c, "closing")
    BY <1>1 DEF CloseSession
  <2> QED
    BY <2>1, StandKinds, PlaceKinds, BeginCloseOutlives
<1>2. CASE Shutdown(c)
  <2>1. /\ at[c] = "idle" /\ UNCHANGED <<context, page, contexts, pages>>
        /\ BeginClose(c, sessions) /\ Stand(c, "closing")
    BY <1>2 DEF Shutdown
  <2> QED
    BY <2>1, StandKinds, PlaceKinds, BeginCloseOutlives
<1>3. CASE Closed(c)
  <2>1. /\ at'[c] = "done" /\ \A d \in Calls \ {c} : at'[d] = at[d]
        /\ UNCHANGED <<closing, torn, context, page, contexts, pages, shown, sessions>>
    BY <1>3, StandKinds, PlaceKinds DEF Closed, sessionVars
  <2> QED
    BY <2>1, OutliveStays DEF Born
<1>4. ASSUME NEW s \in Calls, PageClosed(c, s) PROVE OutliveInv'
  <2>1. /\ <<c, s, "page">> \in closing /\ pages' = pages \ {s} /\ page' = page \ {s}
        /\ UNCHANGED <<contexts, context, torn, at>>
        /\ \/ /\ closing' = (closing \ {<<c, s, "page">>}) \cup {<<c, s, "context">>}
              /\ UNCHANGED <<sessions, shown>>
           \/ /\ s \notin context /\ closing' \subseteq closing
              /\ sessions' = sessions \ {s} /\ shown' = shown \ {s}
    BY <1>4 DEF PageClosed, Forget, toolVars
  <2>2. at[s] \in Born /\ (at[s] \in {"opening", "paging"} => s \in torn)
    BY <2>1 DEF OutliveInv
  <2>3. \A d, r \in Calls, what \in {"page", "context"} :
          <<d, r, what>> \in closing' => <<d, r, what>> \in closing \/ r = s
    BY <2>1
  <2> QED
    BY <2>1, <2>2, <2>3 DEF OutliveInv, OnlyTornOutlive
<1>5. ASSUME NEW s \in Calls, ContextClosed(c, s) PROVE OutliveInv'
  <2>1. /\ <<c, s, "context">> \in closing
        /\ contexts' = contexts \ {s} /\ pages' = pages \ {s} /\ context' = context \ {s}
        /\ sessions' = sessions \ {s} /\ shown' = shown \ {s} /\ closing' \subseteq closing
        /\ UNCHANGED <<page, torn, at>>
    BY <1>5 DEF ContextClosed, Forget, toolVars
  <2>2. at[s] \in Born /\ (at[s] \in {"opening", "paging"} => s \in torn)
    BY <2>1 DEF OutliveInv
  <2> QED
    BY <2>1, <2>2 DEF OutliveInv, OnlyTornOutlive
<1> QED
  BY <1>1, <1>2, <1>3, <1>4, <1>5 DEF CloseStepOf

LEMMA OutliveStep ==
  ASSUME BrowserKinds, OutliveInv, [BrowserNext]_browserVars
  PROVE  OutliveInv'
<1>1. ASSUME NEW c \in Calls, UseStep(c) PROVE OutliveInv'
  BY <1>1, UseMoves, OutliveStays DEF Using, Born
<1>2. ASSUME NEW c \in Calls, BrowserStep(c) PROVE OutliveInv'
  BY <1>2, BrowserMoves, OutliveStays DEF Born
<1>3. ASSUME NEW b \in running, Crash(b) PROVE OutliveInv'
  BY <1>3 DEF Crash, Gone, toolVars, OutliveInv, OnlyTornOutlive
<1>4. CASE UNCHANGED browserVars
  BY <1>4 DEF browserVars, sessionVars, toolVars, OutliveInv,
     OnlyTornOutlive
<1> QED
  BY <1>1, <1>2, <1>3, <1>4, MakeOutlives, CloseOutlives, StepsOfCalls

(* A context that is open in a browser, and a session that the web page      *)
(* lists, are of a session the manager still has, unless it was closed       *)
(* before it was initialized.                                                *)
THEOREM OutliveCorrect == BrowserSpec => []OnlyTornOutlive
<1>1. OutliveInv => OnlyTornOutlive
  BY DEF OutliveInv
<1> QED
  BY <1>1, InitBrowserKinds, BrowserKindsStep, InitOutlives, OutliveStep, PTL DEF BrowserSpec
=============================================================================
