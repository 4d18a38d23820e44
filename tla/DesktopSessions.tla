-------------------------- MODULE DesktopSessions --------------------------
(***************************************************************************)
(* Desktop sessions (src/src/desktop/manager.ts, session.ts, the tools in  *)
(* src/src/desktop/tools/).  A session drives the one Windows Sandbox of   *)
(* the machine over VNC.  Calls of createSession wait for each other, find *)
(* or launch the sandbox, wait for its VNC server and connect; a call of   *)
(* resumeSession only connects.  Whoever closes a session aborts its       *)
(* creation, and stops the sandbox if the session was in use.  Tools run   *)
(* actions and instructions in a session meanwhile.                        *)
(*                                                                         *)
(* A launch of the sandbox is known by its number; so is its address,      *)
(* which its setup script writes into the directory it was launched with.  *)
(***************************************************************************)
EXTENDS Naturals, Sequences

CONSTANTS
  Sessions,     \* sessions; each is made by one call of create or resume
  Used,         \* bound of the model: sessions in which tools work
  Closers,      \* calls of closeSession
  Old,          \* a directory that an earlier run of the program has left
  NoDir,        \* no directory
  NoSession,    \* no session
  MaxLaunches,  \* bound of the model: launches of the sandbox
  MaxTries      \* attempts to connect (maxVncRetries)

Dirs == Sessions \cup {Old}
Launches == 0..MaxLaunches    \* 0: no sandbox, no address, no connection

ASSUME DesktopAssumption ==
  /\ Used \subseteq Sessions
  /\ Old \notin Sessions /\ NoDir \notin Dirs /\ NoSession \notin Sessions
  /\ MaxLaunches \in Nat \ {0} /\ MaxTries \in Nat \ {0}

VARIABLES
  pc,          \* what a call of createSession or resumeSession does
  queue,       \* creationLock: calls of createSession that wait
  resumed,     \* sessions made by resumeSession
  open,        \* sessions: the manager's map
  status,      \* status of a session instance
  host,        \* the launch a session connects to (vncConfig.host)
  link,        \* the launch its VNC client is connected to
  tries,       \* attempts to connect so far
  controllers, \* sessionAbortControllers
  aborted,     \* sessions whose signal is aborted
  closer,      \* what a call of closeSession does
  work,        \* what tools do in a session; "instruction" is the actionLock
  up,          \* the launch of the sandbox that runs
  home,        \* the directory it was launched with
  launched,    \* launches so far
  blind,       \* calls of createSession that missed the sandbox that ran, or did
               \* not get it killed, and have not launched yet (a history variable)
  dirs,        \* directories in the temp directory
  address,     \* connection.json of a directory
  tempDir      \* sessionTempDirs

callVars == <<pc, queue, resumed, tries>>
sessVars == <<open, status, host, link>>
boxVars  == <<up, home, launched, blind>>
fileVars == <<dirs, address, tempDir>>
vars == <<callVars, sessVars, controllers, aborted, closer, work, boxVars, fileVars>>

Awaiting == {"starting", "discovering", "probing", "connecting", "capturing", "retrying"}
Creating == Awaiting \cup {"checking", "finding", "stopping", "preparing", "killing", "removing"}
Ended == {"resolved", "rejected"}
Pcs == Creating \cup Ended \cup {"none", "queued", "seeking"}
Statuses == {"provisioning", "starting", "active", "busy", "error", "closed"}
Work == {"action", "instruction", "step"}
IdleCloser == [pc |-> "none", s |-> NoSession]

Init ==
  /\ pc = [s \in Sessions |-> "none"]
  /\ queue = <<>>
  /\ resumed = {} /\ open = {} /\ controllers = {} /\ aborted = {}
  /\ status = [s \in Sessions |-> "provisioning"]
  /\ host = [s \in Sessions |-> 0] /\ link = [s \in Sessions |-> 0]
  /\ tries = [s \in Sessions |-> 0]
  /\ closer = [c \in Closers |-> IdleCloser]
  /\ work = [s \in Sessions |-> {}]
  /\ up \in {0, 1} /\ home = (IF up = 0 THEN NoDir ELSE Old) /\ launched = 1 /\ blind = {}
  /\ dirs \in {{}, {Old}}
  /\ address \in {[d \in Dirs |-> IF d \in dirs THEN k ELSE 0] : k \in {0, 1}}
  /\ tempDir = [s \in Sessions |-> NoDir]

Goto(s, p) == pc' = [pc EXCEPT ![s] = p]

(* Every Windows Sandbox is killed.                                         *)
Stop == up' = 0 /\ home' = NoDir

(* An attempt to do so, whose errors are all swallowed.                     *)
TryStop == Stop \/ UNCHANGED <<up, home>>

-----------------------------------------------------------------------------
(* createSession and resumeSession                                         *)

(* createSession chains the call to creationLock.                           *)
Create(s) ==
  /\ pc[s] = "none"
  /\ Goto(s, "queued")
  /\ queue' = Append(queue, s)
  /\ UNCHANGED <<resumed, tries, sessVars, controllers, aborted, closer, work, boxVars,
                 fileVars>>

(* Mutants: creationLock is not waited for; a call that fails breaks the    *)
(* chain.                                                                   *)
BeginAtOnce(s) ==
  /\ queue # <<>> /\ s = Head(queue)
  /\ queue' = Tail(queue)
  /\ Goto(s, "checking")
  /\ open' = open \cup {s}
  /\ controllers' = controllers \cup {s}
  /\ UNCHANGED <<resumed, tries, status, host, link, aborted, closer, work, boxVars, fileVars>>

BeginAfterSuccess(s) ==
  /\ \A r \in Sessions \ resumed : pc[r] \notin Creating \cup {"rejected"}
  /\ BeginAtOnce(s)

(* The call before it has ended, either way: _doCreateSession.              *)
Begin(s) ==
  /\ queue # <<>> /\ s = Head(queue)
  /\ \A r \in Sessions \ resumed : pc[r] \notin Creating
  /\ queue' = Tail(queue)
  /\ Goto(s, "checking")
  /\ open' = open \cup {s}
  /\ controllers' = controllers \cup {s}
  /\ UNCHANGED <<resumed, tries, status, host, link, aborted, closer, work, boxVars, fileVars>>

(* An error is thrown to the catch of _doCreateSession: a session that was  *)
(* closed is cleaned up, any other stays as it is and the page is told.     *)
Throw(s) ==
  IF s \in aborted THEN Goto(s, "killing") /\ UNCHANGED controllers
  ELSE Goto(s, "rejected") /\ controllers' = controllers \ {s}

(* launchWindowsSandbox makes the directory of the session.                 *)
MakeDir(s) ==
  /\ Goto(s, "preparing")
  /\ dirs' = dirs \cup {s}
  /\ tempDir' = [tempDir EXCEPT ![s] = s]
  /\ UNCHANGED address

(* isWindowsSandboxRunning, which takes an error of its own for a no.       *)
Check(s) ==
  /\ pc[s] = "checking"
  /\ \/ up # 0 /\ Goto(s, "finding") /\ UNCHANGED <<fileVars, blind>>
     \/ up = 0 /\ MakeDir(s) /\ UNCHANGED blind
     \/ up # 0 /\ MakeDir(s) /\ blind' = blind \cup {s}
  /\ UNCHANGED <<queue, resumed, tries, sessVars, controllers, aborted, closer, work, up, home,
                 launched>>

(* findExistingSandboxConnection: a directory with a connection.json, of    *)
(* whichever launch; if there is none, or none can be read, the sandbox is  *)
(* replaced.                                                                *)
Find(s) ==
  /\ pc[s] = "finding"
  /\ \/ /\ \E d \in dirs :
             /\ address[d] # 0
             /\ tempDir' = [tempDir EXCEPT ![s] = d]
             /\ host' = [host EXCEPT ![s] = address[d]]
        /\ IF s \in aborted THEN Goto(s, "killing") ELSE Goto(s, "probing")
     \/ Goto(s, "stopping") /\ UNCHANGED <<tempDir, host>>
  /\ UNCHANGED <<queue, resumed, tries, open, status, link, controllers, aborted, closer, work,
                 boxVars, dirs, address>>

(* stopAllWindowsSandboxes; the launch goes on if the kills fail.           *)
StopAll(s) ==
  /\ pc[s] = "stopping"
  /\ TryStop
  /\ blind' = IF up' = 0 THEN blind ELSE blind \cup {s}
  /\ MakeDir(s)
  /\ UNCHANGED <<queue, resumed, tries, sessVars, controllers, aborted, closer, work,
                 launched>>

(* The files are written and WindowsSandbox.exe is spawned, aborted or not. *)
(* Nobody is told if it does not start; it does not beside another one.     *)
Spawn(s) ==
  /\ pc[s] = "preparing"
  /\ s \in dirs
  /\ launched < MaxLaunches
  /\ launched' = launched + 1 /\ blind' = blind \ {s}
  /\ \/ up = 0 /\ up' = launched + 1 /\ home' = s
     \/ UNCHANGED <<up, home>>
  /\ IF s \in aborted THEN Goto(s, "killing") ELSE Goto(s, "starting")
  /\ UNCHANGED <<queue, resumed, tries, sessVars, controllers, aborted, closer, work, fileVars>>

(* The launch fails, or the address is not found or the port not reachable  *)
(* in time.                                                                 *)
Fails(s) ==
  /\ pc[s] \in {"preparing", "discovering", "probing"}
  /\ Throw(s)
  /\ UNCHANGED <<queue, resumed, tries, sessVars, aborted, closer, work, boxVars, fileVars>>

Started(s) ==
  /\ pc[s] = "starting" /\ s \notin aborted
  /\ Goto(s, "discovering")
  /\ UNCHANGED <<queue, resumed, tries, sessVars, controllers, aborted, closer, work, boxVars,
                 fileVars>>

(* discoverSandboxIP.                                                       *)
Discover(s) ==
  /\ pc[s] = "discovering" /\ s \notin aborted
  /\ tempDir[s] # NoDir /\ address[tempDir[s]] # 0
  /\ host' = [host EXCEPT ![s] = address[tempDir[s]]]
  /\ Goto(s, "probing")
  /\ UNCHANGED <<queue, resumed, tries, open, status, link, controllers, aborted, closer, work,
                 boxVars, fileVars>>

(* waitForVNC, and initialize begins.                                       *)
Probe(s) ==
  /\ pc[s] = "probing" /\ s \notin aborted
  /\ host[s] = up
  /\ Goto(s, "connecting")
  /\ status' = [status EXCEPT ![s] = "starting"]
  /\ UNCHANGED <<queue, resumed, tries, open, host, link, controllers, aborted, closer, work,
                 boxVars, fileVars>>

(* initialize connects the VNC client, which gets a screen if the launch is *)
(* still the one that runs ...                                              *)
Connect(s) ==
  /\ pc[s] = "connecting" /\ s \notin aborted
  /\ status[s] = "starting"
  /\ host[s] = up /\ up # 0
  /\ link' = [link EXCEPT ![s] = up]
  /\ Goto(s, "capturing")
  /\ UNCHANGED <<queue, resumed, tries, open, status, host, controllers, aborted, closer, work,
                 boxVars, fileVars>>

(* Mutant: the screenshot is not raced with the abort.                      *)
CaptureUnraced(s) ==
  /\ pc[s] = "capturing"
  /\ status' = [status EXCEPT ![s] = "active"]
  /\ Goto(s, "resolved")
  /\ controllers' = controllers \ {s}
  /\ UNCHANGED <<queue, resumed, tries, open, host, link, aborted, closer, work, boxVars,
                 fileVars>>

(* ... and takes a first screenshot.  Nothing aborts this for a session     *)
(* that is resumed.                                                         *)
Capture(s) ==
  /\ pc[s] = "capturing" /\ s \notin aborted
  /\ status' = [status EXCEPT ![s] = "active"]
  /\ Goto(s, "resolved")
  /\ controllers' = controllers \ {s}
  /\ UNCHANGED <<queue, resumed, tries, open, host, link, aborted, closer, work, boxVars,
                 fileVars>>

(* initialize fails; createSession tries again after resetForRetry.         *)
ConnectFails(s) ==
  /\ pc[s] \in {"connecting", "capturing"} /\ s \notin aborted
  /\ \/ /\ s \in resumed \/ tries[s] + 1 >= MaxTries
        /\ status' = [status EXCEPT ![s] = "error"]
        /\ Throw(s)
        /\ UNCHANGED <<tries, link>>
     \/ /\ s \notin resumed /\ tries[s] + 1 < MaxTries
        /\ status' = [status EXCEPT ![s] = "provisioning"]
        /\ link' = [link EXCEPT ![s] = 0]
        /\ tries' = [tries EXCEPT ![s] = @ + 1]
        /\ Goto(s, "retrying")
        /\ UNCHANGED controllers
  /\ UNCHANGED <<queue, resumed, open, host, aborted, closer, work, boxVars, fileVars>>

Retry(s) ==
  /\ pc[s] = "retrying" /\ s \notin aborted
  /\ Goto(s, "connecting")
  /\ status' = [status EXCEPT ![s] = "starting"]
  /\ UNCHANGED <<queue, resumed, tries, open, host, link, controllers, aborted, closer, work,
                 boxVars, fileVars>>

(* Every wait of createSession ends at once when its signal is aborted; in  *)
(* initialize the session is set to error on the way.                       *)
Abort(s) ==
  /\ pc[s] \in Awaiting /\ s \in aborted
  /\ status' = [status EXCEPT ![s] = IF pc[s] \in {"connecting", "capturing"} THEN "error" ELSE @]
  /\ Goto(s, "killing")
  /\ UNCHANGED <<queue, resumed, tries, open, host, link, controllers, aborted, closer, work,
                 boxVars, fileVars>>

(* stopSandbox kills every Windows Sandbox, whoever launched it ...         *)
Kill(s) ==
  /\ pc[s] = "killing"
  /\ TryStop
  /\ Goto(s, "removing")
  /\ UNCHANGED <<queue, resumed, tries, sessVars, controllers, aborted, closer, work,
                 launched, blind, fileVars>>

(* ... and removes the directory of the session, or forgets it if that      *)
(* fails.                                                                   *)
RemoveDir(s) ==
  /\ \/ /\ dirs' = dirs \ {tempDir[s]}
        /\ address' = [d \in Dirs |-> IF d = tempDir[s] THEN 0 ELSE address[d]]
     \/ UNCHANGED <<dirs, address>>
  /\ tempDir' = [tempDir EXCEPT ![s] = NoDir]

CleanUp(s) ==
  /\ pc[s] = "removing"
  /\ RemoveDir(s)
  /\ open' = open \ {s}
  /\ Goto(s, "rejected")
  /\ UNCHANGED <<queue, resumed, tries, status, host, link, controllers, aborted, closer, work,
                 boxVars>>

(* resumeSession looks for a VNC server that answers.                       *)
Resume(s) ==
  /\ pc[s] = "none"
  /\ Goto(s, "seeking")
  /\ resumed' = resumed \cup {s}
  /\ UNCHANGED <<queue, tries, sessVars, controllers, aborted, closer, work, boxVars, fileVars>>

Seek(s) ==
  /\ pc[s] = "seeking"
  /\ IF up # 0
     THEN /\ Goto(s, "connecting")
          /\ host' = [host EXCEPT ![s] = up]
          /\ status' = [status EXCEPT ![s] = "starting"]
          /\ open' = open \cup {s}
             ELSE Goto(s, "rejected") /\ UNCHANGED <<host, status, open>>
  /\ UNCHANGED <<queue, resumed, tries, link, controllers, aborted, closer, work, boxVars,
                 fileVars>>

-----------------------------------------------------------------------------
(* closeSession, of the tool, of the HTTP route or of closeAllSessions.     *)

(* It aborts the creation and closes the instance, which is done at once;   *)
(* the sandbox is stopped if the session was in use.                        *)
Close(c, s) ==
  /\ closer[c].pc = "none" /\ s \in open
  /\ aborted' = IF s \in controllers THEN aborted \cup {s} ELSE aborted
  /\ controllers' = controllers \ {s}
  /\ status' = [status EXCEPT ![s] = "closed"]
  /\ link' = [link EXCEPT ![s] = 0]
  /\ closer' = [closer EXCEPT ![c] =
                  [pc |-> IF status[s] \in {"active", "busy"} THEN "killing" ELSE "removing",
                   s |-> s]]
  /\ UNCHANGED <<callVars, open, host, work, boxVars, fileVars>>

CloseKill(c) ==
  /\ closer[c].pc = "killing"
  /\ TryStop
  /\ closer' = [closer EXCEPT ![c].pc = "removing"]
  /\ UNCHANGED <<callVars, sessVars, controllers, aborted, work, launched, blind,
                 fileVars>>

CloseRemove(c) ==
  /\ closer[c].pc = "removing"
  /\ RemoveDir(closer[c].s)
  /\ open' = open \ {closer[c].s}
  /\ closer' = [closer EXCEPT ![c].pc = "done"]
  /\ UNCHANGED <<callVars, status, host, link, controllers, aborted, work, boxVars>>

-----------------------------------------------------------------------------
(* What tools do in a session                                              *)

Does(s, w, st) ==
  /\ work' = [work EXCEPT ![s] = w]
  /\ status' = [status EXCEPT ![s] = st]
  /\ UNCHANGED <<callVars, open, host, link, controllers, aborted, closer, boxVars, fileVars>>

(* The tool refuses a session that is busy, and the session one that is not *)
(* connected.                                                               *)
Usable(s) == s \in Used \cap open /\ status[s] # "busy" /\ link[s] # 0

(* executeAction; one at a time is a bound of the model.                    *)
Action(s) ==
  /\ Usable(s) /\ "action" \notin work[s]
  /\ Does(s, work[s] \cup {"action"}, "busy")

(* Mutant: the status is left as it is.                                     *)
ActionEndsBusy(s) ==
  /\ "action" \in work[s]
  /\ Does(s, work[s] \ {"action"}, status[s])

ActionEnds(s) ==
  /\ "action" \in work[s]
  /\ Does(s, work[s] \ {"action"}, "active")

(* executeInstruction takes the actionLock.                                 *)
Instruct(s) ==
  /\ Usable(s) /\ pc[s] = "resolved" /\ "instruction" \notin work[s]
  /\ Does(s, work[s] \cup {"instruction"}, "busy")

Thinking(s) == "instruction" \in work[s] /\ "step" \notin work[s]

(* The model's answer is an action of its own ...                           *)
Step(s) ==
  /\ Thinking(s) /\ link[s] # 0
  /\ Does(s, work[s] \cup {"step"}, "busy")

StepEnds(s) ==
  /\ "step" \in work[s]
  /\ Does(s, work[s] \ {"step"}, "active")

(* ... or that the instruction is done, or there were enough steps.         *)
InstructionEnds(s) ==
  /\ Thinking(s)
  /\ Does(s, work[s] \ {"instruction"}, "active")

InstructionFails(s) ==
  /\ Thinking(s)
  /\ Does(s, work[s] \ {"instruction"}, "error")

-----------------------------------------------------------------------------
(* The sandbox                                                             *)

(* Its setup script writes connection.json into the directory it sees.      *)
Report ==
  /\ up # 0 /\ home \in dirs /\ address[home] # up
  /\ address' = [address EXCEPT ![home] = up]
  /\ UNCHANGED <<callVars, sessVars, controllers, aborted, closer, work, boxVars, dirs, tempDir>>

SandboxCrash ==
  /\ up # 0
  /\ Stop
  /\ UNCHANGED <<callVars, sessVars, controllers, aborted, closer, work, launched, blind,
                 fileVars>>

(* The VNC client tells its session of a lost connection.                   *)
Disconnect(s) ==
  /\ link[s] # 0 /\ link[s] # up
  /\ link' = [link EXCEPT ![s] = 0]
  /\ status' = [status EXCEPT ![s] = "error"]
  /\ UNCHANGED <<callVars, open, host, controllers, aborted, closer, work, boxVars, fileVars>>

-----------------------------------------------------------------------------
(* The steps of createSession that end by themselves: a timer bounds each.  *)
CreateStep(s) ==
  \/ Begin(s) \/ Check(s) \/ Find(s) \/ StopAll(s) \/ Spawn(s) \/ Fails(s) \/ Started(s)
  \/ Discover(s) \/ Probe(s) \/ Connect(s) \/ Capture(s) \/ ConnectFails(s) \/ Retry(s)
  \/ Abort(s) \/ Kill(s) \/ CleanUp(s)
CloseStep(c) == CloseKill(c) \/ CloseRemove(c)

Next ==
  \/ \E s \in Sessions :
       \/ Create(s) \/ CreateStep(s) \/ Resume(s) \/ Seek(s)
       \/ Action(s) \/ ActionEnds(s) \/ Instruct(s) \/ Step(s) \/ StepEnds(s)
       \/ InstructionEnds(s) \/ InstructionFails(s) \/ Disconnect(s)
  \/ \E c \in Closers : CloseStep(c) \/ \E s \in Sessions : Close(c, s)
  \/ Report \/ SandboxCrash

Spec == Init /\ [][Next]_vars
FairSpec == Spec /\ WF_vars(\E s \in Sessions : CreateStep(s))

-----------------------------------------------------------------------------
(* Every variable keeps its kind; a session that is being made by           *)
(* createSession is in the map until its own clean-up or that of a closer,  *)
(* and one that can be aborted is being made.                               *)
TypeOK ==
  /\ pc \in [Sessions -> Pcs] /\ queue \in Seq(Sessions)
  /\ resumed \subseteq Sessions /\ tries \in [Sessions -> 0..MaxTries - 1]
  /\ open \subseteq Sessions /\ status \in [Sessions -> Statuses]
  /\ host \in [Sessions -> Launches] /\ link \in [Sessions -> Launches]
  /\ controllers \subseteq Sessions /\ aborted \subseteq Sessions
  /\ closer \in [Closers -> [pc : {"none", "killing", "removing", "done"},
                             s : Sessions \cup {NoSession}]]
  /\ work \in [Sessions -> SUBSET Work]
  /\ up \in 0..launched /\ blind \subseteq Sessions
  /\ home \in Dirs \cup {NoDir} /\ launched \in Launches
  /\ dirs \subseteq Dirs /\ address \in [Dirs -> Launches]
  /\ tempDir \in [Sessions -> Dirs \cup {NoDir}]

(* Two calls of createSession never both launch the sandbox (creationLock:  *)
(* "to prevent double-launch"): a launch happens while a sandbox runs only  *)
(* if the call that launches asked itself whether one ran and got a wrong   *)
(* answer, or tried to kill it in vain - never because another call, a      *)
(* close or a crash came in between.                                        *)
NoDoubleLaunch ==
  [][launched' # launched /\ up # 0 =>
       \E s \in blind : pc[s] = "preparing" /\ pc'[s] # "preparing"]_vars

(* A call of createSession hands over a session that is still the           *)
(* manager's, whatever closes it meanwhile: the abort comes before the      *)
(* answer, or the close after it.                                           *)
CreatedIsOpen ==
  [][\A s \in Sessions \ resumed :
       pc[s] # "resolved" /\ pc'[s] = "resolved" => s \in open' /\ status[s] # "closed"]_vars

(* A session whose creation is under way can be aborted until it is.        *)
CreationAbortable ==
  \A s \in Sessions \ resumed : pc[s] \in Creating => (s \in controllers <=> s \notin aborted)

(* A session is busy only while something is done in it: no interleaving of *)
(* actions, steps and instructions leaves it refusing every tool.           *)
BusyIsWorking == \A s \in Sessions : status[s] = "busy" => work[s] # {}

(* Every call of createSession is answered, whichever of the calls before   *)
(* it fails or is aborted.                                                  *)
CallsSettle == \A s \in Sessions : pc[s] = "queued" ~> pc[s] \in Ended
=============================================================================
