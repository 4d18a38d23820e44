----------------------------- MODULE McpClient -----------------------------
(***************************************************************************)
(* The MCP client (src/src/mcp/client.ts): servers that are registered at  *)
(* start (index.ts), switched on and off by the settings page (PATCH       *)
(* /api/mcps/:id of server/index.ts) and asked for tools by the tool       *)
(* runner.  A server is a child process that reads requests and writes     *)
(* answers as lines, or an HTTP address.  Requests to processes carry the  *)
(* number requestId and are looked up in pendingRequests when a line       *)
(* arrives; each has a timer of 30 s.                                      *)
(*                                                                         *)
(* A process is named by the registration or the switch that started it.   *)
(* The contents of tools, resources and prompts are left out.              *)
(***************************************************************************)
EXTENDS Integers, FiniteSets

CONSTANTS
    Servers,   \* ids of the configured servers, each also the name of its registration
    Stdio,     \* those with a command: child processes
    AtStart,   \* those enabled by the configuration and not disabled by the user
    Switches,  \* requests of the settings page to enable or disable a server
    Calls,     \* calls of invokeTool by the tool runner
    None       \* no server, no process

ASSUME ServersAssumption == Stdio \subseteq Servers /\ AtStart \subseteq Servers
ASSUME NamesAssumption ==
    /\ Servers \cap Switches = {} /\ Servers \cap Calls = {} /\ Switches \cap Calls = {}
    /\ None \notin Servers \cup Switches \cup Calls

VARIABLES
    enabled,    \* servers[s].enabled
    saved,      \* what the user settings say of each server
    status,     \* serverStatus
    known,      \* servers whose tools are in the map tools
    processes,  \* the process the client has of each server
    life,       \* of each process; lost: it runs, and another's exit made the client forget it
    at,         \* where each registration, switch and call is
    of,         \* the server it is about
    requestId,  \* the last number used
    pending,    \* pendingRequests: number and who waits
    waiting,    \* the number of the request each awaits, 0: none with a process
    sent        \* requests written to a process and not answered by it

vars == <<enabled, saved, status, known, processes, life, at, of,
          requestId, pending, waiting, sent>>

Starters == Servers \cup Switches
Waiters == Starters \cup Calls

\* The requests a starter or a call awaits, and what a starter does until it is done.
Asking == {"initialize", "tools", "resources", "prompts", "call"}
Working == {"ready", "initialize", "tools", "resources", "prompts"}

Init ==
    /\ enabled = [s \in Servers |-> s \in AtStart]
    /\ saved = enabled
    /\ status = [s \in Servers |-> "disconnected"]
    /\ known = {}
    /\ processes = [s \in Servers |-> None]
    /\ life = [o \in Starters |-> "none"]
    /\ at = [w \in Waiters |-> "idle"]
    /\ of = [w \in Waiters |-> IF w \in Servers THEN w ELSE None]
    /\ requestId = 0
    /\ pending = {}
    /\ waiting = [w \in Waiters |-> 0]
    /\ sent = {}

-----------------------------------------------------------------------------
(* Requests *)

\* A bug: numbers are given out again when their requests are over.
NextFreeId == Cardinality(pending) + 1

NextId == requestId + 1

\* No request is made; left are pending, rest still to be answered.
NoRequest(w, left, rest) ==
    /\ pending' = left /\ sent' = rest
    /\ waiting' = [waiting EXCEPT ![w] = 0]
    /\ UNCHANGED requestId

\* sendRequest: to the process of s if there is one; a request to no process is
\* rejected at once, one over HTTP is not numbered.
Request(w, s, left, rest) ==
    \/ /\ s \in Stdio /\ processes[s] # None
       /\ requestId' = NextId
       /\ pending' = {e \in left : e.id # NextId} \cup {[id |-> NextId, by |-> w]}
       /\ sent' = rest \cup {[id |-> NextId, by |-> w, to |-> processes[s]]}
       /\ waiting' = [waiting EXCEPT ![w] = NextId]
    \/ /\ s \notin Stdio \/ processes[s] = None
       /\ NoRequest(w, left, rest)

Goto(w, p) == at' = [at EXCEPT ![w] = p]

\* The answer to PATCH stores what was asked for, when setServerEnabled is over.
Save(w, s, on) ==
    saved' = IF w \in Switches THEN [saved EXCEPT ![s] = on] ELSE saved

\* discoverCapabilities is over.
Connected(w) ==
    /\ Goto(w, "done")
    /\ status' = [status EXCEPT ![of[w]] = "connected"]
    /\ Save(w, of[w], TRUE)

\* What follows the answer w awaits (ok) or its failure.
Resume(w, ok, left, rest) ==
    /\ \/ /\ at[w] = "initialize" /\ Goto(w, "tools")
          /\ Request(w, of[w], left, rest)
          /\ UNCHANGED <<known, status, saved>>
       \/ /\ at[w] = "tools" /\ Goto(w, "resources")
          /\ known' = IF ok THEN known \cup {of[w]} ELSE known
          /\ Request(w, of[w], left, rest)
          /\ UNCHANGED <<status, saved>>
       \/ /\ at[w] = "resources" /\ Goto(w, "prompts")
          /\ Request(w, of[w], left, rest)
          /\ UNCHANGED <<known, status, saved>>
       \/ /\ at[w] = "prompts" /\ Connected(w)
          /\ NoRequest(w, left, rest)
          /\ UNCHANGED known
       \/ /\ at[w] = "call" /\ Goto(w, IF ok THEN "answered" ELSE "failed")
          /\ NoRequest(w, left, rest)
          /\ UNCHANGED <<known, status, saved>>
    /\ UNCHANGED <<enabled, processes, life, of>>

\* A line of a process: it answers the request with its number, if one is pending.
Line(q, ok) ==
    /\ q \in sent
    /\ \/ \E e \in pending :
             e.id = q.id /\ Resume(e.by, ok, pending \ {e}, sent \ {q})
       \/ /\ \A e \in pending : e.id # q.id
          /\ sent' = sent \ {q}
          /\ UNCHANGED <<enabled, saved, status, known, processes, life, at, of,
                         requestId, pending, waiting>>

\* 30 s have passed since the request was made.
Timeout(w) ==
    /\ waiting[w] # 0
    /\ Resume(w, FALSE, {e \in pending : e.id # waiting[w]}, sent)

\* There was no process to write to.
Refused(w) ==
    /\ at[w] \in Asking /\ of[w] \in Stdio /\ waiting[w] = 0
    /\ Resume(w, FALSE, pending, sent)

\* The answer or the failure of a request over HTTP.
Fetched(w, ok) ==
    /\ at[w] \in Asking /\ of[w] \notin Stdio
    /\ Resume(w, ok, pending, sent)

-----------------------------------------------------------------------------
(* Servers *)

\* Connecting to s: its process is started, which may throw, or its tools are
\* asked for.
Connect(w, s, start) ==
    \/ /\ start
       /\ \/ /\ Goto(w, "ready")
             /\ processes' = [processes EXCEPT ![s] = w]
             /\ life' = [life EXCEPT ![w] = "running"]
             /\ status' = [status EXCEPT ![s] = "connecting"]
             /\ UNCHANGED saved
          \/ /\ Goto(w, "done")
             /\ status' = [status EXCEPT ![s] = "error"]
             /\ Save(w, s, TRUE)
             /\ UNCHANGED <<processes, life>>
       /\ NoRequest(w, pending, sent)
    \/ /\ ~start
       /\ Goto(w, "tools")
       /\ status' = [status EXCEPT ![s] = "connecting"]
       /\ Request(w, s, pending, sent)
       /\ UNCHANGED <<saved, processes, life>>

\* registerServer, of every server when the program starts.
Register(s) ==
    /\ at[s] = "idle"
    /\ \/ enabled[s] /\ Connect(s, s, s \in Stdio)
       \/ /\ ~enabled[s]
          /\ Goto(s, "done")
          /\ UNCHANGED <<saved, status, processes, life, requestId, pending, waiting, sent>>
    /\ UNCHANGED <<enabled, known, of>>

\* The web server and the agents start when every server is registered.
Started == \A s \in Servers : at[s] = "done"

\* A bug: the status is set before the state of the server is looked at.
EnableShownFirst(w, s) ==
    /\ enabled' = [enabled EXCEPT ![s] = TRUE]
    /\ \/ /\ enabled[s]
          /\ Goto(w, "done") /\ Save(w, s, TRUE)
          /\ status' = [status EXCEPT ![s] = "connecting"]
          /\ UNCHANGED <<processes, life, requestId, pending, waiting, sent>>
       \/ ~enabled[s] /\ Connect(w, s, s \in Stdio /\ processes[s] = None)

\* setServerEnabled(s, TRUE)
Enable(w, s) ==
    /\ enabled' = [enabled EXCEPT ![s] = TRUE]
    /\ \/ /\ enabled[s]
          /\ Goto(w, "done") /\ Save(w, s, TRUE)
          /\ UNCHANGED <<status, processes, life, requestId, pending, waiting, sent>>
       \/ ~enabled[s] /\ Connect(w, s, s \in Stdio /\ processes[s] = None)

\* A bug: the process is forgotten and runs on.
DisableUnkilled(w, s) ==
    /\ enabled' = [enabled EXCEPT ![s] = FALSE]
    /\ Goto(w, "done") /\ Save(w, s, FALSE)
    /\ IF enabled[s]
       THEN /\ status' = [status EXCEPT ![s] = "disconnected"]
            /\ processes' = [processes EXCEPT ![s] = None]
       ELSE UNCHANGED <<status, processes>>
    /\ UNCHANGED <<life, requestId, pending, waiting, sent>>

\* setServerEnabled(s, FALSE): the process, if the client has one, is killed.
Disable(w, s) ==
    /\ enabled' = [enabled EXCEPT ![s] = FALSE]
    /\ Goto(w, "done") /\ Save(w, s, FALSE)
    /\ IF enabled[s]
       THEN /\ status' = [status EXCEPT ![s] = "disconnected"]
            /\ processes' = [processes EXCEPT ![s] = None]
            /\ life' = [o \in Starters |-> IF o = processes[s] THEN "killed" ELSE life[o]]
       ELSE UNCHANGED <<status, processes, life>>
    /\ UNCHANGED <<requestId, pending, waiting, sent>>

\* PATCH /api/mcps/:id
Switch(w, s) ==
    /\ Started /\ at[w] = "idle"
    /\ of' = [of EXCEPT ![w] = s]
    /\ Enable(w, s) \/ Disable(w, s)
    /\ UNCHANGED known

\* A bug: the handshake is skipped if the process is no longer there.
ReadyIfRunning(w) ==
    /\ at[w] = "ready" /\ processes[of[w]] # None
    /\ Goto(w, "initialize")
    /\ Request(w, of[w], pending, sent)
    /\ UNCHANGED <<enabled, saved, status, known, processes, life, of>>

\* The second of startStdioServer is over: the handshake.
Ready(w) ==
    /\ at[w] = "ready"
    /\ Goto(w, "initialize")
    /\ Request(w, of[w], pending, sent)
    /\ UNCHANGED <<enabled, saved, status, known, processes, life, of>>

\* A process ends, killed or by itself; the handler forgets the process of its
\* server, whichever that is now.
Exit(o) ==
    /\ life[o] \in {"running", "lost", "killed"}
    /\ life' = [q \in Starters |-> IF q = o THEN "gone"
                                  ELSE IF q = processes[of[o]] THEN "lost" ELSE life[q]]
    /\ processes' = [processes EXCEPT ![of[o]] = None]
    /\ UNCHANGED <<enabled, saved, status, known, at, of, requestId, pending, waiting, sent>>

\* invokeTool, of a tool that was found once; a disabled server is not asked.
Invoke(k, s) ==
    /\ Started /\ at[k] = "idle" /\ s \in known
    /\ of' = [of EXCEPT ![k] = s]
    /\ \/ enabled[s] /\ Goto(k, "call") /\ Request(k, s, pending, sent)
       \/ ~enabled[s] /\ Goto(k, "failed") /\ NoRequest(k, pending, sent)
    /\ UNCHANGED <<enabled, saved, status, known, processes, life>>

Next ==
    \/ \E s \in Servers : Register(s)
    \/ \E w \in Switches, s \in Servers : Switch(w, s)
    \/ \E k \in Calls, s \in Servers : Invoke(k, s)
    \/ \E w \in Starters : Ready(w) \/ Exit(w)
    \/ \E q \in sent, ok \in BOOLEAN : Line(q, ok)
    \/ \E w \in Waiters : Timeout(w) \/ Refused(w) \/ \E ok \in BOOLEAN : Fetched(w, ok)

Spec == Init /\ [][Next]_vars

\* Timers fire, and a fetch ends, by an answer or by the time limit of Node.
FairSpec ==
    /\ Spec
    /\ \A w \in Starters : WF_vars(Ready(w))
    /\ \A w \in Waiters :
          WF_vars(Timeout(w) \/ Refused(w) \/ \E ok \in BOOLEAN : Fetched(w, ok))

-----------------------------------------------------------------------------
(* Properties *)

Entry == [id : Nat, by : Waiters]
Question == [id : Nat, by : Waiters, to : Starters]

\* Every variable keeps its kind: the maps hold servers, processes and requests
\* of the program (the fields of MCPClient).
TypeOK ==
    /\ enabled \in [Servers -> BOOLEAN] /\ saved \in [Servers -> BOOLEAN]
    /\ status \in [Servers -> {"disconnected", "connecting", "connected", "error"}]
    /\ known \subseteq Servers
    /\ processes \in [Servers -> Starters \cup {None}]
    /\ life \in [Starters -> {"none", "running", "lost", "killed", "gone"}]
    /\ at \in [Waiters -> Asking \cup Working \cup {"idle", "done", "answered", "failed"}]
    /\ of \in [Waiters -> Servers \cup {None}]
    /\ requestId \in Nat
    /\ pending \subseteq Entry
    /\ waiting \in [Waiters -> Nat]
    /\ sent \subseteq Question

\* The map of pending requests and the promises awaited agree: who awaits a
\* numbered request has exactly its entry in the map, and no entry is left that
\* nobody awaits, whatever was answered, timed out, killed or switched meanwhile.
PendingIsAwaited ==
    \A w \in Waiters, id \in 1 .. requestId :
       [id |-> id, by |-> w] \in pending <=> waiting[w] = id

\* A server shown as connecting is being connected to: status is not left at
\* "connecting" by starts and switches that overtake each other.
ConnectingIsAtWork ==
    \A s \in Servers : status[s] = "connecting" =>
       \E o \in Starters : of[o] = s /\ at[o] \in Working

\* What a process answers to one request is never taken for the answer to
\* another: a line only lets those go on who asked what it answers, also when
\* they have stopped waiting and others ask.
AnswersReachTheirCaller ==
    [][\A q \in sent : q \notin sent' =>
          \A w \in Waiters : at'[w] # at[w] => w = q.by]_vars

\* Every start, switch and tool call comes to its end, also when the process it
\* waits for is killed, exits or never answers.
EverythingSettles ==
    \A w \in Waiters : (at[w] \in Working \cup Asking) ~> (at[w] \in {"done", "answered", "failed"})

\* A process that runs is the one the client has of its server, so that a switch
\* stops it: the exit of another process of the server, which makes the client
\* forget it, is the only way in which a process is lost.
ForgottenIsOvertaken ==
    \A o \in Starters : life[o] = "running" => processes[of[o]] = o

\* "Disable: stop stdio server if running" (client.ts:500): a disabled server has
\* no process that runs.  Not so: a server switched on again before its killed
\* process has exited loses the new one when the old one exits.
DisabledIsStopped ==
    \A o \in Starters : life[o] \in {"running", "lost"} => enabled[of[o]]
=============================================================================
