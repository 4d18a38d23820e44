-------------------------- MODULE McpClient_proofs --------------------------
(***************************************************************************)
(* Theorems about McpClient.  Every step changes the requests through      *)
(* Request or NoRequest, so what keeps them together with the promises is  *)
(* proved once about these two (RequestTypes, RequestLinks).               *)
(***************************************************************************)
EXTENDS McpClient, TLAPS

Marks == Asking \cup Working \cup {"idle", "done", "answered", "failed"}

\* Who works or asks has a server; a registration has its own.
Placed ==
    /\ \A w \in Waiters : at[w] \in Asking \cup Working => of[w] \in Servers
    /\ \A s \in Servers : of[s] = s

TypeInv == TypeOK /\ Placed

\* What the two operators do to the requests keeps their kinds.
LEMMA RequestTypes ==
    ASSUME TypeOK, NEW w \in Waiters, NEW s \in Servers,
           NEW left \in SUBSET Entry, NEW rest \in SUBSET Question,
           Request(w, s, left, rest) \/ NoRequest(w, left, rest)
    PROVE  /\ requestId' \in Nat
           /\ pending' \subseteq Entry
           /\ waiting' \in [Waiters -> Nat]
           /\ sent' \subseteq Question
<1>1. CASE NoRequest(w, left, rest)
  BY <1>1 DEF NoRequest, TypeOK
<1>2. CASE s \in Stdio /\ processes[s] # None /\ Request(w, s, left, rest)
  <2>1. NextId \in Nat BY DEF NextId, TypeOK
  <2>2. processes[s] \in Starters BY <1>2 DEF TypeOK
  <2>3. [id |-> NextId, by |-> w] \in Entry BY <2>1 DEF Entry
  <2>4. [id |-> NextId, by |-> w, to |-> processes[s]] \in Question
    BY <2>1, <2>2 DEF Question
  <2>5. /\ requestId' = NextId
        /\ pending' = {e \in left : e.id # NextId} \cup {[id |-> NextId, by |-> w]}
        /\ sent' = rest \cup {[id |-> NextId, by |-> w, to |-> processes[s]]}
        /\ waiting' = [waiting EXCEPT ![w] = NextId]
    BY <1>2 DEF Request, NoRequest
  <2>6. waiting' \in [Waiters -> Nat] BY <2>1, <2>5 DEF TypeOK
  <2> QED BY <2>1, <2>3, <2>4, <2>5, <2>6
<1>3. CASE ~(s \in Stdio /\ processes[s] # None) /\ Request(w, s, left, rest)
  BY <1>3 DEF Request, NoRequest, TypeOK
<1> QED BY <1>1, <1>2, <1>3

\* The variables an answer leaves alone or moves on.
LEMMA ResumeTypes ==
    ASSUME TypeInv, NEW w \in Waiters, NEW ok \in BOOLEAN,
           NEW left \in SUBSET Entry, NEW rest \in SUBSET Question,
           Resume(w, ok, left, rest)
    PROVE  TypeInv'
<1>1. at[w] \in Asking /\ of[w] \in Servers
  BY DEF Resume, Asking, TypeInv, Placed
<1>2. Request(w, of[w], left, rest) \/ NoRequest(w, left, rest)
  BY DEF Resume
<1>3. /\ requestId' \in Nat /\ pending' \subseteq Entry
      /\ waiting' \in [Waiters -> Nat] /\ sent' \subseteq Question
  BY <1>1, <1>2, RequestTypes DEF TypeInv
<1>4. PICK m \in {"tools", "resources", "prompts", "done", "answered", "failed"} :
         at' = [at EXCEPT ![w] = m]
  BY DEF Resume, Goto, Connected
<1>5. m \in Marks BY DEF Marks, Asking, Working
<1>6. at' \in [Waiters -> Marks] BY <1>4, <1>5 DEF TypeInv, TypeOK, Marks
<1>7. known' = known \/ known' = known \cup {of[w]}
  BY DEF Resume
<1>8. known' \subseteq Servers BY <1>1, <1>7 DEF TypeInv, TypeOK
<1>9. status' = status \/ status' = [status EXCEPT ![of[w]] = "connected"]
  BY DEF Resume, Connected
<1>10. status' \in [Servers -> {"disconnected", "connecting", "connected", "error"}]
  BY <1>9 DEF TypeInv, TypeOK
<1>11. saved' = saved \/ saved' = [saved EXCEPT ![of[w]] = TRUE]
  BY DEF Resume, Connected, Save
<1>12. saved' \in [Servers -> BOOLEAN] BY <1>11 DEF TypeInv, TypeOK
<1>13. UNCHANGED <<enabled, processes, life, of>> BY DEF Resume
<1>14. TypeOK'
  BY <1>3, <1>6, <1>8, <1>10, <1>12, <1>13 DEF TypeInv, TypeOK, Marks
<1>15. Placed'
  <2>1. ASSUME NEW v \in Waiters, at'[v] \in Asking \cup Working
        PROVE  of'[v] \in Servers
    <3>1. v = w \/ at'[v] = at[v] BY <1>4 DEF TypeInv, TypeOK
    <3> QED BY <3>1, <2>1, <1>1, <1>13 DEF TypeInv, Placed
  <2> QED BY <2>1, <1>13 DEF TypeInv, Placed
<1> QED BY <1>14, <1>15 DEF TypeInv

LEMMA ConnectTypes ==
    ASSUME TypeInv, NEW w \in Starters, NEW s \in Servers, NEW start \in BOOLEAN,
           Connect(w, s, start)
    PROVE  /\ \E m \in {"ready", "done", "tools"} : at' = [at EXCEPT ![w] = m]
           /\ status' \in [Servers -> {"disconnected", "connecting", "connected", "error"}]
           /\ saved' \in [Servers -> BOOLEAN]
           /\ processes' \in [Servers -> Starters \cup {None}]
           /\ life' \in [Starters -> {"none", "running", "lost", "killed", "gone"}]
           /\ requestId' \in Nat /\ pending' \subseteq Entry
           /\ waiting' \in [Waiters -> Nat] /\ sent' \subseteq Question
<1>1. w \in Waiters BY DEF Waiters
<1>2. \E m \in {"ready", "done", "tools"} : at' = [at EXCEPT ![w] = m]
  BY DEF Connect, Goto
<1>3. \E m \in {"connecting", "error"} : status' = [status EXCEPT ![s] = m]
  BY DEF Connect
<1>4. saved' = saved \/ saved' = [saved EXCEPT ![s] = TRUE] BY DEF Connect, Save
<1>5. processes' = processes \/ processes' = [processes EXCEPT ![s] = w] BY DEF Connect
<1>6. life' = life \/ life' = [life EXCEPT ![w] = "running"] BY DEF Connect
<1>7. Request(w, s, pending, sent) \/ NoRequest(w, pending, sent) BY DEF Connect
<1>8. /\ requestId' \in Nat /\ pending' \subseteq Entry
      /\ waiting' \in [Waiters -> Nat] /\ sent' \subseteq Question
  BY <1>1, <1>7, RequestTypes DEF TypeInv, TypeOK
<1>9. status' \in [Servers -> {"disconnected", "connecting", "connected", "error"}]
  BY <1>3 DEF TypeInv, TypeOK
<1>10. saved' \in [Servers -> BOOLEAN] BY <1>4 DEF TypeInv, TypeOK
<1>11. processes' \in [Servers -> Starters \cup {None}] BY <1>5 DEF TypeInv, TypeOK
<1>12. life' \in [Starters -> {"none", "running", "lost", "killed", "gone"}]
  BY <1>6 DEF TypeInv, TypeOK
<1> QED BY <1>2, <1>8, <1>9, <1>10, <1>11, <1>12

\* Moving w, which has or gets a server, to a mark of its own.
LEMMA PlacedMoves ==
    ASSUME TypeInv, NEW w \in Waiters, NEW m \in Marks, at' = [at EXCEPT ![w] = m],
           \/ of' = of /\ of[w] \in Servers
           \/ \E s \in Servers : of' = [of EXCEPT ![w] = s] /\ w \notin Servers
    PROVE  /\ Placed'
           /\ at' \in [Waiters -> Asking \cup Working \cup {"idle", "done", "answered", "failed"}]
           /\ of' \in [Waiters -> Servers \cup {None}]
<1>1. at' \in [Waiters -> Asking \cup Working \cup {"idle", "done", "answered", "failed"}]
  BY DEF TypeInv, TypeOK, Marks
<1>2. of' \in [Waiters -> Servers \cup {None}] BY DEF TypeInv, TypeOK
<1>3. \A s \in Servers : of'[s] = s
  BY DEF TypeInv, TypeOK, Placed, Waiters, Starters
<1>4. ASSUME NEW v \in Waiters, at'[v] \in Asking \cup Working PROVE of'[v] \in Servers
  <2>1. CASE v = w BY <2>1 DEF TypeInv, TypeOK
  <2>2. CASE v # w
    <3>1. at'[v] = at[v] /\ of'[v] = of[v] BY <2>2 DEF TypeInv, TypeOK
    <3> QED BY <3>1, <1>4 DEF TypeInv, Placed
  <2> QED BY <2>1, <2>2
<1> QED BY <1>1, <1>2, <1>3, <1>4 DEF Placed

LEMMA RegisterTypes == ASSUME TypeInv, NEW s \in Servers, Register(s) PROVE TypeInv'
<1>1. s \in Starters /\ s \in Waiters /\ of[s] \in Servers
  BY DEF Starters, Waiters, TypeInv, Placed
<1>2. UNCHANGED <<enabled, known, of>> BY DEF Register
<1>3. CASE \E start \in BOOLEAN : Connect(s, s, start)
  <2>1. PICK start \in BOOLEAN : Connect(s, s, start) BY <1>3
  <2>2. PICK m \in {"ready", "done", "tools"} : at' = [at EXCEPT ![s] = m]
    BY <1>1, <2>1, ConnectTypes
  <2>3. m \in Marks BY DEF Marks, Asking, Working
  <2>4. /\ status' \in [Servers -> {"disconnected", "connecting", "connected", "error"}]
        /\ saved' \in [Servers -> BOOLEAN]
        /\ processes' \in [Servers -> Starters \cup {None}]
        /\ life' \in [Starters -> {"none", "running", "lost", "killed", "gone"}]
        /\ requestId' \in Nat /\ pending' \subseteq Entry
        /\ waiting' \in [Waiters -> Nat] /\ sent' \subseteq Question
    BY <1>1, <2>1, ConnectTypes
  <2>5. /\ Placed'
        /\ at' \in [Waiters -> Asking \cup Working \cup {"idle", "done", "answered", "failed"}]
        /\ of' \in [Waiters -> Servers \cup {None}]
    BY <1>1, <1>2, <2>2, <2>3, PlacedMoves
  <2> QED BY <1>2, <2>4, <2>5 DEF TypeInv, TypeOK
<1>4. CASE Goto(s, "done") /\ UNCHANGED <<saved, status, processes, life, requestId, pending, waiting, sent>>
  <2>1. at' = [at EXCEPT ![s] = "done"] /\ "done" \in Marks BY <1>4 DEF Goto, Marks
  <2> QED BY <1>1, <1>2, <1>4, <2>1, PlacedMoves DEF TypeInv, TypeOK
<1>5. (s \in Stdio) \in BOOLEAN OBVIOUS
<1> QED BY <1>3, <1>4, <1>5 DEF Register

LEMMA SwitchTypes ==
    ASSUME TypeInv, NEW w \in Switches, NEW s \in Servers, Switch(w, s) PROVE TypeInv'
<1>1. /\ w \in Starters /\ w \in Waiters /\ w \notin Servers
      /\ of' = [of EXCEPT ![w] = s] /\ known' = known
  BY NamesAssumption DEF Starters, Waiters, Switch
<1>2. enabled' \in [Servers -> BOOLEAN]
  BY DEF Switch, Enable, Disable, TypeInv, TypeOK
<1>3. CASE \E start \in BOOLEAN : Connect(w, s, start)
  <2>1. PICK start \in BOOLEAN : Connect(w, s, start) BY <1>3
  <2>2. PICK m \in {"ready", "done", "tools"} : at' = [at EXCEPT ![w] = m]
    BY <1>1, <2>1, ConnectTypes
  <2>3. m \in Marks BY DEF Marks, Asking, Working
  <2>4. /\ status' \in [Servers -> {"disconnected", "connecting", "connected", "error"}]
        /\ saved' \in [Servers -> BOOLEAN]
        /\ processes' \in [Servers -> Starters \cup {None}]
        /\ life' \in [Starters -> {"none", "running", "lost", "killed", "gone"}]
        /\ requestId' \in Nat /\ pending' \subseteq Entry
        /\ waiting' \in [Waiters -> Nat] /\ sent' \subseteq Question
    BY <1>1, <2>1, ConnectTypes
  <2>5. /\ Placed'
        /\ at' \in [Waiters -> Asking \cup Working \cup {"idle", "done", "answered", "failed"}]
        /\ of' \in [Waiters -> Servers \cup {None}]
    BY <1>1, <2>2, <2>3, PlacedMoves
  <2> QED BY <1>1, <1>2, <2>4, <2>5 DEF TypeInv, TypeOK
<1>4. CASE /\ Goto(w, "done") /\ \E on \in BOOLEAN : Save(w, s, on)
           /\ \/ UNCHANGED <<status, processes, life>>
              \/ /\ status' = [status EXCEPT ![s] = "disconnected"]
                 /\ processes' = [processes EXCEPT ![s] = None]
                 /\ life' = [o \in Starters |-> IF o = processes[s] THEN "killed" ELSE life[o]]
           /\ UNCHANGED <<requestId, pending, waiting, sent>>
  <2>1. at' = [at EXCEPT ![w] = "done"] /\ "done" \in Marks BY <1>4 DEF Goto, Marks
  <2>2. saved' \in [Servers -> BOOLEAN] BY <1>4 DEF Save, TypeInv, TypeOK
  <2>3. status' \in [Servers -> {"disconnected", "connecting", "connected", "error"}]
    BY <1>4 DEF TypeInv, TypeOK
  <2>4. processes' \in [Servers -> Starters \cup {None}] BY <1>4 DEF TypeInv, TypeOK
  <2>5. life' \in [Starters -> {"none", "running", "lost", "killed", "gone"}]
    BY <1>4 DEF TypeInv, TypeOK
  <2> QED BY <1>1, <1>2, <1>4, <2>1, <2>2, <2>3, <2>4, <2>5, PlacedMoves DEF TypeInv, TypeOK
<1> QED BY <1>3, <1>4 DEF Switch, Enable, Disable

LEMMA InvokeTypes ==
    ASSUME TypeInv, NEW k \in Calls, NEW s \in Servers, Invoke(k, s) PROVE TypeInv'
<1>1. k \in Waiters /\ k \notin Servers /\ of' = [of EXCEPT ![k] = s]
  BY NamesAssumption DEF Waiters, Invoke
<1>2. PICK m \in {"call", "failed"} : at' = [at EXCEPT ![k] = m] BY DEF Invoke, Goto
<1>3. m \in Marks BY DEF Marks, Asking
<1>4. Request(k, s, pending, sent) \/ NoRequest(k, pending, sent) BY DEF Invoke
<1>5. UNCHANGED <<enabled, saved, status, known, processes, life>> BY DEF Invoke
<1> QED BY <1>1, <1>2, <1>3, <1>4, <1>5, RequestTypes, PlacedMoves DEF TypeInv, TypeOK

LEMMA ReadyTypes == ASSUME TypeInv, NEW w \in Starters, Ready(w) PROVE TypeInv'
<1>1. w \in Waiters /\ of[w] \in Servers
  BY DEF Waiters, Ready, Working, TypeInv, Placed
<1>2. at' = [at EXCEPT ![w] = "initialize"] /\ "initialize" \in Marks
  BY DEF Ready, Goto, Marks, Asking
<1>3. Request(w, of[w], pending, sent) /\ UNCHANGED <<enabled, saved, status, known, processes, life, of>>
  BY DEF Ready
<1> QED BY <1>1, <1>2, <1>3, RequestTypes, PlacedMoves DEF TypeInv, TypeOK

LEMMA ExitTypes == ASSUME TypeInv, NEW o \in Starters, Exit(o) PROVE TypeInv'
<1>1. life' \in [Starters -> {"none", "running", "lost", "killed", "gone"}]
  BY DEF Exit, TypeInv, TypeOK
<1>2. processes' \in [Servers -> Starters \cup {None}]
  BY DEF Exit, TypeInv, TypeOK
<1> QED BY <1>1, <1>2 DEF Exit, TypeInv, TypeOK, Placed

LEMMA LineTypes ==
    ASSUME TypeInv, NEW q \in sent, NEW ok \in BOOLEAN, Line(q, ok) PROVE TypeInv'
<1>1. ASSUME NEW e \in pending, Resume(e.by, ok, pending \ {e}, sent \ {q}) PROVE TypeInv'
  <2>1. e.by \in Waiters /\ pending \ {e} \in SUBSET Entry /\ sent \ {q} \in SUBSET Question
    BY DEF TypeInv, TypeOK, Entry
  <2> QED BY <1>1, <2>1, ResumeTypes
<1>2. CASE /\ sent' = sent \ {q}
           /\ UNCHANGED <<enabled, saved, status, known, processes, life, at, of,
                          requestId, pending, waiting>>
  BY <1>2 DEF TypeInv, TypeOK, Placed
<1> QED BY <1>1, <1>2 DEF Line

LEMMA SettleTypes ==
    ASSUME TypeInv, NEW w \in Waiters,
           Timeout(w) \/ Refused(w) \/ \E ok \in BOOLEAN : Fetched(w, ok)
    PROVE  TypeInv'
<1>1. PICK ok \in BOOLEAN, left \in SUBSET Entry : Resume(w, ok, left, sent)
  BY DEF Timeout, Refused, Fetched, TypeInv, TypeOK
<1> QED BY <1>1, ResumeTypes DEF TypeInv, TypeOK

LEMMA TypeInvariant == Spec => []TypeInv
<1>1. Init => TypeInv
  <2> SUFFICES ASSUME Init PROVE TypeInv OBVIOUS
  <2>1. at = [w \in Waiters |-> "idle"] /\ of = [w \in Waiters |-> IF w \in Servers THEN w ELSE None]
    BY DEF Init
  <2>2. Placed BY <2>1 DEF Placed, Asking, Working, Waiters, Starters
  <2>3. TypeOK BY DEF Init, TypeOK
  <2> QED BY <2>2, <2>3 DEF TypeInv
<1>2. TypeInv /\ [Next]_vars => TypeInv'
  <2> SUFFICES ASSUME TypeInv, [Next]_vars PROVE TypeInv' OBVIOUS
  <2>1. CASE UNCHANGED vars BY <2>1 DEF vars, TypeInv, TypeOK, Placed
  <2>2. CASE Next
    BY <2>2, RegisterTypes, SwitchTypes, InvokeTypes, ReadyTypes, ExitTypes, LineTypes,
       SettleTypes DEF Next
  <2> QED BY <2>1, <2>2
<1> QED BY <1>1, <1>2, PTL DEF Spec

\* Every variable keeps its kind, for any servers, switches and calls.
THEOREM TypeCorrect == Spec => []TypeOK
<1>1. TypeInv => TypeOK BY DEF TypeInv
<1> QED BY <1>1, TypeInvariant, PTL

-----------------------------------------------------------------------------
\* Entries and questions p, q and promises a belong together up to number n: an
\* entry is awaited by its owner, a number has one entry, and what is asked under
\* the number of an entry was asked by its owner.
Linked(p, q, a, n) ==
    /\ \A e \in p : e.id \in 1 .. n /\ a[e.by] = e.id
    /\ \A e, f \in p : e.id = f.id => e = f
    /\ \A r \in q : r.id \in 1 .. n /\ \A e \in p : e.id = r.id => e.by = r.by

\* All of it, and who awaits a number has its entry and is at a request to a process.
LinkInv ==
    /\ Linked(pending, sent, waiting, requestId)
    /\ \A w \in Waiters : waiting[w] # 0 =>
          [id |-> waiting[w], by |-> w] \in pending /\ at[w] \in Asking /\ of[w] \in Stdio

\* The requests are linked again when w, that has no entry in left, goes on.
LEMMA RequestLinks ==
    ASSUME TypeInv, LinkInv, NEW w \in Waiters, NEW s \in Servers,
           NEW left \in SUBSET pending, NEW rest \in SUBSET sent,
           \A e \in left : e.by # w,
           \A v \in Waiters \ {w} : waiting[v] # 0 => [id |-> waiting[v], by |-> v] \in left,
           Request(w, s, left, rest) \/ NoRequest(w, left, rest),
           \A v \in Waiters \ {w} : at'[v] = at[v] /\ of'[v] = of[v],
           of'[w] = s,
           NoRequest(w, left, rest) \/ at'[w] \in Asking
    PROVE  LinkInv'
<1>1. CASE NoRequest(w, left, rest)
  <2>1. /\ pending' = left /\ sent' = rest /\ requestId' = requestId
        /\ waiting' = [waiting EXCEPT ![w] = 0]
    BY <1>1 DEF NoRequest
  <2>2. \A v \in Waiters : waiting'[v] = IF v = w THEN 0 ELSE waiting[v]
    BY <2>1 DEF TypeInv, TypeOK
  <2>3. \A e \in left : e.by \in Waiters BY DEF TypeInv, TypeOK, Entry
  <2>4. Linked(left, rest, waiting', requestId)
    BY <2>2, <2>3 DEF Linked, LinkInv
  <2>5. \A v \in Waiters : waiting'[v] # 0 =>
          [id |-> waiting'[v], by |-> v] \in left /\ at'[v] \in Asking /\ of'[v] \in Stdio
    BY <2>2 DEF LinkInv
  <2> QED BY <2>1, <2>4, <2>5 DEF LinkInv
<1>2. CASE s \in Stdio /\ processes[s] # None /\ Request(w, s, left, rest)
  <2> DEFINE n == NextId
             new == [id |-> n, by |-> w]
             asked == [id |-> n, by |-> w, to |-> processes[s]]
  <2>1. /\ requestId' = n /\ pending' = {e \in left : e.id # n} \cup {new}
        /\ sent' = rest \cup {asked} /\ waiting' = [waiting EXCEPT ![w] = n]
    BY <1>2 DEF Request, NoRequest
  <2>2. n = requestId + 1 /\ requestId \in Nat BY DEF NextId, TypeInv, TypeOK
  <2>3. \A v \in Waiters : waiting'[v] = IF v = w THEN n ELSE waiting[v]
    BY <2>1 DEF TypeInv, TypeOK
  <2>4. \A e \in left : e.id \in 1 .. requestId /\ e.id # n /\ e.by \in Waiters /\ waiting[e.by] = e.id
    BY <2>2 DEF TypeInv, TypeOK, Entry, LinkInv, Linked
  <2>5. \A r \in rest : r.id \in 1 .. requestId /\ r.id # n
    BY <2>2 DEF LinkInv, Linked
  <2>6. pending' = left \cup {new} BY <2>1, <2>4
  <2>7. new.id = n /\ new.by = w /\ asked.id = n /\ asked.by = w OBVIOUS
  <2> HIDE DEF n, new, asked
  <2>8. Linked(left \cup {new}, rest \cup {asked}, waiting', n)
    <3>1. \A e \in left \cup {new} : e.id \in 1 .. n /\ waiting'[e.by] = e.id
      BY <2>2, <2>3, <2>4, <2>7
    <3>2. \A e, f \in left \cup {new} : e.id = f.id => e = f
      BY <2>4, <2>7 DEF LinkInv, Linked
    <3>3. \A r \in rest \cup {asked} : r.id \in 1 .. n BY <2>2, <2>5, <2>7
    <3>4. \A r \in rest \cup {asked}, e \in left \cup {new} : e.id = r.id => e.by = r.by
      BY <2>4, <2>5, <2>7 DEF LinkInv, Linked
    <3> QED BY <3>1, <3>2, <3>3, <3>4 DEF Linked
  <2>9. \A v \in Waiters : waiting'[v] # 0 =>
          [id |-> waiting'[v], by |-> v] \in left \cup {new} /\ at'[v] \in Asking /\ of'[v] \in Stdio
    <3>1. \A v \in Waiters \ {w} : waiting'[v] # 0 =>
            [id |-> waiting'[v], by |-> v] \in left \cup {new} /\ at'[v] \in Asking /\ of'[v] \in Stdio
      BY <2>3 DEF LinkInv
    <3>2. waiting'[w] = n /\ [id |-> n, by |-> w] = new BY <2>3 DEF new
    <3>3. waiting' # [waiting EXCEPT ![w] = 0]
      BY <2>1, <2>2, <2>3 DEF TypeInv, TypeOK
    <3>4. at'[w] \in Asking BY <3>3 DEF NoRequest
    <3> QED BY <1>2, <3>1, <3>2, <3>4
  <2> QED BY <2>1, <2>6, <2>8, <2>9 DEF LinkInv
<1>3. CASE Request(w, s, left, rest) /\ ~(s \in Stdio /\ processes[s] # None)
  <2>1. NoRequest(w, left, rest) BY <1>3 DEF Request
  <2> QED BY <1>1, <2>1
<1> QED BY <1>1, <1>2, <1>3

\* The promise of w is settled: its entry is not in left.
LEMMA ResumeLinks ==
    ASSUME TypeInv, LinkInv, NEW w \in Waiters, NEW ok \in BOOLEAN,
           NEW left \in SUBSET pending, NEW rest \in SUBSET sent,
           \A e \in left : e.by # w,
           \A v \in Waiters \ {w} : waiting[v] # 0 => [id |-> waiting[v], by |-> v] \in left,
           Resume(w, ok, left, rest)
    PROVE  LinkInv' /\ \A v \in Waiters \ {w} : at'[v] = at[v]
<1>1. of[w] \in Servers /\ of' = of
  BY DEF Resume, Asking, TypeInv, Placed
<1>2. PICK m : at' = [at EXCEPT ![w] = m] BY DEF Resume, Goto, Connected
<1>3. \A v \in Waiters \ {w} : at'[v] = at[v] BY <1>2 DEF TypeInv, TypeOK
<1>4. NoRequest(w, left, rest) \/ (Request(w, of[w], left, rest) /\ at'[w] \in Asking)
  BY DEF Resume, Goto, Asking, TypeInv, TypeOK
<1> QED BY <1>1, <1>3, <1>4, RequestLinks

\* w asks, or goes on without asking, and has awaited nothing.
LEMMA BeginLinks ==
    ASSUME TypeInv, LinkInv, NEW w \in Waiters, NEW s \in Servers, waiting[w] = 0,
           \/ NoRequest(w, pending, sent)
           \/ Request(w, s, pending, sent) /\ at'[w] \in Asking,
           NEW m, at' = [at EXCEPT ![w] = m],
           of' = [of EXCEPT ![w] = s]
    PROVE  LinkInv'
<1>1. \A v \in Waiters \ {w} : at'[v] = at[v] /\ of'[v] = of[v] BY DEF TypeInv, TypeOK
<1>2. of'[w] = s BY DEF TypeInv, TypeOK
<1>3. \A e \in pending : e.by # w
  BY DEF LinkInv, Linked, TypeInv, TypeOK, Entry
<1>4. \A v \in Waiters \ {w} : waiting[v] # 0 => [id |-> waiting[v], by |-> v] \in pending
  BY DEF LinkInv
<1> QED BY <1>1, <1>2, <1>3, <1>4, RequestLinks

\* The requests are left as they are, and only who awaits nothing is moved.
LEMMA StillLinks ==
    ASSUME TypeInv, LinkInv, UNCHANGED <<requestId, pending, waiting, sent>>,
           \A v \in Waiters : waiting[v] # 0 => at'[v] = at[v] /\ of'[v] = of[v]
    PROVE  LinkInv'
BY DEF LinkInv, Linked

LEMMA SettleLinks ==
    ASSUME TypeInv, LinkInv, NEW w \in Waiters,
           Timeout(w) \/ Refused(w) \/ \E ok \in BOOLEAN : Fetched(w, ok)
    PROVE  LinkInv' /\ sent \subseteq sent'
<1>0. ASSUME NEW ok \in BOOLEAN, NEW left, Resume(w, ok, left, sent) PROVE sent \subseteq sent'
  BY <1>0 DEF Resume, Request, NoRequest
<1>1. CASE Timeout(w)
  <2> DEFINE left == {e \in pending : e.id # waiting[w]}
  <2>1. \A e \in left : e.by # w BY DEF LinkInv, Linked
  <2>2. ASSUME NEW v \in Waiters \ {w}, waiting[v] # 0
        PROVE  [id |-> waiting[v], by |-> v] \in left
    <3>1. [id |-> waiting[v], by |-> v] \in pending /\ [id |-> waiting[w], by |-> w] \in pending
      BY <1>1, <2>2 DEF LinkInv, Timeout
    <3>2. waiting[v] # waiting[w] BY <3>1 DEF LinkInv, Linked
    <3> QED BY <3>1, <3>2
  <2>3. Resume(w, FALSE, left, sent) BY <1>1 DEF Timeout
  <2> HIDE DEF left
  <2>4. left \in SUBSET pending BY DEF left
  <2> QED BY <1>0, <2>1, <2>2, <2>3, <2>4, ResumeLinks
<1>2. CASE Refused(w) \/ \E ok \in BOOLEAN : Fetched(w, ok)
  <2>1. waiting[w] = 0 BY <1>2 DEF Refused, Fetched, LinkInv
  <2>2. PICK ok \in BOOLEAN : Resume(w, ok, pending, sent) BY <1>2 DEF Refused, Fetched
  <2>3. \A e \in pending : e.by # w BY <2>1 DEF LinkInv, Linked, TypeInv, TypeOK, Entry
  <2>4. \A v \in Waiters \ {w} : waiting[v] # 0 => [id |-> waiting[v], by |-> v] \in pending
    BY DEF LinkInv
  <2> QED BY <1>0, <2>2, <2>3, <2>4, ResumeLinks
<1> QED BY <1>1, <1>2

LEMMA LineLinks ==
    ASSUME TypeInv, LinkInv, NEW q \in sent, NEW ok \in BOOLEAN, Line(q, ok)
    PROVE  /\ LinkInv' /\ sent \ {q} \subseteq sent'
           /\ \A w \in Waiters : at'[w] # at[w] => w = q.by
<1>1. ASSUME NEW e \in pending, e.id = q.id, Resume(e.by, ok, pending \ {e}, sent \ {q})
      PROVE  /\ LinkInv' /\ sent \ {q} \subseteq sent'
             /\ \A w \in Waiters : at'[w] # at[w] => w = q.by
  <2> DEFINE d == e.by
  <2>1. d \in Waiters /\ waiting[d] = e.id /\ d = q.by
    BY <1>1 DEF LinkInv, Linked, TypeInv, TypeOK, Entry
  <2>2. \A f \in pending \ {e} : f.by # d BY <2>1 DEF LinkInv, Linked
  <2>3. ASSUME NEW v \in Waiters \ {d}, waiting[v] # 0
        PROVE  [id |-> waiting[v], by |-> v] \in pending \ {e}
    BY <2>3 DEF LinkInv
  <2>4. sent \ {q} \subseteq sent' BY <1>1 DEF Resume, Request, NoRequest
  <2>5. Resume(d, ok, pending \ {e}, sent \ {q}) BY <1>1
  <2> HIDE DEF d
  <2>6. \A v \in Waiters \ {d} : waiting[v] # 0 => [id |-> waiting[v], by |-> v] \in pending \ {e}
    BY <2>3
  <2>7. pending \ {e} \in SUBSET pending /\ sent \ {q} \in SUBSET sent OBVIOUS
  <2>8. LinkInv' /\ \A v \in Waiters \ {d} : at'[v] = at[v]
    BY <2>1, <2>2, <2>5, <2>6, <2>7, ResumeLinks, SMTT(30)
  <2> QED BY <2>1, <2>4, <2>8
<1>2. CASE /\ sent' = sent \ {q}
           /\ UNCHANGED <<enabled, saved, status, known, processes, life, at, of,
                          requestId, pending, waiting>>
  BY <1>2 DEF LinkInv, Linked
<1> QED BY <1>1, <1>2 DEF Line

LEMMA ConnectLinks ==
    ASSUME TypeInv, LinkInv, NEW w \in Starters, NEW s \in Servers, NEW start \in BOOLEAN,
           at[w] = "idle", Connect(w, s, start), of' = [of EXCEPT ![w] = s]
    PROVE  LinkInv' /\ sent \subseteq sent'
<1>1. w \in Waiters /\ waiting[w] = 0 BY DEF Waiters, LinkInv, Asking
<1>2. PICK m : at' = [at EXCEPT ![w] = m] BY DEF Connect, Goto
<1>3. NoRequest(w, pending, sent) \/ (Request(w, s, pending, sent) /\ at'[w] \in Asking)
  BY <1>1 DEF Connect, Goto, Asking, TypeInv, TypeOK
<1>4. sent \subseteq sent' BY <1>3 DEF Request, NoRequest
<1> QED BY <1>1, <1>2, <1>3, <1>4, BeginLinks

LEMMA SwitchLinks ==
    ASSUME TypeInv, LinkInv, NEW w \in Switches, NEW s \in Servers, Switch(w, s)
    PROVE  LinkInv' /\ sent \subseteq sent'
<1>1. w \in Starters /\ at[w] = "idle" /\ of' = [of EXCEPT ![w] = s]
  BY DEF Switch, Starters
<1>2. CASE \E start \in BOOLEAN : Connect(w, s, start)
  BY <1>1, <1>2, ConnectLinks
<1>3. CASE Goto(w, "done") /\ UNCHANGED <<requestId, pending, waiting, sent>>
  <2>1. \A v \in Waiters : waiting[v] # 0 => v # w BY <1>1 DEF LinkInv, Asking
  <2>2. \A v \in Waiters : waiting[v] # 0 => at'[v] = at[v] /\ of'[v] = of[v]
    BY <1>1, <1>3, <2>1 DEF Goto, TypeInv, TypeOK
  <2> QED BY <1>3, <2>2, StillLinks
<1> QED BY <1>2, <1>3 DEF Switch, Enable, Disable

LEMMA RegisterLinks ==
    ASSUME TypeInv, LinkInv, NEW s \in Servers, Register(s)
    PROVE  LinkInv' /\ sent \subseteq sent'
<1>1. /\ s \in Starters /\ s \in Waiters /\ at[s] = "idle"
      /\ of' = of /\ of[s] = s /\ of' = [of EXCEPT ![s] = s]
  BY DEF Register, Starters, Waiters, TypeInv, TypeOK, Placed
<1>2. CASE \E start \in BOOLEAN : Connect(s, s, start)
  BY <1>1, <1>2, ConnectLinks
<1>3. CASE Goto(s, "done") /\ UNCHANGED <<requestId, pending, waiting, sent>>
  <2>1. \A v \in Waiters : waiting[v] # 0 => v # s BY <1>1 DEF LinkInv, Asking
  <2>2. \A v \in Waiters : waiting[v] # 0 => at'[v] = at[v] /\ of'[v] = of[v]
    BY <1>1, <1>3, <2>1 DEF Goto, TypeInv, TypeOK
  <2> QED BY <1>3, <2>2, StillLinks
<1>4. (s \in Stdio) \in BOOLEAN OBVIOUS
<1> QED BY <1>2, <1>3, <1>4 DEF Register

LEMMA InvokeLinks ==
    ASSUME TypeInv, LinkInv, NEW k \in Calls, NEW s \in Servers, Invoke(k, s)
    PROVE  LinkInv' /\ sent \subseteq sent'
<1>1. k \in Waiters /\ waiting[k] = 0 /\ of' = [of EXCEPT ![k] = s]
  BY DEF Waiters, Invoke, LinkInv, Asking
<1>2. PICK m : at' = [at EXCEPT ![k] = m] BY DEF Invoke, Goto
<1>3. NoRequest(k, pending, sent) \/ (Request(k, s, pending, sent) /\ at'[k] \in Asking)
  BY <1>1 DEF Invoke, Goto, Asking, TypeInv, TypeOK
<1>4. sent \subseteq sent' BY <1>3 DEF Request, NoRequest
<1> QED BY <1>1, <1>2, <1>3, <1>4, BeginLinks

LEMMA ReadyLinks ==
    ASSUME TypeInv, LinkInv, NEW w \in Starters, Ready(w)
    PROVE  LinkInv' /\ sent \subseteq sent'
<1>1. /\ w \in Waiters /\ waiting[w] = 0 /\ of[w] \in Servers
      /\ of' = of /\ of' = [of EXCEPT ![w] = of[w]]
  BY DEF Waiters, Ready, LinkInv, Asking, Working, TypeInv, TypeOK, Placed
<1>2. at' = [at EXCEPT ![w] = "initialize"] BY DEF Ready, Goto
<1>3. Request(w, of[w], pending, sent) /\ at'[w] \in Asking
  BY <1>1, <1>2 DEF Ready, Asking, TypeInv, TypeOK
<1>4. sent \subseteq sent' BY <1>3 DEF Request, NoRequest
<1> QED BY <1>1, <1>2, <1>3, <1>4, BeginLinks

LEMMA ExitLinks ==
    ASSUME TypeInv, LinkInv, NEW o \in Starters, Exit(o)
    PROVE  LinkInv' /\ sent \subseteq sent'
BY DEF Exit, LinkInv, Linked

\* Every step keeps the requests linked, and only a line removes a question.
LEMMA LinkStep ==
    ASSUME TypeInv, LinkInv, [Next]_vars
    PROVE  /\ LinkInv'
           /\ \A q \in sent : q \notin sent' =>
                 \A w \in Waiters : at'[w] # at[w] => w = q.by
<1>1. CASE UNCHANGED vars BY <1>1 DEF vars, LinkInv, Linked
<1>2. CASE \E q \in sent, ok \in BOOLEAN : Line(q, ok)
  <2>1. PICK q \in sent, ok \in BOOLEAN : Line(q, ok) BY <1>2
  <2> QED BY <2>1, LineLinks
<1>3. CASE \/ \E s \in Servers : Register(s)
           \/ \E w \in Switches, s \in Servers : Switch(w, s)
           \/ \E k \in Calls, s \in Servers : Invoke(k, s)
           \/ \E w \in Starters : Ready(w) \/ Exit(w)
           \/ \E w \in Waiters : Timeout(w) \/ Refused(w) \/ \E ok \in BOOLEAN : Fetched(w, ok)
  <2>1. LinkInv' /\ sent \subseteq sent'
    BY <1>3, RegisterLinks, SwitchLinks, InvokeLinks, ReadyLinks, ExitLinks, SettleLinks
  <2> QED BY <2>1
<1> QED BY <1>1, <1>2, <1>3 DEF Next

LEMMA LinkInvariant == Spec => [](TypeInv /\ LinkInv)
<1>1. Init => LinkInv
  <2> SUFFICES ASSUME Init PROVE LinkInv OBVIOUS
  <2>1. pending = {} /\ sent = {} /\ waiting = [w \in Waiters |-> 0] BY DEF Init
  <2> QED BY <2>1 DEF LinkInv, Linked
<1>2. TypeInv /\ LinkInv /\ [Next]_vars => LinkInv' BY LinkStep
<1> QED BY <1>1, <1>2, TypeInvariant, PTL DEF Spec

\* The map of pending requests holds exactly what is awaited, for any servers,
\* switches and calls.
THEOREM PendingCorrect == Spec => []PendingIsAwaited
<1>1. TypeInv /\ LinkInv => PendingIsAwaited
  <2> SUFFICES ASSUME TypeInv, LinkInv, NEW w \in Waiters, NEW id \in 1 .. requestId
               PROVE  [id |-> id, by |-> w] \in pending <=> waiting[w] = id
    BY DEF PendingIsAwaited
  <2>1. id # 0 BY DEF TypeInv, TypeOK
  <2>2. ASSUME [id |-> id, by |-> w] \in pending PROVE waiting[w] = id
    BY <2>2 DEF LinkInv, Linked
  <2>3. ASSUME waiting[w] = id PROVE [id |-> id, by |-> w] \in pending
    BY <2>1, <2>3 DEF LinkInv
  <2> QED BY <2>2, <2>3
<1> QED BY <1>1, LinkInvariant, PTL

\* A line only lets those go on who asked what it answers, for any servers,
\* switches and calls.
THEOREM AnswersCorrect == Spec => AnswersReachTheirCaller
<1>1. TypeInv /\ LinkInv /\ [Next]_vars =>
        [\A q \in sent : q \notin sent' =>
            \A w \in Waiters : at'[w] # at[w] => w = q.by]_vars
  BY LinkStep
<1> QED BY <1>1, LinkInvariant, PTL DEF Spec, AnswersReachTheirCaller

-----------------------------------------------------------------------------
\* A step moves one who works to another of its marks, or to its end with its
\* server no longer shown as connecting, or one who was not at work.
LEMMA ConnectingStep ==
    ASSUME TypeInv, ConnectingIsAtWork, [Next]_vars
    PROVE  ConnectingIsAtWork'
<1>1. CASE UNCHANGED <<status, at, of>>
  BY <1>1 DEF ConnectingIsAtWork
<1>2. ASSUME NEW w \in Waiters, NEW m, at' = [at EXCEPT ![w] = m], of' = of, m \in Working,
             status' = status
      PROVE  ConnectingIsAtWork'
  <2>1. ASSUME NEW s \in Servers, status'[s] = "connecting"
        PROVE  \E o \in Starters : of'[o] = s /\ at'[o] \in Working
    <3>1. PICK o \in Starters : of[o] = s /\ at[o] \in Working
      BY <1>2, <2>1 DEF ConnectingIsAtWork
    <3>2. at'[o] \in Working
      BY <1>2, <3>1 DEF TypeInv, TypeOK, Waiters
    <3> QED BY <1>2, <3>1, <3>2
  <2> QED BY <2>1 DEF ConnectingIsAtWork
<1>3. ASSUME NEW w \in Waiters, NEW s \in Servers, NEW m, at' = [at EXCEPT ![w] = m],
             of' = of \/ (of' = [of EXCEPT ![w] = s] /\ at[w] = "idle"), of'[w] = s,
             NEW c, status' = [status EXCEPT ![s] = c],
             c = "connecting" => m \in Working /\ w \in Starters
      PROVE  ConnectingIsAtWork'
  <2>1. ASSUME NEW r \in Servers, status'[r] = "connecting"
        PROVE  \E o \in Starters : of'[o] = r /\ at'[o] \in Working
    <3>1. CASE r = s
      <4>1. c = "connecting" BY <1>3, <2>1, <3>1 DEF TypeInv, TypeOK
      <4>2. at'[w] = m BY <1>3 DEF TypeInv, TypeOK
      <4> QED BY <1>3, <3>1, <4>1, <4>2
    <3>2. CASE r # s
      <4>1. status[r] = "connecting" BY <1>3, <2>1, <3>2 DEF TypeInv, TypeOK
      <4>2. PICK o \in Starters : of[o] = r /\ at[o] \in Working
        BY <4>1 DEF ConnectingIsAtWork
      <4>3. o # w BY <1>3, <3>2, <4>2 DEF Working
      <4>4. of'[o] = r /\ at'[o] = at[o]
        BY <1>3, <4>2, <4>3 DEF TypeInv, TypeOK, Waiters
      <4> QED BY <4>2, <4>4
    <3> QED BY <3>1, <3>2
  <2> QED BY <2>1 DEF ConnectingIsAtWork
<1>4. ASSUME NEW w \in Waiters, at[w] \notin Working, NEW m, at' = [at EXCEPT ![w] = m],
             NEW s, of' = [of EXCEPT ![w] = s] \/ of' = of, status' = status
      PROVE  ConnectingIsAtWork'
  <2>1. ASSUME NEW r \in Servers, status'[r] = "connecting"
        PROVE  \E o \in Starters : of'[o] = r /\ at'[o] \in Working
    <3>1. PICK o \in Starters : of[o] = r /\ at[o] \in Working
      BY <1>4, <2>1 DEF ConnectingIsAtWork
    <3>2. o # w BY <1>4, <3>1
    <3>3. of'[o] = r /\ at'[o] = at[o]
      BY <1>4, <3>1, <3>2 DEF TypeInv, TypeOK, Waiters
    <3> QED BY <3>1, <3>3
  <2> QED BY <2>1 DEF ConnectingIsAtWork
<1>5. ASSUME NEW w \in Waiters, NEW ok \in BOOLEAN, NEW left, NEW rest, Resume(w, ok, left, rest)
      PROVE  ConnectingIsAtWork'
  <2>1. of' = of /\ of[w] \in Servers BY <1>5 DEF Resume, Asking, TypeInv, Placed
  <2>2. CASE at[w] = "call" /\ \E m : Goto(w, m) /\ status' = status
    BY <2>1, <2>2, <1>4 DEF Goto, Working
  <2>3. CASE status' = status /\ \E m \in Working : Goto(w, m)
    BY <2>1, <2>3, <1>2 DEF Goto
  <2>4. CASE Connected(w)
    BY <2>1, <2>4, <1>3 DEF Connected, Goto
  <2> QED BY <1>5, <2>2, <2>3, <2>4 DEF Resume, Working
<1>6. ASSUME NEW w \in Starters, NEW s \in Servers, NEW start \in BOOLEAN, Connect(w, s, start),
             of' = of \/ (of' = [of EXCEPT ![w] = s] /\ at[w] = "idle"), of'[w] = s
      PROVE  ConnectingIsAtWork'
  <2>1. w \in Waiters BY DEF Waiters
  <2>2. PICK m, c : /\ at' = [at EXCEPT ![w] = m] /\ status' = [status EXCEPT ![s] = c]
                    /\ c = "connecting" => m \in Working
    BY <1>6 DEF Connect, Goto, Working
  <2> QED BY <1>3, <1>6, <2>1, <2>2
<1>7. ASSUME NEW s \in Servers, Register(s) PROVE ConnectingIsAtWork'
  <2>1. s \in Starters /\ s \in Waiters /\ of' = of /\ of'[s] = s /\ at[s] = "idle"
    BY <1>7 DEF Register, Starters, Waiters, TypeInv, Placed
  <2>2. CASE \E start \in BOOLEAN : Connect(s, s, start) BY <1>6, <2>1, <2>2
  <2>3. CASE Goto(s, "done") /\ status' = status
    BY <1>4, <2>1, <2>3 DEF Goto, Working
  <2>4. (s \in Stdio) \in BOOLEAN OBVIOUS
  <2> QED BY <1>7, <2>2, <2>3, <2>4 DEF Register
<1>8. ASSUME NEW w \in Switches, NEW s \in Servers, Switch(w, s) PROVE ConnectingIsAtWork'
  <2>1. /\ w \in Starters /\ w \in Waiters /\ at[w] = "idle"
        /\ of' = [of EXCEPT ![w] = s] /\ of'[w] = s
    BY <1>8 DEF Switch, Starters, Waiters, TypeInv, TypeOK
  <2>2. CASE \E start \in BOOLEAN : Connect(w, s, start) BY <1>6, <2>1, <2>2
  <2>3. CASE Goto(w, "done") /\ status' = status
    BY <1>4, <2>1, <2>3 DEF Goto, Working
  <2>4. CASE Goto(w, "done") /\ status' = [status EXCEPT ![s] = "disconnected"]
    <3>1. /\ at' = [at EXCEPT ![w] = "done"]
          /\ "disconnected" = "connecting" => "done" \in Working /\ w \in Starters
      BY <2>1, <2>4 DEF Goto
    <3>2. status' = [status EXCEPT ![s] = "disconnected"] BY <2>4
    <3> QED BY <1>3, <2>1, <3>1, <3>2
  <2> QED BY <1>8, <2>2, <2>3, <2>4 DEF Switch, Enable, Disable
<1>9. ASSUME NEW k \in Calls, NEW s \in Servers, Invoke(k, s) PROVE ConnectingIsAtWork'
  <2>1. k \in Waiters /\ at[k] = "idle" /\ of' = [of EXCEPT ![k] = s] /\ status' = status
    BY <1>9 DEF Invoke, Waiters
  <2>2. \E m : at' = [at EXCEPT ![k] = m] BY <1>9 DEF Invoke, Goto
  <2> QED BY <1>4, <2>1, <2>2 DEF Working
<1>10. ASSUME NEW w \in Starters, Ready(w) PROVE ConnectingIsAtWork'
  BY <1>2, <1>10 DEF Ready, Goto, Working, Waiters
<1>11. ASSUME NEW w \in Starters, Exit(w) PROVE ConnectingIsAtWork'
  BY <1>1, <1>11 DEF Exit
<1>12. ASSUME NEW q \in sent, NEW ok \in BOOLEAN, Line(q, ok) PROVE ConnectingIsAtWork'
  <2>1. CASE \E e \in pending : Resume(e.by, ok, pending \ {e}, sent \ {q})
    BY <1>5, <2>1 DEF TypeInv, TypeOK, Entry
  <2>2. CASE UNCHANGED <<status, at, of>> BY <1>1, <2>2
  <2> QED BY <1>12, <2>1, <2>2 DEF Line
<1>13. ASSUME NEW w \in Waiters, Timeout(w) \/ Refused(w) \/ \E ok \in BOOLEAN : Fetched(w, ok)
       PROVE  ConnectingIsAtWork'
  BY <1>5, <1>13 DEF Timeout, Refused, Fetched
<1>14. CASE UNCHANGED vars BY <1>1, <1>14 DEF vars
<1>15. CASE Next
  BY <1>7, <1>8, <1>9, <1>10, <1>11, <1>12, <1>13, <1>15 DEF Next
<1> QED BY <1>14, <1>15

\* A server shown as connecting is being connected to, for any servers, switches
\* and calls.
THEOREM ConnectingCorrect == Spec => []ConnectingIsAtWork
<1>1. Init => ConnectingIsAtWork BY DEF Init, ConnectingIsAtWork
<1>2. TypeInv /\ ConnectingIsAtWork /\ [Next]_vars => ConnectingIsAtWork'
  BY ConnectingStep
<1> QED BY <1>1, <1>2, TypeInvariant, PTL DEF Spec

-----------------------------------------------------------------------------
(* No process is lost but by the exit of another *)

\* Who has not begun has started no process, and a server not yet registered has
\* none; whose process a server has was connecting to it.
Unbegun ==
    /\ \A o \in Starters : at[o] = "idle" => life[o] = "none"
    /\ \A s \in Servers : at[s] = "idle" => processes[s] = None
    /\ \A o \in Starters : life[o] # "none" => of[o] \in Servers
    /\ \A s \in Servers : processes[s] = None
                            \/ (at[processes[s]] # "idle" /\ of[processes[s]] = s
                                /\ life[processes[s]] = "running")

ProcessInv == Unbegun /\ ForgottenIsOvertaken

LEMMA ConnectKeepsProcesses ==
    ASSUME TypeInv, ProcessInv, NEW w \in Starters, NEW s \in Servers, NEW start \in BOOLEAN,
           Connect(w, s, start), at[w] = "idle", start => processes[s] = None,
           of' = [of EXCEPT ![w] = s],
           w = s \/ at[s] # "idle"
    PROVE  ProcessInv'
<1>1. w \in Waiters /\ s \in Waiters /\ life[w] = "none" BY DEF Waiters, Starters, ProcessInv, Unbegun
<1>2. PICK m \in {"ready", "done", "tools"} : at' = [at EXCEPT ![w] = m] BY DEF Connect, Goto
<1>3. \A v \in Waiters : at'[v] = "idle" => v # w /\ at[v] = "idle"
  BY <1>1, <1>2 DEF TypeInv, TypeOK
<1>4. \A o \in Starters : of'[o] = IF o = w THEN s ELSE of[o]
  BY DEF TypeInv, TypeOK, Waiters, Starters
<1>5. CASE UNCHANGED <<processes, life>>
  <2>1. Unbegun'
    <3>1. \A t \in Servers : processes[t] = None \/ processes[t] \in Starters \ {w}
      BY <1>1 DEF ProcessInv, Unbegun, TypeInv, TypeOK
    <3>2. \A t \in Servers : processes[t] = None
             \/ (at'[processes[t]] # "idle" /\ of'[processes[t]] = t /\ life[processes[t]] = "running")
      BY <1>3, <1>4, <3>1 DEF ProcessInv, Unbegun, Waiters, Starters
    <3>3. \A o \in Starters : at'[o] = "idle" => life[o] = "none"
      BY <1>3 DEF ProcessInv, Unbegun, Waiters, Starters
    <3>4. \A t \in Servers : at'[t] = "idle" => processes[t] = None
      BY <1>3 DEF ProcessInv, Unbegun, Waiters, Starters
    <3> QED BY <1>4, <1>5, <3>2, <3>3, <3>4 DEF ProcessInv, Unbegun
  <2>2. ForgottenIsOvertaken'
    <3>1. \A o \in Starters : life[o] = "running" => o # w BY <1>1
    <3> QED BY <1>4, <1>5, <3>1 DEF ProcessInv, ForgottenIsOvertaken
  <2> QED BY <2>1, <2>2 DEF ProcessInv
<1>6. CASE start /\ processes' = [processes EXCEPT ![s] = w] /\ life' = [life EXCEPT ![w] = "running"]
  <2>1. /\ processes[s] = None /\ processes'[s] = w
        /\ \A t \in Servers \ {s} : processes'[t] = processes[t]
        /\ life'[w] = "running" /\ \A o \in Starters \ {w} : life'[o] = life[o]
    BY <1>6 DEF TypeInv, TypeOK
  <2>2. Unbegun'
    <3>1. \A t \in Servers : processes[t] = None \/ processes[t] \in Starters \ {w}
      BY <1>1 DEF ProcessInv, Unbegun, TypeInv, TypeOK
    <3>2. \A t \in Servers \ {s} : processes[t] = None
             \/ (at'[processes[t]] # "idle" /\ of'[processes[t]] = t /\ life'[processes[t]] = "running")
      BY <1>3, <1>4, <2>1, <3>1 DEF ProcessInv, Unbegun, Waiters, Starters
    <3>3. at'[w] # "idle" /\ of'[w] = s BY <1>2, <1>4 DEF TypeInv, TypeOK, Waiters
    <3>4. \A o \in Starters : at'[o] = "idle" => life'[o] = "none"
      BY <1>3, <2>1, <3>3 DEF ProcessInv, Unbegun, Waiters, Starters
    <3>5. \A t \in Servers : at'[t] = "idle" => processes'[t] = None
      <4>1. at'[s] # "idle" BY <1>1, <1>3, <3>3
      <4> QED BY <1>3, <2>1, <4>1 DEF ProcessInv, Unbegun, Waiters, Starters
    <3>6. \A o \in Starters : life'[o] # "none" => of'[o] \in Servers
      BY <1>4, <2>1 DEF ProcessInv, Unbegun
    <3> QED BY <2>1, <3>2, <3>3, <3>4, <3>5, <3>6 DEF Unbegun
  <2>3. ForgottenIsOvertaken'
    <3> SUFFICES ASSUME NEW o \in Starters, life'[o] = "running", o # w
                 PROVE  processes'[of'[o]] = o
      BY <1>4, <2>1 DEF ForgottenIsOvertaken
    <3>1. of'[o] = of[o] /\ life[o] = "running" BY <1>4, <2>1
    <3>2. processes[of[o]] = o /\ of[o] \in Servers
      BY <3>1 DEF ProcessInv, Unbegun, ForgottenIsOvertaken
    <3>3. of[o] # s
      <4>1. o # None BY NamesAssumption DEF Starters
      <4> QED BY <2>1, <3>2, <4>1
    <3> QED BY <2>1, <3>1, <3>2, <3>3
  <2> QED BY <2>2, <2>3 DEF ProcessInv
<1> QED BY <1>5, <1>6 DEF Connect

LEMMA ProcessStep == ASSUME TypeInv, ProcessInv, [Next]_vars PROVE ProcessInv'
\* Steps that start and end no process.
<1>1. ASSUME NEW w \in Waiters, NEW m \in Marks \ {"idle"}, at' = [at EXCEPT ![w] = m],
             UNCHANGED <<processes, life>>,
             of' = of \/ (w \in Calls /\ \E s \in Servers : of' = [of EXCEPT ![w] = s])
      PROVE  ProcessInv'
  <2>1. \A v \in Waiters : at'[v] = "idle" => at[v] = "idle" BY <1>1 DEF TypeInv, TypeOK
  <2>2. \A o \in Starters : of'[o] = of[o]
    BY <1>1, NamesAssumption DEF TypeInv, TypeOK, Waiters, Starters
  <2>3. \A o \in Starters : at'[o] = "idle" => life'[o] = "none"
    BY <1>1, <2>1 DEF ProcessInv, Unbegun, Waiters
  <2>4. \A s \in Servers : at'[s] = "idle" => processes'[s] = None
    BY <1>1, <2>1 DEF ProcessInv, Unbegun, Waiters, Starters
  <2>5. \A s \in Servers : processes[s] = None \/ processes[s] \in Starters
    BY DEF TypeInv, TypeOK
  <2>6. \A o \in Starters : at[o] # "idle" => at'[o] # "idle" BY <2>1 DEF Waiters
  <2>7. Unbegun' BY <1>1, <2>2, <2>3, <2>4, <2>5, <2>6 DEF ProcessInv, Unbegun
  <2>8. ForgottenIsOvertaken' BY <1>1, <2>2 DEF ProcessInv, ForgottenIsOvertaken
  <2> QED BY <2>7, <2>8 DEF ProcessInv
<1>2. ASSUME UNCHANGED <<processes, life, of, at>> PROVE ProcessInv'
  BY <1>2 DEF ProcessInv, Unbegun, ForgottenIsOvertaken
<1>3. ASSUME NEW w \in Waiters, NEW ok \in BOOLEAN, NEW left, NEW rest, Resume(w, ok, left, rest)
      PROVE  ProcessInv'
  <2>1. PICK m \in {"tools", "resources", "prompts", "done", "answered", "failed"} :
          at' = [at EXCEPT ![w] = m]
    BY <1>3 DEF Resume, Goto, Connected
  <2>2. m \in Marks \ {"idle"} BY <2>1 DEF Marks, Asking, Working
  <2>3. UNCHANGED <<processes, life, of>> BY <1>3 DEF Resume
  <2> QED BY <1>1, <2>1, <2>2, <2>3
<1>4. ASSUME NEW s \in Servers, Register(s) PROVE ProcessInv'
  <2>1. s \in Starters /\ s \in Waiters /\ of' = of /\ of[s] = s /\ at[s] = "idle"
    BY <1>4 DEF Register, Starters, Waiters, TypeInv, Placed
  <2>2. of' = [of EXCEPT ![s] = s] BY <2>1 DEF TypeInv, TypeOK
  <2>3. processes[s] = None BY <2>1 DEF ProcessInv, Unbegun
  <2>4. CASE \E start \in BOOLEAN : Connect(s, s, start)
    BY <2>1, <2>2, <2>3, <2>4, ConnectKeepsProcesses
  <2>5. CASE Goto(s, "done") /\ UNCHANGED <<processes, life>>
    BY <1>1, <2>1, <2>5 DEF Goto, Marks
  <2>6. (s \in Stdio) \in BOOLEAN OBVIOUS
  <2> QED BY <1>4, <2>4, <2>5, <2>6 DEF Register
<1>5. ASSUME NEW w \in Switches, NEW s \in Servers, Switch(w, s) PROVE ProcessInv'
  <2>1. /\ w \in Starters /\ w \in Waiters /\ at[w] = "idle" /\ of' = [of EXCEPT ![w] = s]
        /\ at[s] # "idle"
    BY <1>5 DEF Switch, Started, Starters, Waiters
  <2>2. /\ life[w] = "none" /\ \A o \in Starters : of'[o] = IF o = w THEN s ELSE of[o]
    BY <2>1 DEF ProcessInv, Unbegun, TypeInv, TypeOK, Waiters, Starters
  <2>3. CASE \E start \in BOOLEAN : Connect(w, s, start) /\ (start => processes[s] = None)
    BY <2>1, <2>3, ConnectKeepsProcesses
  <2>4. CASE /\ Goto(w, "done")
             /\ \/ UNCHANGED <<processes, life>>
                \/ /\ processes' = [processes EXCEPT ![s] = None]
                   /\ life' = [o \in Starters |-> IF o = processes[s] THEN "killed" ELSE life[o]]
    <3>1. \A v \in Waiters : at'[v] = "idle" => v # w /\ at[v] = "idle"
      BY <2>1, <2>4 DEF Goto, TypeInv, TypeOK
    <3>2. \A t \in Servers : processes'[t] = processes[t] \/ (t = s /\ processes'[t] = None)
      BY <2>4 DEF TypeInv, TypeOK
    <3>3. \A o \in Starters :
            \/ life'[o] = life[o]
            \/ o = processes[s] /\ o # None /\ processes'[s] = None /\ life'[o] = "killed"
      BY <2>4, NamesAssumption DEF TypeInv, TypeOK, Starters
    <3>4. \A t \in Servers : processes[t] = None
                \/ (processes[t] \in Starters \ {w} /\ at[processes[t]] # "idle" /\ of[processes[t]] = t
                    /\ life[processes[t]] = "running")
      BY <2>1 DEF ProcessInv, Unbegun, TypeInv, TypeOK
    <3>5. Unbegun'
      <4>1. \A o \in Starters : at'[o] = "idle" => life'[o] = "none"
        BY <3>1, <3>3, <3>4 DEF ProcessInv, Unbegun, Waiters, Starters
      <4>2. \A t \in Servers : at'[t] = "idle" => processes'[t] = None
        BY <3>1, <3>2 DEF ProcessInv, Unbegun, Waiters, Starters
      <4>3. \A o \in Starters : life'[o] # "none" => of'[o] \in Servers
        BY <2>2, <3>3, <3>4 DEF ProcessInv, Unbegun
      <4>4. ASSUME NEW t \in Servers, processes'[t] # None
            PROVE  /\ at'[processes'[t]] # "idle" /\ of'[processes'[t]] = t
                   /\ life'[processes'[t]] = "running"
        <5>1. processes'[t] = processes[t] BY <3>2, <4>4
        <5>2. processes[t] # processes[s] \/ processes'[s] # None
          <6>1. processes[t] = processes[s] => t = s BY <3>4, <4>4, <5>1
          <6> QED BY <4>4, <6>1
        <5>3. life'[processes[t]] = life[processes[t]] BY <3>3, <3>4, <4>4, <5>1, <5>2
        <5> QED BY <2>2, <3>1, <3>4, <4>4, <5>1, <5>3 DEF Waiters, Starters
      <4> QED BY <4>1, <4>2, <4>3, <4>4 DEF Unbegun
    <3>6. ForgottenIsOvertaken'
      <4> SUFFICES ASSUME NEW o \in Starters, life'[o] = "running"
                   PROVE  processes'[of'[o]] = o
        BY DEF ForgottenIsOvertaken
      <4>1. life[o] = "running" BY <3>3
      <4>2. o # w /\ of'[o] = of[o] /\ of[o] \in Servers BY <2>2, <4>1 DEF ProcessInv, Unbegun
      <4>3. processes[of[o]] = o BY <4>1 DEF ProcessInv, ForgottenIsOvertaken
      <4>4. CASE UNCHANGED <<processes, life>> BY <4>2, <4>3, <4>4
      <4>5. CASE life' = [q \in Starters |-> IF q = processes[s] THEN "killed" ELSE life[q]]
        <5>1. of[o] # s BY <4>3, <4>5
        <5> QED BY <3>2, <4>2, <4>3, <5>1
      <4> QED BY <2>4, <4>4, <4>5
    <3> QED BY <3>5, <3>6 DEF ProcessInv
  <2> QED BY <1>5, <2>3, <2>4 DEF Switch, Enable, Disable
<1>6. ASSUME NEW k \in Calls, NEW s \in Servers, Invoke(k, s) PROVE ProcessInv'
  <2>1. k \in Waiters /\ of' = [of EXCEPT ![k] = s] /\ UNCHANGED <<processes, life>>
    BY <1>6 DEF Invoke, Waiters
  <2>2. PICK m \in {"call", "failed"} : at' = [at EXCEPT ![k] = m] BY <1>6 DEF Invoke, Goto
  <2>3. m \in Marks \ {"idle"} BY <2>2 DEF Marks, Asking
  <2> QED BY <1>1, <2>1, <2>2, <2>3
<1>7. ASSUME NEW w \in Starters, Ready(w) PROVE ProcessInv'
  <2>1. w \in Waiters /\ "initialize" \in Marks \ {"idle"} BY DEF Waiters, Marks, Asking
  <2> QED BY <1>1, <1>7, <2>1 DEF Ready, Goto
<1>8. ASSUME NEW o \in Starters, Exit(o) PROVE ProcessInv'
  <2>1. /\ life[o] \in {"running", "lost", "killed"} /\ UNCHANGED <<of, at>>
        /\ processes' = [processes EXCEPT ![of[o]] = None]
        /\ \A p \in Starters : life'[p] = IF p = o THEN "gone"
                                  ELSE IF p = processes[of[o]] THEN "lost" ELSE life[p]
    BY <1>8 DEF Exit
  <2>2. of[o] \in Servers BY <2>1 DEF ProcessInv, Unbegun
  <2>3. \A t \in Servers : processes'[t] = IF t = of[o] THEN None ELSE processes[t]
    BY <2>1, <2>2 DEF TypeInv, TypeOK
  <2>4. \A t \in Servers : processes[t] = None \/ processes[t] \in Starters BY DEF TypeInv, TypeOK
  <2>5. Unbegun'
    <3>1. \A p \in Starters : at[p] = "idle" => life'[p] = "none"
      <4>1. \A p \in Starters : at[p] = "idle" => p # o /\ p # processes[of[o]]
        BY <2>1, <2>2, <2>4, NamesAssumption DEF ProcessInv, Unbegun, Starters
      <4> QED BY <2>1, <4>1 DEF ProcessInv, Unbegun
    <3>2. \A t \in Servers : at[t] = "idle" => processes'[t] = None
      BY <2>3 DEF ProcessInv, Unbegun
    <3>3. \A p \in Starters : life'[p] # "none" => of[p] \in Servers
      <4>1. \A p \in Starters : p = processes[of[o]] => of[p] = of[o]
        BY <2>2, NamesAssumption DEF ProcessInv, Unbegun, Starters
      <4> QED BY <2>1, <2>2, <4>1 DEF ProcessInv, Unbegun
    <3>4. ASSUME NEW t \in Servers, processes'[t] # None
          PROVE  /\ at[processes'[t]] # "idle" /\ of[processes'[t]] = t
                 /\ life'[processes'[t]] = "running"
      <4>1. processes'[t] = processes[t] /\ t # of[o] BY <2>3, <3>4
      <4>2. /\ processes[t] \in Starters /\ at[processes[t]] # "idle"
            /\ of[processes[t]] = t /\ life[processes[t]] = "running"
        BY <2>4, <3>4, <4>1 DEF ProcessInv, Unbegun
      <4>3. processes[t] # o /\ processes[t] # processes[of[o]]
        BY <2>2, <3>4, <4>1, <4>2 DEF ProcessInv, Unbegun
      <4> QED BY <2>1, <4>1, <4>2, <4>3
    <3> QED BY <2>1, <3>1, <3>2, <3>3, <3>4 DEF Unbegun
  <2>6. ForgottenIsOvertaken'
    <3> SUFFICES ASSUME NEW r \in Starters, life'[r] = "running"
                 PROVE  processes'[of[r]] = r
      BY <2>1 DEF ForgottenIsOvertaken
    <3>1. r # o /\ r # processes[of[o]] /\ life[r] = "running" BY <2>1
    <3>2. of[r] \in Servers /\ processes[of[r]] = r
      BY <3>1 DEF ProcessInv, Unbegun, ForgottenIsOvertaken
    <3>3. of[r] # of[o] BY <3>1, <3>2
    <3> QED BY <2>3, <3>2, <3>3
  <2> QED BY <2>5, <2>6 DEF ProcessInv
<1>9. ASSUME NEW q \in sent, NEW ok \in BOOLEAN, Line(q, ok) PROVE ProcessInv'
  <2>1. CASE \E e \in pending : Resume(e.by, ok, pending \ {e}, sent \ {q})
    BY <1>3, <2>1 DEF TypeInv, TypeOK, Entry
  <2>2. CASE UNCHANGED <<processes, life, of, at>> BY <1>2, <2>2
  <2> QED BY <1>9, <2>1, <2>2 DEF Line
<1>10. ASSUME NEW w \in Waiters, Timeout(w) \/ Refused(w) \/ \E ok \in BOOLEAN : Fetched(w, ok)
       PROVE  ProcessInv'
  BY <1>3, <1>10 DEF Timeout, Refused, Fetched
<1>11. CASE UNCHANGED vars BY <1>2, <1>11 DEF vars
<1>12. CASE Next BY <1>4, <1>5, <1>6, <1>7, <1>8, <1>9, <1>10, <1>12 DEF Next
<1> QED BY <1>11, <1>12

\* Every running process is the one the client has of its server, so that a switch
\* stops it, but for those that the exit of another process of the server made the
\* client forget (the exit handler of startStdioServer), for any servers, switches
\* and calls.
THEOREM ForgottenCorrect == Spec => []ForgottenIsOvertaken
<1>1. Init => ProcessInv
  <2> SUFFICES ASSUME Init PROVE ProcessInv OBVIOUS
  <2>1. /\ \A o \in Starters : life[o] = "none"
        /\ \A s \in Servers : processes[s] = None
    BY DEF Init
  <2> QED BY <2>1 DEF ProcessInv, Unbegun, ForgottenIsOvertaken
<1>2. TypeInv /\ ProcessInv /\ [Next]_vars => ProcessInv' BY ProcessStep
<1>3. ProcessInv => ForgottenIsOvertaken BY DEF ProcessInv
<1> QED BY <1>1, <1>2, <1>3, TypeInvariant, PTL DEF Spec
=============================================================================
