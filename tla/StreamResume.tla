---------------------------- MODULE StreamResume ----------------------------
(***************************************************************************)
(* The answers that the web channel streams (src/src/channels/websocket.ts) *)
(* and the pages of the web UI that show them (src/web/src/App.jsx and     *)
(* App.websocket.js).  The channel broadcasts every event to every open    *)
(* socket and keeps, for each conversation, the stream started last with   *)
(* the text it has sent, so that a page that comes back to a conversation  *)
(* can ask for it.  What is stored comes over HTTP, what runs over the     *)
(* socket, and nothing orders the two.                                     *)
(*                                                                         *)
(* A text is the number of its chunks.  The startup load of a page that    *)
(* reconnects and the switch back to its conversation that follows are     *)
(* kept apart from the load of the conversation's messages.                *)
(*                                                                         *)
(* A budget bounds a behaviour: the answers that are streamed in it (the   *)
(* others are empty ones that ended before), the chunks of each, and how   *)
(* often a page may switch and lose its connection.                        *)
(***************************************************************************)
EXTENDS Naturals, Sequences, FiniteSets

CONSTANTS
  Streams,    \* answers that are streamed
  Convs,      \* conversations, none of them the Feed
  ConvOf,     \* the conversation of an answer
  Pages,      \* pages of the web UI
  NoStream,   \* no entry in activeStreams
  MayFail,    \* workers may throw, loads may fail
  Budgets     \* bound of the model: what may happen in a behaviour

ASSUME StreamsAssumption ==
  /\ ConvOf \in [Streams -> Convs]
  /\ NoStream \notin Streams
  /\ MayFail \in BOOLEAN
  /\ Budgets \subseteq [streams : SUBSET Streams, chunks : Nat, selects : Nat, drops : Nat]

VARIABLES
  phase,    \* what an answer's agent does
  sent,     \* chunks of an answer that were sent
  saved,    \* answers in the messages table
  active,   \* activeStreams: the stream a conversation is known to have
  acc,      \* its accumulatedContent
  open,     \* clients: pages whose socket is open
  inbox,    \* events on their way to a page
  requests, \* get-active-stream requests on their way to the channel
  startup,  \* pages that wait for their startup data
  fetch,    \* what became of the latest load of messages of a page
  cur,      \* currentConversationId of a page
  view,     \* messages of a page
  budget    \* what may still happen

serverVars == <<phase, sent, saved, active, acc>>
pageVars   == <<requests, startup, fetch, cur, view>>
vars == <<phase, sent, saved, active, acc, open, inbox, requests, startup, fetch, cur,
          view, budget>>

(* What a page shows of an answer: the stored message, or the streamed one,  *)
(* which is a message of its own.                                            *)
Item == [s : Streams, stored : BOOLEAN, len : Nat, live : BOOLEAN]
Event == [kind : {"start", "chunk", "end"}, s : Streams]
         \cup [kind : {"resume"}, conv : Convs, s : Streams \cup {NoStream}, len : Nat]

ConvOfEvent(e) == IF e.kind = "resume" THEN e.conv ELSE ConvOf[e.s]

-----------------------------------------------------------------------------
Init ==
  /\ budget \in Budgets
  /\ phase = [s \in Streams |-> IF s \in budget.streams THEN "new" ELSE "ended"]
  /\ sent = [s \in Streams |-> 0]
  /\ saved = {}
  /\ active = [k \in Convs |-> NoStream]
  /\ acc = [k \in Convs |-> 0]
  /\ open = Pages
  /\ inbox = [p \in Pages |-> <<>>]
  /\ requests = [p \in Pages |-> <<>>]
  /\ startup = {}
  /\ fetch = [p \in Pages |-> [state |-> "none", items |-> {}]]
  /\ cur \in [Pages -> Convs]
  /\ view = [p \in Pages |-> {}]

Broadcast(e) ==
  inbox' = [p \in Pages |-> IF p \in open THEN Append(inbox[p], e) ELSE inbox[p]]

StartStream(s) ==
  /\ phase[s] = "new"
  /\ phase' = [phase EXCEPT ![s] = "running"]
  /\ Broadcast([kind |-> "start", s |-> s])
  /\ active' = [active EXCEPT ![ConvOf[s]] = s]
  /\ acc' = [acc EXCEPT ![ConvOf[s]] = 0]
  /\ UNCHANGED <<sent, saved, open, pageVars, budget>>

(* Mutant: the text is accumulated whoever sent it. *)
SendChunkUnchecked(s) ==
  /\ phase[s] = "running" /\ sent[s] < budget.chunks
  /\ sent' = [sent EXCEPT ![s] = @ + 1]
  /\ Broadcast([kind |-> "chunk", s |-> s])
  /\ acc' = [acc EXCEPT ![ConvOf[s]] = @ + 1]
  /\ UNCHANGED <<phase, saved, active, open, pageVars, budget>>

SendStreamChunk(s) ==
  /\ phase[s] = "running" /\ sent[s] < budget.chunks
  /\ sent' = [sent EXCEPT ![s] = @ + 1]
  /\ Broadcast([kind |-> "chunk", s |-> s])
  /\ acc' = IF active[ConvOf[s]] = s THEN [acc EXCEPT ![ConvOf[s]] = @ + 1] ELSE acc
  /\ UNCHANGED <<phase, saved, active, open, pageVars, budget>>

(* Mutant: the stream stays in activeStreams. *)
EndStreamKept(s) ==
  /\ phase[s] = "running"
  /\ phase' = [phase EXCEPT ![s] = "ended"]
  /\ Broadcast([kind |-> "end", s |-> s])
  /\ saved' \in {saved} \cup (IF sent[s] > 0 THEN {saved \cup {s}} ELSE {})
  /\ UNCHANGED <<sent, active, acc, open, pageVars, budget>>

(* Mutant: no stream_end when the answer is empty. *)
EndStreamSilent(s) ==
  /\ phase[s] = "running"
  /\ phase' = [phase EXCEPT ![s] = "ended"]
  /\ IF sent[s] > 0 THEN Broadcast([kind |-> "end", s |-> s]) ELSE UNCHANGED inbox
  /\ active' = [active EXCEPT ![ConvOf[s]] = NoStream]
  /\ acc' = [acc EXCEPT ![ConvOf[s]] = 0]
  /\ saved' \in {saved} \cup (IF sent[s] > 0 THEN {saved \cup {s}} ELSE {})
  /\ UNCHANGED <<sent, open, pageVars, budget>>

(* endStream drops whatever stream the conversation has; the agent saves the *)
(* answer in the same step, unless it is empty or the LLM has failed.        *)
EndStream(s) ==
  /\ phase[s] = "running"
  /\ phase' = [phase EXCEPT ![s] = "ended"]
  /\ Broadcast([kind |-> "end", s |-> s])
  /\ active' = [active EXCEPT ![ConvOf[s]] = NoStream]
  /\ acc' = [acc EXCEPT ![ConvOf[s]] = 0]
  /\ saved' \in {saved} \cup (IF sent[s] > 0 THEN {saved \cup {s}} ELSE {})
  /\ UNCHANGED <<sent, open, pageVars, budget>>

(* The LLM call of a worker throws: nothing ends its stream. *)
WorkerThrows(s) ==
  /\ MayFail
  /\ phase[s] = "running"
  /\ phase' = [phase EXCEPT ![s] = "lost"]
  /\ UNCHANGED <<sent, saved, active, acc, open, inbox, pageVars, budget>>

(* sendActiveStreamState answers the oldest request of a page. *)
SendActiveStreamState(p) ==
  /\ requests[p] # <<>>
  /\ LET k == Head(requests[p])
     IN inbox' = [inbox EXCEPT ![p] =
          Append(@, [kind |-> "resume", conv |-> k, s |-> active[k], len |-> acc[k]])]
  /\ requests' = [requests EXCEPT ![p] = Tail(@)]
  /\ UNCHANGED <<serverVars, open, startup, fetch, cur, view, budget>>

-----------------------------------------------------------------------------
(* Mutant: the message of a resumed stream starts empty. *)
ResumedEmpty(items, e) ==
  IF e.s = NoStream THEN items
  ELSE {i \in items : i.s # e.s \/ i.stored}
       \cup {[s |-> e.s, stored |-> FALSE, len |-> 0, live |-> TRUE]}

(* handleStreamResume: the text becomes what was accumulated. *)
Resumed(items, e) ==
  IF e.s = NoStream THEN items
  ELSE {i \in items : i.s # e.s \/ i.stored}
       \cup {[s |-> e.s, stored |-> FALSE, len |-> e.len, live |-> TRUE]}

(* handleMessage: events of another conversation are dropped; chunks and the *)
(* end of a stream reach its message only if the page has one.               *)
HandleMessage(items, e) ==
  LET streamed(i) == i.s = e.s /\ ~i.stored
  IN CASE e.kind = "start" ->
            items \cup {[s |-> e.s, stored |-> FALSE, len |-> 0, live |-> TRUE]}
       [] e.kind = "chunk" ->
            {IF streamed(i) THEN [i EXCEPT !.len = @ + 1] ELSE i : i \in items}
       [] e.kind = "end" ->
            {IF streamed(i) THEN [i EXCEPT !.live = FALSE] ELSE i : i \in items}
       [] e.kind = "resume" -> Resumed(items, e)

Receive(p) ==
  /\ inbox[p] # <<>>
  /\ LET e == Head(inbox[p])
     IN view' = IF ConvOfEvent(e) = cur[p]
                THEN [view EXCEPT ![p] = HandleMessage(@, e)] ELSE view
  /\ inbox' = [inbox EXCEPT ![p] = Tail(@)]
  /\ UNCHANGED <<serverVars, open, requests, startup, fetch, cur, budget>>

Load(p) == fetch' = [fetch EXCEPT ![p] = [state |-> "asked", items |-> {}]]

(* handleSelectConversation: the messages shown stay until the new ones have *)
(* come; a load still under way is forgotten (messageFetchCounter).          *)
SelectConversation(p, k) ==
  /\ budget.selects > 0 /\ k # cur[p]
  /\ budget' = [budget EXCEPT !.selects = @ - 1]
  /\ cur' = [cur EXCEPT ![p] = k]
  /\ Load(p)
  /\ UNCHANGED <<serverVars, open, inbox, requests, startup, view>>

(* GET /api/conversations/:id/messages reads the table ... *)
ServeMessages(p) ==
  /\ fetch[p].state = "asked"
  /\ fetch' = [fetch EXCEPT ![p] =
       [state |-> "answered",
        items |-> {[s |-> s, stored |-> TRUE, len |-> sent[s], live |-> FALSE] :
                     s \in {t \in saved : ConvOf[t] = cur[p]}}]]
  /\ UNCHANGED <<serverVars, open, inbox, requests, startup, cur, view, budget>>

Ask(p) ==
  requests' = IF p \in open THEN [requests EXCEPT ![p] = Append(@, cur[p])] ELSE requests

(* ... and its answer replaces the messages and asks for the active stream.  *)
MessagesLoaded(p) ==
  /\ fetch[p].state = "answered"
  /\ view' = [view EXCEPT ![p] = fetch[p].items]
  /\ fetch' = [fetch EXCEPT ![p] = [state |-> "none", items |-> {}]]
  /\ Ask(p)
  /\ UNCHANGED <<serverVars, open, inbox, startup, cur, budget>>

LoadFails(p) ==
  /\ MayFail
  /\ fetch[p].state # "none"
  /\ view' = [view EXCEPT ![p] = {}]
  /\ fetch' = [fetch EXCEPT ![p] = [state |-> "none", items |-> {}]]
  /\ UNCHANGED <<serverVars, open, inbox, requests, startup, cur, budget>>

(* The connection is lost with everything on its way. *)
Disconnect(p) ==
  /\ p \in open /\ budget.drops > 0
  /\ budget' = [budget EXCEPT !.drops = @ - 1]
  /\ open' = open \ {p}
  /\ inbox' = [inbox EXCEPT ![p] = <<>>]
  /\ requests' = [requests EXCEPT ![p] = <<>>]
  /\ UNCHANGED <<serverVars, startup, fetch, cur, view>>

(* The page connects again: it asks for the active stream of its             *)
(* conversation and, in handleOpen, loads the startup data.                  *)
Reconnect(p) ==
  /\ p \notin open
  /\ open' = open \cup {p}
  /\ requests' = [requests EXCEPT ![p] = <<cur[p]>>]
  /\ startup' = startup \cup {p}
  /\ UNCHANGED <<serverVars, inbox, fetch, cur, view, budget>>

(* processStartupData shows the Feed, and the effect on the page's URL loads *)
(* the conversation it names.                                                *)
StartupLoaded(p) ==
  /\ p \in startup
  /\ startup' = startup \ {p}
  /\ view' = [view EXCEPT ![p] = {}]
  /\ Load(p)
  /\ UNCHANGED <<serverVars, open, inbox, requests, cur, budget>>

Answer(s) == StartStream(s) \/ SendStreamChunk(s) \/ EndStream(s) \/ WorkerThrows(s)
Page(p) ==
  \/ SendActiveStreamState(p) \/ Receive(p) \/ ServeMessages(p) \/ MessagesLoaded(p)
  \/ Reconnect(p) \/ StartupLoaded(p)
User(p) ==
  (\E k \in Convs : SelectConversation(p, k)) \/ LoadFails(p) \/ Disconnect(p)

Next == (\E s \in Streams : Answer(s)) \/ (\E p \in Pages : Page(p) \/ User(p))

Spec == Init /\ [][Next]_vars

(* The LLM comes to an end, events and answers arrive, and a page that lost  *)
(* its connection gets it back before it gives up.                           *)
Fairness ==
  /\ \A s \in Streams : WF_vars(EndStream(s))
  /\ \A p \in Pages : /\ WF_vars(Receive(p))
                      /\ WF_vars(ServeMessages(p) \/ MessagesLoaded(p))
                      /\ WF_vars(Reconnect(p))
                      /\ WF_vars(StartupLoaded(p))
FairSpec == Spec /\ Fairness
-----------------------------------------------------------------------------
(* Every variable has its type. *)
TypeOK ==
  /\ phase \in [Streams -> {"new", "running", "ended", "lost"}]
  /\ sent \in [Streams -> Nat]
  /\ saved \subseteq Streams
  /\ active \in [Convs -> Streams \cup {NoStream}]
  /\ acc \in [Convs -> Nat]
  /\ open \subseteq Pages /\ startup \subseteq Pages
  /\ \A p \in Pages : inbox[p] \in Seq(Event) /\ requests[p] \in Seq(Convs)
  /\ fetch \in [Pages -> [state : {"none", "asked", "answered"}, items : SUBSET Item]]
  /\ cur \in [Pages -> Convs]
  /\ view \in [Pages -> SUBSET Item]
  /\ budget \in [streams : SUBSET Streams, chunks : Nat, selects : Nat, drops : Nat]

(* What a conversation is known to have is a stream of its own that has not  *)
(* ended, with all the text it has sent, however streams of one conversation *)
(* overlap.                                                                  *)
ActiveIsRunning ==
  \A k \in Convs :
    active[k] # NoStream => /\ ConvOf[active[k]] = k
                            /\ phase[active[k]] \in {"running", "lost"}
                            /\ acc[k] = sent[active[k]]

(* A page has what it asked for: it is connected and no load is under way.   *)
Settled(p) == p \in open \ startup /\ fetch[p].state = "none"

InboxOf(p, kind, s) ==
  {n \in DOMAIN inbox[p] : inbox[p][n].kind = kind /\ inbox[p][n].s = s}

(* A streamed message shows the text without gap or repetition: what it has, *)
(* and the chunks on their way, are what was sent.  So switching away and    *)
(* back, or reconnecting, in the middle of an answer never garbles it.       *)
ShownIsExact ==
  \A p \in Pages : Settled(p) =>
    \A i \in view[p] :
      /\ ConvOf[i.s] = cur[p]
      /\ i.len + (IF i.stored THEN 0 ELSE Cardinality(InboxOf(p, "chunk", i.s))) = sent[i.s]

(* A message shown as streaming belongs to a stream that still runs, or its  *)
(* end is on its way; and a page has at most one streamed message of it.     *)
LiveIsRunning ==
  \A p \in Pages : Settled(p) =>
    \A i \in view[p] :
      /\ i.live => phase[i.s] \in {"running", "lost"} \/ InboxOf(p, "end", i.s) # {}
      /\ \A j \in view[p] : i.s = j.s /\ i.stored = j.stored => i = j

(* No answer is shown as streaming for ever, unless its worker has thrown.   *)
StreamsEnd ==
  \A p \in Pages, s \in Streams :
    (\E i \in view[p] : i.s = s /\ i.live)
      ~> (phase[s] = "lost" \/ ~(\E i \in view[p] : i.s = s /\ i.live))

-----------------------------------------------------------------------------
(* What a comment of the code says and the code does not do.                 *)

(* "Allows frontend to resume streaming display when switching back to a     *)
(* conversation" (websocket.ts:68): once a page has received all it asked    *)
(* for, every answer of its conversation that runs, or is stored, is shown.  *)
ResumeShowsAnswers ==
  \A p \in Pages :
    Settled(p) /\ inbox[p] = <<>> /\ requests[p] = <<>> =>
      \A s \in Streams :
        ConvOf[s] = cur[p] /\ (phase[s] = "running" \/ s \in saved)
          => \E i \in view[p] : i.s = s
=============================================================================
