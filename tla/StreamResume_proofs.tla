------------------------ MODULE StreamResume_proofs ------------------------
(***************************************************************************)
(* Proofs about StreamResume, for any number of                            *)
(* answers, conversations, pages and chunks.                               *)
(***************************************************************************)
EXTENDS StreamResume, FiniteSetTheorems, TLAPS

(* What the proof needs to know of the channel's variables.                  *)
ServerKinds ==
  /\ phase \in [Streams -> {"new", "running", "ended", "lost"}]
  /\ sent \in [Streams -> Nat]
  /\ active \in [Convs -> Streams \cup {NoStream}]
  /\ acc \in [Convs -> Nat]

(* A stream that starts has sent nothing: it starts once.                    *)
NothingBefore == \A s \in Streams : phase[s] = "new" => sent[s] = 0

ServerInv == ServerKinds /\ NothingBefore /\ ActiveIsRunning

LEMMA InitServer == Init => ServerInv
BY DEF Init, ServerInv, ServerKinds, NothingBefore, ActiveIsRunning

(* A stream takes the entry of its conversation, whoever held it.            *)
LEMMA StartKeeps ==
  ASSUME ServerInv, NEW s \in Streams, StartStream(s)
  PROVE  ServerInv'
<1>1. ConvOf[s] \in Convs /\ ConvOf \in [Streams -> Convs] /\ NoStream \notin Streams
  BY StreamsAssumption
<1>2. ServerKinds' /\ NothingBefore'
  BY <1>1 DEF ServerInv, ServerKinds, NothingBefore, StartStream
<1>3. ASSUME NEW k \in Convs, active'[k] # NoStream
      PROVE  /\ ConvOf[active'[k]] = k
             /\ phase'[active'[k]] \in {"running", "lost"}
             /\ acc'[k] = sent'[active'[k]]
  <2>1. CASE k = ConvOf[s]
    BY <1>1, <1>3, <2>1 DEF ServerInv, ServerKinds, NothingBefore, StartStream
  <2>2. CASE k # ConvOf[s]
    BY <1>1, <1>3, <2>2 DEF ServerInv, ServerKinds, ActiveIsRunning, StartStream
  <2> QED
    BY <2>1, <2>2
<1> QED
  BY <1>2, <1>3 DEF ServerInv, ActiveIsRunning

(* A chunk is accumulated exactly if its stream has the entry.               *)
LEMMA ChunkKeeps ==
  ASSUME ServerInv, NEW s \in Streams, SendStreamChunk(s)
  PROVE  ServerInv'
<1>1. ConvOf[s] \in Convs /\ ConvOf \in [Streams -> Convs] /\ NoStream \notin Streams
  BY StreamsAssumption
<1>2. ServerKinds' /\ NothingBefore'
  BY <1>1 DEF ServerInv, ServerKinds, NothingBefore, SendStreamChunk
<1>3. ASSUME NEW k \in Convs, active'[k] # NoStream
      PROVE  /\ ConvOf[active'[k]] = k
             /\ phase'[active'[k]] \in {"running", "lost"}
             /\ acc'[k] = sent'[active'[k]]
  <2>1. /\ active[k] # NoStream /\ active' = active /\ phase' = phase
        /\ ConvOf[active[k]] = k /\ phase[active[k]] \in {"running", "lost"}
        /\ acc[k] = sent[active[k]] /\ active[k] \in Streams
    BY <1>3 DEF ServerInv, ServerKinds, ActiveIsRunning, SendStreamChunk
  <2>2. CASE active[k] = s
    BY <1>1, <2>1, <2>2 DEF ServerInv, ServerKinds, SendStreamChunk
  <2>3. CASE active[k] # s
    <3>1. sent'[active[k]] = sent[active[k]]
      BY <2>1, <2>3 DEF ServerInv, ServerKinds, SendStreamChunk
    <3>2. acc'[k] = acc[k]
      BY <1>1, <2>1, <2>3 DEF ServerInv, ServerKinds, SendStreamChunk
    <3> QED
      BY <2>1, <3>1, <3>2
  <2> QED
    BY <2>1, <2>2, <2>3
<1> QED
  BY <1>2, <1>3 DEF ServerInv, ActiveIsRunning

(* The end of a stream empties the entry of its conversation.                *)
LEMMA EndKeeps ==
  ASSUME ServerInv, NEW s \in Streams, EndStream(s)
  PROVE  ServerInv'
<1>1. ConvOf[s] \in Convs /\ ConvOf \in [Streams -> Convs] /\ NoStream \notin Streams
  BY StreamsAssumption
<1>2. ServerKinds' /\ NothingBefore'
  BY <1>1 DEF ServerInv, ServerKinds, NothingBefore, EndStream
<1>3. ASSUME NEW k \in Convs, active'[k] # NoStream
      PROVE  /\ ConvOf[active'[k]] = k
             /\ phase'[active'[k]] \in {"running", "lost"}
             /\ acc'[k] = sent'[active'[k]]
  <2>1. k # ConvOf[s] /\ active'[k] = active[k] /\ acc'[k] = acc[k] /\ sent' = sent
    BY <1>1, <1>3 DEF ServerInv, ServerKinds, EndStream
  <2>2. ConvOf[active[k]] = k /\ phase[active[k]] \in {"running", "lost"}
        /\ acc[k] = sent[active[k]] /\ active[k] \in Streams
    BY <1>3, <2>1 DEF ServerInv, ServerKinds, ActiveIsRunning
  <2>3. phase'[active[k]] = phase[active[k]]
    BY <2>1, <2>2 DEF ServerInv, ServerKinds, EndStream
  <2> QED
    BY <2>1, <2>2, <2>3
<1> QED
  BY <1>2, <1>3 DEF ServerInv, ActiveIsRunning

LEMMA ThrowKeeps ==
  ASSUME ServerInv, NEW s \in Streams, WorkerThrows(s)
  PROVE  ServerInv'
BY StreamsAssumption
   DEF ServerInv, ServerKinds, NothingBefore, ActiveIsRunning, WorkerThrows

(* The pages change nothing of what the channel keeps.                       *)
LEMMA PagesKeep ==
  ASSUME ServerInv, NEW p \in Pages, Page(p) \/ User(p)
  PROVE  ServerInv'
<1>1. UNCHANGED serverVars
  BY DEF Page, User, SendActiveStreamState, Receive, ServeMessages, MessagesLoaded, Reconnect,
         StartupLoaded, SelectConversation, LoadFails, Disconnect
<1> QED
  BY <1>1 DEF serverVars, ServerInv, ServerKinds, NothingBefore, ActiveIsRunning

LEMMA NextServer == ServerInv /\ [Next]_vars => ServerInv'
<1> SUFFICES ASSUME ServerInv, [Next]_vars
             PROVE  ServerInv'
  OBVIOUS
<1>1. CASE \E s \in Streams : Answer(s)
  BY <1>1, StartKeeps, ChunkKeeps, EndKeeps, ThrowKeeps DEF Answer
<1>2. CASE \E p \in Pages : Page(p) \/ User(p)
  BY <1>2, PagesKeep
<1>3. CASE UNCHANGED vars
  BY <1>3 DEF vars, ServerInv, ServerKinds, NothingBefore, ActiveIsRunning
<1> QED
  BY <1>1, <1>2, <1>3 DEF Next

(* What sendActiveStreamState would answer for a conversation is always the  *)
(* whole text of a stream of its own that has not ended, however many        *)
(* streams of one conversation start and end side by side.                   *)
THEOREM ActiveCorrect == Spec => []ActiveIsRunning
<1>1. ServerInv => ActiveIsRunning
  BY DEF ServerInv
<1> QED
  BY <1>1, InitServer, NextServer, PTL DEF Spec
-----------------------------------------------------------------------------
(* Type correctness *)

(* What a page holds, and the events and requests on their way.              *)
PageKinds ==
  /\ open \subseteq Pages /\ startup \subseteq Pages
  /\ inbox \in [Pages -> Seq(Event)] /\ requests \in [Pages -> Seq(Convs)]
  /\ fetch \in [Pages -> [state : {"none", "asked", "answered"}, items : SUBSET Item]]
  /\ cur \in [Pages -> Convs]
  /\ view \in [Pages -> SUBSET Item]
  /\ saved \subseteq Streams
  /\ budget \in [streams : SUBSET Streams, chunks : Nat, selects : Nat, drops : Nat]

TypeInv == ServerKinds /\ PageKinds

LEMMA BroadcastKinds ==
  ASSUME inbox \in [Pages -> Seq(Event)], NEW s \in Streams,
         NEW kind \in {"start", "chunk", "end"}, Broadcast([kind |-> kind, s |-> s])
  PROVE  inbox' \in [Pages -> Seq(Event)]
<1>1. [kind |-> kind, s |-> s] \in Event
  BY DEF Event
<1> QED
  BY <1>1 DEF Broadcast

(* Showing an event leaves a page with messages.                             *)
LEMMA HandledItems ==
  ASSUME NEW items \in SUBSET Item, NEW e \in Event
  PROVE  HandleMessage(items, e) \in SUBSET Item
<1> DEFINE streamed(i) == i.s = e.s /\ ~i.stored
<1>1. CASE e.kind = "start"
  <2>1. e.s \in Streams
    BY <1>1 DEF Event
  <2>2. [s |-> e.s, stored |-> FALSE, len |-> 0, live |-> TRUE] \in Item
    BY <2>1 DEF Item
  <2>3. HandleMessage(items, e)
          = items \cup {[s |-> e.s, stored |-> FALSE, len |-> 0, live |-> TRUE]}
    BY <1>1 DEF HandleMessage
  <2> QED
    BY <2>2, <2>3
<1>2. CASE e.kind = "chunk"
  <2>1. HandleMessage(items, e)
          = {IF streamed(i) THEN [i EXCEPT !.len = @ + 1] ELSE i : i \in items}
    BY <1>2 DEF HandleMessage
  <2>2. \A i \in Item : [i EXCEPT !.len = @ + 1] \in Item
    BY DEF Item
  <2> QED
    BY <2>1, <2>2
<1>3. CASE e.kind = "end"
  <2>1. HandleMessage(items, e)
          = {IF streamed(i) THEN [i EXCEPT !.live = FALSE] ELSE i : i \in items}
    BY <1>3 DEF HandleMessage
  <2>2. \A i \in Item : [i EXCEPT !.live = FALSE] \in Item
    BY DEF Item
  <2> QED
    BY <2>1, <2>2
<1>4. CASE e.kind = "resume"
  <2>1. e.s \in Streams \cup {NoStream} /\ e.len \in Nat
    BY <1>4 DEF Event
  <2>2. HandleMessage(items, e) = Resumed(items, e)
    BY <1>4 DEF HandleMessage
  <2>3. CASE e.s = NoStream
    BY <2>2, <2>3 DEF Resumed
  <2>4. CASE e.s # NoStream
    <3>1. [s |-> e.s, stored |-> FALSE, len |-> e.len, live |-> TRUE] \in Item
      BY <2>1, <2>4 DEF Item
    <3> QED
      BY <2>2, <2>4, <3>1 DEF Resumed
  <2> QED
    BY <2>3, <2>4
<1> QED
  BY <1>1, <1>2, <1>3, <1>4 DEF Event

LEMMA AnswerTypes ==
  ASSUME TypeInv, NEW s \in Streams, Answer(s)
  PROVE  TypeInv'
<1>1. ConvOf[s] \in Convs
  BY StreamsAssumption
<1>2. ServerKinds'
  BY <1>1 DEF TypeInv, ServerKinds, Answer, StartStream, SendStreamChunk, EndStream, WorkerThrows
<1>3. inbox' \in [Pages -> Seq(Event)]
  BY BroadcastKinds DEF TypeInv, PageKinds, Answer, StartStream, SendStreamChunk, EndStream, WorkerThrows
<1>4. saved' \subseteq Streams
  BY DEF TypeInv, PageKinds, Answer, StartStream, SendStreamChunk, EndStream, WorkerThrows
<1>5. UNCHANGED <<open, pageVars, budget>>
  BY DEF Answer, StartStream, SendStreamChunk, EndStream, WorkerThrows
<1> QED
  BY <1>2, <1>3, <1>4, <1>5 DEF TypeInv, PageKinds, pageVars

(* The channel answers a request.                                            *)
LEMMA AnsweredTypes ==
  ASSUME TypeInv, NEW p \in Pages, SendActiveStreamState(p)
  PROVE  TypeInv'
<1> DEFINE k == Head(requests[p])
<1>1. k \in Convs /\ Tail(requests[p]) \in Seq(Convs)
  BY DEF TypeInv, PageKinds, SendActiveStreamState
<1>2. [kind |-> "resume", conv |-> k, s |-> active[k], len |-> acc[k]] \in Event
  BY <1>1 DEF TypeInv, ServerKinds, Event
<1>3. inbox' \in [Pages -> Seq(Event)]
  BY <1>2 DEF TypeInv, PageKinds, SendActiveStreamState
<1>4. requests' \in [Pages -> Seq(Convs)]
  BY <1>1 DEF TypeInv, PageKinds, SendActiveStreamState
<1>5. UNCHANGED <<serverVars, open, startup, fetch, cur, view, budget>>
  BY DEF SendActiveStreamState
<1> QED
  BY <1>3, <1>4, <1>5 DEF TypeInv, ServerKinds, PageKinds, serverVars

LEMMA ReceiveTypes ==
  ASSUME TypeInv, NEW p \in Pages, Receive(p)
  PROVE  TypeInv'
<1>1. Head(inbox[p]) \in Event /\ Tail(inbox[p]) \in Seq(Event)
  BY DEF TypeInv, PageKinds, Receive
<1>2. HandleMessage(view[p], Head(inbox[p])) \in SUBSET Item
  BY <1>1, HandledItems DEF TypeInv, PageKinds
<1>3. view' \in [Pages -> SUBSET Item]
  BY <1>2 DEF TypeInv, PageKinds, Receive
<1>4. inbox' \in [Pages -> Seq(Event)]
  BY <1>1 DEF TypeInv, PageKinds, Receive
<1>5. UNCHANGED <<serverVars, open, requests, startup, fetch, cur, budget>>
  BY DEF Receive
<1> QED
  BY <1>3, <1>4, <1>5 DEF TypeInv, ServerKinds, PageKinds, serverVars

LEMMA LoadTypes ==
  ASSUME TypeInv, NEW p \in Pages, ServeMessages(p) \/ MessagesLoaded(p) \/ LoadFails(p)
  PROVE  TypeInv'
<1>1. ASSUME NEW s \in Streams
      PROVE  [s |-> s, stored |-> TRUE, len |-> sent[s], live |-> FALSE] \in Item
  BY <1>1 DEF TypeInv, ServerKinds, Item
<1>2. CASE ServeMessages(p)
  <2> DEFINE items == {[s |-> s, stored |-> TRUE, len |-> sent[s], live |-> FALSE] :
                         s \in {t \in saved : ConvOf[t] = cur[p]}}
  <2>1. items \in SUBSET Item
    BY <1>1 DEF TypeInv, PageKinds
  <2>2. fetch' = [fetch EXCEPT ![p] = [state |-> "answered", items |-> items]]
        /\ UNCHANGED <<serverVars, open, inbox, requests, startup, cur, view, budget>>
    BY <1>2 DEF ServeMessages
  <2> HIDE DEF items
  <2>3. fetch' \in [Pages -> [state : {"none", "asked", "answered"}, items : SUBSET Item]]
    BY <2>1, <2>2 DEF TypeInv, PageKinds
  <2> QED
    BY <2>2, <2>3 DEF TypeInv, ServerKinds, PageKinds, serverVars
<1>3. CASE MessagesLoaded(p)
  <2>1. view' \in [Pages -> SUBSET Item]
    BY <1>3 DEF TypeInv, PageKinds, MessagesLoaded
  <2>2. fetch' \in [Pages -> [state : {"none", "asked", "answered"}, items : SUBSET Item]]
    BY <1>3 DEF TypeInv, PageKinds, MessagesLoaded
  <2>3. requests' \in [Pages -> Seq(Convs)]
    BY <1>3 DEF TypeInv, PageKinds, MessagesLoaded, Ask
  <2>4. UNCHANGED <<serverVars, open, inbox, startup, cur, budget>>
    BY <1>3 DEF MessagesLoaded
  <2> QED
    BY <2>1, <2>2, <2>3, <2>4 DEF TypeInv, ServerKinds, PageKinds, serverVars
<1>4. CASE LoadFails(p)
  <2>1. view' \in [Pages -> SUBSET Item]
    BY <1>4 DEF TypeInv, PageKinds, LoadFails
  <2>2. fetch' \in [Pages -> [state : {"none", "asked", "answered"}, items : SUBSET Item]]
    BY <1>4 DEF TypeInv, PageKinds, LoadFails
  <2>3. UNCHANGED <<serverVars, open, inbox, requests, startup, cur, budget>>
    BY <1>4 DEF LoadFails
  <2> QED
    BY <2>1, <2>2, <2>3 DEF TypeInv, ServerKinds, PageKinds, serverVars
<1> QED
  BY <1>2, <1>3, <1>4

LEMMA SelectTypes ==
  ASSUME TypeInv, NEW p \in Pages, NEW k \in Convs, SelectConversation(p, k)
  PROVE  TypeInv'
<1>1. fetch' \in [Pages -> [state : {"none", "asked", "answered"}, items : SUBSET Item]]
  BY DEF TypeInv, PageKinds, SelectConversation, Load
<1>2. cur' \in [Pages -> Convs]
  BY DEF TypeInv, PageKinds, SelectConversation
<1>3. budget' \in [streams : SUBSET Streams, chunks : Nat, selects : Nat, drops : Nat]
  <2> DEFINE left == budget.selects - 1
  <2>1. /\ budget \in [streams : SUBSET Streams, chunks : Nat, selects : Nat, drops : Nat]
        /\ left \in Nat /\ budget' = [budget EXCEPT !.selects = left]
    BY DEF TypeInv, PageKinds, SelectConversation
  <2> HIDE DEF left
  <2> QED
    BY <2>1
<1>4. UNCHANGED <<serverVars, open, inbox, requests, startup, view>>
  BY DEF SelectConversation
<1> QED
  BY <1>1, <1>2, <1>3, <1>4 DEF TypeInv, ServerKinds, PageKinds, serverVars

(* A page loses its connection, gets it back and loads what it starts with.  *)
LEMMA ConnectionTypes ==
  ASSUME TypeInv, NEW p \in Pages, Disconnect(p) \/ Reconnect(p) \/ StartupLoaded(p)
  PROVE  TypeInv'
<1>1. CASE Disconnect(p)
  <2>1. inbox' \in [Pages -> Seq(Event)] /\ requests' \in [Pages -> Seq(Convs)]
    BY <1>1 DEF TypeInv, PageKinds, Disconnect
  <2>2. budget' \in [streams : SUBSET Streams, chunks : Nat, selects : Nat, drops : Nat]
    <3> DEFINE left == budget.drops - 1
    <3>1. /\ budget \in [streams : SUBSET Streams, chunks : Nat, selects : Nat, drops : Nat]
          /\ left \in Nat /\ budget' = [budget EXCEPT !.drops = left]
      BY <1>1 DEF TypeInv, PageKinds, Disconnect
    <3> HIDE DEF left
    <3> QED
      BY <3>1
  <2>3. open' \subseteq Pages /\ UNCHANGED <<serverVars, startup, fetch, cur, view>>
    BY <1>1 DEF TypeInv, PageKinds, Disconnect
  <2> QED
    BY <2>1, <2>2, <2>3 DEF TypeInv, ServerKinds, PageKinds, serverVars
<1>2. CASE Reconnect(p)
  <2>1. <<cur[p]>> \in Seq(Convs)
    BY DEF TypeInv, PageKinds
  <2>2. requests' \in [Pages -> Seq(Convs)]
    BY <1>2, <2>1 DEF TypeInv, PageKinds, Reconnect
  <2>3. open' \subseteq Pages /\ startup' \subseteq Pages
        /\ UNCHANGED <<serverVars, inbox, fetch, cur, view, budget>>
    BY <1>2 DEF TypeInv, PageKinds, Reconnect
  <2> QED
    BY <2>2, <2>3 DEF TypeInv, ServerKinds, PageKinds, serverVars
<1>3. CASE StartupLoaded(p)
  <2>1. view' \in [Pages -> SUBSET Item]
    BY <1>3 DEF TypeInv, PageKinds, StartupLoaded
  <2>2. fetch' \in [Pages -> [state : {"none", "asked", "answered"}, items : SUBSET Item]]
    BY <1>3 DEF TypeInv, PageKinds, StartupLoaded, Load
  <2>3. startup' \subseteq Pages
        /\ UNCHANGED <<serverVars, open, inbox, requests, cur, budget>>
    BY <1>3 DEF TypeInv, PageKinds, StartupLoaded
  <2> QED
    BY <2>1, <2>2, <2>3 DEF TypeInv, ServerKinds, PageKinds, serverVars
<1> QED
  BY <1>1, <1>2, <1>3

LEMMA InitTypes == Init => TypeInv
BY StreamsAssumption DEF Init, TypeInv, ServerKinds, PageKinds

LEMMA NextTypes == TypeInv /\ [Next]_vars => TypeInv'
<1> SUFFICES ASSUME TypeInv, [Next]_vars
             PROVE  TypeInv'
  OBVIOUS
<1>1. CASE \E s \in Streams : Answer(s)
  BY <1>1, AnswerTypes
<1>2. CASE \E p \in Pages : Page(p) \/ User(p)
  BY <1>2, AnsweredTypes, ReceiveTypes, LoadTypes, SelectTypes, ConnectionTypes DEF Page, User
<1>3. CASE UNCHANGED vars
  BY <1>3 DEF vars, TypeInv, ServerKinds, PageKinds
<1> QED
  BY <1>1, <1>2, <1>3 DEF Next

(* Every variable keeps its type, in every behaviour.                        *)
THEOREM TypeCorrect == Spec => []TypeOK
<1>1. TypeInv => TypeOK
  BY DEF TypeInv, ServerKinds, PageKinds, TypeOK
<1> QED
  BY <1>1, InitTypes, NextTypes, PTL DEF Spec
-----------------------------------------------------------------------------
(* What a page shows of an answer.  An event or a message is exact when its  *)
(* text and the chunks behind it in the page's inbox make the whole text.    *)

(* The chunks of an answer behind a place of an inbox, and whether its end   *)
(* is there.                                                                 *)
Chunks(q, n, s) == {k \in DOMAIN q : k > n /\ q[k].kind = "chunk" /\ q[k].s = s}
EndAfter(q, n, s) == \E k \in DOMAIN q : k > n /\ q[k].kind = "end" /\ q[k].s = s
IsChunk(e, s) == e.kind = "chunk" /\ e.s = s

LEMMA ChunksFinite ==
  ASSUME NEW q \in Seq(Event), NEW n \in Nat, NEW s
  PROVE  IsFiniteSet(Chunks(q, n, s)) /\ Cardinality(Chunks(q, n, s)) \in Nat
<1>1. DOMAIN q = 1..Len(q) /\ Len(q) \in Nat
  OBVIOUS
<1>2. IsFiniteSet(DOMAIN q)
  BY <1>1, FS_Interval
<1>3. Chunks(q, n, s) \in SUBSET DOMAIN q
  BY DEF Chunks
<1>4. IsFiniteSet(Chunks(q, n, s))
  BY <1>2, <1>3, FS_Subset
<1> QED
  BY <1>4, FS_CardinalityType

(* A new event is behind every place.                                        *)
LEMMA ChunksAppend ==
  ASSUME NEW q \in Seq(Event), NEW e \in Event, NEW n \in 0..Len(q), NEW s
  PROVE  /\ Cardinality(Chunks(Append(q, e), n, s))
              = Cardinality(Chunks(q, n, s)) + (IF IsChunk(e, s) THEN 1 ELSE 0)
         /\ EndAfter(Append(q, e), n, s) <=> EndAfter(q, n, s) \/ (e.kind = "end" /\ e.s = s)
<1> DEFINE q2 == Append(q, e)
<1>1. /\ Len(q) \in Nat /\ DOMAIN q = 1..Len(q) /\ DOMAIN q2 = 1..(Len(q) + 1)
      /\ \A k \in 1..Len(q) : q2[k] = q[k]
      /\ q2[Len(q) + 1] = e
  OBVIOUS
<1> HIDE DEF q2
<1>2. Chunks(q2, n, s)
        = Chunks(q, n, s) \cup (IF IsChunk(e, s) THEN {Len(q) + 1} ELSE {})
  BY <1>1 DEF Chunks, IsChunk
<1>3. Len(q) + 1 \notin Chunks(q, n, s)
  BY <1>1 DEF Chunks
<1>4. Cardinality(Chunks(q2, n, s))
        = Cardinality(Chunks(q, n, s)) + (IF IsChunk(e, s) THEN 1 ELSE 0)
  <2>1. IsFiniteSet(Chunks(q, n, s)) /\ Cardinality(Chunks(q, n, s)) \in Nat
    BY ChunksFinite
  <2>2. CASE IsChunk(e, s)
    <3>1. Chunks(q2, n, s) = Chunks(q, n, s) \cup {Len(q) + 1}
      BY <1>2, <2>2
    <3> QED
      BY <1>3, <2>1, <2>2, <3>1, FS_AddElement
  <2>3. CASE ~IsChunk(e, s)
    <3>1. Chunks(q2, n, s) = Chunks(q, n, s)
      BY <1>2, <2>3
    <3> QED
      BY <2>1, <2>3, <3>1
  <2> QED
    BY <2>2, <2>3
<1>5. EndAfter(q2, n, s) <=> EndAfter(q, n, s) \/ (e.kind = "end" /\ e.s = s)
  BY <1>1 DEF EndAfter
<1> QED
  BY <1>4, <1>5 DEF q2

(* The oldest event leaves, the others move up.                              *)
LEMMA ChunksTail ==
  ASSUME NEW q \in Seq(Event), q # <<>>, NEW n \in 0..(Len(q) - 1), NEW s
  PROVE  /\ Cardinality(Chunks(Tail(q), n, s)) = Cardinality(Chunks(q, n + 1, s))
         /\ EndAfter(Tail(q), n, s) <=> EndAfter(q, n + 1, s)
<1> DEFINE t == Tail(q)
           f == [k \in Chunks(t, n, s) |-> k + 1]
<1>1. /\ Len(q) \in Nat \ {0} /\ DOMAIN q = 1..Len(q) /\ DOMAIN t = 1..(Len(q) - 1)
      /\ \A k \in 1..(Len(q) - 1) : t[k] = q[k + 1]
      /\ t \in Seq(Event)
  OBVIOUS
<1> HIDE DEF t
<1>2. \A k \in Chunks(t, n, s) : k \in 1..(Len(q) - 1) /\ k + 1 \in Chunks(q, n + 1, s)
  BY <1>1 DEF Chunks
<1>3. \A k \in Chunks(q, n + 1, s) : k \in 2..Len(q) /\ k - 1 \in Chunks(t, n, s)
  <2> SUFFICES ASSUME NEW k \in Chunks(q, n + 1, s)
               PROVE  k \in 2..Len(q) /\ k - 1 \in Chunks(t, n, s)
    OBVIOUS
  <2>1. k \in 2..Len(q) /\ k > n + 1 /\ q[k].kind = "chunk" /\ q[k].s = s
    BY <1>1 DEF Chunks
  <2>2. k - 1 \in 1..(Len(q) - 1) /\ k - 1 > n /\ (k - 1) + 1 = k
    BY <1>1, <2>1
  <2>3. t[k - 1] = q[k]
    BY <1>1, <2>2
  <2> QED
    BY <1>1, <2>1, <2>2, <2>3 DEF Chunks
<1>4. f \in Bijection(Chunks(t, n, s), Chunks(q, n + 1, s))
  <2>1. f \in [Chunks(t, n, s) -> Chunks(q, n + 1, s)]
    BY <1>2
  <2>2. \A a, b \in Chunks(t, n, s) : f[a] = f[b] => a = b
    BY <1>2
  <2>3. \A b \in Chunks(q, n + 1, s) : \E a \in Chunks(t, n, s) : f[a] = b
    <3> SUFFICES ASSUME NEW b \in Chunks(q, n + 1, s)
                 PROVE  f[b - 1] = b /\ b - 1 \in Chunks(t, n, s)
      OBVIOUS
    <3> QED
      BY <1>3
  <2> HIDE DEF f
  <2> QED
    BY <2>1, <2>2, <2>3 DEF Bijection, Injection, Surjection, IsInjective
<1>5. IsFiniteSet(Chunks(t, n, s))
  BY <1>1, ChunksFinite
<1>6. Cardinality(Chunks(q, n + 1, s)) = Cardinality(Chunks(t, n, s))
  BY <1>4, <1>5, FS_Bijection DEF ExistsBijection
<1>7. EndAfter(t, n, s) <=> EndAfter(q, n + 1, s)
  <2>1. ASSUME EndAfter(t, n, s) PROVE EndAfter(q, n + 1, s)
    <3>1. PICK k \in DOMAIN t : k > n /\ t[k].kind = "end" /\ t[k].s = s
      BY <2>1 DEF EndAfter
    <3>2. k + 1 \in DOMAIN q /\ k + 1 > n + 1 /\ t[k] = q[k + 1]
      BY <1>1, <3>1
    <3> QED
      BY <3>1, <3>2 DEF EndAfter
  <2>2. ASSUME EndAfter(q, n + 1, s) PROVE EndAfter(t, n, s)
    <3>1. PICK k \in DOMAIN q : k > n + 1 /\ q[k].kind = "end" /\ q[k].s = s
      BY <2>2 DEF EndAfter
    <3>2. k - 1 \in DOMAIN t /\ k - 1 > n /\ t[k - 1] = q[(k - 1) + 1] /\ (k - 1) + 1 = k
      BY <1>1, <3>1
    <3> QED
      BY <3>1, <3>2 DEF EndAfter
  <2> QED
    BY <2>1, <2>2
<1> QED
  BY <1>6, <1>7 DEF t

(* The oldest event counts for the messages shown.                           *)
LEMMA ChunksHead ==
  ASSUME NEW q \in Seq(Event), q # <<>>, NEW s
  PROVE  /\ Cardinality(Chunks(q, 0, s))
              = Cardinality(Chunks(q, 1, s)) + (IF IsChunk(Head(q), s) THEN 1 ELSE 0)
         /\ EndAfter(q, 0, s) <=> EndAfter(q, 1, s) \/ (Head(q).kind = "end" /\ Head(q).s = s)
<1>1. Len(q) \in Nat \ {0} /\ DOMAIN q = 1..Len(q) /\ Head(q) = q[1]
  OBVIOUS
<1>2. Chunks(q, 0, s) = Chunks(q, 1, s) \cup (IF IsChunk(Head(q), s) THEN {1} ELSE {})
  BY <1>1 DEF Chunks, IsChunk
<1>3. 1 \notin Chunks(q, 1, s)
  BY DEF Chunks
<1>4. IsFiniteSet(Chunks(q, 1, s)) /\ Cardinality(Chunks(q, 1, s)) \in Nat
  BY ChunksFinite
<1>5. CASE IsChunk(Head(q), s)
  <2>1. Chunks(q, 0, s) = Chunks(q, 1, s) \cup {1}
    BY <1>2, <1>5
  <2>2. Cardinality(Chunks(q, 0, s)) = Cardinality(Chunks(q, 1, s)) + 1
    BY <1>3, <1>4, <2>1, FS_AddElement
  <2> QED
    BY <1>1, <1>5, <2>2 DEF EndAfter
<1>6. CASE ~IsChunk(Head(q), s)
  <2>1. Chunks(q, 0, s) = Chunks(q, 1, s)
    BY <1>2, <1>6
  <2> QED
    BY <1>1, <1>4, <1>6, <2>1 DEF EndAfter
<1> QED
  BY <1>5, <1>6

(* An event of an inbox is exact; nothing of an answer comes before its      *)
(* start, and what shows as streaming runs or is followed by its end.        *)
Runs(ph, s) == ph[s] \in {"running", "lost"}
EventOk(q, n, ph, sn) ==
  q[n].s \in Streams =>
    /\ ph[q[n].s] # "new"
    /\ q[n].kind = "start" => /\ Cardinality(Chunks(q, n, q[n].s)) = sn[q[n].s]
                              /\ \A k \in 1..(n - 1) : q[k].s # q[n].s
    /\ q[n].kind = "resume" =>
         /\ q[n].conv = ConvOf[q[n].s]
         /\ q[n].len + Cardinality(Chunks(q, n, q[n].s)) = sn[q[n].s]
    /\ q[n].kind \in {"start", "resume"} => Runs(ph, q[n].s) \/ EndAfter(q, n, q[n].s)

(* So is a message of a page; a stored one is what was saved.                *)
StoredOk(i, c, sn, sv) ==
  ConvOf[i.s] = c /\ i.stored /\ ~i.live /\ i.s \in sv /\ i.len = sn[i.s]
StreamedOk(i, q, c, ph, sn) ==
  /\ ConvOf[i.s] = c /\ ~i.stored
  /\ ph[i.s] # "new"
  /\ i.len + Cardinality(Chunks(q, 0, i.s)) = sn[i.s]
  /\ i.live => Runs(ph, i.s) \/ EndAfter(q, 0, i.s)
  /\ \A n \in DOMAIN q : q[n].kind = "start" => q[n].s # i.s

(* An answer of which an event is on its way grows by its next chunk.        *)
LEMMA EventGrows ==
  ASSUME NEW q \in Seq(Event), NEW e \in Event, NEW n \in DOMAIN q,
         NEW ph, NEW ph2, NEW sn \in [Streams -> Nat], NEW sn2,
         EventOk(q, n, ph, sn),
         \A t \in Streams : /\ ph2[t] = "new" => ph[t] = "new"
                            /\ sn2[t] = sn[t] + (IF IsChunk(e, t) THEN 1 ELSE 0)
                            /\ Runs(ph, t) => Runs(ph2, t) \/ (e.kind = "end" /\ e.s = t)
  PROVE  EventOk(Append(q, e), n, ph2, sn2)
<1> DEFINE q2 == Append(q, e)
<1>1. /\ Len(q) \in Nat /\ DOMAIN q = 1..Len(q) /\ n \in 0..Len(q)
      /\ \A k \in 1..Len(q) : q2[k] = q[k]
  OBVIOUS
<1>2. \A t \in Streams :
        /\ Cardinality(Chunks(q2, n, t))
             = Cardinality(Chunks(q, n, t)) + (IF IsChunk(e, t) THEN 1 ELSE 0)
        /\ Cardinality(Chunks(q, n, t)) \in Nat
        /\ EndAfter(q2, n, t) <=> EndAfter(q, n, t) \/ (e.kind = "end" /\ e.s = t)
  BY <1>1, ChunksAppend, ChunksFinite
<1>3. q[n] \in Event
  OBVIOUS
<1>4. q[n].kind = "resume" => q[n].len \in Nat
  BY <1>3 DEF Event
<1> HIDE DEF q2
<1>5. EventOk(q2, n, ph2, sn2)
  <2> SUFFICES ASSUME q[n].s \in Streams
               PROVE  EventOk(q2, n, ph2, sn2)
    BY <1>1 DEF EventOk
  <2> DEFINE s == q[n].s
  <2>1. q2[n] = q[n] /\ \A k \in 1..(n - 1) : q2[k] = q[k]
    BY <1>1
  <2>2. ph2[s] # "new"
    BY DEF EventOk
  <2>3. q[n].kind = "start" => /\ Cardinality(Chunks(q2, n, s)) = sn2[s]
                               /\ \A k \in 1..(n - 1) : q2[k].s # s
    BY <1>2, <2>1 DEF EventOk
  <2>4. q[n].kind = "resume" => /\ q[n].conv = ConvOf[s]
                                /\ q[n].len + Cardinality(Chunks(q2, n, s)) = sn2[s]
    <3>1. sn[s] \in Nat
      OBVIOUS
    <3> QED
      BY <1>2, <1>4, <3>1 DEF EventOk
  <2>5. q[n].kind \in {"start", "resume"} => Runs(ph2, s) \/ EndAfter(q2, n, s)
    BY <1>2 DEF EventOk
  <2> QED
    BY <2>1, <2>2, <2>3, <2>4, <2>5 DEF EventOk
<1> QED
  BY <1>5 DEF q2

LEMMA ItemGrows ==
  ASSUME NEW q \in Seq(Event), NEW e \in Event, NEW i \in Item, NEW c,
         NEW ph, NEW ph2, NEW sn \in [Streams -> Nat], NEW sn2,
         StreamedOk(i, q, c, ph, sn),
         e.kind = "start" => ph[e.s] = "new",
         \A t \in Streams : /\ ph2[t] = "new" => ph[t] = "new"
                            /\ sn2[t] = sn[t] + (IF IsChunk(e, t) THEN 1 ELSE 0)
                            /\ Runs(ph, t) => Runs(ph2, t) \/ (e.kind = "end" /\ e.s = t)
  PROVE  StreamedOk(i, Append(q, e), c, ph2, sn2)
<1> DEFINE q2 == Append(q, e)
<1>1. /\ Len(q) \in Nat /\ DOMAIN q = 1..Len(q) /\ DOMAIN q2 = 1..(Len(q) + 1)
      /\ \A k \in 1..Len(q) : q2[k] = q[k]
      /\ q2[Len(q) + 1] = e
  OBVIOUS
<1>2. i.s \in Streams /\ i.len \in Nat
  BY DEF Item
<1>3. /\ Cardinality(Chunks(q2, 0, i.s))
           = Cardinality(Chunks(q, 0, i.s)) + (IF IsChunk(e, i.s) THEN 1 ELSE 0)
      /\ Cardinality(Chunks(q, 0, i.s)) \in Nat
      /\ EndAfter(q2, 0, i.s) <=> EndAfter(q, 0, i.s) \/ (e.kind = "end" /\ e.s = i.s)
  BY <1>1, ChunksAppend, ChunksFinite
<1> HIDE DEF q2
<1>4. StreamedOk(i, q2, c, ph2, sn2)
  <2>1. ConvOf[i.s] = c /\ ~i.stored /\ ph2[i.s] # "new"
    BY <1>2 DEF StreamedOk
  <2>2. i.len + Cardinality(Chunks(q2, 0, i.s)) = sn2[i.s]
    <3>1. sn[i.s] \in Nat /\ i.len + Cardinality(Chunks(q, 0, i.s)) = sn[i.s]
      BY <1>2 DEF StreamedOk
    <3> QED
      BY <1>2, <1>3, <3>1
  <2>3. i.live => Runs(ph2, i.s) \/ EndAfter(q2, 0, i.s)
    BY <1>2, <1>3 DEF StreamedOk
  <2>4. \A n \in DOMAIN q2 : q2[n].kind = "start" => q2[n].s # i.s
    BY <1>1, <1>2 DEF StreamedOk
  <2> QED
    BY <2>1, <2>2, <2>3, <2>4 DEF StreamedOk
<1> QED
  BY <1>4 DEF q2

(* A page that has no connection has nothing on its way.  Every event on its *)
(* way is exact, an answer of the server is what it stores, and what a       *)
(* settled page shows is one exact message of each kind for an answer.       *)
Distinct(items) == \A i, j \in items : i.s = j.s /\ i.stored = j.stored => i = j
ItemsOk(items, q, c, ph, sn, sv) ==
  /\ Distinct(items)
  /\ \A i \in items : StoredOk(i, c, sn, sv) \/ StreamedOk(i, q, c, ph, sn)

InboxExact(p) == \A n \in DOMAIN inbox[p] : EventOk(inbox[p], n, phase, sent)
FetchExact(p) ==
  fetch[p].state = "answered" =>
    /\ Distinct(fetch[p].items)
    /\ \A i \in fetch[p].items : StoredOk(i, cur[p], sent, saved)
ViewExact(p) ==
  Settled(p) => ItemsOk(view[p], inbox[p], cur[p], phase, sent, saved)

PageExact(p) ==
  /\ p \notin open => inbox[p] = <<>> /\ requests[p] = <<>>
  /\ InboxExact(p)
  /\ FetchExact(p)
  /\ ViewExact(p)

ShowInv ==
  /\ \A s \in saved : phase[s] = "ended"
  /\ \A p \in Pages : PageExact(p)

AllInv == TypeInv /\ ServerInv /\ ShowInv

(* What is stored does not change while other answers grow.                  *)
LEMMA StoredStays ==
  ASSUME NEW i, NEW c, NEW sn, NEW sn2, NEW sv, NEW sv2,
         StoredOk(i, c, sn, sv), sv \subseteq sv2, \A t \in sv : sn2[t] = sn[t]
  PROVE  StoredOk(i, c, sn2, sv2)
BY DEF StoredOk

(* A step of the channel that sends every connected page one event.          *)
LEMMA BroadcastKeeps ==
  ASSUME AllInv, NEW e \in Event, Broadcast(e),
         UNCHANGED <<open, requests, startup, fetch, cur, view>>,
         e.s \in Streams, phase'[e.s] # "new",
         e.kind \in {"start", "chunk", "end"},
         e.kind = "start" => phase[e.s] = "new" /\ sent'[e.s] = 0 /\ Runs(phase', e.s),
         saved \subseteq saved', \A s \in saved' : phase'[s] = "ended",
         \A t \in saved : sent'[t] = sent[t],
         \A t \in Streams :
           /\ phase'[t] = "new" => phase[t] = "new"
           /\ sent'[t] = sent[t] + (IF IsChunk(e, t) THEN 1 ELSE 0)
           /\ Runs(phase, t) => Runs(phase', t) \/ (e.kind = "end" /\ e.s = t)
  PROVE  ShowInv'
<1> SUFFICES ASSUME NEW p \in Pages PROVE PageExact(p)'
  BY DEF ShowInv
<1>1. PageExact(p) /\ inbox[p] \in Seq(Event) /\ sent \in [Streams -> Nat]
      /\ view[p] \in SUBSET Item
  BY DEF AllInv, ShowInv, TypeInv, PageKinds, ServerKinds
<1>2. FetchExact(p)'
  BY <1>1, StoredStays DEF PageExact, FetchExact
<1>3. CASE p \notin open
  <2>1. inbox'[p] = <<>> /\ requests'[p] = <<>> /\ p \notin open'
    BY <1>1, <1>3 DEF PageExact, Broadcast
  <2> QED
    BY <1>2, <2>1 DEF PageExact, InboxExact, ViewExact, Settled
<1>4. CASE p \in open
  <2> DEFINE q == inbox[p]
             q2 == Append(q, e)
  <2>1. inbox'[p] = q2
    BY <1>4 DEF Broadcast
  <2>2. Len(q) \in Nat /\ DOMAIN q = 1..Len(q) /\ DOMAIN q2 = 1..(Len(q) + 1)
        /\ q2[Len(q) + 1] = e /\ \A k \in 1..Len(q) : q2[k] = q[k]
    BY <1>1
  <2>3. InboxExact(p)'
    <3>1. ASSUME NEW n \in DOMAIN q PROVE EventOk(q2, n, phase', sent')
      <4>1. EventOk(q, n, phase, sent)
        BY <1>1, <3>1 DEF PageExact, InboxExact
      <4>2. q \in Seq(Event) /\ e \in Event /\ sent \in [Streams -> Nat]
        BY <1>1
      <4> HIDE DEF q
      <4> QED
        BY <3>1, <4>1, <4>2, EventGrows
    <3>2. EventOk(q2, Len(q) + 1, phase', sent')
      <4>1. CASE e.kind = "start"
        <5>1. Chunks(q2, Len(q) + 1, e.s) = {}
          BY <2>2 DEF Chunks
        <5>2. Cardinality(Chunks(q2, Len(q) + 1, e.s)) = sent'[e.s]
          BY <4>1, <5>1, FS_EmptySet
        <5>3. \A k \in 1..Len(q) : q2[k].s # e.s
          <6>1. \A k \in DOMAIN q : q[k].s = e.s => phase[e.s] # "new"
            BY <1>1 DEF PageExact, InboxExact, EventOk
          <6> QED
            BY <2>2, <4>1, <6>1
        <5> QED
          BY <2>2, <4>1, <5>2, <5>3 DEF EventOk
      <4>2. CASE e.kind # "start"
        BY <2>2, <4>2 DEF EventOk
      <4> QED
        BY <4>1, <4>2
    <3> QED
      BY <2>1, <2>2, <3>1, <3>2 DEF InboxExact
  <2>4. ViewExact(p)'
    <3> SUFFICES ASSUME Settled(p)'
                 PROVE  ItemsOk(view[p], q2, cur[p], phase', sent', saved')
      BY <2>1 DEF ViewExact
    <3>1. ItemsOk(view[p], q, cur[p], phase, sent, saved)
      BY <1>1 DEF PageExact, ViewExact, Settled
    <3>2. ASSUME NEW i \in view[p]
          PROVE  StoredOk(i, cur[p], sent', saved') \/ StreamedOk(i, q2, cur[p], phase', sent')
      <4>1. CASE StoredOk(i, cur[p], sent, saved)
        BY <4>1, StoredStays
      <4>2. CASE StreamedOk(i, q, cur[p], phase, sent)
        <5>1. i \in Item
          BY <1>1
        <5> QED
          BY <1>1, <4>2, <5>1, ItemGrows
      <4> QED
        BY <3>1, <3>2, <4>1, <4>2 DEF ItemsOk
    <3> QED
      BY <3>1, <3>2 DEF ItemsOk
  <2> QED
    BY <1>2, <1>4, <2>3, <2>4 DEF PageExact
<1> QED
  BY <1>3, <1>4

LEMMA AnswerShows ==
  ASSUME AllInv, NEW s \in Streams, Answer(s)
  PROVE  ShowInv'
<1> USE DEF pageVars
<1>1. /\ phase \in [Streams -> {"new", "running", "ended", "lost"}]
      /\ sent \in [Streams -> Nat] /\ saved \subseteq Streams
      /\ \A t \in saved : phase[t] = "ended"
      /\ \A t \in Streams : phase[t] = "new" => sent[t] = 0
  BY DEF AllInv, TypeInv, ServerKinds, PageKinds, ServerInv, NothingBefore, ShowInv
<1>2. CASE StartStream(s)
  <2> DEFINE e == [kind |-> "start", s |-> s]
  <2>1. e \in Event /\ e.s = s /\ e.kind = "start"
    BY DEF Event
  <2>2. /\ Broadcast(e) /\ UNCHANGED <<open, requests, startup, fetch, cur, view, saved, sent>>
        /\ phase[s] = "new" /\ phase' = [phase EXCEPT ![s] = "running"]
    BY <1>2 DEF StartStream
  <2> HIDE DEF e
  <2>3. \A t \in Streams : ~IsChunk(e, t)
    BY <2>1 DEF IsChunk
  <2> QED
    BY <1>1, <2>1, <2>2, <2>3, BroadcastKeeps DEF Runs
<1>3. CASE SendStreamChunk(s)
  <2> DEFINE e == [kind |-> "chunk", s |-> s]
  <2>1. e \in Event /\ e.s = s /\ e.kind = "chunk"
    BY DEF Event
  <2>2. /\ Broadcast(e) /\ UNCHANGED <<open, requests, startup, fetch, cur, view, saved, phase>>
        /\ phase[s] = "running" /\ sent' = [sent EXCEPT ![s] = @ + 1]
    BY <1>3 DEF SendStreamChunk
  <2> HIDE DEF e
  <2>3. \A t \in Streams : IsChunk(e, t) <=> t = s
    BY <2>1 DEF IsChunk
  <2>4. \A t \in Streams : sent'[t] = sent[t] + (IF IsChunk(e, t) THEN 1 ELSE 0)
    BY <1>1, <2>2, <2>3
  <2> QED
    BY <1>1, <2>1, <2>2, <2>4, BroadcastKeeps
<1>4. CASE EndStream(s)
  <2> DEFINE e == [kind |-> "end", s |-> s]
  <2>1. e \in Event /\ e.s = s /\ e.kind = "end"
    BY DEF Event
  <2>2. /\ Broadcast(e) /\ UNCHANGED <<open, requests, startup, fetch, cur, view, sent>>
        /\ phase[s] = "running" /\ phase' = [phase EXCEPT ![s] = "ended"]
        /\ saved \subseteq saved' /\ saved' \subseteq saved \cup {s}
    BY <1>4 DEF EndStream
  <2> HIDE DEF e
  <2>3. \A t \in Streams : ~IsChunk(e, t)
    BY <2>1 DEF IsChunk
  <2>4. \A t \in saved' : phase'[t] = "ended"
    BY <1>1, <2>2
  <2> QED
    BY <1>1, <2>1, <2>2, <2>3, <2>4, BroadcastKeeps DEF Runs
<1>5. CASE WorkerThrows(s)
  <2>1. /\ UNCHANGED <<open, inbox, requests, startup, fetch, cur, view, saved, sent>>
        /\ phase[s] = "running" /\ phase' = [phase EXCEPT ![s] = "lost"]
    BY <1>5 DEF WorkerThrows
  <2>2. \A t \in Streams : /\ Runs(phase, t) => Runs(phase', t)
                           /\ phase'[t] = "new" => phase[t] = "new"
    BY <1>1, <2>1 DEF Runs
  <2>3. ASSUME NEW p \in Pages PROVE PageExact(p)'
    <3>1. PageExact(p) /\ view[p] \in SUBSET Item
      BY DEF AllInv, ShowInv, TypeInv, PageKinds
    <3>2. InboxExact(p)'
      BY <2>1, <2>2, <3>1 DEF PageExact, InboxExact, EventOk
    <3>3. ViewExact(p)'
      <4>1. \A i \in view[p] : i.s \in Streams
        BY <3>1 DEF Item
      <4>2. \A i \in view[p] : StreamedOk(i, inbox[p], cur[p], phase, sent)
                               => StreamedOk(i, inbox[p], cur[p], phase', sent)
        BY <2>2, <4>1 DEF StreamedOk
      <4> QED
        BY <2>1, <3>1, <4>2 DEF PageExact, ViewExact, Settled, ItemsOk
    <3> QED
      BY <2>1, <3>1, <3>2, <3>3 DEF PageExact, FetchExact
  <2> QED
    BY <1>1, <2>1, <2>3 DEF ShowInv
<1> QED
  BY <1>2, <1>3, <1>4, <1>5 DEF Answer

(* The oldest event of an inbox is taken off: the others stay exact.         *)
LEMMA EventMoves ==
  ASSUME NEW q \in Seq(Event), q # <<>>, NEW ph, NEW sn,
         \A n \in DOMAIN q : EventOk(q, n, ph, sn)
  PROVE  \A n \in DOMAIN Tail(q) : EventOk(Tail(q), n, ph, sn)
<1> DEFINE t == Tail(q)
<1>1. /\ Len(q) \in Nat \ {0} /\ DOMAIN q = 1..Len(q) /\ DOMAIN t = 1..(Len(q) - 1)
      /\ \A k \in 1..(Len(q) - 1) : t[k] = q[k + 1]
  OBVIOUS
<1> SUFFICES ASSUME NEW n \in 1..(Len(q) - 1), t[n].s \in Streams
             PROVE  EventOk(t, n, ph, sn)
  BY <1>1 DEF EventOk
<1>2. n \in 0..(Len(q) - 1) /\ n + 1 \in DOMAIN q /\ t[n] = q[n + 1]
  BY <1>1
<1> DEFINE s == t[n].s
<1>3. /\ Cardinality(Chunks(t, n, s)) = Cardinality(Chunks(q, n + 1, s))
      /\ EndAfter(t, n, s) <=> EndAfter(q, n + 1, s)
  BY <1>2, ChunksTail
<1>4. EventOk(q, n + 1, ph, sn)
  BY <1>2
<1>5. \A k \in 1..(n - 1) : k + 1 \in 1..((n + 1) - 1) /\ t[k] = q[k + 1]
  BY <1>1
<1> HIDE DEF t
<1> QED
  BY <1>2, <1>3, <1>4, <1>5 DEF EventOk

(* A message shown moves with it: it stays as it is, takes the chunk, or     *)
(* ceases to be live.                                                        *)
LEMMA ItemMoves ==
  ASSUME NEW q \in Seq(Event), q # <<>>, NEW i \in Item, NEW c,
         NEW ph, NEW sn \in [Streams -> Nat], StreamedOk(i, q, c, ph, sn)
  PROVE  /\ ~IsChunk(Head(q), i.s) /\ ~(Head(q).kind = "end" /\ Head(q).s = i.s)
              => StreamedOk(i, Tail(q), c, ph, sn)
         /\ IsChunk(Head(q), i.s)
              => StreamedOk([i EXCEPT !.len = @ + 1], Tail(q), c, ph, sn)
         /\ Head(q).kind = "end" /\ Head(q).s = i.s
              => StreamedOk([i EXCEPT !.live = FALSE], Tail(q), c, ph, sn)
<1> DEFINE t == Tail(q)
<1>1. /\ Len(q) \in Nat \ {0} /\ DOMAIN q = 1..Len(q) /\ DOMAIN t = 1..(Len(q) - 1)
      /\ \A k \in 1..(Len(q) - 1) : t[k] = q[k + 1]
      /\ 0 \in 0..(Len(q) - 1) /\ 0 + 1 = 1
  OBVIOUS
<1>2. i.s \in Streams /\ i.len \in Nat /\ sn[i.s] \in Nat
  BY DEF Item
<1>3. /\ Cardinality(Chunks(t, 0, i.s)) = Cardinality(Chunks(q, 1, i.s))
      /\ EndAfter(t, 0, i.s) <=> EndAfter(q, 1, i.s)
  BY <1>1, ChunksTail
<1>4. Cardinality(Chunks(q, 1, i.s)) \in Nat
  BY ChunksFinite
<1>5. /\ Cardinality(Chunks(q, 0, i.s))
           = Cardinality(Chunks(q, 1, i.s)) + (IF IsChunk(Head(q), i.s) THEN 1 ELSE 0)
      /\ EndAfter(q, 0, i.s)
           <=> EndAfter(q, 1, i.s) \/ (Head(q).kind = "end" /\ Head(q).s = i.s)
  BY ChunksHead
<1>6. \A n \in DOMAIN t : t[n].kind = "start" => t[n].s # i.s
  BY <1>1 DEF StreamedOk
<1> HIDE DEF t
<1>7. ASSUME ~IsChunk(Head(q), i.s), ~(Head(q).kind = "end" /\ Head(q).s = i.s)
      PROVE  StreamedOk(i, t, c, ph, sn)
  BY <1>3, <1>4, <1>5, <1>6, <1>7 DEF StreamedOk
<1>8. ASSUME IsChunk(Head(q), i.s)
      PROVE  StreamedOk([i EXCEPT !.len = @ + 1], t, c, ph, sn)
  <2> DEFINE j == [i EXCEPT !.len = @ + 1]
  <2>1. j.s = i.s /\ j.stored = i.stored /\ j.live = i.live /\ j.len = i.len + 1
    BY DEF Item
  <2> HIDE DEF j
  <2>2. Head(q).kind # "end"
    BY <1>8 DEF IsChunk
  <2>3. j.len + Cardinality(Chunks(t, 0, j.s)) = sn[j.s]
    BY <1>2, <1>3, <1>4, <1>5, <1>8, <2>1 DEF StreamedOk
  <2>4. j.live => Runs(ph, j.s) \/ EndAfter(t, 0, j.s)
    BY <1>3, <1>5, <2>1, <2>2 DEF StreamedOk
  <2>5. StreamedOk(j, t, c, ph, sn)
    BY <1>6, <2>1, <2>3, <2>4 DEF StreamedOk
  <2> QED
    BY <2>5 DEF j
<1>9. ASSUME Head(q).kind = "end", Head(q).s = i.s
      PROVE  StreamedOk([i EXCEPT !.live = FALSE], t, c, ph, sn)
  <2> DEFINE j == [i EXCEPT !.live = FALSE]
  <2>1. j.s = i.s /\ j.stored = i.stored /\ j.live = FALSE /\ j.len = i.len
    BY DEF Item
  <2> HIDE DEF j
  <2>2. ~IsChunk(Head(q), i.s)
    BY <1>9 DEF IsChunk
  <2>3. j.len + Cardinality(Chunks(t, 0, j.s)) = sn[j.s]
    BY <1>3, <1>4, <1>5, <2>1, <2>2 DEF StreamedOk
  <2>4. StreamedOk(j, t, c, ph, sn)
    BY <1>6, <2>1, <2>3 DEF StreamedOk
  <2> QED
    BY <2>4 DEF j
<1> QED
  BY <1>7, <1>8, <1>9 DEF t

(* A page drops an event of another conversation.                            *)
LEMMA DropKeeps ==
  ASSUME NEW q \in Seq(Event), q # <<>>, NEW items \in SUBSET Item, NEW c,
         NEW ph, NEW sn \in [Streams -> Nat], NEW sv,
         ItemsOk(items, q, c, ph, sn, sv), ConvOfEvent(Head(q)) # c
  PROVE  ItemsOk(items, Tail(q), c, ph, sn, sv)
<1> SUFFICES ASSUME NEW i \in items, StreamedOk(i, q, c, ph, sn)
             PROVE  StreamedOk(i, Tail(q), c, ph, sn)
  BY DEF ItemsOk
<1>1. ~IsChunk(Head(q), i.s) /\ ~(Head(q).kind = "end" /\ Head(q).s = i.s)
  BY DEF StreamedOk, ConvOfEvent, IsChunk
<1>2. i \in Item
  OBVIOUS
<1> QED
  BY <1>1, <1>2, ItemMoves

(* A page shows an event of its conversation.                                *)
LEMMA HandleKeeps ==
  ASSUME NEW q \in Seq(Event), q # <<>>, NEW items \in SUBSET Item, NEW c,
         NEW ph, NEW sn \in [Streams -> Nat], NEW sv,
         \A n \in DOMAIN q : EventOk(q, n, ph, sn),
         ItemsOk(items, q, c, ph, sn, sv), ConvOfEvent(Head(q)) = c
  PROVE  ItemsOk(HandleMessage(items, Head(q)), Tail(q), c, ph, sn, sv)
<1> DEFINE e == Head(q)
           t == Tail(q)
           streamed(i) == i.s = e.s /\ ~i.stored
<1>1. /\ Len(q) \in Nat \ {0} /\ DOMAIN q = 1..Len(q) /\ DOMAIN t = 1..(Len(q) - 1)
      /\ \A k \in 1..(Len(q) - 1) : t[k] = q[k + 1] /\ k + 1 \in DOMAIN q /\ 1 \in 1..((k + 1) - 1)
      /\ e = q[1] /\ e \in Event /\ 1 \in DOMAIN q
      /\ 0 \in 0..(Len(q) - 1) /\ 0 + 1 = 1
  OBVIOUS
<1>2. \A i \in items : StoredOk(i, c, sn, sv) \/ StreamedOk(i, q, c, ph, sn)
  BY DEF ItemsOk
<1>3. \A i, j \in items : i.s = j.s /\ i.stored = j.stored => i = j
  BY DEF ItemsOk, Distinct
<1>4. \A s : /\ Cardinality(Chunks(t, 0, s)) = Cardinality(Chunks(q, 1, s))
             /\ EndAfter(t, 0, s) <=> EndAfter(q, 1, s)
  BY <1>1, ChunksTail
<1>5. EventOk(q, 1, ph, sn)
  BY <1>1
<1>6. \A i \in items :
        StreamedOk(i, q, c, ph, sn) =>
          /\ ~IsChunk(e, i.s) /\ ~(e.kind = "end" /\ e.s = i.s) => StreamedOk(i, t, c, ph, sn)
          /\ IsChunk(e, i.s) => StreamedOk([i EXCEPT !.len = @ + 1], t, c, ph, sn)
          /\ e.kind = "end" /\ e.s = i.s => StreamedOk([i EXCEPT !.live = FALSE], t, c, ph, sn)
  BY ItemMoves
<1>7. \A i \in items : StoredOk(i, c, sn, sv) <=> i.stored
  BY <1>2 DEF StoredOk, StreamedOk
<1>8. e.s \in Streams /\ e.kind = "start"
        => \A n \in DOMAIN t : t[n].kind = "start" => t[n].s # e.s
  <2> SUFFICES ASSUME NEW n \in DOMAIN t, e.kind = "start", t[n].kind = "start", t[n].s = e.s,
                      e.s \in Streams
               PROVE  FALSE
    OBVIOUS
  <2>1. EventOk(q, n + 1, ph, sn) /\ q[n + 1] = t[n] /\ 1 \in 1..((n + 1) - 1)
    BY <1>1
  <2> QED
    BY <1>1, <2>1 DEF EventOk
<1> HIDE DEF e, t
<1>9. CASE e.kind = "start"
  <2> DEFINE new == [s |-> e.s, stored |-> FALSE, len |-> 0, live |-> TRUE]
  <2>1. e.s \in Streams /\ ConvOf[e.s] = c
    BY <1>1, <1>9 DEF Event, ConvOfEvent, e
  <2>2. HandleMessage(items, e) = items \cup {new}
    BY <1>9 DEF HandleMessage
  <2>3. StreamedOk(new, t, c, ph, sn)
    <3>1. Cardinality(Chunks(t, 0, e.s)) = sn[e.s] /\ sn[e.s] \in Nat
      BY <1>1, <1>4, <1>5, <1>9, <2>1 DEF EventOk
    <3>2. ph[e.s] # "new" /\ (Runs(ph, e.s) \/ EndAfter(t, 0, e.s))
      BY <1>1, <1>4, <1>5, <1>9, <2>1 DEF EventOk
    <3> QED
      BY <1>8, <1>9, <2>1, <3>1, <3>2 DEF StreamedOk
  <2>4. \A i \in items : ~i.stored => i.s # e.s
    BY <1>1, <1>2, <1>9 DEF StoredOk, StreamedOk
  <2>5. \A i \in items : StreamedOk(i, q, c, ph, sn) => StreamedOk(i, t, c, ph, sn)
    BY <1>6, <1>9 DEF IsChunk
  <2>6. Distinct(items \cup {new})
    <3>1. \A i \in items : ~(i.s = new.s /\ i.stored = new.stored)
      BY <2>4 DEF Item
    <3> HIDE DEF new
    <3> QED
      BY <1>3, <3>1 DEF Distinct
  <2> QED
    BY <1>2, <2>2, <2>3, <2>5, <2>6 DEF ItemsOk, e, t
<1>10. CASE e.kind = "chunk"
  <2> DEFINE g(i) == IF streamed(i) THEN [i EXCEPT !.len = @ + 1] ELSE i
  <2>1. HandleMessage(items, e) = {g(i) : i \in items}
    BY <1>10 DEF HandleMessage
  <2>2. \A i \in items : g(i).s = i.s /\ g(i).stored = i.stored
    BY DEF Item
  <2>3. \A i \in items : StoredOk(g(i), c, sn, sv) \/ StreamedOk(g(i), t, c, ph, sn)
    BY <1>2, <1>6, <1>7, <1>10 DEF IsChunk
  <2> HIDE DEF g
  <2>4. Distinct({g(i) : i \in items})
    BY <1>3, <2>2 DEF Distinct
  <2> QED
    BY <2>1, <2>3, <2>4 DEF ItemsOk, e, t
<1>11. CASE e.kind = "end"
  <2> DEFINE g(i) == IF streamed(i) THEN [i EXCEPT !.live = FALSE] ELSE i
  <2>1. HandleMessage(items, e) = {g(i) : i \in items}
    BY <1>11 DEF HandleMessage
  <2>2. \A i \in items : g(i).s = i.s /\ g(i).stored = i.stored
    BY DEF Item
  <2>3. \A i \in items : StoredOk(g(i), c, sn, sv) \/ StreamedOk(g(i), t, c, ph, sn)
    BY <1>2, <1>6, <1>7, <1>11 DEF IsChunk
  <2> HIDE DEF g
  <2>4. Distinct({g(i) : i \in items})
    BY <1>3, <2>2 DEF Distinct
  <2> QED
    BY <2>1, <2>3, <2>4 DEF ItemsOk, e, t
<1>12. CASE e.kind = "resume"
  <2>1. \A i \in items : StreamedOk(i, q, c, ph, sn) => StreamedOk(i, t, c, ph, sn)
    BY <1>6, <1>12 DEF IsChunk
  <2>2. HandleMessage(items, e) = Resumed(items, e)
    BY <1>12 DEF HandleMessage
  <2>3. CASE e.s = NoStream
    BY <1>2, <1>3, <2>1, <2>2, <2>3 DEF Resumed, ItemsOk, Distinct, e, t
  <2>4. CASE e.s # NoStream
    <3> DEFINE new == [s |-> e.s, stored |-> FALSE, len |-> e.len, live |-> TRUE]
               kept == {i \in items : i.s # e.s \/ i.stored}
    <3>1. e.s \in Streams /\ e.conv = c /\ e.len \in Nat
      BY <1>1, <1>12, <2>4 DEF Event, ConvOfEvent, e
    <3>2. HandleMessage(items, e) = kept \cup {new}
      BY <2>2, <2>4 DEF Resumed
    <3>3. StreamedOk(new, t, c, ph, sn)
      <4>1. ConvOf[e.s] = c /\ e.len + Cardinality(Chunks(t, 0, e.s)) = sn[e.s]
        BY <1>1, <1>4, <1>5, <1>12, <3>1 DEF EventOk
      <4>2. ph[e.s] # "new" /\ (Runs(ph, e.s) \/ EndAfter(t, 0, e.s))
        BY <1>1, <1>4, <1>5, <1>12, <3>1 DEF EventOk
      <4>3. \A n \in DOMAIN t : t[n].kind = "start" => t[n].s # e.s
        <5> SUFFICES ASSUME NEW n \in DOMAIN t, t[n].kind = "start", t[n].s = e.s
                     PROVE  FALSE
          OBVIOUS
        <5>1. EventOk(q, n + 1, ph, sn) /\ q[n + 1] = t[n] /\ 1 \in 1..((n + 1) - 1)
          BY <1>1
        <5> QED
          BY <1>1, <3>1, <5>1 DEF EventOk
      <4> QED
        BY <4>1, <4>2, <4>3 DEF StreamedOk
    <3>4. \A i \in kept : StoredOk(i, c, sn, sv) \/ StreamedOk(i, t, c, ph, sn)
      BY <1>2, <2>1
    <3>5. Distinct(kept \cup {new})
      <4>1. \A i \in kept : i \in items /\ ~(i.s = new.s /\ i.stored = new.stored)
        BY DEF Item
      <4> HIDE DEF new, kept
      <4> QED
        BY <1>3, <4>1 DEF Distinct
    <3> HIDE DEF new, kept
    <3> QED
      BY <3>2, <3>3, <3>4, <3>5 DEF ItemsOk, e, t
  <2> QED
    BY <2>3, <2>4
<1> QED
  BY <1>1, <1>9, <1>10, <1>11, <1>12 DEF Event

(* A page that a step does not touch stays as it is.                         *)
LEMMA OtherPages ==
  ASSUME NEW k \in Pages, PageExact(k), UNCHANGED <<phase, sent, saved>>,
         inbox'[k] = inbox[k], requests'[k] = requests[k], fetch'[k] = fetch[k],
         cur'[k] = cur[k], view'[k] = view[k],
         k \in open' <=> k \in open, k \in startup' <=> k \in startup
  PROVE  PageExact(k)'
BY DEF PageExact, InboxExact, FetchExact, ViewExact, Settled

(* The channel tells a page the stream its conversation has, whole.          *)
LEMMA ResumeShows ==
  ASSUME AllInv, NEW p \in Pages, SendActiveStreamState(p)
  PROVE  PageExact(p)'
<1> DEFINE k == Head(requests[p])
           e == [kind |-> "resume", conv |-> k, s |-> active[k], len |-> acc[k]]
           q == inbox[p]
           q2 == Append(q, e)
<1>1. /\ k \in Convs /\ active[k] \in Streams \cup {NoStream} /\ acc[k] \in Nat
      /\ q \in Seq(Event) /\ sent \in [Streams -> Nat] /\ view[p] \in SUBSET Item
      /\ inbox \in [Pages -> Seq(Event)]
  BY DEF AllInv, TypeInv, PageKinds, ServerKinds, SendActiveStreamState
<1>2. e \in Event /\ e.kind = "resume" /\ e.conv = k /\ e.s = active[k] /\ e.len = acc[k]
  BY <1>1 DEF Event
<1>3. inbox'[p] = q2 /\ UNCHANGED <<phase, sent, saved, open, startup, fetch, cur, view>>
      /\ requests[p] # <<>>
  BY <1>1 DEF SendActiveStreamState, serverVars
<1>4. PageExact(p) /\ p \in open
  BY <1>3 DEF AllInv, ShowInv, PageExact
<1>5. active[k] # NoStream => /\ ConvOf[active[k]] = k
                              /\ Runs(phase, active[k])
                              /\ acc[k] = sent[active[k]]
  BY <1>1 DEF AllInv, ServerInv, ActiveIsRunning, Runs
<1> HIDE DEF e
<1>6. \A t : ~IsChunk(e, t)
  BY <1>2 DEF IsChunk
<1>7. InboxExact(p)'
  <2>1. Len(q) \in Nat /\ DOMAIN q = 1..Len(q) /\ DOMAIN q2 = 1..(Len(q) + 1)
        /\ q2[Len(q) + 1] = e
    BY <1>1, <1>2
  <2>2. ASSUME NEW n \in DOMAIN q PROVE EventOk(q2, n, phase, sent)
    <3>1. EventOk(q, n, phase, sent)
      BY <1>4, <2>2 DEF PageExact, InboxExact
    <3>2. \A t \in Streams : sent[t] = sent[t] + (IF IsChunk(e, t) THEN 1 ELSE 0)
      BY <1>1, <1>6
    <3> HIDE DEF q
    <3> QED
      BY <1>1, <1>2, <2>2, <3>1, <3>2, EventGrows
  <2>3. EventOk(q2, Len(q) + 1, phase, sent)
    <3>1. CASE active[k] = NoStream
      BY <1>2, <2>1, <3>1, StreamsAssumption DEF EventOk
    <3>2. CASE active[k] # NoStream
      <4>1. Chunks(q2, Len(q) + 1, e.s) = {}
        BY <2>1 DEF Chunks
      <4>2. Cardinality(Chunks(q2, Len(q) + 1, e.s)) = 0
        BY <4>1, FS_EmptySet
      <4>3. e.len + 0 = sent[e.s] /\ phase[e.s] # "new"
        BY <1>1, <1>2, <1>5, <3>2 DEF Runs
      <4> QED
        BY <1>2, <1>5, <2>1, <3>2, <4>2, <4>3 DEF EventOk
    <3> QED
      BY <3>1, <3>2
  <2> QED
    BY <1>3, <2>1, <2>2, <2>3 DEF InboxExact
<1>8. ViewExact(p)'
  <2> SUFFICES ASSUME Settled(p), ItemsOk(view[p], q, cur[p], phase, sent, saved)
               PROVE  ItemsOk(view[p], q2, cur[p], phase, sent, saved)
    BY <1>3, <1>4 DEF PageExact, ViewExact, Settled
  <2>1. ASSUME NEW i \in view[p], StreamedOk(i, q, cur[p], phase, sent)
        PROVE  StreamedOk(i, q2, cur[p], phase, sent)
    <3>1. i \in Item /\ \A t \in Streams : sent[t] = sent[t] + (IF IsChunk(e, t) THEN 1 ELSE 0)
      BY <1>1, <1>6
    <3>2. e.kind # "start"
      BY <1>2
    <3> HIDE DEF q
    <3> QED
      BY <1>1, <1>2, <2>1, <3>1, <3>2, ItemGrows
  <2> QED
    BY <2>1 DEF ItemsOk
<1> QED
  BY <1>3, <1>4, <1>7, <1>8 DEF PageExact, FetchExact

LEMMA ReceiveShows ==
  ASSUME AllInv, NEW p \in Pages, Receive(p)
  PROVE  PageExact(p)'
<1> DEFINE q == inbox[p]
<1>1. /\ q \in Seq(Event) /\ q # <<>> /\ sent \in [Streams -> Nat] /\ view[p] \in SUBSET Item
      /\ inbox'[p] = Tail(q)
      /\ UNCHANGED <<phase, sent, saved, open, requests, startup, fetch, cur>>
      /\ view'[p] = IF ConvOfEvent(Head(q)) = cur[p]
                    THEN HandleMessage(view[p], Head(q)) ELSE view[p]
  BY DEF AllInv, TypeInv, PageKinds, ServerKinds, Receive, serverVars
<1>2. PageExact(p) /\ p \in open
  BY <1>1 DEF AllInv, ShowInv, PageExact
<1>3. \A n \in DOMAIN q : EventOk(q, n, phase, sent)
  BY <1>2 DEF PageExact, InboxExact
<1> HIDE DEF q
<1>4. InboxExact(p)'
  <2>1. \A n \in DOMAIN Tail(q) : EventOk(Tail(q), n, phase, sent)
    BY <1>1, <1>3, EventMoves
  <2> QED
    BY <1>1, <2>1 DEF InboxExact
<1>5. ViewExact(p)'
  <2> SUFFICES ASSUME ItemsOk(view[p], q, cur[p], phase, sent, saved)
               PROVE  ItemsOk(view'[p], Tail(q), cur[p], phase, sent, saved)
    BY <1>1, <1>2 DEF PageExact, ViewExact, Settled, q
  <2>1. CASE ConvOfEvent(Head(q)) = cur[p]
    BY <1>1, <1>3, <2>1, HandleKeeps
  <2>2. CASE ConvOfEvent(Head(q)) # cur[p]
    BY <1>1, <2>2, DropKeeps
  <2> QED
    BY <2>1, <2>2
<1> QED
  BY <1>1, <1>2, <1>4, <1>5 DEF PageExact, FetchExact

(* The server reads what is stored; the page shows nothing else once its     *)
(* load is through.                                                          *)
LEMMA LoadShows ==
  ASSUME AllInv, NEW p \in Pages, ServeMessages(p) \/ MessagesLoaded(p) \/ LoadFails(p)
  PROVE  PageExact(p)'
<1>1. /\ PageExact(p) /\ saved \subseteq Streams
      /\ fetch \in [Pages -> [state : {"none", "asked", "answered"}, items : SUBSET Item]]
      /\ view \in [Pages -> SUBSET Item] /\ requests \in [Pages -> Seq(Convs)]
  BY DEF AllInv, ShowInv, TypeInv, PageKinds
<1>2. CASE ServeMessages(p)
  <2> DEFINE row(s) == [s |-> s, stored |-> TRUE, len |-> sent[s], live |-> FALSE]
             items == {row(s) : s \in {t \in saved : ConvOf[t] = cur[p]}}
  <2>1. /\ fetch' = [fetch EXCEPT ![p] = [state |-> "answered", items |-> items]]
        /\ UNCHANGED <<phase, sent, saved, open, inbox, requests, startup, cur, view>>
    BY <1>2 DEF ServeMessages, serverVars
  <2>2. \A s \in saved : ConvOf[s] = cur[p] => StoredOk(row(s), cur[p], sent, saved)
    BY DEF StoredOk
  <2>3. \A i \in items : StoredOk(i, cur[p], sent, saved)
    BY <2>2
  <2>4. Distinct(items)
    <3> SUFFICES ASSUME NEW i \in items, NEW j \in items, i.s = j.s PROVE i = j
      BY DEF Distinct
    <3>1. PICK a : i = row(a)
      OBVIOUS
    <3>2. PICK b : j = row(b)
      OBVIOUS
    <3>3. row(a).s = a /\ row(b).s = b
      OBVIOUS
    <3> HIDE DEF row, items
    <3> QED
      BY <3>1, <3>2, <3>3
  <2> HIDE DEF items
  <2>5. fetch'[p].state = "answered" /\ fetch'[p].items = items
    BY <1>1, <2>1
  <2> QED
    BY <1>1, <2>1, <2>3, <2>4, <2>5 DEF PageExact, InboxExact, FetchExact, ViewExact, Settled
<1>3. CASE MessagesLoaded(p)
  <2>1. /\ fetch[p].state = "answered" /\ view'[p] = fetch[p].items /\ fetch'[p].state = "none"
        /\ UNCHANGED <<phase, sent, saved, open, inbox, startup, cur>>
        /\ p \notin open => requests' = requests
    BY <1>1, <1>3 DEF MessagesLoaded, Ask, serverVars
  <2> QED
    BY <1>1, <2>1 DEF PageExact, InboxExact, FetchExact, ViewExact, ItemsOk
<1>4. CASE LoadFails(p)
  <2>1. /\ view'[p] = {} /\ fetch'[p].state = "none"
        /\ UNCHANGED <<phase, sent, saved, open, inbox, requests, startup, cur>>
    BY <1>1, <1>4 DEF LoadFails, serverVars
  <2> QED
    BY <1>1, <2>1 DEF PageExact, InboxExact, FetchExact, ViewExact, ItemsOk, Distinct
<1> QED
  BY <1>2, <1>3, <1>4

(* A page that goes elsewhere, or comes back, is not settled until it has    *)
(* loaded its messages.                                                      *)
LEMMA MoveShows ==
  ASSUME AllInv, NEW p \in Pages,
         \/ \E k \in Convs : SelectConversation(p, k)
         \/ Disconnect(p) \/ Reconnect(p) \/ StartupLoaded(p)
  PROVE  PageExact(p)'
<1>1. /\ PageExact(p) /\ open \subseteq Pages
      /\ fetch \in [Pages -> [state : {"none", "asked", "answered"}, items : SUBSET Item]]
      /\ inbox \in [Pages -> Seq(Event)] /\ requests \in [Pages -> Seq(Convs)]
  BY DEF AllInv, ShowInv, TypeInv, PageKinds
<1>2. CASE (\E k \in Convs : SelectConversation(p, k)) \/ StartupLoaded(p)
  <2>1. /\ fetch'[p].state = "asked"
        /\ UNCHANGED <<phase, sent, saved, open, inbox, requests>>
    BY <1>1, <1>2 DEF SelectConversation, StartupLoaded, Load, serverVars
  <2> QED
    BY <1>1, <2>1 DEF PageExact, InboxExact, FetchExact, ViewExact, Settled
<1>3. CASE Disconnect(p)
  <2>1. /\ inbox'[p] = <<>> /\ requests'[p] = <<>> /\ p \notin open'
        /\ UNCHANGED <<phase, sent, saved, fetch, cur>>
    BY <1>1, <1>3 DEF Disconnect, serverVars
  <2> QED
    BY <1>1, <2>1 DEF PageExact, InboxExact, FetchExact, ViewExact, Settled
<1>4. CASE Reconnect(p)
  <2>1. /\ p \in open' /\ p \in startup'
        /\ UNCHANGED <<phase, sent, saved, inbox, fetch, cur>>
    BY <1>4 DEF Reconnect, serverVars
  <2> QED
    BY <1>1, <2>1 DEF PageExact, InboxExact, FetchExact, ViewExact, Settled
<1> QED
  BY <1>2, <1>3, <1>4

LEMMA PageShows ==
  ASSUME AllInv, NEW p \in Pages, Page(p) \/ User(p)
  PROVE  ShowInv'
<1>1. PageExact(p)'
  BY ResumeShows, ReceiveShows, LoadShows, MoveShows DEF Page, User
<1>2. /\ UNCHANGED <<phase, sent, saved>>
      /\ \A k \in Pages \ {p} :
           /\ inbox'[k] = inbox[k] /\ requests'[k] = requests[k] /\ fetch'[k] = fetch[k]
           /\ cur'[k] = cur[k] /\ view'[k] = view[k]
           /\ (k \in open' <=> k \in open) /\ (k \in startup' <=> k \in startup)
  <2>1. UNCHANGED serverVars
    BY DEF Page, User, SendActiveStreamState, Receive, ServeMessages, MessagesLoaded,
           Reconnect, StartupLoaded, SelectConversation, LoadFails, Disconnect
  <2>2. /\ inbox \in [Pages -> Seq(Event)] /\ requests \in [Pages -> Seq(Convs)]
        /\ fetch \in [Pages -> [state : {"none", "asked", "answered"}, items : SUBSET Item]]
        /\ cur \in [Pages -> Convs] /\ view \in [Pages -> SUBSET Item]
    BY DEF AllInv, TypeInv, PageKinds
  <2>3. ASSUME NEW k \in Pages \ {p}
        PROVE  /\ inbox'[k] = inbox[k] /\ requests'[k] = requests[k] /\ fetch'[k] = fetch[k]
               /\ cur'[k] = cur[k] /\ view'[k] = view[k]
               /\ (k \in open' <=> k \in open) /\ (k \in startup' <=> k \in startup)
    <3>1. CASE Page(p)
      BY <2>2, <2>3, <3>1
      DEF Page, SendActiveStreamState, Receive, ServeMessages, MessagesLoaded, Ask, Reconnect,
          StartupLoaded, Load
    <3>2. CASE User(p)
      BY <2>2, <2>3, <3>2 DEF User, SelectConversation, Load, LoadFails, Disconnect
    <3> QED
      BY <3>1, <3>2
  <2> QED
    BY <2>1, <2>3 DEF serverVars
<1> QED
  BY <1>1, <1>2, OtherPages DEF AllInv, ShowInv

LEMMA NextShow == AllInv /\ [Next]_vars => ShowInv'
<1> SUFFICES ASSUME AllInv, [Next]_vars
             PROVE  ShowInv'
  OBVIOUS
<1>1. CASE \E s \in Streams : Answer(s)
  BY <1>1, AnswerShows
<1>2. CASE \E p \in Pages : Page(p) \/ User(p)
  BY <1>2, PageShows
<1>3. CASE UNCHANGED vars
  BY <1>3, OtherPages DEF vars, AllInv, ShowInv
<1> QED
  BY <1>1, <1>2, <1>3 DEF Next

LEMMA InitShow == Init => ShowInv
BY DEF Init, ShowInv, PageExact, InboxExact, FetchExact, ViewExact, ItemsOk, Distinct

LEMMA AllInductive == Spec => []AllInv
<1>1. Init => AllInv
  BY InitServer, InitTypes, InitShow DEF AllInv
<1>2. AllInv /\ [Next]_vars => AllInv'
  BY NextServer, NextTypes, NextShow DEF AllInv
<1> QED
  BY <1>1, <1>2, PTL DEF Spec

(* What is behind the start of an inbox is what is in it.                    *)
LEMMA WholeInbox ==
  ASSUME NEW p \in Pages, NEW s, inbox[p] \in Seq(Event)
  PROVE  /\ InboxOf(p, "chunk", s) = Chunks(inbox[p], 0, s)
         /\ InboxOf(p, "end", s) # {} <=> EndAfter(inbox[p], 0, s)
<1>1. DOMAIN inbox[p] = 1..Len(inbox[p]) /\ Len(inbox[p]) \in Nat
  OBVIOUS
<1>2. \A k \in DOMAIN inbox[p] : k > 0
  BY <1>1
<1> QED
  BY <1>2 DEF InboxOf, Chunks, EndAfter

(* A page that has its connection and no load under way never shows a text   *)
(* with a gap or a repetition, however it switches, loses its connection and  *)
(* comes back, and however the answers of one conversation overlap.          *)
THEOREM ShownCorrect == Spec => []ShownIsExact
<1>1. AllInv => ShownIsExact
  <2> SUFFICES ASSUME AllInv, NEW p \in Pages, Settled(p), NEW i \in view[p]
               PROVE  /\ ConvOf[i.s] = cur[p]
                      /\ i.len + (IF i.stored THEN 0
                                  ELSE Cardinality(InboxOf(p, "chunk", i.s))) = sent[i.s]
    BY DEF ShownIsExact
  <2>1. /\ StoredOk(i, cur[p], sent, saved) \/ StreamedOk(i, inbox[p], cur[p], phase, sent)
        /\ i.len \in Nat
    BY DEF AllInv, ShowInv, PageExact, ViewExact, ItemsOk, TypeInv, PageKinds, Item
  <2>2. InboxOf(p, "chunk", i.s) = Chunks(inbox[p], 0, i.s)
    BY WholeInbox DEF AllInv, TypeInv, PageKinds
  <2> QED
    BY <2>1, <2>2 DEF StoredOk, StreamedOk
<1> QED
  BY <1>1, AllInductive, PTL

(* Such a page never shows an answer as streaming that has ended, unless the *)
(* end is on its way, and shows no answer twice.                             *)
THEOREM LiveCorrect == Spec => []LiveIsRunning
<1>1. AllInv => LiveIsRunning
  <2> SUFFICES ASSUME AllInv, NEW p \in Pages, Settled(p), NEW i \in view[p]
               PROVE  /\ i.live => \/ phase[i.s] \in {"running", "lost"}
                                   \/ InboxOf(p, "end", i.s) # {}
                      /\ \A j \in view[p] : i.s = j.s /\ i.stored = j.stored => i = j
    BY DEF LiveIsRunning
  <2>1. /\ StoredOk(i, cur[p], sent, saved) \/ StreamedOk(i, inbox[p], cur[p], phase, sent)
        /\ Distinct(view[p])
    BY DEF AllInv, ShowInv, PageExact, ViewExact, ItemsOk
  <2>2. InboxOf(p, "end", i.s) # {} <=> EndAfter(inbox[p], 0, i.s)
    BY WholeInbox DEF AllInv, TypeInv, PageKinds
  <2> QED
    BY <2>1, <2>2 DEF StoredOk, StreamedOk, Runs, Distinct
<1> QED
  BY <1>1, AllInductive, PTL
=============================================================================
