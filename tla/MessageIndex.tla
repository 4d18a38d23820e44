---------------------------- MODULE MessageIndex ----------------------------
(* The index of chat messages for semantic search (message-embeddings/        *)
(* service.ts): a timer starts a run that takes the first messages after a    *)
(* watermark, embeds them for one strategy after the other and then moves the *)
(* watermark.  Meanwhile messages are saved, conversations cleared or deleted *)
(* (server/index.ts), embedding and storing fail, and the program is stopped. *)
(*                                                                            *)
(* A message is its id; ids are random, so they say nothing of the order in   *)
(* which messages are saved.  It has one chunk, or none if it is blank.  Only *)
(* messages of an indexed role and length are messages here.                  *)
EXTENDS Integers, FiniteSets

CONSTANTS
    Msgs,        \* ids of messages, which SQL compares
    Blank,       \* messages of white space, which have no chunk
    Sent,        \* messages that come from a messenger
    Convs,       \* conversations
    WellKnown,   \* those that are not deleted
    ConvOf,      \* the conversation of a message
    Last,        \* number of the last strategy
    MaxPerRun,   \* maxMessagesPerRun
    MaxTime,     \* bound on the milliseconds that pass
    MaxFails,    \* bound on failures
    MaxStops     \* bound on restarts

ASSUME IndexAssumption ==
    /\ Msgs \subseteq Nat \ {0} /\ Blank \subseteq Msgs /\ Sent \subseteq Msgs
    /\ ConvOf \in [Msgs -> Convs] /\ WellKnown \subseteq Convs
    /\ Last \in Nat \ {0} /\ MaxPerRun \in Nat \ {0} /\ MaxTime \in Nat \ {0}
    /\ MaxFails \in Nat /\ MaxStops \in Nat

VARIABLES
    now,       \* the clock
    rows,      \* the messages in the database
    time,      \* their createdAt, kept after they are gone
    deleted,   \* conversations with a deletedAt
    copies,    \* for each strategy, how often a message is in its table
    mark,      \* state: the watermark
    stored,    \* its row in message_embedding_state
    pc,        \* the strategy a run is at; 0: no run, Last + 1: all are stored
    batch,     \* the messages of the run
    purging,   \* for each conversation the strategy its deletion is at, or 0
    fails,     \* failures so far
    stops,     \* restarts so far
    \* history, for the properties:
    aborts,    \* runs whose end is not in the database
    late,      \* messages saved when a later one was taken, by time and id
    left       \* deleted conversations that a run or a failure may have left behind

vars == <<now, rows, time, deleted, copies, mark, stored, pc, batch, purging, fails,
          stops, aborts, late, left>>

Strategies == 1 .. Last
database == <<now, rows, time, late>>
run == <<mark, stored, pc, batch>>

Init ==
    /\ now = 1
    /\ rows = {}
    /\ time = [m \in Msgs |-> 0]
    /\ deleted = {}
    /\ copies = [s \in Strategies |-> [m \in Msgs |-> 0]]
    /\ mark = [at |-> 0, id |-> 0] /\ stored = mark
    /\ pc = 0 /\ batch = {}
    /\ purging = [c \in Convs |-> 0]
    /\ fails = 0 /\ stops = 0 /\ aborts = 0 /\ late = {} /\ left = {}

-----------------------------------------------------------------------------
(* A run *)

\* A bug: two messages of one millisecond are not told apart.
AfterTime(m, w) == time[m] > w.at

\* A bug: the message of the watermark itself is taken again.
AfterOrAt(m, w) == time[m] > w.at \/ (time[m] = w.at /\ m >= w.id)

\* Message m comes after the watermark w.
After(m, w) == time[m] > w.at \/ (time[m] = w.at /\ m > w.id)

Unindexed == {m \in rows : After(m, mark) /\ ConvOf[m] \notin deleted}

Before(m, n) == time[m] < time[n] \/ (time[m] = time[n] /\ m < n)

\* The first messages that are not indexed, in the order of time and id.
IsBatch(b) ==
    /\ \A m \in b, n \in Unindexed \ b : Before(m, n)
    /\ Cardinality(b) <= MaxPerRun
    /\ (b = Unindexed \/ Cardinality(b) = MaxPerRun)

\* indexNewMessages, called by the timer: nothing happens while a run is in
\* progress, or if there are no chunks to embed.
Index ==
    /\ pc = 0
    /\ \E b \in SUBSET Unindexed :
         IsBatch(b) /\ ~(b \subseteq Blank) /\ batch' = b
    /\ pc' = 1
    /\ UNCHANGED <<database, deleted, copies, mark, stored, purging, fails, stops, aborts, left>>

\* The chunks of the batch, embedded, are added to the table of a strategy.
Add ==
    /\ pc \in Strategies
    /\ copies' = [copies EXCEPT ![pc] =
                    [m \in Msgs |-> IF m \in batch \ Blank THEN @[m] + 1 ELSE @[m]]]
    /\ pc' = pc + 1
    /\ UNCHANGED <<database, deleted, mark, stored, batch, purging, fails, stops, aborts, left>>

\* The watermark is moved to the last message of the batch, in memory and in the
\* database, where it may fail.
Finish ==
    /\ pc = Last + 1
    /\ \E m \in batch :
         /\ \A n \in batch \ {m} : Before(n, m)
         /\ mark' = [at |-> time[m], id |-> m]
    /\ \/ (stored' = mark' /\ UNCHANGED fails)
       \/ (fails < MaxFails /\ fails' = fails + 1 /\ UNCHANGED stored)
    /\ pc' = 0 /\ batch' = {}
    /\ UNCHANGED <<database, deleted, copies, purging, stops, aborts, left>>

\* A bug: indexingInProgress is reset only where a run ends well.
FailBusy ==
    /\ pc \in Strategies /\ fails < MaxFails
    /\ fails' = fails + 1 /\ aborts' = aborts + 1
    /\ batch' = {} /\ pc' = Last + 1
    /\ UNCHANGED <<database, deleted, copies, mark, stored, purging, stops, left>>

\* Preparing, embedding or storing fails: the error is logged, and the same
\* messages are taken by the next run.
Fail ==
    /\ pc \in Strategies /\ fails < MaxFails
    /\ fails' = fails + 1 /\ aborts' = aborts + 1
    /\ batch' = {} /\ pc' = 0
    /\ UNCHANGED <<database, deleted, copies, mark, stored, purging, stops, left>>

-----------------------------------------------------------------------------
(* The database and its conversations *)

Tick ==
    /\ now < MaxTime
    /\ now' = now + 1
    /\ UNCHANGED <<rows, time, late, deleted, copies, run, purging, fails, stops, aborts, left>>

\* A message is stored at time t, when the watermark, or the run under way, is past it.
Overtaken(m, t) ==
    \/ t < mark.at \/ (t = mark.at /\ m <= mark.id)
    \/ \E n \in batch : t < time[n] \/ (t = time[n] /\ m < n)

SaveAt(m, t) ==
    /\ time[m] = 0
    /\ rows' = rows \cup {m}
    /\ time' = [time EXCEPT ![m] = t]
    /\ late' = IF Overtaken(m, t) THEN late \cup {m} ELSE late
    /\ UNCHANGED <<now, deleted, copies, run, purging, fails, stops, aborts, left>>

\* A bug: the time is taken before something is awaited.
SaveStale(m) == \E t \in 1 .. now : SaveAt(m, t)

\* The program's own messages, those of the page and of agents, are saved in the
\* turn of the event loop in which their time is taken.
Save(m) == SaveAt(m, now)

\* A messenger gives the time at which it was sent, by its own clock.
Receive(m) == \E t \in 1 .. MaxTime : SaveAt(m, t)

\* DELETE /api/conversations/:id/messages: the index is not told.
Clear(c) ==
    /\ \E m \in rows : ConvOf[m] = c
    /\ rows' = {m \in rows : ConvOf[m] # c}
    /\ UNCHANGED <<now, time, late, deleted, copies, run, purging, fails, stops, aborts, left>>

\* DELETE /api/conversations/:id, up to the first await: a run may have some of
\* the messages in its hands.  The page lists a deleted conversation no more.
Delete(c) ==
    /\ c \notin deleted \cup WellKnown
    /\ deleted' = deleted \cup {c}
    /\ purging' = [purging EXCEPT ![c] = 1]
    /\ left' = IF \E m \in batch : ConvOf[m] = c THEN left \cup {c} ELSE left
    /\ UNCHANGED <<database, copies, run, fails, stops, aborts>>

Without(table, c) == [m \in Msgs |-> IF ConvOf[m] = c THEN 0 ELSE table[m]]

\* A bug: only the table of the first strategy is purged.
PurgeFirst(c) ==
    /\ purging[c] # 0
    /\ copies' = [copies EXCEPT ![1] = Without(@, c)]
    /\ purging' = [purging EXCEPT ![c] = 0]
    /\ UNCHANGED <<database, deleted, run, fails, stops, aborts, left>>

\* deleteByConversationId: the table of one more strategy.
Purge(c) ==
    /\ purging[c] # 0
    /\ copies' = [copies EXCEPT ![purging[c]] = Without(@, c)]
    /\ purging' = [purging EXCEPT ![c] = IF @ = Last THEN 0 ELSE @ + 1]
    /\ UNCHANGED <<database, deleted, run, fails, stops, aborts, left>>

\* The store throws: the request fails, and the conversation is deleted all the same.
PurgeFails(c) ==
    /\ purging[c] # 0 /\ fails < MaxFails
    /\ fails' = fails + 1
    /\ purging' = [purging EXCEPT ![c] = 0]
    /\ left' = left \cup {c}
    /\ UNCHANGED <<database, deleted, copies, run, stops, aborts>>

\* The program is stopped, at any moment, and started again: init reads the row.
Restart ==
    /\ stops < MaxStops
    /\ stops' = stops + 1
    /\ mark' = stored
    /\ pc' = 0 /\ batch' = {}
    /\ purging' = [c \in Convs |-> 0]
    /\ aborts' = IF pc # 0 \/ mark # stored THEN aborts + 1 ELSE aborts
    /\ left' = left \cup {c \in Convs : purging[c] # 0}
    /\ UNCHANGED <<database, deleted, copies, stored, fails>>

Next ==
    \/ Index \/ Add \/ Finish \/ Fail
    \/ Tick \/ Restart
    \/ \E c \in Convs : Clear(c) \/ Delete(c) \/ Purge(c) \/ PurgeFails(c)
    \/ \E m \in Msgs \ Sent : Save(m)
    \/ \E m \in Sent : Receive(m)

Spec == Init /\ [][Next]_vars

\* The timer ticks, and what a run or a request awaits is settled.
FairSpec ==
    /\ Spec
    /\ WF_vars(Index) /\ WF_vars(Add \/ Finish)
    /\ \A c \in Convs : WF_vars(Purge(c))

-----------------------------------------------------------------------------
(* Properties *)

Watermarks == [at : 0 .. MaxTime, id : Msgs \cup {0}]

\* Every variable keeps its kind (MessageEmbeddingState, VectorRecord).
TypeOK ==
    /\ now \in 1 .. MaxTime
    /\ rows \subseteq Msgs /\ time \in [Msgs -> 0 .. MaxTime]
    /\ deleted \subseteq Convs
    /\ copies \in [Strategies -> [Msgs -> Nat]]
    /\ mark \in Watermarks /\ stored \in Watermarks
    /\ pc \in 0 .. Last + 1 /\ batch \subseteq Msgs
    /\ purging \in [Convs -> 0 .. Last]
    /\ fails \in 0 .. MaxFails /\ stops \in 0 .. MaxStops /\ aborts \in Nat
    /\ late \subseteq Msgs /\ left \subseteq Convs

Found(m) == \A s \in Strategies : copies[s][m] > 0

\* The watermark in the database passes no message by: one at or before it, of a
\* conversation that is there, is in the table of every strategy, whatever failed and
\* whenever the program was stopped ("picks up new messages since the last watermark",
\* service.ts:69), but for one that was overtaken when it was saved.
NothingSkipped ==
    \A m \in rows \ Blank :
        m \notin late /\ ConvOf[m] \notin deleted /\ ~After(m, stored) => Found(m)

\* The cursor overtakes no message of the program but for one of its millisecond with a
\* greater id, or for a messenger's with a later time: their times only grow.
OwnMessagesInOrder ==
    \A m \in late \ Sent : \E n \in Msgs :
       \/ time[n] = time[m] /\ n > m
       \/ n \in Sent /\ time[n] > time[m]

\* A message is in a table once, and once more at most for every run that failed or
\* whose end was lost: a run adds to the tables before it moves the watermark.
NoNeedlessCopies ==
    \A s \in Strategies, m \in Msgs : copies[s][m] <= 1 + aborts

\* "Delete all vectors for a conversation (called when conversation is deleted)"
\* (service.ts:426): none are left and none come back, unless a run had its
\* messages in hand at that moment or the deletion itself broke off.
DeletedIsForgotten ==
    \A c \in deleted \ left : purging[c] = 0 =>
        \A s \in Strategies, m \in Msgs : ConvOf[m] = c => copies[s][m] = 0

\* Every message is found in the end, unless it was overtaken when it was saved, if
\* embedding does not fail for ever and a batch is larger than the number of blank
\* messages: a batch of nothing else does not move the watermark.
EveryMessageFound ==
    \A m \in Msgs \ Blank :
        m \in rows ~> Found(m) \/ m \notin rows \/ m \in late \/ ConvOf[m] \in deleted
=============================================================================
