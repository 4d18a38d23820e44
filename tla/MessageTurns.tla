---------------------------- MODULE MessageTurns ----------------------------
(***************************************************************************)
(* The supervisor's handling of messages (src/src/agents/supervisor.ts):   *)
(* one asynchronous turn per admitted message, cut into actions at the     *)
(* places where the code awaits, so that turns of different messages       *)
(* interleave exactly where the event loop lets them.                      *)
(*                                                                         *)
(* A turn is identified by the id of its message.  What all turns share is *)
(* what the supervisor object keeps in fields: the two id sets of the      *)
(* deduplication window and the conversationHistory field.                 *)
(* The database is the set of saved rows and the set of conversations.     *)
(***************************************************************************)
EXTENDS Naturals, FiniteSets

CONSTANTS
  Msgs,           \* message ids
  OldConvs,       \* chat conversations that exist at the start
  NewConvs,       \* ids a fresh conversation can get
  Feed,           \* the well-known conversation of scheduled tasks
  NoConv,         \* a message that names no conversation (null)
  ErrorConv,      \* the id 'error' that a failed save answers with
  Shapes,         \* the kinds of message that may be sent, see Shape
  MaxIterations,  \* AGENT_MAX_TOOL_ITERATIONS
  LoadLimit,      \* DEFAULT_MESSAGES_LIMIT
  HistoryLimit,   \* CONVERSATION_HISTORY_LIMIT
  MaxDeliveries,  \* bound of the model: messages handed over, retries included
  MaxLapses       \* bound of the model: conversations leaving the recent window

ConvIds == OldConvs \cup NewConvs \cup {Feed, ErrorConv}

(* What a message says of itself: the conversation in its metadata, whether *)
(* it is a task_run, whether it carries an agent command, whether its channel *)
(* and the LLM provider stream; and, a bound of the model, whether reads and *)
(* writes of the database may throw in its turn.                            *)
Shape == [conv : OldConvs \cup {Feed, NoConv}, task : BOOLEAN,
          command : BOOLEAN, streams : BOOLEAN, dbFails : BOOLEAN]

ASSUME ShapesAssumption == Shapes \subseteq Shape
ASSUME ConvsAssumption ==
  /\ NoConv \notin ConvIds
  /\ ErrorConv \notin OldConvs \cup NewConvs \cup {Feed}
  /\ OldConvs \cap NewConvs = {}
  /\ Feed \notin OldConvs \cup NewConvs
  /\ IsFiniteSet(OldConvs) /\ IsFiniteSet(NewConvs)
ASSUME BoundsAssumption ==
  /\ {MaxIterations, LoadLimit, HistoryLimit, MaxDeliveries} \subseteq Nat \ {0}
  /\ MaxLapses \in Nat

VARIABLES
  shape,       \* what each message is
  deliveries,  \* messages handed to handleMessage so far
  lapses,      \* conversations that left the recent window so far
  pc,          \* where its turn is
  processing,  \* processingMessages
  delegated,   \* delegatedMessages
  timers,      \* turns whose cleanup timer is armed
  history,     \* the conversationHistory field, its entries numbered in order
  last,        \* the number of its last entry
  rows,        \* the messages table, numbered by createdAt in each conversation
  size,        \* rows of each conversation
  convs,       \* ids in the conversations table
  touched,     \* rank of a conversation by updatedAt, 0 outside the recent window
  convOf,      \* requestConversationId of the turn
  prompt,      \* history the turn last sent to the LLM
  iter,        \* iterationCount of the turn
  trace,       \* status of the turn's trace
  stream,      \* the turn's stream on its channel
  delegations, \* hand-overs to a sub-agent since the id was last released
  disturbed    \* turns whose history field another turn wrote before they read it

turnVars == <<convOf, prompt, iter, trace, stream, delegations, disturbed>>
histVars == <<history, last>>
dbVars   == <<rows, size, convs, touched>>
vars == <<shape, deliveries, lapses, pc, processing, delegated, timers, history, last,
          rows, size, convs, touched, convOf, prompt, iter, trace, stream,
          delegations, disturbed>>

Kinds == {"user", "task_run", "assistant", "tool", "delegation"}
Entry == [n : Nat, conv : ConvIds, msg : Msgs, by : Kinds]

(* Where a turn can be; each value but new, done and stuck is an await.     *)
Active == {"admitted", "refreshing", "llm", "tools", "claiming", "delegating",
           "delegatedTo", "fallback", "generating", "citing", "closing"}
Places == Active \cup {"new", "done", "stuck"}

-----------------------------------------------------------------------------
(* What the database answers. *)

(* findByConversationId: the OLDEST LoadLimit rows of the conversation,      *)
(* from which loadConversationHistory drops the rows that only the UI shows. *)
Oldest(c) ==
  {r \in rows : /\ r.conv = c
                /\ Cardinality({q \in rows : q.conv = c /\ q.n <= r.n}) <= LoadLimit}
(* Mutant: the query forgets the conversation. *)
LoadAnyHistory(c) == {r \in rows : r.by \in {"user", "assistant"}}
LoadConversationHistory(c) == {r \in Oldest(c) : r.by \in {"user", "assistant"}}

(* slice(-CONVERSATION_HISTORY_LIMIT) *)
LastOf(h) ==
  {e \in h : Cardinality({f \in h : f.n >= e.n}) <= HistoryLimit}

(* findRecent: the conversation updated last, if within the window. *)
Recent == {c \in convs : touched[c] > 0 /\ \A d \in convs : touched[d] <= touched[c]}

(* ensureConversation: the conversations a message without one may land in. *)
EnsureConversation(c) ==
  IF c # NoConv THEN {c}
  ELSE IF Recent # {} THEN Recent
  ELSE NewConvs \ convs

(* updatedAt becomes the newest; an UPDATE without a row changes nothing.    *)
Touch(c, cs) ==
  IF c \notin cs THEN touched
  ELSE [d \in ConvIds |->
         IF d = c THEN Cardinality({e \in ConvIds : touched[e] > 0} \cup {c})
         ELSE IF touched[c] > 0 /\ touched[d] > touched[c] THEN touched[d] - 1
         ELSE touched[d]]

Turns(places) == {m \in Msgs : pc[m] \in places}

(* Mutant: the row lands in the conversation that the shared field holds. *)
InsertRowShared(m, by) ==
  LET c == (CHOOSE e \in history : e.n = last).conv
      n == size[c] + 1
  IN /\ rows' = rows \cup {[n |-> n, conv |-> c, msg |-> m, by |-> by]}
     /\ size' = [size EXCEPT ![c] = n]
     /\ UNCHANGED convs

(* A row that is inserted for the turn.  Every caller catches what the       *)
(* insertion throws and goes on without the row.                             *)
InsertRow(m, by) ==
  /\ \/ LET n == size[convOf[m]] + 1
        IN /\ rows' = rows \cup {[n |-> n, conv |-> convOf[m], msg |-> m, by |-> by]}
           /\ size' = [size EXCEPT ![convOf[m]] = n]
     \/ shape[m].dbFails /\ UNCHANGED <<rows, size>>
  /\ UNCHANGED convs

(* this.conversationHistory.push of the turn's answer.                       *)
PushAnswer(m) ==
  /\ history' = history \cup
       {[n |-> last + 1, conv |-> convOf[m], msg |-> m, by |-> "assistant"]}
  /\ last' = last + 1
  /\ disturbed' = disturbed \cup (Turns({"refreshing"}) \ {m})

(* saveAssistantMessageWithContext: push on the shared field, touch the      *)
(* conversation, insert a row; what throws in between is swallowed.          *)
SaveAssistant(m) ==
  /\ PushAnswer(m)
  /\ InsertRow(m, "assistant")
  /\ \/ touched' = Touch(convOf[m], convs)
     \/ shape[m].dbFails /\ UNCHANGED <<rows, size, touched>>

Goto(m, place) == pc' = [pc EXCEPT ![m] = place]

-----------------------------------------------------------------------------
Init ==
  /\ shape \in [Msgs -> Shapes]
  /\ deliveries = 0 /\ lapses = 0
  /\ pc = [m \in Msgs |-> "new"]
  /\ processing = {} /\ delegated = {} /\ timers = {}
  /\ history = {} /\ rows = {}
  /\ convs = OldConvs \cup {Feed}
  /\ touched = [c \in ConvIds |-> 0]
  /\ size = [c \in ConvIds |-> 0] /\ last = 0
  /\ convOf = [m \in Msgs |-> NoConv]
  /\ prompt = [m \in Msgs |-> {}]
  /\ iter = [m \in Msgs |-> 0]
  /\ trace = [m \in Msgs |-> "none"]
  /\ stream = [m \in Msgs |-> "none"]
  /\ delegations = [m \in Msgs |-> 0]
  /\ disturbed = {}

(* Nothing is sent, saved or started by the step. *)
Quiet == UNCHANGED <<shape, deliveries, lapses, processing, timers>>

(* Mutant: no check of processingMessages. *)
DeliverUnchecked(m) ==
  /\ deliveries < MaxDeliveries
  /\ deliveries' = deliveries + 1
  /\ Goto(m, "admitted") /\ processing' = processing \cup {m}
  /\ UNCHANGED <<shape, lapses, delegated, timers, histVars, dbVars, turnVars>>

(* handleMessage, the critical section of messageProcessingMutex: the check  *)
(* of processingMessages and the addition are one step.                      *)
Deliver(m) ==
  /\ deliveries < MaxDeliveries
  /\ deliveries' = deliveries + 1
  /\ IF m \in processing
     THEN UNCHANGED <<pc, processing>>
     ELSE Goto(m, "admitted") /\ processing' = processing \cup {m}
  /\ UNCHANGED <<shape, lapses, delegated, timers, histVars, dbVars, turnVars>>

(* The conversation the message asks for: Feed is only for scheduled tasks. *)
InitialConversation(m) ==
  IF shape[m].conv = Feed /\ ~shape[m].task THEN NoConv ELSE shape[m].conv

(* ensureConversation has found, touched or created the conversation c.      *)
Ensured(c0, c) ==
  /\ c \in EnsureConversation(c0)
  /\ convs' = convs \cup (IF c0 = NoConv THEN {c} ELSE {})
  /\ touched' = Touch(c, convs')

Stored(m) == \E r \in rows : r.msg = m /\ r.by \in {"user", "task_run"}

(* saveMessageInternal stores the message as the entry e ...                 *)
SaveMessage(c0, e) ==
  /\ Ensured(c0, e.conv)
  /\ ~Stored(e.msg)
  /\ rows' = rows \cup {e}
  /\ size' = [size EXCEPT ![e.conv] = e.n]

(* Mutant: the turn goes on with the conversation found for the message.     *)
SaveFailsResolved(c0, e) ==
  /\ Ensured(c0, e.conv)
  /\ shape[e.msg].dbFails \/ Stored(e.msg)
  /\ UNCHANGED <<rows, size>>

(* ... or throws, before or after the conversation was resolved; the primary *)
(* key refuses a message that is stored already.  Whatever was thrown, the   *)
(* turn goes on with the conversation it was given, or with 'error'.         *)
SaveFails(c0, e) ==
  /\ e.conv = IF c0 = NoConv THEN ErrorConv ELSE c0
  /\ UNCHANGED <<rows, size>>
  /\ \/ shape[e.msg].dbFails /\ UNCHANGED <<convs, touched>>
     \/ (shape[e.msg].dbFails \/ Stored(e.msg)) /\ \E c \in ConvIds : Ensured(c0, c)

(* What a turn does before its trace starts: the field conversationHistory   *)
(* is replaced, the message is pushed on it and saved.                       *)
Arrive(m, c) ==
  LET c0 == InitialConversation(m)
      e  == [n |-> size[c] + 1, conv |-> c, msg |-> m,
             by |-> IF shape[m].task THEN "task_run" ELSE "user"]
  IN
  /\ SaveMessage(c0, e) \/ SaveFails(c0, e)
  /\ last' = e.n
  /\ history' = {e} \cup
       (IF shape[m].task \/ c0 = NoConv THEN {} ELSE LoadConversationHistory(c0))
  /\ disturbed' = (disturbed \ {m}) \cup (Turns({"refreshing"}) \ {m})

(* From the mutex to the first await. *)
Begin(m) ==
  /\ pc[m] = "admitted"
  /\ \E c \in ConvIds : Arrive(m, c) /\ convOf' = [convOf EXCEPT ![m] = c]
  /\ trace' = [trace EXCEPT ![m] = "running"]
  /\ stream' = [stream EXCEPT ![m] = "none"]
  /\ IF shape[m].command
     THEN Goto(m, "delegating") /\ delegated' = delegated \cup {m} /\ UNCHANGED prompt
     ELSE /\ UNCHANGED delegated
          /\ IF shape[m].streams
             THEN Goto(m, "refreshing") /\ UNCHANGED prompt
             ELSE /\ Goto(m, "generating")
                  /\ prompt' = [prompt EXCEPT ![m] = LastOf(history')]
  /\ UNCHANGED <<shape, deliveries, lapses, processing, timers, iter, delegations>>

(* Loading the history throws, or recording the trace or its first span: no  *)
(* try block has been entered yet, so the id stays in processingMessages and *)
(* no timer is armed.                                                        *)
BeginFails(m) ==
  /\ shape[m].dbFails
  /\ pc[m] = "admitted"
  /\ Goto(m, "stuck")
  /\ \/ /\ ~shape[m].task /\ InitialConversation(m) # NoConv
        /\ UNCHANGED <<histVars, dbVars, disturbed, trace>>
     \/ /\ \E c \in ConvIds : Arrive(m, c)
        /\ UNCHANGED trace \/ trace' = [trace EXCEPT ![m] = "running"]
  /\ UNCHANGED <<shape, deliveries, lapses, processing, delegated, timers, convOf, prompt,
                 iter, stream, delegations>>

(* generateStreamingResponse after refreshRagDataCache: the stream opens and *)
(* the prompt is built from the field conversationHistory as it is NOW.      *)
Prepare(m) ==
  /\ pc[m] = "refreshing"
  /\ Goto(m, "llm")
  /\ stream' = [stream EXCEPT ![m] = "open"]
  /\ prompt' = [prompt EXCEPT ![m] = LastOf(history)]
  /\ UNCHANGED <<delegated, histVars, dbVars, convOf, iter, trace, delegations,
                 disturbed>>
  /\ Quiet

(* The LLM asks for tools. *)
AskForTools(m) ==
  /\ pc[m] = "llm"
  /\ iter' = [iter EXCEPT ![m] = @ + 1]
  /\ Goto(m, "tools")
  /\ UNCHANGED <<delegated, histVars, dbVars, convOf, prompt, trace, stream,
                 delegations, disturbed>>
  /\ Quiet

(* The tools have run, their events are saved; another round, unless it was  *)
(* the last one the loop allows.                                             *)
ToolsDone(m) ==
  /\ pc[m] = "tools"
  /\ InsertRow(m, "tool") /\ UNCHANGED touched
  /\ Goto(m, IF iter[m] < MaxIterations THEN "llm" ELSE "citing")
  /\ UNCHANGED <<delegated, histVars, turnVars>>
  /\ Quiet

(* One of the tools was a successful delegate. *)
DelegateToolDone(m) ==
  /\ pc[m] = "tools"
  /\ InsertRow(m, "tool") /\ UNCHANGED touched
  /\ Goto(m, "claiming")
  /\ UNCHANGED <<delegated, histVars, turnVars>>
  /\ Quiet

(* The second critical section: the first delegation of the message goes     *)
(* ahead, with the text streamed so far saved; a second one ends the turn.   *)
Claim(m) ==
  /\ pc[m] = "claiming"
  /\ stream' = [stream EXCEPT ![m] = "closed"]
  /\ IF m \in delegated
     THEN /\ Goto(m, "closing")
          /\ UNCHANGED <<delegated, histVars, dbVars, disturbed>>
     ELSE /\ Goto(m, "delegating")
          /\ delegated' = delegated \cup {m}
          /\ \/ SaveAssistant(m)
             \/ UNCHANGED <<histVars, dbVars, disturbed>>
  /\ UNCHANGED <<convOf, prompt, iter, trace, delegations>>
  /\ Quiet

(* handleDelegationFromTool / handleDelegation: the sub-agent is spawned,    *)
(* the delegation event saved and the mission handed over ...                *)
Delegate(m) ==
  /\ pc[m] = "delegating"
  /\ InsertRow(m, "delegation") /\ UNCHANGED touched
  /\ Goto(m, "delegatedTo")
  /\ delegations' = [delegations EXCEPT ![m] = @ + 1]
  /\ UNCHANGED <<delegated, histVars, convOf, prompt, iter, trace, stream, disturbed>>
  /\ Quiet

(* ... or spawning it fails, or the worker rejects because not even its error *)
(* reached the user: the supervisor answers itself, from the field           *)
(* conversationHistory.                                                      *)
DelegateFails(m) ==
  /\ pc[m] \in {"delegating", "delegatedTo"}
  /\ Goto(m, "fallback")
  /\ prompt' = [prompt EXCEPT ![m] = LastOf(history)]
  /\ UNCHANGED <<delegated, histVars, dbVars, convOf, iter, trace, stream, delegations,
                 disturbed>>
  /\ Quiet

(* handleDelegatedTask returns: the worker has saved its answer, or has told *)
(* the user of its error.                                                    *)
DelegateReturns(m) ==
  /\ pc[m] = "delegatedTo"
  /\ \/ InsertRow(m, "assistant") /\ UNCHANGED touched
     \/ UNCHANGED dbVars
  /\ Goto(m, "closing")
  /\ UNCHANGED <<delegated, histVars, turnVars>>
  /\ Quiet

(* sendMessage: the supervisor's override of saveAssistantMessage pushes on   *)
(* the field and inserts no row.                                             *)
SendMessage(m) ==
  /\ PushAnswer(m)
  /\ UNCHANGED dbVars

(* generateResponse returned: the fallback of a failed delegation, or the    *)
(* whole answer of a turn without streaming.                                 *)
Reply(m) ==
  /\ pc[m] \in {"fallback", "generating"}
  /\ SendMessage(m)
  /\ Goto(m, "closing")
  /\ UNCHANGED <<delegated, convOf, prompt, iter, trace, stream, delegations>>
  /\ Quiet

(* Without streaming a delegate block in the answer delegates directly.      *)
ReplyDelegates(m) ==
  /\ pc[m] = "generating"
  /\ Goto(m, "delegating")
  /\ UNCHANGED <<delegated, histVars, dbVars, turnVars>>
  /\ Quiet

(* generateResponse failed.  A streamed turn catches it itself and its trace *)
(* ends as completed; otherwise handleMessage ends the trace as an error.    *)
ReplyFails(m) ==
  /\ pc[m] \in {"fallback", "generating"}
  /\ IF stream[m] # "none"
     THEN stream' = [stream EXCEPT ![m] = "closed"] /\ UNCHANGED trace
     ELSE trace' = [trace EXCEPT ![m] = "ended"] /\ UNCHANGED stream
  /\ Goto(m, "closing")
  /\ UNCHANGED <<delegated, histVars, dbVars, convOf, prompt, iter, delegations, disturbed>>
  /\ Quiet

(* The LLM answers without asking for tools; citations are built. *)
Answer(m) ==
  /\ pc[m] = "llm"
  /\ Goto(m, "citing")
  /\ UNCHANGED <<delegated, histVars, dbVars, turnVars>>
  /\ Quiet

(* Mutant: the catch block forgets the stream. *)
AnswerFailsOpen(m) ==
  /\ pc[m] = "llm"
  /\ Goto(m, "closing")
  /\ UNCHANGED <<delegated, histVars, dbVars, turnVars>>
  /\ Quiet

(* Mutant: the error leaves the turn without its finally block. *)
AnswerFailsLost(m) ==
  /\ pc[m] = "llm"
  /\ Goto(m, "stuck")
  /\ UNCHANGED <<delegated, histVars, dbVars, turnVars>>
  /\ Quiet

(* The LLM call throws: the catch block ends the stream and sends an error.  *)
AnswerFails(m) ==
  /\ pc[m] = "llm"
  /\ stream' = [stream EXCEPT ![m] = "closed"]
  /\ Goto(m, "closing")
  /\ UNCHANGED <<delegated, histVars, dbVars, convOf, prompt, iter, trace, delegations,
                 disturbed>>
  /\ Quiet

(* The end of generateStreamingResponse: the stream ends and the text, when  *)
(* there is one, is saved.                                                   *)
FinishStream(m) ==
  /\ pc[m] = "citing"
  /\ stream' = [stream EXCEPT ![m] = "closed"]
  /\ \/ SaveAssistant(m)
     \/ UNCHANGED <<histVars, dbVars, disturbed>>
  /\ Goto(m, "closing")
  /\ UNCHANGED <<delegated, convOf, prompt, iter, trace, delegations>>
  /\ Quiet

(* Mutant: the cleanup timer is not armed. *)
CloseUnarmed(m) ==
  /\ pc[m] = "closing"
  /\ trace' = [trace EXCEPT ![m] = "ended"]
  /\ convOf' = [convOf EXCEPT ![m] = NoConv]
  /\ prompt' = [prompt EXCEPT ![m] = {}]
  /\ iter' = [iter EXCEPT ![m] = 0]
  /\ disturbed' = disturbed \ {m}
  /\ Goto(m, "done")
  /\ UNCHANGED <<shape, deliveries, lapses, processing, timers, delegated, histVars, dbVars,
                 stream, delegations>>

(* The finally block of handleMessage and what follows it; the locals of the *)
(* turn are gone.                                                            *)
Close(m) ==
  /\ pc[m] = "closing"
  /\ trace' = [trace EXCEPT ![m] = "ended"]
  /\ convOf' = [convOf EXCEPT ![m] = NoConv]
  /\ prompt' = [prompt EXCEPT ![m] = {}]
  /\ iter' = [iter EXCEPT ![m] = 0]
  /\ disturbed' = disturbed \ {m}
  /\ timers' = timers \cup {m}
  /\ Goto(m, "done")
  /\ UNCHANGED <<shape, deliveries, lapses, processing, delegated, histVars, dbVars, stream,
                 delegations>>

(* The finally block reads and ends the trace and its span: when that throws *)
(* the timer is not armed any more.                                          *)
CloseFails(m) ==
  /\ shape[m].dbFails
  /\ pc[m] = "closing"
  /\ UNCHANGED trace \/ trace' = [trace EXCEPT ![m] = "ended"]
  /\ convOf' = [convOf EXCEPT ![m] = NoConv]
  /\ prompt' = [prompt EXCEPT ![m] = {}]
  /\ iter' = [iter EXCEPT ![m] = 0]
  /\ disturbed' = disturbed \ {m}
  /\ Goto(m, "stuck")
  /\ UNCHANGED <<shape, deliveries, lapses, processing, delegated, timers, histVars, dbVars,
                 stream, delegations>>

(* MESSAGE_DEDUP_WINDOW_MS after the turn. *)
Expire(m) ==
  /\ m \in timers
  /\ timers' = timers \ {m}
  /\ processing' = processing \ {m}
  /\ delegated' = delegated \ {m}
  /\ delegations' = [delegations EXCEPT ![m] = 0]
  /\ UNCHANGED <<shape, deliveries, lapses, pc, histVars, dbVars, convOf, prompt, iter, trace,
                 stream, disturbed>>

(* The conversation updated longest ago leaves the recent window. *)
LeaveWindow ==
  /\ \E c \in ConvIds : touched[c] > 0
  /\ lapses < MaxLapses
  /\ lapses' = lapses + 1
  /\ touched' = [c \in ConvIds |-> IF touched[c] = 0 THEN 0 ELSE touched[c] - 1]
  /\ UNCHANGED <<shape, deliveries, pc, processing, delegated, timers, histVars, rows,
                 size, convs, turnVars>>

(* Steps of a turn that nothing outside the program can hold up for ever;    *)
(* LLM calls return or throw.                                                *)
Step(m) ==
  \/ Begin(m) \/ BeginFails(m) \/ Prepare(m)
  \/ AskForTools(m) \/ ToolsDone(m) \/ DelegateToolDone(m) \/ Claim(m)
  \/ Delegate(m) \/ DelegateFails(m) \/ DelegateReturns(m)
  \/ Reply(m) \/ ReplyDelegates(m) \/ ReplyFails(m)
  \/ Answer(m) \/ AnswerFails(m) \/ FinishStream(m)
  \/ Close(m) \/ CloseFails(m) \/ Expire(m)

Next == (\E m \in Msgs : Deliver(m) \/ Step(m)) \/ LeaveWindow

Spec == Init /\ [][Next]_vars
FairSpec == Spec /\ \A m \in Msgs : WF_vars(Step(m))
-----------------------------------------------------------------------------
(* Every variable has its type; no turn runs more than MaxIterations rounds  *)
(* of the tool loop.                                                         *)
TypeOK ==
  /\ shape \in [Msgs -> Shapes]
  /\ deliveries \in 0..MaxDeliveries /\ lapses \in 0..MaxLapses
  /\ pc \in [Msgs -> Places]
  /\ processing \subseteq Msgs /\ delegated \subseteq Msgs /\ timers \subseteq Msgs
  /\ history \subseteq Entry /\ rows \subseteq Entry
  /\ convs \subseteq ConvIds
  /\ touched \in [ConvIds -> Nat]
  /\ size \in [ConvIds -> Nat] /\ last \in Nat
  /\ convOf \in [Msgs -> ConvIds \cup {NoConv}]
  /\ prompt \in [Msgs -> SUBSET Entry]
  /\ iter \in [Msgs -> 0..MaxIterations]
  /\ trace \in [Msgs -> {"none", "running", "ended"}]
  /\ stream \in [Msgs -> {"none", "open", "closed"}]
  /\ delegations \in [Msgs -> Nat]
  /\ disturbed \subseteq Msgs

(* An id is in processingMessages exactly while its turn runs, its cleanup   *)
(* timer is armed, or the turn died outside of its try block; the timer is   *)
(* never armed while the turn still runs, so no turn loses its protection    *)
(* against retries half way.                                                 *)
DedupWindow ==
  \A m \in Msgs :
    /\ m \in processing <=> pc[m] \in Active \cup {"stuck"} \/ m \in timers
    /\ m \in timers => pc[m] = "done"

(* A retry never starts a second turn beside a running one.                  *)
OneTurnPerId ==
  [][\A m \in Msgs : pc'[m] = "admitted" /\ pc[m] # "admitted"
                     => pc[m] \in {"new", "done"} /\ m \notin timers]_vars

(* A message is handed to a sub-agent at most once in its window, whichever  *)
(* of the ways to delegate (command, delegate tool, delegate block) is taken. *)
DelegatedOnce == \A m \in Msgs : delegations[m] <= 1

(* The check of delegatedMessages never fires: whoever gets there is first.  *)
ClaimNeverRefused == \A m \in Msgs : pc[m] = "claiming" => m \notin delegated

(* A stream is open, and a trace runs, only while the turn that opened them  *)
(* runs: every path out of handleMessage closes both.  Only a trace that     *)
(* could not be written, and so threw past the turn, is left running.        *)
TracesAndStreamsClose ==
  \A m \in Msgs :
    /\ trace[m] = "running" => pc[m] \in (Active \ {"admitted"}) \cup {"stuck"}
    /\ stream[m] = "open" => pc[m] \in {"llm", "tools", "claiming", "citing"}

(* The prompt a turn should send: its own message, and of its conversation   *)
(* only; for a scheduled task nothing but the message.                       *)
OwnPrompt(m) ==
  /\ \E e \in prompt[m] : e.msg = m /\ e.by \in {"user", "task_run"}
  /\ \A e \in prompt[m] : e.conv = convOf[m] /\ (shape[m].task => e.msg = m)

(* A turn during whose cache refresh no other turn wrote the shared history  *)
(* field sends the LLM its own conversation.                                 *)
UndisturbedPrompt ==
  \A m \in Msgs \ disturbed :
    pc[m] \in {"llm", "tools", "claiming", "citing", "generating"} => OwnPrompt(m)

(* Where what is stored for a message belongs: in the conversation that the  *)
(* message names, or, when it names none, in the one the message itself is    *)
(* stored in, or in 'error' when that one could not be saved.                 *)
Belongs(m, c) ==
  IF InitialConversation(m) # NoConv
  THEN c = InitialConversation(m)
  ELSE c # ErrorConv =>
         \E q \in rows : q.msg = m /\ q.conv = c /\ q.by \in {"user", "task_run"}

(* Whatever other turns do to the shared history and to the recent            *)
(* conversation, and whatever the database refuses to save, all that is       *)
(* stored for a message is where it belongs.                                  *)
RepliesBesideTheirMessage == \A r \in rows : Belongs(r.msg, r.conv)

(* Every admitted turn ends, and every id leaves the window again.           *)
TurnsEnd ==
  \A m \in Msgs :
    (pc[m] = "admitted" ~> pc[m] = "done") /\ (m \in processing ~> m \notin processing)

-----------------------------------------------------------------------------
(* What comments of the code say and the code does not do.                   *)

(* "request-scoped, doesn't set instance state" (supervisor.ts:229): every   *)
(* prompt is the turn's own.                                                 *)
PromptsAreRequestScoped ==
  \A m \in Msgs :
    pc[m] \in {"llm", "tools", "claiming", "citing", "generating"} => OwnPrompt(m)

(* "Number of recent messages to include" (constants.ts:78): the history a   *)
(* turn starts from ends with the newest messages of its conversation.       *)
HistoryIsRecent ==
  [][\A m \in Msgs :
       /\ pc[m] = "admitted" /\ pc'[m] = "refreshing" /\ shape[m].conv \in OldConvs
       /\ \E r \in rows' \ rows : r.msg = m
       => LastOf(history)' = LastOf({r \in rows : r.conv = convOf[m]
                                       /\ r.by \in {"user", "assistant"}})']_vars
=============================================================================
