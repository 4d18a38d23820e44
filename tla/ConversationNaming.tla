------------------------- MODULE ConversationNaming -------------------------
(***************************************************************************)
(* Which conversation a message goes to and what the conversation is       *)
(* called (src/src/agents/supervisor.ts, src/src/server/index.ts).  Four    *)
(* writers share a title: the first message, the automatic namer, which    *)
(* asks a model and writes when it answers, the user who renames, and the  *)
(* request that creates the conversation.  The namer is started by a count *)
(* that the supervisor keeps in memory and corrects from the database.     *)
(*                                                                         *)
(* Every message is handed over once (MessageTurns has the retries), one   *)
(* task is run by hand, all conversations are on the chat channel, and no   *)
(* write fails but that of a row whose id is taken.                         *)
(***************************************************************************)
EXTENDS Naturals, Sequences, FiniteSets

CONSTANTS
  Msgs,           \* messages and task runs handed to the supervisor
  Convs,          \* ids of chat conversations, made or not
  Feed,           \* the well-known conversation
  NoConv,         \* a message that names no conversation (null)
  Threshold,      \* AUTO_NAME_MESSAGE_THRESHOLD
  MessagesToLoad, \* AUTO_NAME_MESSAGES_TO_LOAD
  LoadLimit,      \* DEFAULT_MESSAGES_LIMIT
  MaxEvents,      \* bound of the model: event rows of a conversation
  MaxRequests     \* bound of the model: requests, restarts, lapses together

All == Convs \cup {Feed}

ASSUME NamesAssumption == Feed \notin Convs /\ NoConv \notin All /\ {"new", "done"} \cap All = {}
ASSUME LimitsAssumption ==
  /\ {Threshold, MessagesToLoad, LoadLimit} \subseteq Nat \ {0}
  /\ Threshold <= MessagesToLoad /\ Threshold <= LoadLimit
  /\ MaxEvents \in Nat /\ MaxRequests \in Nat

VARIABLES
  title,     \* who wrote the title of each conversation; "unmade" if there is none
  manual,    \* conversations with manuallyNamed set
  deleted,   \* conversations with deletedAt set
  recent,    \* conversations updated within RECENT_CONVERSATION_WINDOW_MS, latest last
  spoken,    \* rows of each conversation that the supervisor saved
  events,    \* rows of each conversation written by others: tools, delegations, workers
  count,     \* conversationMessageCount, 0 where it has no entry
  naming,    \* title requests to the model that have not been answered
  asked,     \* title requests made since the process started or the conversation was cleared
  runRow,    \* the conversation that holds the row of the task the user runs
  turn,      \* the conversation each message's turn works in, or "new" or "done"
  requests   \* bound of the model

vars == <<title, manual, deleted, recent, spoken, events, count, naming, asked, runRow, turn,
          requests>>

(* "default" is the literal 'New Conversation', "first" the text of a first *)
(* message, "auto" the model's answer, "given" and "manual" the user's.     *)
Titles == {"unmade", "default", "given", "first", "auto", "manual"}

Made == {c \in All : title[c] # "unmade"}
AtMost(a, b) == IF a <= b THEN a ELSE b
Rows(c) == spoken[c] + events[c]

Init ==
  /\ title = [c \in All |-> IF c = Feed THEN "given" ELSE "unmade"]
  /\ manual = {} /\ deleted = {}
  /\ recent \in {<<>>, <<Feed>>}
  /\ spoken = [c \in All |-> 0] /\ events = [c \in All |-> 0]
  /\ count = [c \in All |-> 0]
  /\ naming = [c \in All |-> 0] /\ asked = [c \in All |-> 0]
  /\ runRow = NoConv
  /\ turn = [m \in Msgs |-> "new"]
  /\ requests = 0

(* The conversation updated now leaves its place among the recent ones and  *)
(* is the last of them.                                                     *)
Place(c) == CHOOSE i \in DOMAIN recent : recent[i] = c
Touched(c) ==
  IF \E i \in DOMAIN recent : recent[i] = c
  THEN SubSeq(recent, 1, Place(c) - 1) \o SubSeq(recent, Place(c) + 1, Len(recent)) \o <<c>>
  ELSE Append(recent, c)

(* findRecent: of the conversations in the window that are not deleted, the *)
(* one updated last.                                                        *)
FindRecent ==
  {c \in Made \ deleted : \E i \in 1..Len(recent) :
     /\ recent[i] = c
     /\ \A j \in (i + 1)..Len(recent) : recent[j] \in deleted}

(* ensureConversation: the conversation named, else a recent one, else new. *)
EnsureConversation(conv) ==
  IF conv # NoConv THEN {conv}
  ELSE IF FindRecent # {} THEN FindRecent ELSE All \ Made

(* The title it leaves; text says whether the message gives one.            *)
EnsuredTitle(c, text) ==
  IF title[c] = "unmade" THEN (IF text THEN "first" ELSE "default")
  ELSE IF title[c] = "default" /\ c \notin manual /\ text THEN "first"
  ELSE title[c]

(* loadConversationHistory corrects the count from the rows it has read.    *)
LoadedCount(conv) ==
  IF conv = NoConv THEN count
  ELSE [count EXCEPT ![conv] = AtMost(Rows(conv), LoadLimit)]

(* Mutant: the namer does not look at the flag.                             *)
AutoNamesAnyway(c) == AtMost(Rows(c) + 1, MessagesToLoad) >= Threshold

(* autoNameConversation up to the call of the model, in a conversation that *)
(* has just got one more row.                                               *)
AutoNames(c) ==
  /\ c \notin manual
  /\ AtMost(Rows(c) + 1, MessagesToLoad) >= Threshold

(* Mutant: the count is compared with >= and not with ===.                  *)
SaveMessageFromThreshold(c, text, counted) ==
  /\ title' = [title EXCEPT ![c] = EnsuredTitle(c, text)]
  /\ recent' = Touched(c)
  /\ spoken' = [spoken EXCEPT ![c] = @ + 1]
  /\ LET n == counted[c] + 1
         asks == IF c # Feed /\ n >= Threshold /\ AutoNames(c) THEN 1 ELSE 0
     IN /\ count' = IF c = Feed THEN counted ELSE [counted EXCEPT ![c] = n]
        /\ naming' = [naming EXCEPT ![c] = @ + asks]
        /\ asked' = [asked EXCEPT ![c] = @ + asks]

(* saveMessageInternal in conversation c: the row, incrementMessageCount    *)
(* and, when the count meets the threshold, the request for a title.        *)
SaveMessage(c, text, counted) ==
  /\ title' = [title EXCEPT ![c] = EnsuredTitle(c, text)]
  /\ recent' = Touched(c)
  /\ spoken' = [spoken EXCEPT ![c] = @ + 1]
  /\ LET n == counted[c] + 1
         asks == IF c # Feed /\ n = Threshold /\ AutoNames(c) THEN 1 ELSE 0
     IN /\ count' = IF c = Feed THEN counted ELSE [counted EXCEPT ![c] = n]
        /\ naming' = [naming EXCEPT ![c] = @ + asks]
        /\ asked' = [asked EXCEPT ![c] = @ + asks]

(* handleMessage up to the save of the incoming message.  A user's message  *)
(* for the Feed is treated as one that names no conversation; a scheduled   *)
(* task is for the Feed and loads no history.                               *)
HandleMessage(m) ==
  /\ turn[m] = "new"
  /\ \E conv \in Made \cup {NoConv}, task \in BOOLEAN, text \in BOOLEAN :
       LET initial == IF conv = Feed /\ ~task THEN NoConv ELSE conv
           counted == IF task THEN count ELSE LoadedCount(initial)
       IN /\ task => conv = Feed /\ text
          /\ \E c \in EnsureConversation(initial) :
               /\ SaveMessage(c, text, counted)
               /\ turn' = [turn EXCEPT ![m] = c]
  /\ UNCHANGED <<manual, deleted, events, runRow, requests>>

(* A task the user runs: its message has the same id every time, so that   *)
(* the insert is refused when a former run has left its row.  The           *)
(* conversation is found or made first; a turn that named none goes on in   *)
(* the conversation 'error', which is not one of these.                     *)
RunTask(m) ==
  /\ turn[m] = "new"
  /\ \E conv \in Made \cup {NoConv} : \E c \in EnsureConversation(conv) :
       \/ /\ runRow = NoConv
          /\ SaveMessage(c, FALSE, count)
          /\ runRow' = c
          /\ turn' = [turn EXCEPT ![m] = c]
       \/ /\ runRow # NoConv
          /\ title' = [title EXCEPT ![c] = EnsuredTitle(c, FALSE)]
          /\ recent' = Touched(c)
          /\ turn' = [turn EXCEPT ![m] = IF conv = NoConv THEN "done" ELSE c]
          /\ UNCHANGED <<spoken, count, naming, asked, runRow>>
  /\ UNCHANGED <<manual, deleted, events, requests>>

(* A row the supervisor does not count: of a tool, a delegation, an error   *)
(* or of a worker's answer.                                                 *)
EventRow(m) ==
  /\ turn[m] \in All
  /\ events[turn[m]] < MaxEvents
  /\ events' = [events EXCEPT ![turn[m]] = @ + 1]
  /\ UNCHANGED <<title, manual, deleted, recent, spoken, count, naming, asked, runRow, turn, requests>>

(* The turn ends with an answer, saved by saveAssistantMessageWithContext.  *)
Answer(m) ==
  /\ turn[m] \in All
  /\ SaveMessage(turn[m], FALSE, count)
  /\ turn' = [turn EXCEPT ![m] = "done"]
  /\ UNCHANGED <<manual, deleted, events, runRow, requests>>

(* The turn ends without one: an error, or a delegation that answered.      *)
EndTurn(m) ==
  /\ turn[m] \in All
  /\ turn' = [turn EXCEPT ![m] = "done"]
  /\ UNCHANGED <<title, manual, deleted, recent, spoken, events, count, naming, asked, runRow,
                 requests>>

(* autoNameConversation after the call of the model: a title ...            *)
AutoName(c) ==
  /\ naming[c] > 0
  /\ naming' = [naming EXCEPT ![c] = @ - 1]
  /\ title' = [title EXCEPT ![c] = "auto"]
  /\ recent' = Touched(c)
  /\ UNCHANGED <<manual, deleted, spoken, events, count, asked, runRow, turn, requests>>

(* ... or an empty answer or an error, which is logged.                     *)
AutoNameFails(c) ==
  /\ naming[c] > 0
  /\ naming' = [naming EXCEPT ![c] = @ - 1]
  /\ UNCHANGED <<title, manual, deleted, recent, spoken, events, count, asked, runRow, turn,
                 requests>>

Request == requests < MaxRequests /\ requests' = requests + 1

(* POST /api/conversations, with a title or without.                        *)
CreateConversation(c) ==
  /\ Request
  /\ title[c] = "unmade"
  /\ \E t \in {"default", "given"} : title' = [title EXCEPT ![c] = t]
  /\ recent' = Touched(c)
  /\ UNCHANGED <<manual, deleted, spoken, events, count, naming, asked, runRow, turn>>

(* PATCH /api/conversations/:id                                             *)
RenameConversation(c) ==
  /\ Request
  /\ c \in Made \ {Feed}
  /\ title' = [title EXCEPT ![c] = "manual"]
  /\ manual' = manual \cup {c}
  /\ recent' = Touched(c)
  /\ UNCHANGED <<deleted, spoken, events, count, naming, asked, runRow, turn>>

(* DELETE /api/conversations/:id, which only marks the conversation.        *)
DeleteConversation(c) ==
  /\ Request
  /\ c \in Made \ {Feed}
  /\ deleted' = deleted \cup {c}
  /\ UNCHANGED <<title, manual, recent, spoken, events, count, naming, asked, runRow, turn>>

(* DELETE /api/conversations/:id/messages                                   *)
ClearMessages(c) ==
  /\ Request
  /\ c \in Made
  /\ spoken' = [spoken EXCEPT ![c] = 0]
  /\ events' = [events EXCEPT ![c] = 0]
  /\ asked' = [asked EXCEPT ![c] = 0]
  /\ runRow' = IF runRow = c THEN NoConv ELSE runRow
  /\ UNCHANGED <<title, manual, deleted, recent, count, naming, turn>>

(* The conversation updated longest ago leaves the recent window.           *)
Lapse ==
  /\ Request
  /\ recent # <<>>
  /\ recent' = Tail(recent)
  /\ UNCHANGED <<title, manual, deleted, spoken, events, count, naming, asked, runRow, turn>>

(* The process restarts: the database stays, turns, counts and title        *)
(* requests are gone.                                                       *)
Restart ==
  /\ Request
  /\ count' = [c \in All |-> 0]
  /\ naming' = [c \in All |-> 0] /\ asked' = [c \in All |-> 0]
  /\ turn' = [m \in Msgs |-> IF turn[m] = "new" THEN "new" ELSE "done"]
  /\ UNCHANGED <<title, manual, deleted, recent, spoken, events, runRow>>

Next ==
  \/ \E m \in Msgs : HandleMessage(m) \/ RunTask(m) \/ EventRow(m) \/ Answer(m) \/ EndTurn(m)
  \/ \E c \in All : \/ AutoName(c) \/ AutoNameFails(c) \/ CreateConversation(c)
                    \/ RenameConversation(c) \/ DeleteConversation(c) \/ ClearMessages(c)
  \/ Lapse
  \/ Restart

Spec == Init /\ [][Next]_vars

-----------------------------------------------------------------------------
(* Properties *)

(* Every variable keeps its kind of value, and only conversations that exist *)
(* have rows, titles under way or turns.                                     *)
TypeOK ==
  /\ title \in [All -> Titles]
  /\ manual \subseteq Made /\ deleted \subseteq Made
  /\ recent \in Seq(Made)
  /\ {spoken, events, count, naming, asked} \subseteq [All -> Nat]
  /\ runRow \in Made \cup {NoConv}
  /\ turn \in [Msgs -> Made \cup {"new", "done"}]
  /\ requests \in 0..MaxRequests
  /\ \A c \in All \ Made : Rows(c) = 0 /\ naming[c] = 0

(* The count is kept in memory, overwritten by every load and compared for  *)
(* equality with the threshold: whatever the order of loads, saves and rows *)
(* written by others, a conversation whose messages are not cleared has the *)
(* model asked for a title at most once in the life of the process.         *)
NamedOnce == \A c \in All : asked[c] <= 1

(* The Feed cannot be renamed or deleted, and neither a first message nor   *)
(* the namer changes its title, whatever messages it is given.              *)
FeedKept == title[Feed] = "given" /\ Feed \notin manual /\ Feed \notin deleted

(* A name the user gave stays once no title is being asked for: no message, *)
(* count, load or restart makes the namer ask for another or replace it.    *)
ManualNameStays ==
  [][\A c \in All : title[c] = "manual" /\ naming[c] = 0
       => title'[c] = "manual" /\ naming'[c] = 0]_vars

(* A conversation with a name from the user shows that name:                *)
(* autoNameConversation "Skips conversations that have been manually named  *)
(* by the user" (src/src/agents/supervisor.ts:1247).  The code looks at the *)
(* flag before it asks the model and not after.                             *)
ManualNameKept == \A c \in manual : title[c] = "manual"

(* "Will be auto-named with a better title after 3 messages"                *)
(* (src/src/agents/supervisor.ts:1065): when the supervisor has saved three *)
(* messages of a conversation that the user has not named, and nothing was  *)
(* restarted or cleared, a title has been asked for.                        *)
NamedAfterThree ==
  requests = 0 => \A c \in Convs : spoken[c] >= Threshold => asked[c] >= 1

=============================================================================
