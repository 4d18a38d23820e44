# olliebot in TLA+

Olliebot is a personal assistant: a Node server with a supervisor agent, worker
agents it delegates to, tools, several chat channels, scheduled tasks, machines
and browsers it drives, indexes it searches and a web page.  It is one process
with one event loop; what runs side by side are its asynchronous functions, which
interleave wherever one of them awaits.  Most of what can go wrong lies there: a
field or a row read before an await and used after it, an answer that comes after
its timeout, an event that overtakes a response, a counter that two handlers write.

These modules model those parts.  An action is what the code does between two
awaits, all of it; an await is a value of a program counter.  Paths below are
relative to the repository; `file.ts:10` is a line of `src/src/.../file.ts`.

| module | models | proved in |
|---|---|---|
| `MessageTurns` | the supervisor's handling of messages | `MessageTurns_proofs` |
| `SubAgentDelegation` | a worker's delegation to sub-agents | `SubAgentDelegation_proofs` |
| `DelegationPromise` | what a delegation promises (abstract) | |
| `StreamResume` | answers streamed to web pages | `StreamResume_proofs` |
| `ConversationNaming` | which conversation a message goes to and its title | `ConversationNaming_proofs` |
| `TaskScheduler` | scheduled tasks, their files and the watcher | `TaskScheduler_proofs` |
| `DesktopSessions` | sandboxes driven over VNC | `Sessions_proofs` |
| `BrowserSessions` | the browser and its sessions | `Sessions_proofs` |
| `McpClient` | MCP servers, their processes and requests | `McpClient_proofs` |
| `RagIndex` | the index of a folder of documents | `Indexes_proofs` |
| `MessageIndex` | the index of chat messages | `Indexes_proofs` |

`MC*.tla` hold the values TLC uses, `*.cfg` the runs, and `PROJECT.json` the
components, the source lines of every definition, the hazards and the findings.
A definition headed "Mutant" or "A bug" is a plausible bug in place of the
definition after it, kept to show that a property would notice it.

## Inventory

### Supervisor (`agents/supervisor.ts`)
State: `processingMessages` and `delegatedMessages` (ids of messages in the
deduplication window), the field `conversationHistory`, `conversationMessageCount`.
Operations: `handleMessage` (deduplicate, load history, save the message, choose
streaming or not), the tool loop with `delegate`, `handleDelegation`, saving of
answers, `ensureConversation`, `autoNameConversation`.  It is called by every
channel, by the scheduler and by the server, and calls the LLM, tools, workers,
the database and traces.
Hard: turns of different messages interleave at about ten awaits and share the
fields; retries of an id that runs or has just ended; errors on every path.
Correct if: one turn per id and window; one delegation per id; every trace and
stream is closed; prompts and answers stay in their conversation; turns end;
conversations are named once, and by their user for good.

### Workers and registry (`agents/worker.ts`, `registry.ts`, `base-agent.ts`)
State: for each agent its pending results with timers, its sub-agents, the
sources they reported; the registry's agents by id and by name.
Operations: `executeWithTools`, `delegateToSubAgent`, `handleAgentCommunication`
(task_result), `handleDelegatedTask`, register and unregister.
Hard: a round of several delegations awaited together, each ended by a result, an
error, an exception or a timeout, with results that arrive after the timeout.
Correct if: each delegation is settled exactly once; a parent resumes when its
whole round is settled; nothing is left registered; no source is lost, and none
is taken from a delegation that failed.

### Web channel and page (`channels/websocket.ts`, `web/src/App.jsx`, `App.websocket.js`)
State: `activeStreams` of each conversation; on the page the current conversation,
its messages, the loads and requests under way.
Operations: start, chunk and end of a stream, broadcast, request and answer of the
active stream; select, load, disconnect, reconnect.
Hard: two transports without a common order (HTTP for stored messages, the socket
for events), pages that switch or drop in mid-answer, several streams of one
conversation with one record.
Correct if: shown text has neither gap nor repetition; nothing streams for ever;
nothing of the conversation is missing.

### Conversations and database (`db/index.ts`, `server/index.ts`)
State: rows of conversations (title, manuallyNamed, deletedAt, updatedAt) and
messages.  Operations: find, create, update, delete, clear; each is one
synchronous statement, so a handler between two awaits is atomic on the database.
Hard: decisions taken on rows read before an await; ids that repeat; limits on
what a query returns.

### Tasks (`tasks/manager.ts`, `config/watcher.ts`, `index.ts`)
State: the map of tasks, the watcher's configs, .md and .json files, disabled
tasks in the settings.  Operations: init, load, removal, due check, run, enable.
Hard: loads that overlap each other, removals and restarts, with awaits for the
model, the disk and git; a cache on disk; a scheduler that starts after all loads.
Correct if: tasks agree with files and settings, and what is due runs once.

### Desktop sandboxes (`desktop/manager.ts`, `session.ts`, `vnc-client.ts`, `tools/`)
State: the map of sessions, `creationLock` (a chain of promises), the controllers
that abort a creation, the temp directory of each session; the one Windows Sandbox
of the machine, its directory and the address it reports there.
Operations: create, resume and close a session, actions and instructions in it.
Hard: a creation is a minute of awaits (find, launch, discover, probe, connect,
retry) that a close may abort at any of them; launching kills what runs; three
writers of a session's status; failures that must not hold up the next creation.
Correct if: the sandbox is launched over one that runs only by a call that could not
see or kill that one itself; a session handed over is still the manager's; busy means
at work; every call is answered.

### Browser sessions (`browser/manager.ts`, `session.ts`, `tools/`, `strategies/`)
State: the manager's browser, launched when the first session needs it, and its
map of sessions; a session's context and page; what its strategy remembers of the
model (lastResponseId, lastCallId); the locks of BrowserActionTool; the page's list.
Operations: create (with reuse by name), close, navigate, act, instruct, shutdown.
Hard: a launch and an initialization that do not keep others out while they await;
closes in the middle of each; a browser that dies.
Correct if: what is closed is gone, in the browser and on the page; instructions do
not mix; no lock stays; no browser is forgotten.

### MCP client (`mcp/client.ts`, `index.ts`, `server/index.ts`)
State: servers with enabled flag, status, tools and process; `pendingRequests` by
number, each with a timer; the disabled servers in the settings.
Operations: register at start, switch on and off, handshake, list, call a tool;
lines, exits and timeouts.
Hard: starts and switches of one server that overlap for minutes; answers that race
their timers; an exit that is handled after the server was started anew.
Correct if: an answer goes to who asked; every wait ends; the status is not left
behind; a disabled server has no process.

### RAG projects (`rag-projects/service.ts`, `lance-store.ts`, `routes.ts`)
State: the folder, a table of vectors for each strategy, `manifest.json`,
`indexingInProgress`, a handle of the store that knows the tables of its time.
Operations: index (forced or not), list, delete a document.
Hard: rows are written one by one and the manifest once at the end; edits during
the run; failures in and outside of a document, also between the dropping of two
tables; a reader that repairs the manifest; a query that sets its handle over the run's.
Correct if: the manifest tells what is in the store; a run leaves nothing stale.

### Message embeddings (`message-embeddings/service.ts`, `server/index.ts`)
State: the table of each strategy, the watermark in memory and in its row.
Operations: a run of the timer, deletion of a conversation.
Hard: one watermark for several tables; a cursor over times, some of which messengers
give, and random ids; a
deletion while the run holds the messages; failures and restarts between the steps.
Correct if: no message is passed by but one that was overtaken when it was saved, none is
stored without need, and deleted ones stay away.

### What has no module
See "Not modelled".  LLM providers are external; the models let them answer, ask
for tools, fail, or (where the code has a timeout) stay silent.

## The modules and the code

### MessageTurns
One turn per message id; `pc` names the await it stands at: `admitted` (the
mutex has let it in), `refreshing` (the RAG cache), `llm`, `tools`, `claiming`
(the second mutex), `delegating`, `delegatedTo`, `citing`, `generating` and
`fallback` (channels that do not stream), `closing`.  `Begin` is everything from
the mutex to the first await: conversation, history, saved message, trace.  Where the
database may fail (`dbFails` of a message, a bound of the model) any write of it may
fail, and not only be refused by the primary key.  The turn goes on all the same
(`supervisor.ts:1177`), without the row of its message: with the conversation the
message names, or with 'error' if it names none.  The save of an answer may fail too
(`SaveAssistant`).
`history` is the object's field `conversationHistory`, which all turns write;
`prompt[m]` is what the turn read from it.  `rows` are numbered in each
conversation by createdAt.  `timers` are the cleanup timers that end the window;
`stuck` is a turn that an error of the database ended outside of its `try` block: in
loading the history, in recording the trace or its span, or in the `finally` block;
its id is never released.  `disturbed` is a history variable: turns during whose await
another turn wrote the field.

### SubAgentDelegation and DelegationPromise
A tree of agents with names that need not be unique; a tree is enough because
every sub-agent has a fresh id and one parent.  `run` is where an agent is,
`asked` its round, `outcome` the state of each delegation, `pending` and `timers`
the entries of `pendingSubAgentResults`, `agents` and `byName` the registry.
`DelegationPromise` knows only rounds and outcomes: ask for several, settle each
once, resume when all are settled.  `Promise` maps "open" to "asked" and the
round to `asked`; `KeepsPromise` is the refinement and `KeepsFairPromise` that
the fairness of the code implies the abstract one, with an LLM that may never
answer, because the timer does.

### StreamResume
Streams with a number of chunks for their text, so a gap or a repetition shows
as a wrong length.  `inbox` is a page's socket in order, `requests` its
requests for active streams, `fetch` its HTTP load; `view` is what it shows.
A broadcast reaches every connected page; `HandleMessage` drops what is of
another conversation, as the page does.  `budget` bounds the streams, chunks,
switches and lost connections of a behaviour together.

### ConversationNaming
`title` holds who wrote the title instead of its text.  `spoken` and `events`
are the rows saved by the supervisor and by others: the supervisor counts only
its own in memory, but a load sets the count to all of them.  `naming` are the
calls of the model on their way; `asked` counts them.  Messages are handed over
once, since MessageTurns has the retries; all conversations are on the chat
channel, since findRecent looks at no other.

### TaskScheduler
A version of a .md is a number and a config knows the version it comes from.
Each report of the watcher starts a load that stands at `reading`, `parsing`,
`writing`, `saving` (the basic config of a failed parse) or `committing`.  The
watcher is external: it reports the present state of a file that differs from
what it reported last.  A run request is two steps, since the server finds the
task before it awaits the body.  What the run does is a turn of MessageTurns.

### DesktopSessions
A session is made by one call of create or resume, and `pc` is the await of that
call, from `queued` (creationLock) over `checking`, `finding`, `stopping`,
`preparing`, `starting`, `discovering`, `probing`, `connecting` and `capturing` to
`resolved` or `rejected`; `killing` and `removing` are its clean-up.  A launch of
the sandbox is a number, and so is its address, so that a session that is connected
to a sandbox which is gone shows.  `closer` are calls of closeSession, `work` what
tools do in a session.  The sandbox may crash, and report its address late.  The
question whether one runs is answered with no when it cannot be asked
(`manager.ts:148`), a kill may fail unnoticed (`TryStop`, `manager.ts:380`), and so may
a launch and the removal of a directory.  History: `blind`, the calls that missed a
sandbox that ran or did not get rid of it, until they launch.

### BrowserSessions
Calls are numbered in the order they begin, and a session has the number of the
call that creates it.  `at` is the await of a call: `listing` (titles of the pages),
`launching`, `opening`, `paging`, `describing` for a creation; `closing` and
`quitting` for closes and the shutdown; `acting`, `looking`, `asking`, `doing`,
`wrapping` for actions and instructions.  `context` and `page` are the fields of a
session, `contexts` and `pages` what is open in a browser: the difference is what
this module is about.  `torn` and `raced` are history variables: sessions closed
before they were initialized, and browsers launched beside another launch or the
shutdown.

### McpClient
`at` is where each registration, switch and tool call is in its chain of requests
(`ready`, `initialize`, `tools`, `resources`, `prompts`; `call`).  A process is
named by the registration or switch that started it.  `pending` and `sent` are the
two ends of the requests to processes, so that an answer to a request which has
timed out is a step of its own; a server over HTTP has neither.  `life` is what
becomes of each process; "lost" is one that runs while the exit of another process of
its server has made the client forget it (`client.ts:120`).

### RagIndex
Time is counted in edits, and the time of a document's last edit is its content, so
that a file replaced by one with an older time is outside of the model.  A run stands
at the awaits of indexProject; a document is indexed in `Parts` writes, one into the
table of each strategy.  `store` is the handle in the map of the service, `own` that of
the run when a query has set another over it, `querying` the one a query is opening; a
handle is the set of tables it knows.  A write into a table that the run does not know
makes it, and fails if it is there; deleting the rows of a document reaches the tables
the run knows, in one step.  A forced run drops one table per step.  `file` is
manifest.json: absent, torn (a reader truncates it before it writes) or whole; what is
not there, does not parse or cannot be read is made anew.  Documents without chunks are
left out, and settings and strategies stay as they are.  History: `lost` (since the last
whole forced run, a run or the manifest was lost, a dropping of tables included, or a
run had a handle that does not know all tables), `raced` (documents edited while they
were indexed), `quiet` (no edit since the run began).

### MessageIndex
A message is its id, a number that says nothing of the order of saving; `time` is
its createdAt.  `copies` counts how often a message is in each strategy's table,
`mark` is the watermark in memory and `stored` its row.  A run goes through the
strategies one after the other, and so does a deletion; repeated deletions are left
out.  The program's own messages are saved at the present time (`Save`); those of `Sent`
come from a messenger, whose time for them may be any, also one the clock here has not
reached (`Receive`, `channels/azure-bot.ts:150`).  History: `aborts` (runs whose end
was lost), `late` (messages that the watermark or the run under way was past, by time
and id, when they were saved), `left` (deleted conversations of which a run held
messages or whose deletion broke off).

## Runs

| run | properties | result |
|---|---|---|
| `Turns` | DelegatedOnce, TracesAndStreamsClose, UndisturbedPrompt, RepliesBesideTheirMessage, OneTurnPerId | hold |
| `TurnsLive` | TurnsEnd | holds |
| `TurnsScope` | PromptsAreRequestScoped | violated |
| `SubAgents` | NothingLeftBehind, SourcesFromResolved, SourcesKept, KeepsPromise, KeepsFairPromise | hold |
| `Streams` | ActiveIsRunning, ShownIsExact, LiveIsRunning, StreamsEnd | hold |
| `Naming` | NamedOnce, ManualNameStays | hold |
| `Tasks` | EnabledAsSet, EveryFileLoaded, DueIsServed | hold |
| `Desktop` | BusyIsWorking, NoDoubleLaunch, CreatedIsOpen, CallsSettle | hold |
| `Browser` | OnlyTornOutlive, OrphansAreRaced, ChainIsOwn, EverythingEnds | hold |
| `Mcp` | ConnectingIsAtWork, ForgottenIsOvertaken, AnswersReachTheirCaller, EverythingSettles | hold |
| `Rag` | RecordMatchesRows, QuietRunCovers, RunsEnd | hold |
| `Index` | NothingSkipped, OwnMessagesInOrder, NoNeedlessCopies, DeletedIsForgotten, EveryMessageFound | hold |

`TurnsScope` is a finding: a turn sends the LLM the history of another conversation
when a second message is admitted while it refreshes the RAG cache, although the
field is said not to be instance state (`supervisor.ts:229`).

What some properties except is as much a result as what they say: the only browsers
that are forgotten come from two launches, or a launch and a shutdown, at the same
time (`OrphansAreRaced`); the only sessions that outlive their close were being
initialized (`OnlyTornOutlive`); the only MCP processes that are lost are those the
client forgot at the exit of another process of their server (`ForgottenIsOvertaken`);
a sandbox is launched over another only by a call that got a wrong answer or killed in
vain, never because two calls overlap (`NoDoubleLaunch`); documents and manifest
disagree only after a lost run or manifest, a run with a handle that misses tables, or
an edit during the indexing of the document (`RecordMatchesRows`, `QuietRunCovers`); a
message is skipped only if the index was past its time and id when it was saved
(`NothingSkipped`), which happens to one from a messenger whenever it comes late enough,
and to one of the program only if another of its millisecond with a greater id was taken
before, or a messenger's with a later time (`OwnMessagesInOrder`).

### Stated, and not true of the code
These definitions state what a comment or a document says.  TLC violates each of
them; they are no runs, but the instance named gives the trace in seconds.

| property | says | instance |
|---|---|---|
| `HistoryIsRecent` (MessageTurns) | "Number of recent messages to include" (`constants.ts:78`); past DEFAULT_MESSAGES_LIMIT rows the query returns the oldest (`db/index.ts:557`) | `TurnsLive` with three messages and LoadLimit 3 |
| `ResumeShowsAnswers` (StreamResume) | "Allows frontend to resume streaming display when switching back" (`websocket.ts:68`); an answer that ends between a page's load and its request for the active stream is not shown (`App.jsx:1021`) | `Streams` |
| `NamedAfterThree` (ConversationNaming) | "Will be auto-named with a better title after 3 messages" (`supervisor.ts:1065`); when the first turn used a tool the count jumps over the threshold (`supervisor.ts:1316`) | `Naming` with two messages and one conversation |
| `ManualNameKept` (ConversationNaming) | the namer "Skips conversations that have been manually named by the user" (`supervisor.ts:1247`); the flag is read before the model is asked and not after (`supervisor.ts:1281`) | `Naming` |
| `TaskFollowsFile` (TaskScheduler) | "generate and re-generate a .json file from it" (`docs/olliebot-seed-prompt.md:7`), "Task updates without server restart" (`docs/e2e-test-plan.md:72`); a task that has its .json keeps it when its .md changes (`tasks/manager.ts:200`) | `Tasks` with two loads and one edit |
| `ChangedIsReindexed` (RagIndex) | "Only re-indexes new or changed files; skips unchanged files" (`rag-projects/service.ts:284`); the time stored is that of the end of indexing, so a change during it counts as indexed (`service.ts:503`) | `Rag` |
| `DisabledIsStopped` (McpClient) | "Disable: stop stdio server if running" (`mcp/client.ts:500`); a process that exits late makes the client forget the one started since (`client.ts:120`) | `Mcp` with one server and three switches |
| `ClosedIsClosed` (BrowserSessions) | "Closes the browser session and releases resources" (`browser/session.ts:162`); what is being opened meanwhile stays (`session.ts:130`) | `Browser` |

### Bounds
- `Turns`: two messages and two deliveries, so that turns overlap or one is retried;
  four shapes (chat, command, channel without streams, scheduled task); one round
  of tools.  Of a chat message and a command without a conversation also with a
  database that may fail at every statement; all four shapes with a failing database
  have more than thirteen million states.  Two turns are enough for every property
  here, each of which relates one turn to what another did to the shared fields, and
  the theorems hold for any number and any database.  LoadLimit and HistoryLimit are
  small enough to be reached.
- `TurnsLive`: one shape and no database errors, since liveness is costly; a
  database error outside of the `try` leaves the turn stuck.
- `SubAgents`: a team of three levels with two names shared by three agents, up to
  two delegations in a round.
- `Streams`: two answers of one chunk with two switches, or one answer of two chunks
  with two switches and a lost connection; one page.  Pages share nothing but what
  the server broadcasts.  Both budgets at once have more than two million states.
- `Naming`: three messages, two conversations and the Feed, threshold 3 as in the
  code, LoadLimit 4 so that it is reached, one row by others in each conversation,
  two requests (rename, delete, clear, create), lapses or restarts.
- `Tasks`: one file, two changes, three loads, a restart.  Files do not interact
  but in `init` and in the due check; two files with two changes pass as well
  (1.1 million states, too slow to be kept as a run).
- `Desktop`: two sessions, so that one is created or resumed while the other is, one
  call of closeSession, three launches and two attempts to connect; tools work in one
  of the sessions, because they share nothing with those of another.
- `Browser`: three calls, which is what the races need: a creation, one call beside
  it and one after them; two steps, so that an instruction goes round its loop; one
  browser that dies.
- `Mcp`: a server that is a process and one over HTTP, two switches and one tool
  call beside the registration: a server is switched off and on again while its
  start is under way.
- `Rag`: two documents and two tables, two runs (forced or not), a restart.  One document
  is edited once and removed at any moment; the other is there or not, and stays, so
  that a run has something to do before or after the first, and fails in it.  A second
  run meets what the first has left of a document that was changed or removed, with a
  handle opened beside the first.  With both documents edited and removed there are no
  errors either, but it takes too long with liveness to be kept as a run.
- `Index`: three messages, one blank, in two conversations, two strategies, batches
  of two, two milliseconds, one failure and one restart, so that messages share a
  millisecond, a batch is full and a run is repeated.  One message is a messenger's, so
  that it comes behind the watermark or moves it ahead of the clock.  A batch is larger
  than the number of blank messages: what happens when it is not is told below.
Deadlock is not checked: all these systems stop when the bounded work is done.

### Fairness
- `MessageTurns`: a turn that can step does, each on its own (`Step(m)`): promises
  of one process resolve independently, LLM calls return or throw, the cleanup
  timer fires.  Deliveries are not fair.
- `SubAgentDelegation`: timers and the continuations of the parent; not the LLM.
- `StreamResume`: the LLM ends, events and HTTP answers arrive, a page reconnects.
- `TaskScheduler`: awaited calls return, the model answers or fails, the interval
  timer fires.  The watcher and the user are not fair.
- `DesktopSessions`: the creation that has its turn goes on; every await of it has a
  time limit in the code.  Closers, tools and the sandbox are not fair.
- `BrowserSessions`: Playwright and the model answer or fail, each call on its own
  (their time limits are those of Playwright and of the HTTP client).
- `McpClient`: timers fire and an HTTP request ends; a process need not answer or exit.
- `RagIndex`: what a run awaits is settled.  `MessageIndex`: the timer ticks, what a
  run or a deletion awaits is settled.  Edits, messages and restarts are not fair.

## Proofs

All are checked by TLAPS for every value of the constants that the named
assumptions allow.  Every safety property of a passing run, invariant or action
property, is a theorem, and each model has a theorem for its TypeOK (`TypeCorrect`,
for RagIndex `RagTypeCorrect`, for BrowserSessions `BrowserTypeCorrect`).  An
invariant of several steps was first checked by TLC on the instance of the run.

`Sessions_proofs` and `Indexes_proofs` hold the proofs of two models each and extend
both of them.  For this BrowserSessions and RagIndex have names of their own where
they would clash: `BrowserInit`, `BrowserSpec`, `RagInit`, `RagSpec` and so on.  No
theorem speaks of both specifications at once.

- `MessageTurns_proofs`: `WindowCorrect` (DedupWindow), whose
  invariant ties processingMessages, the timers and the place of each turn;
  `OneTurn`, the action property that follows from it; `DelegationOnce` and
  `ClaimAlwaysGranted`, which need a stronger invariant: a message is in
  delegatedMessages exactly after its turn claimed it, and no path claims twice.
  This shows that the second mutex never refuses anyone.
  `ClosingCorrect` (TracesAndStreamsClose) is inductive with the types.
  Only a turn that is stuck, because the trace could not be written, leaves it running.
  `RepliesCorrect` (RepliesBesideTheirMessage) is not inductive: a turn stores its
  answer long after its message, and the save of the message may fail, or be refused by
  the primary key at a retry.  `RowsInv` adds that the conversation a turn works with is
  one that its message belongs in: the one the message names, the one that holds its
  row, or 'error'.  A message that names a conversation has it whether it was saved or
  not; of one that names none, a row is never moved, so that what was right stays so.
  `PromptCorrect` (UndisturbedPrompt), from `PromptInv`: what an undisturbed turn finds
  in the shared field after the cache refresh is its own history; that its own message
  is among what the LLM is sent needs a counting lemma on the last rows of a history
  (`LastOf`) and a limit of one at least.
- `SubAgentDelegation_proofs`: `Tracking`, `RegistryClean`,
  `OnlyResolvedSources`, `NoSourceLost` and `PromiseKept`, for any tree of agents
  and any names.  All rest on `TrackInv`, which says of a round that its members
  belong to the waiting agent and that pending entries, timers and open
  delegations are the same set.  `PromiseKept` maps each step to a step of
  `DelegationPromise` or to none.
- `ConversationNaming_proofs`: `TitleAskedOnce`, `FeedKeepsItsName`, `NameStays`.
  NamedOnce is not inductive: a count that could fall below the threshold would
  meet it again.  `PastThreshold` adds that once a title was asked for, the count
  and the rows (which every later load sets the count to) are past the threshold.
  It needs LoadLimit to reach the threshold (`LimitsAssumption`).  `TypeCorrect`
  includes that only conversations that exist have rows, turns or titles under way:
  a step that touches a conversation makes it first (`Grows`).
- `StreamResume_proofs`: `ActiveCorrect` (ActiveIsRunning).  `ServerInv` adds
  that a stream that has not started has sent nothing, which is why the entry it
  takes begins empty; the pages change nothing of it.  `ShownCorrect` (ShownIsExact)
  and `LiveCorrect` (LiveIsRunning) need what is true of each event at its place in an
  inbox (`ShowInv`): the text that a start or a resume will show, with the chunks
  behind it in the inbox, is what was sent, and if its stream has ended the end is
  behind it too.  A page takes events from the front, so that each message of its
  view has the chunks of the whole inbox before it, and a load in flight shows only
  what was saved.  The lemmas on sequences count the chunks of a stream behind a place
  when an event is taken from the front or put at the end.
- `TaskScheduler_proofs`: `EnabledCorrect` (EnabledAsSet), from
  one invariant, `SchedulerInv`: every load under way knows its file and the
  version it has read, so that whatever fails, the task it ends with has a config
  and is enabled as the settings say at that moment.  `LoadedCorrect`
  (EveryFileLoaded) speaks only of moments at which nothing is under way; `LoadedInv`
  says at every other moment what will load the file: of a version that was reported
  and is still on disk, the task is there, or init has its config, or a load runs
  (`Coming`); and versions grow, so that a file written again is not taken for the one
  that was reported.
- `Sessions_proofs`, DesktopSessions: `LaunchesCorrect` (NoDoubleLaunch), for any
  number of creations, resumptions and closers: `CallInv` says that one creation runs
  and the others wait in the queue, and that none comes to a launch while a sandbox
  runs that it has not missed itself (`blind`).  `AbortableCorrect` (CreationAbortable)
  and `BusyCorrect` (BusyIsWorking).
  `CreatedCorrect` (CreatedIsOpen), from `OpenInv`: nobody has touched a session before
  its creation begins, and nobody touches it during its creation without aborting
  it.  It follows the map, the status and the closers together, because a close sets
  the status first and empties the map steps later.
- `Sessions_proofs`, BrowserSessions: `OrphansCorrect` (OrphansAreRaced), from
  `RaceInv`: a launch begins only while there is no browser, so one that is there
  when it ends came beside it, and what a shutdown closes is still the manager's
  browser or was joined by another.  `OutliveCorrect` (OnlyTornOutlive), from
  `OutliveInv`: what is open is a field of its session, so that a close finds it,
  and what a session is still given after its close was begun, it is given because
  its call was not through, which makes it torn.  `LocksCorrect` and `ChainCorrect`
  (ChainIsOwn), from `LockInv`: who has taken steps at a place where a session is used
  has the lock of the session, and nobody else is at such a place with it.
- `McpClient_proofs`: `PendingCorrect` (PendingIsAwaited) and from it
  `AnswersCorrect` (AnswersReachTheirCaller): numbers are given out once, so what a
  process has still to answer names its own entry or none (`LinkInv`).
  `ConnectingCorrect`, and `ForgottenCorrect`, whose invariant `ProcessInv` says that
  the process the client has of a server was begun for it and runs.
- `Indexes_proofs`, MessageIndex: `NothingSkippedCorrect`, from `SkipInv`: the batch of
  a run is what the tables lack right after the watermark, and the strategies it has
  done have it; `OrderCorrect` (OwnMessagesInOrder), from `OrderInv`: no message of the
  program has a time after the clock, and a watermark is that of a message, so whoever
  overtakes the next is of its millisecond or a messenger's; `CopiesCorrect`, from
  `CopyInv`: a message after the watermark is in a table as often as runs were lost;
  `DeletionCorrect`, from `ForgetInv`.
- `Indexes_proofs`, RagIndex: `RecordCorrect` (RecordMatchesRows) says something only
  between runs.  `RecordInv` says what holds during one: up to its first change of the
  store, the store is what the file says; from then on it is what the manifest in
  memory says of every document the run is through with, and of one it has still to
  index there are only the rows this run has written (`Partial`).  It holds of a forced
  run even after something was lost, since that begins with an empty store.  It rests on
  `HandleInv`: unless something is lost, a run that is at work knows every table there
  is, by the handle in the map or by its own once a query has set another over it, so
  that what it deletes is all there is of a document.
  `CoverCorrect` (QuietRunCovers) adds `CoverInv`: while nobody edits, what the run is
  through with is recorded as failed or as indexed after its last edit.

Proved instead of run, because the theorem says more than an instance: DedupWindow,
ClaimNeverRefused, OpenIsTracked, FeedKept, CreationAbortable, PendingIsAwaited, the
lock of LocksCorrect and the type invariants of all models.

Only model-checked: liveness (TurnsEnd, StreamsEnd, DueIsServed, KeepsFairPromise,
CallsSettle, EverythingEnds, EverythingSettles, RunsEnd, EveryMessageFound), which is
out of the prover's reach like ENABLED.  PromptsAreRequestScoped is refuted by TLC and
has no theorem.

## Other disagreements met while modelling

They are not runs, but the lines are worth a look.

Conversations, turns and tasks:
- The Feed can be the recent conversation that a message without one is put into
  (`supervisor.ts:1034`), although `supervisor.ts:213` keeps users out of it.
- A save that fails is only logged (`supervisor.ts:1177`): the turn goes on without the
  row of its message, in the conversation 'error' if the message names none.  A read that
  fails (`supervisor.ts:232`) or a trace that cannot be written, before the `try` or in
  its `finally`, leaves the id in processingMessages for good and the trace running.
- The default channel is the one registered last (`supervisor.ts:188`), and an error
  is sent to it and not to the message's (`supervisor.ts:349`).
- A worker whose LLM call throws never ends its stream.
- Unregistering an agent removes the name index of a sibling with the same name
  (`registry.ts:108`).
- A sub-agent that timed out goes on working while its parent delegates to the
  next, and delegations of one answer run together; the self-coding design
  (`src/docs/design/self-coding-design.md:13`) and the comment at `worker.ts:394`
  speak of one at a time.
- A task removed while it is loaded comes back when the load ends
  (`tasks/manager.ts:243`).
- A task run by hand twice within the deduplication window is answered
  'Task started' and skipped, since its message id is the same
  (`message-event-service.ts:368`).
- The watcher is given a pattern, `*.md` (`config/watcher.ts:107`), which the version of
  chokidar in use does not expand: it may report nothing.  TaskScheduler takes it at its
  word that it does report.
- The input of the page stays locked when the end of a stream is lost with the
  connection (`App.jsx:1139`).
- The channel of a conversation is remembered as none when it is asked for before
  the conversation is there (`server/index.ts:1341`).

Desktop and browser sessions:
- Closing an active session kills a sandbox that others share, although the comment
  at `desktop/manager.ts:763` means to keep it; removing the directory they share
  makes a later creation stop it.
- The page's close buttons send `desktop-action` and `browser-action`
  (`App.jsx:1735`, `App.jsx:1713`); the handlers of `channels/websocket.ts:485` are
  set by nobody (`server/index.ts:1372`), so the session only leaves the list.
- The question whether a sandbox runs is answered with no when it fails
  (`desktop/manager.ts:148`), and errors of the kills are swallowed (`manager.ts:380`):
  the launch then goes on over a sandbox that runs, which the comment on creationLock
  means to prevent.
- A failed launch leaves its instance 'provisioning', which the reuse by name takes
  for alive (`desktop/tools/desktop-session.ts:131`).
- A connection lost during an action is undone by its end, which sets the dead
  session active (`desktop/session.ts:215`); between two steps of an instruction a
  session is not busy; a resumption cannot be aborted.
- Two browser sessions created at the same time launch two browsers, and the first
  runs until the process ends (`browser/manager.ts:138`); the shutdown forgets a
  browser launched while it closes another.
- A browser session closed while it is initialized comes to life afterwards, with
  its context and its screenshot timer, and the page lists it, since its creation is
  told after its end; one whose initialization failed stays in the map, its context
  open, and the page is told nothing (`browser/session.ts:154`).
- A browser that died stays in the manager's field: every later session fails.
- Two creations with one name both make a session, and the reuse by name may return
  one that is being closed; browser_navigate takes no lock and may act beside an
  instruction; a close in the middle of an action ends it with a TypeError after
  action-started, without action-completed.

MCP:
- The settings keep the list of the request that ends last, not of the one made last
  (`server/index.ts:488`); a server is shown as connected when all its requests
  failed, or when it was disabled meanwhile.
- The exit of a process rejects no request: its callers wait 30 s; nothing handles an
  error of writing to it; shutdown is never called.

Indexes:
- A run of RAG indexing that stops, or is ended by a document deleted in the middle
  (`rag-projects/service.ts:510`), leaves rows its manifest does not have; the next
  run adds them again.  A forced run that stops, or fails between the dropping of two
  tables (`lance-store.ts:204`), leaves rows missing that are recorded as indexed, which
  no later run but a forced one makes good.
- A turn that lists the projects while the manifest is written makes a new, empty
  one (`service.ts:764`), and so does one that cannot read it at that moment.
- A query that opens the store beside a run sets its handle over that of the run
  (`service.ts:597`).  Later runs work with it until a restart or a forced run: a removed
  or changed document keeps its rows in the tables it does not know, and new documents
  fail, because such a table is made a second time (`lance-store.ts:125`).
- An overlap not smaller than the size of a chunk makes the chunking endless
  (`document-loader.ts:128`).
- Clearing a conversation leaves its messages in the semantic index
  (`server/index.ts:803`); a deletion beside a run leaves what the run stores after it.
- A message of the Azure Bot channel has the time at which it was sent
  (`channels/azure-bot.ts:150`): it is never indexed if the watermark is past that, though
  the index "picks up new messages since the last watermark"
  (`message-embeddings/service.ts:69`); if the clock there is ahead, what
  is saved until the clock here has caught up is not indexed either.
- A batch of nothing but blank messages never moves the watermark
  (`message-embeddings/service.ts:229`).

Missions, which have no module:
- updateMission with no fields does nothing (`server/index.ts:1329`) and
  markCycleExecuted (`missions/manager.ts:127`) has no caller, so that a due mission
  is due again every minute.
- Demoting a todo does not look at the limit of the backlog, and the routes that
  create or change todos not at the limit of active ones.
- currentMissionContext (`agents/mission-lead.ts:26`) is called request-scoped and
  shared by the turns of the agent.

## Not modelled

- Tool runner, native and user tools: between two calls the runner has no state but
  its listeners, and each tool is a call to a service; their answers are steps of
  MessageTurns and SubAgentDelegation.
- Missions and dashboard: rows, each operation one synchronous handler; the loads of
  mission files repeat those of TaskScheduler.
- Token reduction, memory, skills and evaluation: a cache nothing depends on, lists
  read into prompts, loops over prompts with floating point statistics.
- MCP server and terminal client: stateless requests, and a client of the same socket as
  the page.  Messenger channels but for the times they give to messages (MessageIndex)
  and their turns (MessageTurns): the buffering of a stream into one reply.
- LLM providers: external.

Of the modelled components the following is left out: attachments and interactions of
the channel; tool events and the input lock of the page; screenshots, what is done to
a page and the strategy that reads the DOM; the VNC protocol, other virtual machines
than the Windows Sandbox and the reuse of desktop sessions by name; queries of both
indexes and reindexAll, which has no caller; full text search.

## What is left

1. A composition of MessageTurns with StreamResume: what a turn stores is what its
   stream has shown.
2. Abstract specifications of StreamResume (a page shows a prefix of the answer) and of
   RagIndex (a table from documents to contents), with their refinements proved as
   that of DelegationPromise is.
3. The tool events of a turn (`tools/runner.ts` with the message event service), and
   the due check of missions.
