-------------------------- MODULE BrowserSessions --------------------------
(***************************************************************************)
(* Browser sessions (src/src/browser/): the manager, which launches one    *)
(* browser when the first session needs it, the sessions with their        *)
(* context and page, the tools of the agents and the requests of the       *)
(* server that create, use and close them, and the list of sessions the    *)
(* web page keeps.                                                         *)
(*                                                                         *)
(* All of them are asynchronous functions of one process; a call stands at *)
(* the answer of Playwright or of the model it awaits.  Playwright and the *)
(* model are external: they answer or fail, and a browser may die.  A      *)
(* session is named by the call that creates it.  Screenshots, what is     *)
(* done to a page and the strategy that reads the DOM (one question to a   *)
(* model, then one action) are left out; an instruction is one of the      *)
(* computer-use strategy.  isInitialized of the manager is set exactly     *)
(* when its browser is, and is no variable.  The button of the web page    *)
(* that closes a session is left out: it only takes it off the list.       *)
(***************************************************************************)
EXTENDS Naturals

CONSTANTS
  MaxCalls,   \* bound of the model: tool calls and requests
  MaxSteps,   \* maxSteps of an instruction
  MaxCrashes  \* bound of the model: browsers that die

ASSUME BrowserAssumption ==
  MaxCalls \in Nat /\ MaxSteps \in Nat \ {0} /\ MaxCrashes \in Nat

(* Calls are numbered in the order they begin.                               *)
Calls == 1..MaxCalls
None == 0

VARIABLES
  browser,   \* the manager's field: the browser it launched last, 0 if none
  browsers,  \* browsers launched so far
  running,   \* browsers that run
  sessions,  \* the manager's map
  named,     \* sessions asked for by the one name the model has
  stage,     \* status of a session
  given,     \* the browser a session was given
  context,   \* sessions whose field context is set
  page,      \* sessions whose field page is set
  ready,     \* sessions whose strategy has the page
  contexts,  \* sessions whose context is open in a browser
  pages,     \* sessions whose page is open in a browser
  closing,   \* closes under way: who closes which session, and what it awaits
  locks,     \* sessionLocks of BrowserActionTool
  chain,     \* whose answer of the model a session's strategy remembers
  at,        \* where a call stands
  of,        \* the session a call is about
  steps,     \* steps it has taken under a lock of the tool, 0 without one
  quit,      \* the browser a shutdown closes, 0 if none
  shown,     \* browserSessions of the web page
  torn,      \* sessions closed before they were initialized
  raced,     \* browsers launched beside another launch or a shutdown
  crashes    \* browsers that died

managerVars == <<browser, browsers, running, crashes, raced, quit>>
sessionVars == <<sessions, named, stage, given, context, page, ready, contexts, pages, torn>>
toolVars    == <<at, of, steps, locks, chain>>
browserVars == <<managerVars, sessionVars, toolVars, closing, shown>>

Places == {"idle", "listing", "launching", "opening", "paging", "describing", "closing",
           "quitting", "acting", "looking", "asking", "doing", "wrapping", "done"}

BrowserInit ==
  /\ browser = 0 /\ browsers = 0 /\ running = {}
  /\ sessions = {} /\ named = {} /\ torn = {} /\ raced = {}
  /\ stage = [c \in Calls |-> "none"]
  /\ given = [c \in Calls |-> 0]
  /\ context = {} /\ page = {} /\ ready = {} /\ contexts = {} /\ pages = {}
  /\ closing = {} /\ locks = {} /\ shown = {}
  /\ chain = [c \in Calls |-> None]
  /\ at = [c \in Calls |-> "idle"]
  /\ of = [c \in Calls |-> None]
  /\ steps = [c \in Calls |-> 0]
  /\ crashes = 0 /\ quit = 0

Stand(c, place) == at' = [at EXCEPT ![c] = place]

(* What is open in a browser that goes is closed.                            *)
Gone(b) ==
  /\ running' = running \ {b}
  /\ contexts' = {s \in contexts : given[s] # b}
  /\ pages' = {s \in pages : given[s] # b}

-----------------------------------------------------------------------------
(* Creation *)

(* The session is made, stored and asks the browser for a context.           *)
Start(c, b) ==
  /\ sessions' = sessions \cup {c}
  /\ stage' = [stage EXCEPT ![c] = "starting"]
  /\ given' = [given EXCEPT ![c] = b]
  /\ Stand(c, "opening")
  /\ UNCHANGED <<context, page, ready, contexts, pages, torn>>

(* Mutant: the browser is launched for the first of the sessions.            *)
CreateForFirst(c) ==
  /\ IF sessions = {}
     THEN Stand(c, "launching")
          /\ UNCHANGED <<sessions, stage, given, context, page, ready, contexts, pages, torn>>
     ELSE Start(c, browser)
  /\ UNCHANGED <<managerVars, of, steps, locks, chain, closing, shown>>

(* createSession of the manager: with the browser, or after its launch.      *)
CreateInManager(c) ==
  /\ IF browser = 0
     THEN Stand(c, "launching")
          /\ UNCHANGED <<sessions, stage, given, context, page, ready, contexts, pages, torn>>
     ELSE Start(c, browser)
  /\ UNCHANGED <<managerVars, of, steps, locks, chain, closing, shown>>

Found == {s \in sessions \cap named : stage[s] = "active"}

(* The tool's create: a name is looked up among the sessions, which asks     *)
(* every page for its title.  A session found active is what it returns; how *)
(* many of the sessions are read at once is left open.                       *)
CreateSession(c) ==
  /\ at[c] = "idle"
  /\ \/ CreateInManager(c) /\ UNCHANGED named
     \/ /\ named' = named \cup {c}
        /\ \/ sessions \cap page = {} /\ Found = {} /\ CreateInManager(c)
           \/ /\ sessions \cap page = {} /\ Found # {}
              /\ Stand(c, "done")
              /\ UNCHANGED <<managerVars, sessions, stage, given, context, page, ready, contexts,
                             pages, torn, of, steps, locks, chain, closing, shown>>
           \/ /\ sessions \cap page # {}
              /\ Stand(c, "listing")
              /\ \E s \in Found \cup {None} : of' = [of EXCEPT ![c] = s]
              /\ UNCHANGED <<managerVars, sessions, stage, given, context, page, ready, contexts,
                             pages, torn, steps, locks, chain, closing, shown>>

(* The status of a session is read when the titles before it have come.      *)
ListNext(c) ==
  /\ at[c] = "listing" /\ of[c] = None
  /\ \E s \in Found : of' = [of EXCEPT ![c] = s]
  /\ UNCHANGED <<managerVars, sessionVars, at, steps, locks, chain, closing, shown>>

(* All titles have come, or a page was closed before it gave its own.        *)
Listed(c) ==
  /\ at[c] = "listing"
  /\ \/ of[c] = None /\ CreateInManager(c) /\ UNCHANGED named
     \/ /\ Stand(c, "done")
        /\ UNCHANGED <<managerVars, sessionVars, of, steps, locks, chain, closing, shown>>

Launching == {c \in Calls : at[c] = "launching"}
ShuttingDown == \E c \in Calls : at[c] = "quitting"

(* initialize: the browser launched last is the manager's.                   *)
Launched(c) ==
  /\ at[c] = "launching"
  /\ browsers' = browsers + 1
  /\ browser' = browsers'
  /\ running' = running \cup {browsers'}
  /\ raced' = IF Launching # {c} \/ ShuttingDown THEN raced \cup {browsers'} ELSE raced
  /\ Start(c, browsers')
  /\ UNCHANGED <<named, crashes, quit, of, steps, locks, chain, closing, shown>>

LaunchFails(c) ==
  /\ at[c] = "launching"
  /\ Stand(c, "done")
  /\ UNCHANGED <<managerVars, sessionVars, of, steps, locks, chain, closing, shown>>

(* initialize of the session, whether it was closed meanwhile or not.        *)
ContextOpened(c) ==
  /\ at[c] = "opening" /\ given[c] \in running
  /\ contexts' = contexts \cup {c}
  /\ context' = context \cup {c}
  /\ Stand(c, "paging")
  /\ UNCHANGED <<managerVars, sessions, named, stage, given, page, ready, pages, torn, of, steps,
                 locks, chain, closing, shown>>

PageOpened(c) ==
  /\ at[c] = "paging" /\ c \in contexts
  /\ pages' = pages \cup {c}
  /\ page' = page \cup {c}
  /\ ready' = ready \cup {c}
  /\ stage' = [stage EXCEPT ![c] = "active"]
  /\ Stand(c, "describing")
  /\ UNCHANGED <<managerVars, sessions, named, given, context, contexts, torn, of, steps, locks,
                 chain, closing, shown>>

(* The error is the tool's answer; the session stays, with what it has.      *)
InitializeFails(c) ==
  /\ at[c] \in {"opening", "paging"}
  /\ stage' = [stage EXCEPT ![c] = "error"]
  /\ Stand(c, "done")
  /\ UNCHANGED <<managerVars, sessions, named, given, context, page, ready, contexts, pages, torn,
                 of, steps, locks, chain, closing, shown>>

(* The web page is told of the session when its page has given its title.    *)
Described(c) ==
  /\ at[c] = "describing"
  /\ shown' = IF c \in pages THEN shown \cup {c} ELSE shown
  /\ Stand(c, "done")
  /\ UNCHANGED <<managerVars, sessionVars, of, steps, locks, chain, closing>>

-----------------------------------------------------------------------------
(* Closing *)

Forget(S) ==
  /\ sessions' = sessions \ S
  /\ stage' = [s \in Calls |-> IF s \in S THEN "closed" ELSE stage[s]]
  /\ shown' = shown \ S

(* Mutant: a context is closed only after a page.                            *)
BeginCloseOfPages(c, S) ==
  /\ ready' = ready \ S
  /\ chain' = [s \in Calls |-> IF s \in S THEN None ELSE chain[s]]
  /\ torn' = torn \cup {s \in S : at[s] \in {"opening", "paging"}}
  /\ closing' = closing \cup {<<c, s, "page">> : s \in S \cap page}
  /\ Forget(S \ page)

(* close of each of the sessions: the strategy lets go of the page, then     *)
(* page and context are closed as far as the session has them.               *)
BeginClose(c, S) ==
  /\ ready' = ready \ S
  /\ chain' = [s \in Calls |-> IF s \in S THEN None ELSE chain[s]]
  /\ torn' = torn \cup {s \in S : at[s] \in {"opening", "paging"}}
  /\ closing' = closing \cup {<<c, s, "page">> : s \in S \cap page}
                        \cup {<<c, s, "context">> : s \in (S \cap context) \ page}
  /\ Forget(S \ (page \cup context))

(* closeSession, by the tool or by the server, of a session that was listed. *)
CloseSession(c, s) ==
  /\ at[c] = "idle" /\ stage[s] # "none"
  /\ of' = [of EXCEPT ![c] = s]
  /\ BeginClose(c, {s} \cap sessions)
  /\ Stand(c, "closing")
  /\ UNCHANGED <<managerVars, named, given, context, page, contexts, pages, steps, locks>>

PageClosed(c, s) ==
  /\ <<c, s, "page">> \in closing
  /\ pages' = pages \ {s}
  /\ page' = page \ {s}
  /\ IF s \in context
     THEN /\ closing' = (closing \ {<<c, s, "page">>}) \cup {<<c, s, "context">>}
          /\ UNCHANGED <<sessions, stage, shown>>
     ELSE closing' = closing \ {<<c, s, "page">>} /\ Forget({s})
  /\ UNCHANGED <<managerVars, named, given, context, ready, contexts, torn, toolVars>>

ContextClosed(c, s) ==
  /\ <<c, s, "context">> \in closing
  /\ contexts' = contexts \ {s} /\ pages' = pages \ {s}
  /\ context' = context \ {s}
  /\ closing' = closing \ {<<c, s, "context">>}
  /\ Forget({s})
  /\ UNCHANGED <<managerVars, named, given, page, ready, torn, toolVars>>

ClosingOf(c) == {e \in closing : e[1] = c}

(* closeSession returns.                                                     *)
Closed(c) ==
  /\ at[c] = "closing" /\ of[c] # None /\ ClosingOf(c) = {}
  /\ Stand(c, "done")
  /\ UNCHANGED <<managerVars, sessionVars, of, steps, locks, chain, closing, shown>>

(* shutdown closes all sessions ...                                          *)
Shutdown(c) ==
  /\ at[c] = "idle"
  /\ \A d \in Calls : at[d] = "closing" => of[d] # None
  /\ ~ShuttingDown
  /\ BeginClose(c, sessions)
  /\ Stand(c, "closing")
  /\ UNCHANGED <<managerVars, named, given, context, page, contexts, pages, of, steps, locks>>

(* ... then the browser, if there is one, ...                                *)
AllClosed(c) ==
  /\ at[c] = "closing" /\ of[c] = None /\ ClosingOf(c) = {}
  /\ Stand(c, IF browser # 0 THEN "quitting" ELSE "done")
  /\ quit' = browser
  /\ UNCHANGED <<browser, browsers, running, crashes, raced, sessionVars, of, steps, locks, chain,
                 closing, shown>>

(* ... and forgets whatever browser it has by then.                          *)
BrowserClosed(c) ==
  /\ at[c] = "quitting"
  /\ Gone(quit)
  /\ browser' = 0 /\ quit' = 0
  /\ Stand(c, "done")
  /\ UNCHANGED <<browsers, crashes, raced, sessions, named, stage, given, context, page, ready,
                 torn, of, steps, locks, chain, closing, shown>>

(* A browser dies; nothing of the manager notices.                           *)
Crash(b) ==
  /\ crashes < MaxCrashes /\ crashes' = crashes + 1
  /\ Gone(b)
  /\ UNCHANGED <<browser, browsers, raced, quit, sessions, named, stage, given, context, page,
                 ready, torn, toolVars, closing, shown>>

-----------------------------------------------------------------------------
(* Use *)

CanUse(s) == s \in sessions /\ s \in page /\ stage[s] = "active"

(* The call returns; the tool gives back the lock it has.                    *)
End(c) ==
  /\ Stand(c, "done")
  /\ locks' = locks \ {e \in {of[c]} : steps[c] > 0}

(* browser_navigate takes no lock.                                           *)
Navigate(c, s) ==
  /\ at[c] = "idle" /\ stage[s] # "none"
  /\ of' = [of EXCEPT ![c] = s]
  /\ Stand(c, IF CanUse(s) THEN "acting" ELSE "done")
  /\ UNCHANGED <<managerVars, sessionVars, steps, locks, chain, closing, shown>>

(* Mutant: a session in use is not refused.                                  *)
TakeInUse(c, s, place) ==
  /\ at[c] = "idle" /\ stage[s] # "none"
  /\ of' = [of EXCEPT ![c] = s]
  /\ IF CanUse(s)
     THEN Stand(c, place) /\ steps' = [steps EXCEPT ![c] = 1] /\ locks' = locks \cup {s}
     ELSE Stand(c, "done") /\ UNCHANGED <<steps, locks>>
  /\ UNCHANGED <<managerVars, sessionVars, chain, closing, shown>>

(* browser_action: one call at a time for each session, others are refused.  *)
Take(c, s, place) ==
  /\ at[c] = "idle" /\ stage[s] # "none"
  /\ of' = [of EXCEPT ![c] = s]
  /\ IF s \notin locks /\ CanUse(s)
     THEN Stand(c, place) /\ steps' = [steps EXCEPT ![c] = 1] /\ locks' = locks \cup {s}
     ELSE Stand(c, "done") /\ UNCHANGED <<steps, locks>>
  /\ UNCHANGED <<managerVars, sessionVars, chain, closing, shown>>

Act(c, s) == Take(c, s, "acting")
InstructPage(c, s) == Take(c, s, "looking")

(* executeAction: the action succeeds or fails; the page it asks for its     *)
(* address may be gone.                                                      *)
Acted(c) ==
  /\ at[c] = "acting"
  /\ IF of[c] \in page THEN Stand(c, "wrapping") /\ UNCHANGED locks ELSE End(c)
  /\ UNCHANGED <<managerVars, sessionVars, of, steps, chain, closing, shown>>

(* executeInstruction: screenshot and title for the strategy, which starts   *)
(* a new chain of questions.                                                 *)
Looked(c) ==
  /\ at[c] = "looking"
  /\ \/ /\ of[c] \in ready
        /\ Stand(c, "asking")
        /\ chain' = [chain EXCEPT ![of[c]] = None]
        /\ UNCHANGED locks
     \/ End(c) /\ UNCHANGED chain
  /\ UNCHANGED <<managerVars, sessionVars, of, steps, closing, shown>>

(* The model answers with an action, with none, or that it is done.          *)
Answered(c) ==
  /\ at[c] = "asking"
  /\ chain' = [chain EXCEPT ![of[c]] = c]
  /\ \/ /\ Stand(c, "doing")
        /\ UNCHANGED <<steps, locks>>
     \/ /\ steps[c] < MaxSteps /\ of[c] \in ready
        /\ steps' = [steps EXCEPT ![c] = @ + 1]
        /\ UNCHANGED <<at, locks>>
     \/ /\ of[c] \in ready
        /\ Stand(c, "wrapping")
        /\ UNCHANGED <<steps, locks>>
     \/ /\ of[c] \notin ready
        /\ End(c)
        /\ UNCHANGED steps
  /\ UNCHANGED <<managerVars, sessionVars, of, closing, shown>>

(* Mutant: the lock stays when the model fails.                              *)
AskFailsLocked(c) ==
  /\ at[c] = "asking"
  /\ Stand(c, "done")
  /\ UNCHANGED <<managerVars, sessionVars, of, steps, locks, chain, closing, shown>>

AskFails(c) ==
  /\ at[c] = "asking"
  /\ End(c)
  /\ UNCHANGED <<managerVars, sessionVars, of, steps, chain, closing, shown>>

(* The action of a step is done and the page has settled.                    *)
Done(c) ==
  /\ at[c] = "doing"
  /\ \/ /\ of[c] \in ready \cap pages /\ steps[c] < MaxSteps
        /\ Stand(c, "asking")
        /\ steps' = [steps EXCEPT ![c] = @ + 1]
        /\ UNCHANGED locks
     \/ /\ of[c] \in ready \cap pages /\ steps[c] = MaxSteps
        /\ Stand(c, "wrapping")
        /\ UNCHANGED <<steps, locks>>
     \/ /\ of[c] \notin ready \cap pages
        /\ End(c)
        /\ UNCHANGED steps
  /\ UNCHANGED <<managerVars, sessionVars, of, chain, closing, shown>>

(* The last screenshot, title and event, or the error that there is no page. *)
Wrapped(c) ==
  /\ at[c] = "wrapping"
  /\ End(c)
  /\ UNCHANGED <<managerVars, sessionVars, of, steps, chain, closing, shown>>

-----------------------------------------------------------------------------
BeginCall(c) ==
  /\ \A d \in 1..(c - 1) : at[d] # "idle"
  /\ \/ CreateSession(c) \/ Shutdown(c)
     \/ \E s \in Calls : CloseSession(c, s) \/ Navigate(c, s) \/ Act(c, s) \/ InstructPage(c, s)

Continue(c) ==
  \/ Listed(c) \/ Launched(c) \/ LaunchFails(c)
  \/ ContextOpened(c) \/ PageOpened(c) \/ InitializeFails(c) \/ Described(c)
  \/ \E s \in Calls : PageClosed(c, s) \/ ContextClosed(c, s)
  \/ Closed(c) \/ AllClosed(c) \/ BrowserClosed(c)
  \/ Acted(c) \/ Looked(c) \/ Answered(c) \/ AskFails(c) \/ Done(c) \/ Wrapped(c)

BrowserNext ==
  \/ \E c \in Calls : BeginCall(c) \/ ListNext(c) \/ Continue(c)
  \/ \E b \in running : Crash(b)

BrowserSpec == BrowserInit /\ [][BrowserNext]_browserVars

(* Playwright and the model answer or fail; nobody has to call.              *)
BrowserFairSpec == BrowserSpec /\ \A c \in Calls : WF_browserVars(Continue(c))

-----------------------------------------------------------------------------
(* Properties *)

(* Every variable has its type. *)
BrowserTypeOK ==
  /\ browsers \in Nat /\ browser \in 0..browsers /\ running \subseteq 1..browsers
  /\ raced \subseteq 1..browsers /\ quit \in 0..browsers /\ given \in [Calls -> 0..browsers]
  /\ {sessions, named, context, page, ready, contexts, pages, locks, shown, torn}
       \subseteq SUBSET Calls
  /\ stage \in [Calls -> {"none", "starting", "active", "error", "closed"}]
  /\ closing \subseteq Calls \X Calls \X {"page", "context"}
  /\ chain \in [Calls -> Calls \cup {None}] /\ of \in [Calls -> Calls \cup {None}]
  /\ at \in [Calls -> Places] /\ steps \in [Calls -> Nat]
  /\ crashes \in 0..MaxCrashes

(* A context that is open in a browser, and a session that the web page      *)
(* lists, are of a session the manager still has, so that both go when it    *)
(* is closed; unless the session was closed before it was initialized, which *)
(* closes what it has by then and lets the rest come.                        *)
OnlyTornOutlive == (contexts \cup shown) \ sessions \subseteq torn

(* A browser that runs is the one the manager will close, or two launches,   *)
(* or a launch and the shutdown, were under way at the same time.            *)
OrphansAreRaced == running \subseteq {browser} \cup raced

(* What a session's strategy remembers of the model, lastResponseId and      *)
(* lastCallId, is of the instruction that asks: the tool's lock keeps two    *)
(* instructions from continuing each other's conversation, through closes,   *)
(* failures and refused calls.                                               *)
ChainIsOwn ==
  \A c \in Calls : at[c] \in {"asking", "doing"} => chain[of[c]] \in {None, c}

(* Every call returns, and the session it was about is no longer locked,     *)
(* whatever fails, closes or dies meanwhile.                                 *)
EverythingEnds == \A c \in Calls : at[c] # "idle" ~> at[c] = "done" /\ of[c] \notin locks

-----------------------------------------------------------------------------
(* Stated, and not true of the code. *)

(* "Closes the browser session and releases resources" (session.ts:162): of  *)
(* a closed session nothing is left.                                         *)
ClosedIsClosed == \A s \in Calls : s \notin sessions => s \notin contexts
=============================================================================
