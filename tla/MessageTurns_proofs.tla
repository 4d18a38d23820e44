------------------------ MODULE MessageTurns_proofs ------------------------
(***************************************************************************)
(* Proofs about MessageTurns, for every set of messages and conversations  *)
(* and every value of the limits.                                          *)
(***************************************************************************)
EXTENDS MessageTurns, FiniteSetTheorems, TLAPS

USE DEF Active, Places, turnVars, histVars, dbVars, Quiet, Goto

(* The ids that name a conversation are finitely many.                     *)
LEMMA ConvIdsFinite == IsFiniteSet(ConvIds)
<1>1. IsFiniteSet(OldConvs \cup NewConvs)
  BY ConvsAssumption, FS_Union
<1>2. IsFiniteSet((OldConvs \cup NewConvs) \cup {Feed})
  BY <1>1, FS_AddElement
<1>3. IsFiniteSet(((OldConvs \cup NewConvs) \cup {Feed}) \cup {ErrorConv})
  BY <1>2, FS_AddElement
<1>4. ConvIds = ((OldConvs \cup NewConvs) \cup {Feed}) \cup {ErrorConv}
  BY DEF ConvIds
<1> QED
  BY <1>3, <1>4

(* The rank that an update gives is a number, as are the ranks it leaves.  *)
LEMMA TouchType ==
  ASSUME NEW c \in ConvIds, NEW cs, touched \in [ConvIds -> Nat]
  PROVE  Touch(c, cs) \in [ConvIds -> Nat]
<1> DEFINE K == Cardinality({e \in ConvIds : touched[e] > 0} \cup {c})
<1>1. K \in Nat
  BY ConvIdsFinite, FS_Subset, FS_CardinalityType
<1>2. \A d \in ConvIds : touched[c] > 0 /\ touched[d] > touched[c] => touched[d] - 1 \in Nat
  OBVIOUS
<1> QED
  BY <1>1, <1>2 DEF Touch

(* A row or a pushed answer of a turn that has a conversation is an entry.  *)
LEMMA EntryType ==
  ASSUME TypeOK, NEW m \in Msgs, convOf[m] \in ConvIds, NEW by \in Kinds
  PROVE  /\ InsertRow(m, by) => /\ rows' \subseteq Entry
                                /\ size' \in [ConvIds -> Nat]
                                /\ convs' \subseteq ConvIds
         /\ PushAnswer(m) => /\ history' \subseteq Entry
                             /\ last' \in Nat
                             /\ disturbed' \subseteq Msgs
<1>1. size[convOf[m]] + 1 \in Nat /\ last + 1 \in Nat
  BY DEF TypeOK
<1>2. \A n \in Nat, b \in Kinds :
        [n |-> n, conv |-> convOf[m], msg |-> m, by |-> b] \in Entry
  BY DEF Entry
<1>3. InsertRow(m, by) => /\ rows' \subseteq Entry
                          /\ size' \in [ConvIds -> Nat]
                          /\ convs' \subseteq ConvIds
  BY <1>1, <1>2 DEF TypeOK, InsertRow
<1>4. PushAnswer(m) => /\ history' \subseteq Entry
                       /\ last' \in Nat
                       /\ disturbed' \subseteq Msgs
  BY <1>1, <1>2 DEF TypeOK, PushAnswer, Turns, Kinds
<1> QED
  BY <1>3, <1>4

MessageKinds == {"user", "task_run"}

(* What Arrive does, told with the entry it pushes on the history.          *)
ArriveDoes(m, e) ==
  LET c0 == InitialConversation(m)
  IN /\ e.msg = m /\ e.by \in MessageKinds
     /\ e.n = size[e.conv] + 1
     /\ c0 # NoConv => e.conv = c0
     /\ \/ rows' = rows \cup {e} /\ size' = [size EXCEPT ![e.conv] = e.n]
        \/ UNCHANGED <<rows, size>> /\ (c0 = NoConv => e.conv = ErrorConv)
     /\ last' = e.n
     /\ history' = {e} \cup
          (IF shape[m].task \/ c0 = NoConv THEN {} ELSE LoadConversationHistory(c0))

LEMMA ArriveEffect ==
  ASSUME TypeOK, NEW m \in Msgs, NEW c \in ConvIds, Arrive(m, c)
  PROVE  \E e \in Entry : e.conv = c /\ ArriveDoes(m, e)
<1> DEFINE c0 == InitialConversation(m)
           e == [n |-> size[c] + 1, conv |-> c, msg |-> m,
                 by |-> IF shape[m].task THEN "task_run" ELSE "user"]
<1>1. e \in Entry
  BY DEF TypeOK, Entry, Kinds
<1>2. /\ SaveMessage(c0, e) \/ SaveFails(c0, e)
      /\ last' = e.n
      /\ history' = {e} \cup
           (IF shape[m].task \/ c0 = NoConv THEN {} ELSE LoadConversationHistory(c0))
  BY DEF Arrive
<1>3. SaveMessage(c0, e) => /\ c0 # NoConv => c = c0
                            /\ rows' = rows \cup {e} /\ size' = [size EXCEPT ![c] = e.n]
  BY DEF SaveMessage, Ensured, EnsureConversation
<1>4. SaveFails(c0, e) => /\ c = IF c0 = NoConv THEN ErrorConv ELSE c0
                          /\ UNCHANGED <<rows, size>>
  BY DEF SaveFails
<1>5. ArriveDoes(m, e)
  BY <1>2, <1>3, <1>4 DEF ArriveDoes, MessageKinds
<1> QED
  BY <1>1, <1>5

LEMMA ArriveType ==
  ASSUME TypeOK, NEW m \in Msgs, NEW c \in ConvIds, Arrive(m, c)
  PROVE  /\ rows' \subseteq Entry /\ size' \in [ConvIds -> Nat]
         /\ history' \subseteq Entry /\ last' \in Nat
         /\ convs' \subseteq ConvIds /\ touched' \in [ConvIds -> Nat]
         /\ disturbed' \subseteq Msgs
<1>1. PICK e \in Entry : e.conv = c /\ ArriveDoes(m, e)
  BY ArriveEffect
<1>2. e.n \in Nat
  BY DEF Entry
<1>3. rows' \subseteq Entry /\ size' \in [ConvIds -> Nat]
  BY <1>1, <1>2 DEF ArriveDoes, TypeOK
<1>4. history' \subseteq Entry /\ last' \in Nat
  BY <1>1, <1>2 DEF ArriveDoes, LoadConversationHistory, Oldest, TypeOK
<1>5. ASSUME NEW d \in ConvIds, Ensured(InitialConversation(m), d)
      PROVE  convs' \subseteq ConvIds /\ touched' \in [ConvIds -> Nat]
  BY <1>5, TouchType DEF Ensured, TypeOK
<1>6. (\E d \in ConvIds : Ensured(InitialConversation(m), d)) \/ UNCHANGED <<convs, touched>>
  BY DEF Arrive, SaveMessage, SaveFails
<1>7. convs' \subseteq ConvIds /\ touched' \in [ConvIds -> Nat]
  BY <1>5, <1>6 DEF TypeOK
<1>8. disturbed' \subseteq Msgs
  BY DEF Arrive, Turns, TypeOK
<1> QED
  BY <1>3, <1>4, <1>7, <1>8

(* A turn past its admission has a conversation, and starts another round   *)
(* of the loop only while rounds are left.                                  *)
TurnInv ==
  \A m \in Msgs :
    /\ pc[m] \in Active \ {"admitted"} => convOf[m] \in ConvIds
    /\ pc[m] = "llm" => iter[m] < MaxIterations
    /\ pc[m] \in {"new", "done", "stuck", "admitted", "refreshing"} => iter[m] = 0

(* A fresh supervisor is typed and has no turn under way.                   *)
THEOREM InitType == Init => TypeOK /\ TurnInv
  BY ConvsAssumption, BoundsAssumption DEF Init, TypeOK, TurnInv, ConvIds

(* The ids in the window are those of running turns and armed timers.       *)
LEMMA WindowStep == TypeOK /\ DedupWindow /\ [Next]_vars => DedupWindow'
<1> SUFFICES ASSUME TypeOK, DedupWindow, [Next]_vars
             PROVE  DedupWindow'
  OBVIOUS
<1>1. ASSUME NEW m \in Msgs, Deliver(m) PROVE DedupWindow'
  BY <1>1 DEF TypeOK, DedupWindow, Deliver
<1>2. ASSUME NEW m \in Msgs, Begin(m) PROVE DedupWindow'
  <2>1. /\ pc[m] = "admitted" /\ UNCHANGED <<processing, timers>>
        /\ \E p \in {"delegating", "refreshing", "generating"} : pc' = [pc EXCEPT ![m] = p]
    BY <1>2 DEF Begin
  <2> QED
    BY <2>1 DEF TypeOK, DedupWindow
<1>3. ASSUME NEW m \in Msgs, BeginFails(m) PROVE DedupWindow'
  BY <1>3 DEF TypeOK, DedupWindow, BeginFails
<1>4. ASSUME NEW m \in Msgs,
             \/ Prepare(m) \/ AskForTools(m) \/ ToolsDone(m) \/ DelegateToolDone(m)
             \/ Claim(m) \/ Delegate(m) \/ DelegateFails(m) \/ DelegateReturns(m)
             \/ Reply(m) \/ ReplyDelegates(m) \/ ReplyFails(m)
             \/ Answer(m) \/ AnswerFails(m) \/ FinishStream(m)
      PROVE  DedupWindow'
  <2>1. /\ UNCHANGED <<processing, timers>>
        /\ pc[m] \in Active
        /\ \E p \in Active : pc' = [pc EXCEPT ![m] = p]
    BY <1>4 DEF Prepare, AskForTools, ToolsDone, DelegateToolDone, Claim, Delegate,
                DelegateFails, DelegateReturns, Reply, ReplyDelegates, ReplyFails,
                Answer, AnswerFails, FinishStream
  <2> QED
    BY <2>1 DEF TypeOK, DedupWindow
<1>5. ASSUME NEW m \in Msgs, Close(m) \/ CloseFails(m) PROVE DedupWindow'
  BY <1>5 DEF TypeOK, DedupWindow, Close, CloseFails
<1>6. ASSUME NEW m \in Msgs, Expire(m) PROVE DedupWindow'
  BY <1>6 DEF TypeOK, DedupWindow, Expire
<1>7. CASE LeaveWindow
  BY <1>7 DEF DedupWindow, LeaveWindow
<1>8. CASE UNCHANGED vars
  BY <1>8 DEF DedupWindow, vars
<1> QED
  BY <1>1, <1>2, <1>3, <1>4, <1>5, <1>6, <1>7, <1>8 DEF Next, Step

(* No step leaves the types; what a turn inserts or pushes is an entry       *)
(* because the turn has a conversation.                                      *)
THEOREM TypeStep ==
  TypeOK /\ TurnInv /\ DedupWindow /\ [Next]_vars => TypeOK' /\ TurnInv'
<1> SUFFICES ASSUME TypeOK, TurnInv, DedupWindow, [Next]_vars
             PROVE  TypeOK' /\ TurnInv'
  OBVIOUS
<1> USE ConvsAssumption, BoundsAssumption
<1>1. ASSUME NEW m \in Msgs, Deliver(m) PROVE TypeOK' /\ TurnInv'
  <2>1. TypeOK'
    BY <1>1 DEF TypeOK, Deliver
  <2>2. m \notin processing => pc[m] \in {"new", "done"}
    BY DEF DedupWindow, TypeOK
  <2>3. TurnInv'
    BY <1>1, <2>2 DEF TypeOK, TurnInv, Deliver
  <2> QED
    BY <2>1, <2>3
<1>2. ASSUME NEW m \in Msgs, Begin(m) PROVE TypeOK' /\ TurnInv'
  <2>1. PICK c \in ConvIds : Arrive(m, c) /\ convOf' = [convOf EXCEPT ![m] = c]
    BY <1>2 DEF Begin
  <2>2. /\ rows' \subseteq Entry /\ size' \in [ConvIds -> Nat]
        /\ history' \subseteq Entry /\ last' \in Nat
        /\ convs' \subseteq ConvIds /\ touched' \in [ConvIds -> Nat]
        /\ disturbed' \subseteq Msgs
    BY <2>1, ArriveType
  <2>3. convOf' \in [Msgs -> ConvIds \cup {NoConv}] /\ convOf'[m] \in ConvIds
    BY <2>1 DEF TypeOK
  <2>4. prompt' \in [Msgs -> SUBSET Entry]
    <3>1. LastOf(history') \subseteq Entry
      BY <2>2 DEF LastOf
    <3>2. prompt' = prompt \/ prompt' = [prompt EXCEPT ![m] = LastOf(history')]
      BY <1>2 DEF Begin
    <3> QED
      BY <3>1, <3>2 DEF TypeOK
  <2>5. TypeOK'
    <3>1. /\ pc' \in [Msgs -> Places]
          /\ processing' = processing /\ timers' = timers
          /\ delegated' \subseteq Msgs
      BY <1>2 DEF Begin, TypeOK
    <3>2. /\ trace' \in [Msgs -> {"none", "running", "ended"}]
          /\ stream' \in [Msgs -> {"none", "open", "closed"}]
      BY <1>2 DEF Begin, TypeOK
    <3>3. UNCHANGED <<shape, deliveries, lapses, iter, delegations>>
      BY <1>2 DEF Begin
    <3> QED
      BY <2>2, <2>3, <2>4, <3>1, <3>2, <3>3 DEF TypeOK
  <2>6. TurnInv'
    <3>1. \A k \in Msgs : k # m => pc'[k] = pc[k] /\ convOf'[k] = convOf[k] /\ iter'[k] = iter[k]
      BY <1>2, <2>1 DEF Begin, TypeOK
    <3>2. pc'[m] \in {"refreshing", "generating", "delegating"} /\ iter'[m] = 0
      BY <1>2 DEF Begin, TypeOK, TurnInv
    <3> QED
      BY <2>3, <3>1, <3>2 DEF TurnInv
  <2> QED
    BY <2>5, <2>6
<1>3. ASSUME NEW m \in Msgs, BeginFails(m) PROVE TypeOK' /\ TurnInv'
  <2>1. \/ UNCHANGED <<rows, size, history, last, convs, touched, disturbed>>
        \/ \E c \in ConvIds : Arrive(m, c)
    BY <1>3 DEF BeginFails
  <2>2. /\ rows' \subseteq Entry /\ size' \in [ConvIds -> Nat]
        /\ history' \subseteq Entry /\ last' \in Nat
        /\ convs' \subseteq ConvIds /\ touched' \in [ConvIds -> Nat]
        /\ disturbed' \subseteq Msgs
    BY <2>1, ArriveType DEF TypeOK
  <2>3. /\ pc' = [pc EXCEPT ![m] = "stuck"] /\ pc[m] = "admitted"
        /\ trace' \in [Msgs -> {"none", "running", "ended"}]
        /\ UNCHANGED <<shape, deliveries, lapses, processing, delegated, timers, convOf,
                       prompt, iter, stream, delegations>>
    BY <1>3 DEF BeginFails, TypeOK
  <2> QED
    BY <2>2, <2>3 DEF TypeOK, TurnInv
<1>4. ASSUME NEW m \in Msgs, Prepare(m) PROVE TypeOK' /\ TurnInv'
  <2>1. LastOf(history) \subseteq Entry
    BY DEF LastOf, TypeOK
  <2> QED
    BY <1>4, <2>1 DEF TypeOK, TurnInv, Prepare
<1>5. ASSUME NEW m \in Msgs, AskForTools(m) PROVE TypeOK' /\ TurnInv'
  <2>1. iter[m] < MaxIterations /\ iter[m] \in 0..MaxIterations
    BY <1>5 DEF AskForTools, TurnInv, TypeOK
  <2> QED
    BY <1>5, <2>1 DEF TypeOK, TurnInv, AskForTools
<1>6. ASSUME NEW m \in Msgs, ToolsDone(m) PROVE TypeOK' /\ TurnInv'
  <2>1. convOf[m] \in ConvIds
    BY <1>6 DEF ToolsDone, TurnInv
  <2>2. rows' \subseteq Entry /\ size' \in [ConvIds -> Nat] /\ convs' \subseteq ConvIds
    BY <1>6, <2>1, EntryType DEF ToolsDone, Kinds
  <2> QED
    BY <1>6, <2>1, <2>2 DEF TypeOK, TurnInv, ToolsDone
<1>7. ASSUME NEW m \in Msgs, DelegateToolDone(m) PROVE TypeOK' /\ TurnInv'
  <2>1. convOf[m] \in ConvIds
    BY <1>7 DEF DelegateToolDone, TurnInv
  <2>2. rows' \subseteq Entry /\ size' \in [ConvIds -> Nat] /\ convs' \subseteq ConvIds
    BY <1>7, <2>1, EntryType DEF DelegateToolDone, Kinds
  <2> QED
    BY <1>7, <2>1, <2>2 DEF TypeOK, TurnInv, DelegateToolDone
<1>8. ASSUME NEW m \in Msgs, Claim(m) PROVE TypeOK' /\ TurnInv'
  <2>1. convOf[m] \in ConvIds
    BY <1>8 DEF Claim, TurnInv
  <2>3. SaveAssistant(m) => /\ history' \subseteq Entry /\ last' \in Nat
                            /\ rows' \subseteq Entry /\ size' \in [ConvIds -> Nat]
                            /\ convs' \subseteq ConvIds
                            /\ touched' \in [ConvIds -> Nat] /\ disturbed' \subseteq Msgs
    BY <2>1, EntryType, TouchType DEF SaveAssistant, TypeOK, Kinds
  <2> QED
    BY <1>8, <2>1, <2>3 DEF TypeOK, TurnInv, Claim
<1>9. ASSUME NEW m \in Msgs, Delegate(m) PROVE TypeOK' /\ TurnInv'
  <2>1. convOf[m] \in ConvIds
    BY <1>9 DEF Delegate, TurnInv
  <2>2. rows' \subseteq Entry /\ size' \in [ConvIds -> Nat] /\ convs' \subseteq ConvIds
    BY <1>9, <2>1, EntryType DEF Delegate, Kinds
  <2> QED
    BY <1>9, <2>1, <2>2 DEF TypeOK, TurnInv, Delegate
<1>10. ASSUME NEW m \in Msgs, DelegateFails(m) PROVE TypeOK' /\ TurnInv'
  <2>1. LastOf(history) \subseteq Entry
    BY DEF LastOf, TypeOK
  <2> QED
    BY <1>10, <2>1 DEF TypeOK, TurnInv, DelegateFails
<1>11. ASSUME NEW m \in Msgs, DelegateReturns(m) PROVE TypeOK' /\ TurnInv'
  <2>1. convOf[m] \in ConvIds
    BY <1>11 DEF DelegateReturns, TurnInv
  <2>3. rows' \subseteq Entry /\ size' \in [ConvIds -> Nat] /\ convs' \subseteq ConvIds
        /\ touched' = touched
    BY <1>11, <2>1, EntryType DEF DelegateReturns, TypeOK, Kinds
  <2> QED
    BY <1>11, <2>1, <2>3 DEF TypeOK, TurnInv, DelegateReturns
<1>12. ASSUME NEW m \in Msgs, Reply(m) PROVE TypeOK' /\ TurnInv'
  <2>1. convOf[m] \in ConvIds
    BY <1>12 DEF Reply, TurnInv
  <2>2. history' \subseteq Entry /\ last' \in Nat /\ disturbed' \subseteq Msgs
    BY <1>12, <2>1, EntryType DEF Reply, SendMessage, Kinds
  <2> QED
    BY <1>12, <2>1, <2>2 DEF TypeOK, TurnInv, Reply, SendMessage
<1>13. ASSUME NEW m \in Msgs, ReplyDelegates(m) PROVE TypeOK' /\ TurnInv'
  BY <1>13 DEF TypeOK, TurnInv, ReplyDelegates
<1>14. ASSUME NEW m \in Msgs, ReplyFails(m) PROVE TypeOK' /\ TurnInv'
  BY <1>14 DEF TypeOK, TurnInv, ReplyFails
<1>15. ASSUME NEW m \in Msgs, Answer(m) PROVE TypeOK' /\ TurnInv'
  BY <1>15 DEF TypeOK, TurnInv, Answer
<1>16. ASSUME NEW m \in Msgs, AnswerFails(m) PROVE TypeOK' /\ TurnInv'
  BY <1>16 DEF TypeOK, TurnInv, AnswerFails
<1>17. ASSUME NEW m \in Msgs, FinishStream(m) PROVE TypeOK' /\ TurnInv'
  <2>1. convOf[m] \in ConvIds
    BY <1>17 DEF FinishStream, TurnInv
  <2>3. SaveAssistant(m) => /\ history' \subseteq Entry /\ last' \in Nat
                            /\ rows' \subseteq Entry /\ size' \in [ConvIds -> Nat]
                            /\ convs' \subseteq ConvIds
                            /\ touched' \in [ConvIds -> Nat] /\ disturbed' \subseteq Msgs
    BY <2>1, EntryType, TouchType DEF SaveAssistant, TypeOK, Kinds
  <2> QED
    BY <1>17, <2>1, <2>3 DEF TypeOK, TurnInv, FinishStream
<1>18. ASSUME NEW m \in Msgs, Close(m) \/ CloseFails(m) PROVE TypeOK' /\ TurnInv'
  BY <1>18 DEF TypeOK, TurnInv, Close, CloseFails
<1>19. ASSUME NEW m \in Msgs, Expire(m) PROVE TypeOK' /\ TurnInv'
  BY <1>19 DEF TypeOK, TurnInv, Expire
<1>20. CASE LeaveWindow
  <2>1. \A c \in ConvIds : (IF touched[c] = 0 THEN 0 ELSE touched[c] - 1) \in Nat
    BY DEF TypeOK
  <2> QED
    BY <1>20, <2>1 DEF TypeOK, TurnInv, LeaveWindow
<1>21. CASE UNCHANGED vars
  BY <1>21 DEF TypeOK, TurnInv, vars
<1> QED
  BY <1>1, <1>2, <1>3, <1>4, <1>5, <1>6, <1>7, <1>8, <1>9, <1>10, <1>11, <1>12, <1>13,
     <1>14, <1>15, <1>16, <1>17, <1>18, <1>19, <1>20, <1>21 DEF Next, Step

(* The inductive invariant of the types and of the deduplication window.    *)
LEMMA WindowInductive == Spec => [](TypeOK /\ TurnInv /\ DedupWindow)
<1>1. Init => DedupWindow
  BY DEF Init, DedupWindow
<1> QED
  BY <1>1, InitType, TypeStep, WindowStep, PTL DEF Spec

(* Type correctness: in particular no turn ever runs more than MaxIterations *)
(* rounds of the tool loop.                                                  *)
THEOREM TypeCorrect == Spec => []TypeOK
  BY WindowInductive, PTL

(* An id is in the deduplication window exactly from the admission of its    *)
(* turn to the firing of its timer.                                          *)
THEOREM WindowCorrect == Spec => []DedupWindow
  BY WindowInductive, PTL

(* A retry never starts a second turn beside a running one: the check and   *)
(* the addition are one step, and the id stays in until the turn is over.   *)
THEOREM OneTurn == Spec => OneTurnPerId
<1>1. TypeOK /\ DedupWindow /\ [Next]_vars =>
        [\A m \in Msgs : pc'[m] = "admitted" /\ pc[m] # "admitted"
                         => pc[m] \in {"new", "done"} /\ m \notin timers]_vars
  <2> SUFFICES ASSUME TypeOK, DedupWindow, Next, NEW m \in Msgs,
                      pc'[m] = "admitted", pc[m] # "admitted"
               PROVE  pc[m] \in {"new", "done"} /\ m \notin timers
    BY DEF vars
  <2>1. Deliver(m) /\ m \notin processing
    <3>1. \A k \in Msgs : Deliver(k) => k = m /\ m \notin processing
      BY DEF Deliver, TypeOK
    <3>2. \A k \in Msgs : ~Step(k)
      BY DEF TypeOK, Step, Begin, BeginFails, Prepare, AskForTools, ToolsDone,
             DelegateToolDone, Claim, Delegate, DelegateFails, DelegateReturns, Reply,
             ReplyDelegates, ReplyFails, Answer, AnswerFails, FinishStream, Close,
             CloseFails, Expire
    <3>3. ~LeaveWindow
      BY DEF LeaveWindow
    <3> QED
      BY <3>1, <3>2, <3>3 DEF Next
  <2> QED
    BY <2>1 DEF DedupWindow, TypeOK
<1> QED
  BY <1>1, WindowInductive, PTL DEF OneTurnPerId, Spec

(* A message in delegatedMessages is past its delegation, and the count of  *)
(* hand-overs is zero before it.                                            *)
DelegationInv ==
  \A m \in Msgs :
    /\ delegations[m] \in {0, 1}
    /\ pc[m] \in {"new", "admitted", "refreshing", "llm", "tools", "claiming",
                  "generating", "delegating"} => delegations[m] = 0
    /\ m \notin processing => delegations[m] = 0
    /\ m \in delegated =>
         m \in processing /\ pc[m] \in {"delegating", "delegatedTo", "fallback", "closing",
                                        "done", "stuck"}

LEMMA DelegationStep ==
  TypeOK /\ DedupWindow /\ DelegationInv /\ [Next]_vars => DelegationInv'
<1> SUFFICES ASSUME TypeOK, DedupWindow, DelegationInv, [Next]_vars
             PROVE  DelegationInv'
  OBVIOUS
<1>1. ASSUME NEW m \in Msgs, Deliver(m) PROVE DelegationInv'
  BY <1>1 DEF TypeOK, DelegationInv, Deliver
<1>2. ASSUME NEW m \in Msgs, Begin(m) PROVE DelegationInv'
  <2>1. /\ pc[m] = "admitted" /\ UNCHANGED <<processing, delegations>>
        /\ \/ pc' = [pc EXCEPT ![m] = "delegating"] /\ delegated' = delegated \cup {m}
           \/ /\ \E p \in {"refreshing", "generating"} : pc' = [pc EXCEPT ![m] = p]
              /\ delegated' = delegated
    BY <1>2 DEF Begin
  <2>2. m \in processing
    BY <2>1 DEF DedupWindow
  <2> QED
    BY <2>1, <2>2 DEF TypeOK, DelegationInv
<1>3. ASSUME NEW m \in Msgs,
             BeginFails(m) \/ Prepare(m) \/ AskForTools(m) \/ ToolsDone(m)
             \/ DelegateToolDone(m) \/ ReplyDelegates(m)
      PROVE  DelegationInv'
  <2>1. /\ UNCHANGED <<processing, delegations, delegated>>
        /\ pc[m] \in {"admitted", "refreshing", "llm", "tools", "generating"}
        /\ \E p \in {"stuck", "llm", "tools", "citing", "claiming", "delegating"} :
             pc' = [pc EXCEPT ![m] = p]
    BY <1>3 DEF BeginFails, Prepare, AskForTools, ToolsDone, DelegateToolDone,
                ReplyDelegates
  <2> QED
    BY <2>1 DEF TypeOK, DelegationInv
<1>4. ASSUME NEW m \in Msgs, Claim(m) PROVE DelegationInv'
  <2>1. /\ UNCHANGED <<processing, delegations>> /\ pc[m] = "claiming"
        /\ m \notin delegated => /\ pc' = [pc EXCEPT ![m] = "delegating"]
                                 /\ delegated' = delegated \cup {m}
    BY <1>4 DEF Claim
  <2>2. m \in processing /\ m \notin delegated
    BY <2>1 DEF DedupWindow, DelegationInv
  <2> QED
    BY <2>1, <2>2 DEF TypeOK, DelegationInv
<1>5. ASSUME NEW m \in Msgs, Delegate(m) PROVE DelegationInv'
  <2>1. m \in processing
    BY <1>5 DEF Delegate, DedupWindow
  <2> QED
    BY <1>5, <2>1 DEF TypeOK, DelegationInv, Delegate
<1>6. ASSUME NEW m \in Msgs,
             \/ DelegateFails(m) \/ DelegateReturns(m) \/ Reply(m) \/ ReplyFails(m)
             \/ Answer(m) \/ AnswerFails(m) \/ FinishStream(m)
      PROVE  DelegationInv'
  <2>1. /\ UNCHANGED <<processing, delegations, delegated>>
        /\ \/ pc[m] = "llm" /\ pc' = [pc EXCEPT ![m] = "citing"]
           \/ pc[m] \in Active /\ pc' = [pc EXCEPT ![m] = "closing"]
           \/ /\ pc[m] \in {"delegating", "delegatedTo"}
              /\ pc' = [pc EXCEPT ![m] = "fallback"]
    BY <1>6 DEF DelegateFails, DelegateReturns, Reply, ReplyFails, Answer, AnswerFails,
                FinishStream
  <2> QED
    BY <2>1 DEF TypeOK, DelegationInv
<1>7. ASSUME NEW m \in Msgs, Close(m) \/ CloseFails(m) PROVE DelegationInv'
  BY <1>7 DEF TypeOK, DelegationInv, Close, CloseFails
<1>8. ASSUME NEW m \in Msgs, Expire(m) PROVE DelegationInv'
  BY <1>8 DEF TypeOK, DelegationInv, Expire
<1>9. CASE LeaveWindow
  BY <1>9 DEF DelegationInv, LeaveWindow
<1>10. CASE UNCHANGED vars
  BY <1>10 DEF DelegationInv, vars
<1> QED
  BY <1>1, <1>2, <1>3, <1>4, <1>5, <1>6, <1>7, <1>8, <1>9, <1>10 DEF Next, Step

LEMMA DelegationInductive == Spec => []DelegationInv
<1>1. Init => DelegationInv
  BY DEF Init, DelegationInv
<1> QED
  BY <1>1, WindowInductive, DelegationStep, PTL DEF Spec

(* However a message is delegated and however often it is retried, it is    *)
(* handed to a sub-agent at most once before its id is released.            *)
THEOREM DelegationOnce == Spec => []DelegatedOnce
<1>1. DelegationInv => DelegatedOnce
  BY DEF DelegationInv, DelegatedOnce
<1> QED
  BY <1>1, DelegationInductive, PTL

(* The refusal in the second critical section is unreachable.               *)
THEOREM ClaimAlwaysGranted == Spec => []ClaimNeverRefused
<1>1. DelegationInv => ClaimNeverRefused
  BY DEF DelegationInv, ClaimNeverRefused
<1> QED
  BY <1>1, DelegationInductive, PTL

-----------------------------------------------------------------------------
(* The paths out of a turn.                                                 *)

LEMMA ClosingStep ==
  TypeOK /\ DedupWindow /\ TracesAndStreamsClose /\ [Next]_vars => TracesAndStreamsClose'
<1> SUFFICES ASSUME TypeOK, DedupWindow, TracesAndStreamsClose, [Next]_vars
             PROVE  TracesAndStreamsClose'
  OBVIOUS
<1>1. ASSUME NEW m \in Msgs, Deliver(m) PROVE TracesAndStreamsClose'
  BY <1>1 DEF TypeOK, DedupWindow, TracesAndStreamsClose, Deliver
<1>2. ASSUME NEW m \in Msgs, Begin(m) PROVE TracesAndStreamsClose'
  <2>1. /\ trace' = [trace EXCEPT ![m] = "running"]
        /\ stream' = [stream EXCEPT ![m] = "none"]
        /\ \E p \in {"delegating", "refreshing", "generating"} : pc' = [pc EXCEPT ![m] = p]
    BY <1>2 DEF Begin
  <2> QED
    BY <2>1 DEF TypeOK, TracesAndStreamsClose
<1>3. ASSUME NEW m \in Msgs,
             AskForTools(m) \/ ToolsDone(m) \/ DelegateToolDone(m)
             \/ ReplyDelegates(m) \/ Answer(m)
      PROVE  TracesAndStreamsClose'
  <2>1. /\ UNCHANGED <<trace, stream>>
        /\ \/ /\ pc[m] \in {"llm", "tools"}
              /\ \E p \in {"llm", "tools", "claiming", "citing"} : pc' = [pc EXCEPT ![m] = p]
           \/ pc[m] = "generating" /\ pc' = [pc EXCEPT ![m] = "delegating"]
    BY <1>3 DEF AskForTools, ToolsDone, DelegateToolDone, ReplyDelegates, Answer
  <2> QED
    BY <2>1 DEF TypeOK, TracesAndStreamsClose
<1>4. ASSUME NEW m \in Msgs, Prepare(m) PROVE TracesAndStreamsClose'
  BY <1>4 DEF TypeOK, TracesAndStreamsClose, Prepare
<1>5. ASSUME NEW m \in Msgs, Claim(m) \/ AnswerFails(m) \/ FinishStream(m)
      PROVE  TracesAndStreamsClose'
  <2>1. /\ UNCHANGED trace /\ stream' = [stream EXCEPT ![m] = "closed"]
        /\ \E p \in {"closing", "delegating"} : pc' = [pc EXCEPT ![m] = p]
    BY <1>5 DEF Claim, AnswerFails, FinishStream
  <2> QED
    BY <2>1 DEF TypeOK, TracesAndStreamsClose
<1>6. ASSUME NEW m \in Msgs,
             Delegate(m) \/ DelegateFails(m) \/ DelegateReturns(m) \/ Reply(m)
      PROVE  TracesAndStreamsClose'
  <2>1. /\ UNCHANGED <<trace, stream>>
        /\ pc[m] \in {"delegating", "delegatedTo", "fallback", "generating"}
        /\ \E p \in {"delegatedTo", "fallback", "closing"} : pc' = [pc EXCEPT ![m] = p]
    BY <1>6 DEF Delegate, DelegateFails, DelegateReturns, Reply
  <2> QED
    BY <2>1 DEF TypeOK, TracesAndStreamsClose
<1>7. ASSUME NEW m \in Msgs, ReplyFails(m) PROVE TracesAndStreamsClose'
  BY <1>7 DEF TypeOK, TracesAndStreamsClose, ReplyFails
<1>8. ASSUME NEW m \in Msgs, Close(m) PROVE TracesAndStreamsClose'
  BY <1>8 DEF TypeOK, TracesAndStreamsClose, Close
<1>12. ASSUME NEW m \in Msgs, BeginFails(m) \/ CloseFails(m) PROVE TracesAndStreamsClose'
  <2>1. /\ pc[m] \in {"admitted", "closing"} /\ pc' = [pc EXCEPT ![m] = "stuck"]
        /\ UNCHANGED stream
        /\ UNCHANGED trace \/ \E t \in {"running", "ended"} : trace' = [trace EXCEPT ![m] = t]
    BY <1>12 DEF BeginFails, CloseFails
  <2> QED
    BY <2>1 DEF TypeOK, TracesAndStreamsClose
<1>9. ASSUME NEW m \in Msgs, Expire(m) PROVE TracesAndStreamsClose'
  BY <1>9 DEF TracesAndStreamsClose, Expire
<1>10. CASE LeaveWindow
  BY <1>10 DEF TracesAndStreamsClose, LeaveWindow
<1>11. CASE UNCHANGED vars
  BY <1>11 DEF TracesAndStreamsClose, vars
<1> QED
  BY <1>1, <1>2, <1>3, <1>4, <1>5, <1>6, <1>7, <1>8, <1>9, <1>10, <1>11, <1>12
  DEF Next, Step

(* Whatever throws in a turn, and wherever, its stream is closed before      *)
(* handleMessage is left, and its trace is ended unless writing it threw.    *)
THEOREM ClosingCorrect == Spec => []TracesAndStreamsClose
<1>1. Init => TracesAndStreamsClose
  BY DEF Init, TracesAndStreamsClose
<1> QED
  BY <1>1, WindowInductive, ClosingStep, PTL DEF Spec

-----------------------------------------------------------------------------
(* What the turns leave in the database.                                    *)

(* Rows are numbered up to the size of their conversation, and a turn under *)
(* way answers where what is stored for its message belongs.                *)
RowsInv ==
  /\ \A r \in rows : r.n <= size[r.conv]
  /\ \A m \in Msgs : pc[m] \in Active \ {"admitted"} => Belongs(m, convOf[m])
  /\ RepliesBesideTheirMessage

(* What belongs to a conversation still does when rows are added.           *)
LEMMA BelongsStays ==
  ASSUME NEW m, NEW c, Belongs(m, c), rows \subseteq rows', UNCHANGED shape
  PROVE  Belongs(m, c)'
  BY DEF Belongs, InitialConversation

(* A row that a turn adds where it answers keeps the rows numbered and      *)
(* where they belong.                                                       *)
LEMMA InsertKeepsRows ==
  ASSUME TypeOK, RowsInv, NEW m \in Msgs, pc[m] \in Active \ {"admitted"},
         convOf[m] \in ConvIds, NEW by \in Kinds, InsertRow(m, by),
         UNCHANGED <<convOf, shape>>, NEW p \in Places, pc' = [pc EXCEPT ![m] = p]
  PROVE  RowsInv'
<1> DEFINE row == [n |-> size[convOf[m]] + 1, conv |-> convOf[m], msg |-> m, by |-> by]
<1>1. \/ rows' = rows \cup {row} /\ size' = [size EXCEPT ![convOf[m]] = row.n]
      \/ UNCHANGED <<rows, size>>
  BY DEF InsertRow
<1>2. \A r \in rows : r.n \in Nat /\ r.conv \in ConvIds /\ r.msg \in Msgs /\ size[r.conv] \in Nat
  BY DEF TypeOK, Entry
<1>3. (\A r \in rows : r.n <= size[r.conv])'
  BY <1>1, <1>2 DEF RowsInv, TypeOK
<1>4. rows \subseteq rows' /\ \A r \in rows' \ rows : r.msg = m /\ r.conv = convOf[m]
  BY <1>1
<1>5. (\A k \in Msgs : pc[k] \in Active \ {"admitted"} => Belongs(k, convOf[k]))'
  <2> SUFFICES ASSUME NEW k \in Msgs, pc'[k] \in Active \ {"admitted"}
               PROVE  Belongs(k, convOf[k])'
    OBVIOUS
  <2>1. Belongs(k, convOf[k])
    BY DEF RowsInv, TypeOK
  <2> QED
    BY <1>4, <2>1, BelongsStays
<1>6. RepliesBesideTheirMessage'
  <2> SUFFICES ASSUME NEW r \in rows' PROVE Belongs(r.msg, r.conv)'
    BY DEF RepliesBesideTheirMessage
  <2>1. Belongs(m, convOf[m])
    BY DEF RowsInv
  <2>2. Belongs(r.msg, r.conv)
    BY <1>4, <2>1 DEF RowsInv, RepliesBesideTheirMessage
  <2> QED
    BY <1>4, <2>2, BelongsStays
<1> QED
  BY <1>3, <1>5, <1>6 DEF RowsInv

(* So does a step of a turn that adds none and, unless it is the last of    *)
(* the turn, leaves its conversation alone.                                  *)
LEMMA NoRowKeepsRows ==
  ASSUME TypeOK, RowsInv, UNCHANGED <<rows, size, shape>>, NEW m \in Msgs, NEW p \in Places,
         pc' = [pc EXCEPT ![m] = p],
         p \in Active \ {"admitted"} => pc[m] \in Active \ {"admitted"} /\ convOf' = convOf,
         \A k \in Msgs \ {m} : convOf'[k] = convOf[k]
  PROVE  RowsInv'
<1>1. (\A k \in Msgs : pc[k] \in Active \ {"admitted"} => Belongs(k, convOf[k]))'
  BY DEF RowsInv, TypeOK, Belongs, InitialConversation
<1> QED
  BY <1>1 DEF RowsInv, RepliesBesideTheirMessage, Belongs, InitialConversation

(* The arrival of a message keeps the rows, too, and the message is from    *)
(* then on answered where it belongs.                                        *)
LEMMA ArriveKeepsRows ==
  ASSUME TypeOK, RowsInv, NEW m \in Msgs, NEW c \in ConvIds, Arrive(m, c), UNCHANGED shape,
         NEW p \in Places, pc' = [pc EXCEPT ![m] = p],
         p \in Active \ {"admitted"} => convOf'[m] = c,
         \A k \in Msgs \ {m} : convOf'[k] = convOf[k]
  PROVE  RowsInv'
<1>1. PICK e \in Entry : e.conv = c /\ ArriveDoes(m, e)
  BY ArriveEffect
<1>2. rows \subseteq rows' /\ \A r \in rows' \ rows : r = e
  BY <1>1 DEF ArriveDoes
<1>3. (\A r \in rows : r.n <= size[r.conv])'
  <2>1. \A r \in rows : r.n \in Nat /\ r.conv \in ConvIds /\ size[r.conv] \in Nat
    BY DEF TypeOK, Entry
  <2>2. e.conv \in ConvIds /\ e.n \in Nat
    BY DEF Entry
  <2>3. CASE UNCHANGED <<rows, size>>
    BY <2>3 DEF RowsInv
  <2>4. CASE rows' = rows \cup {e} /\ size' = [size EXCEPT ![e.conv] = e.n]
    BY <1>1, <2>1, <2>2, <2>4 DEF ArriveDoes, RowsInv, TypeOK
  <2> QED
    BY <1>1, <2>3, <2>4 DEF ArriveDoes
<1>4. Belongs(m, c)'
  BY <1>1 DEF ArriveDoes, Belongs, MessageKinds, InitialConversation
<1>5. (\A k \in Msgs : pc[k] \in Active \ {"admitted"} => Belongs(k, convOf[k]))'
  <2> SUFFICES ASSUME NEW k \in Msgs, pc'[k] \in Active \ {"admitted"}
               PROVE  Belongs(k, convOf[k])'
    OBVIOUS
  <2>1. CASE k = m
    <3>1. convOf'[k] = c
      BY <2>1 DEF TypeOK
    <3> QED
      BY <1>4, <2>1, <3>1 DEF Belongs, InitialConversation
  <2>2. CASE k # m
    <3>1. Belongs(k, convOf[k])
      BY <2>2 DEF RowsInv, TypeOK
    <3>2. Belongs(k, convOf[k])' \/ convOf'[k] # convOf[k]
      BY <1>2, <3>1, BelongsStays DEF Belongs, InitialConversation
    <3> QED
      BY <2>2, <3>2
  <2> QED
    BY <2>1, <2>2
<1>6. RepliesBesideTheirMessage'
  <2> SUFFICES ASSUME NEW r \in rows' PROVE Belongs(r.msg, r.conv)'
    BY DEF RepliesBesideTheirMessage
  <2>1. CASE r \in rows
    <3>1. Belongs(r.msg, r.conv)
      BY <2>1 DEF RowsInv, RepliesBesideTheirMessage
    <3> QED
      BY <1>2, <3>1, BelongsStays
  <2>2. CASE r \notin rows
    <3>1. r.msg = m /\ r.conv = c
      BY <1>1, <1>2, <2>2 DEF ArriveDoes
    <3> QED
      BY <1>4, <3>1
  <2> QED
    BY <2>1, <2>2
<1> QED
  BY <1>3, <1>5, <1>6 DEF RowsInv

LEMMA RowsStep ==
  TypeOK /\ TurnInv /\ RowsInv /\ [Next]_vars => RowsInv'
<1> SUFFICES ASSUME TypeOK, TurnInv, RowsInv, [Next]_vars
             PROVE  RowsInv'
  OBVIOUS
<1>1. ASSUME NEW m \in Msgs, Deliver(m) PROVE RowsInv'
  <2>1. /\ UNCHANGED <<rows, size, shape, convOf>>
        /\ \A k \in Msgs : pc'[k] = pc[k] \/ pc'[k] = "admitted"
    BY <1>1 DEF Deliver, TypeOK
  <2> QED
    BY <2>1 DEF RowsInv, RepliesBesideTheirMessage, Belongs, InitialConversation
<1>2. ASSUME NEW m \in Msgs, Begin(m) PROVE RowsInv'
  <2>1. PICK c \in ConvIds : Arrive(m, c) /\ convOf' = [convOf EXCEPT ![m] = c]
    BY <1>2 DEF Begin
  <2>2. PICK p \in {"delegating", "refreshing", "generating"} : pc' = [pc EXCEPT ![m] = p]
    BY <1>2 DEF Begin
  <2>3. UNCHANGED shape /\ convOf'[m] = c /\ \A k \in Msgs \ {m} : convOf'[k] = convOf[k]
    BY <1>2, <2>1 DEF Begin, TypeOK
  <2> QED
    BY <2>1, <2>2, <2>3, ArriveKeepsRows
<1>9. ASSUME NEW m \in Msgs, BeginFails(m) PROVE RowsInv'
  <2>1. UNCHANGED <<shape, convOf>> /\ pc' = [pc EXCEPT ![m] = "stuck"]
    BY <1>9 DEF BeginFails
  <2>2. CASE UNCHANGED <<rows, size>>
    BY <2>1, <2>2, NoRowKeepsRows
  <2>3. CASE \E c \in ConvIds : Arrive(m, c)
    BY <2>1, <2>3, ArriveKeepsRows
  <2> QED
    BY <1>9, <2>2, <2>3 DEF BeginFails
<1>3. ASSUME NEW m \in Msgs,
             \/ Prepare(m) \/ AskForTools(m) \/ DelegateFails(m)
             \/ Reply(m) \/ ReplyDelegates(m) \/ ReplyFails(m) \/ Answer(m)
             \/ AnswerFails(m)
      PROVE  RowsInv'
  <2>1. /\ UNCHANGED <<rows, size, shape, convOf>>
        /\ pc[m] \in Active \ {"admitted"}
        /\ \E p \in Active : pc' = [pc EXCEPT ![m] = p]
    BY <1>3 DEF Prepare, AskForTools, DelegateFails, Reply, SendMessage,
                ReplyDelegates, ReplyFails, Answer, AnswerFails
  <2> QED
    BY <2>1, NoRowKeepsRows
<1>4. ASSUME NEW m \in Msgs,
             \/ ToolsDone(m) \/ DelegateToolDone(m) \/ Claim(m) \/ Delegate(m)
             \/ DelegateReturns(m) \/ FinishStream(m)
      PROVE  RowsInv'
  <2>1. /\ UNCHANGED <<shape, convOf>>
        /\ pc[m] \in Active \ {"admitted"}
        /\ \E p \in Active : pc' = [pc EXCEPT ![m] = p]
        /\ \/ \E by \in {"tool", "delegation", "assistant"} : InsertRow(m, by)
           \/ UNCHANGED <<rows, size>>
    BY <1>4 DEF ToolsDone, DelegateToolDone, Claim, Delegate, DelegateReturns, FinishStream,
                SaveAssistant
  <2>2. PICK p \in Active : pc' = [pc EXCEPT ![m] = p]
    BY <2>1
  <2>3. convOf[m] \in ConvIds
    BY <2>1 DEF TurnInv
  <2>4. ASSUME NEW by \in {"tool", "delegation", "assistant"}, InsertRow(m, by)
        PROVE  RowsInv'
    <3>1. by \in Kinds
      BY DEF Kinds
    <3> QED
      BY <2>1, <2>2, <2>3, <2>4, <3>1, InsertKeepsRows
  <2>5. CASE UNCHANGED <<rows, size>>
    BY <2>1, <2>2, <2>5, NoRowKeepsRows
  <2> QED
    BY <2>1, <2>4, <2>5
<1>5. ASSUME NEW m \in Msgs, Close(m) \/ CloseFails(m) PROVE RowsInv'
  <2>1. /\ UNCHANGED <<rows, size, shape>>
        /\ \E p \in {"done", "stuck"} : pc' = [pc EXCEPT ![m] = p]
        /\ \A k \in Msgs \ {m} : convOf'[k] = convOf[k]
    BY <1>5 DEF Close, CloseFails, TypeOK
  <2> QED
    BY <2>1, NoRowKeepsRows
<1>6. ASSUME NEW m \in Msgs, Expire(m) PROVE RowsInv'
  BY <1>6 DEF Expire, RowsInv, RepliesBesideTheirMessage, Belongs, InitialConversation
<1>7. CASE LeaveWindow
  BY <1>7 DEF LeaveWindow, RowsInv, RepliesBesideTheirMessage, Belongs, InitialConversation
<1>8. CASE UNCHANGED vars
  BY <1>8 DEF vars, RowsInv, RepliesBesideTheirMessage, Belongs, InitialConversation
<1> QED
  BY <1>1, <1>2, <1>3, <1>4, <1>5, <1>6, <1>7, <1>8, <1>9 DEF Next, Step

LEMMA RowsInductive == Spec => []RowsInv
<1>1. Init => RowsInv
  BY DEF Init, RowsInv, RepliesBesideTheirMessage
<1> QED
  BY <1>1, WindowInductive, RowsStep, PTL DEF Spec

(* However turns interleave, whatever the database refuses to save, and     *)
(* however the recent conversation changes under them, everything stored for *)
(* a message is where it belongs.                                            *)
THEOREM RepliesCorrect == Spec => []RepliesBesideTheirMessage
<1>1. RowsInv => RepliesBesideTheirMessage
  BY DEF RowsInv
<1> QED
  BY <1>1, RowsInductive, PTL

-----------------------------------------------------------------------------
(* What the turns send to the LLM.                                          *)

(* The message m, as an entry e of a history, is its last entry.            *)
EndsWith(h, m, e) ==
  e.msg = m /\ e.by \in MessageKinds /\ \A f \in h : f # e => f.n < e.n

(* A history that a turn may be given: it ends with the turn's own message, *)
(* and everything before it is of the same conversation; a scheduled task    *)
(* has nothing before it.                                                    *)
OwnHistory(m) ==
  /\ \E e \in history : EndsWith(history, m, e)
  /\ \A e \in history : e.conv = convOf[m] /\ (shape[m].task => e.msg = m)

(* Cutting such a history to the limit leaves the turn's own message in it. *)
LEMMA CutHistory ==
  ASSUME NEW m \in Msgs, NEW h \in SUBSET Entry, NEW e \in h, EndsWith(h, m, e)
  PROVE  e \in LastOf(h) /\ LastOf(h) \subseteq h
<1>1. \A f \in h : f.n \in Nat
  BY DEF Entry
<1>2. {f \in h : f.n >= e.n} = {e}
  BY <1>1 DEF EndsWith
<1>3. Cardinality({f \in h : f.n >= e.n}) = 1
  BY <1>2, FS_Singleton
<1>4. 1 <= HistoryLimit
  BY BoundsAssumption
<1> QED
  BY <1>3, <1>4 DEF LastOf

(* A turn that nobody disturbed holds the shared history while it waits, and *)
(* has sent a prompt of its own afterwards.                                  *)
PromptInv ==
  /\ \A m \in Msgs \ disturbed : pc[m] = "refreshing" => OwnHistory(m)
  /\ UndisturbedPrompt

Prompted == {"llm", "tools", "claiming", "citing", "generating"}

(* What a turn has is not touched by a step that leaves its place, its       *)
(* locals and, while it waits, the shared field alone.                       *)
LEMMA OthersPrompt ==
  ASSUME PromptInv, NEW k \in Msgs \ disturbed, UNCHANGED shape,
         pc'[k] = pc[k], prompt'[k] = prompt[k], convOf'[k] = convOf[k],
         pc[k] = "refreshing" => history' = history
  PROVE  /\ pc'[k] = "refreshing" => OwnHistory(k)'
         /\ pc'[k] \in Prompted => OwnPrompt(k)'
<1>1. pc[k] = "refreshing" => OwnHistory(k)
  BY DEF PromptInv
<1>2. pc[k] \in Prompted => OwnPrompt(k)
  BY DEF PromptInv, UndisturbedPrompt, Prompted
<1> QED
  BY <1>1, <1>2 DEF OwnHistory, OwnPrompt

(* The message that begins a turn comes after the rows that are loaded.     *)
LEMMA BeginHistory ==
  ASSUME TypeOK, RowsInv, NEW m \in Msgs, Begin(m)
  PROVE  OwnHistory(m)' /\ history' \in SUBSET Entry
<1>0. PICK c \in ConvIds : Arrive(m, c) /\ convOf' = [convOf EXCEPT ![m] = c]
  BY DEF Begin
<1>1. PICK e \in Entry : e.conv = c /\ ArriveDoes(m, e)
  BY <1>0, ArriveEffect
<1> DEFINE c0 == InitialConversation(m)
           loaded == IF shape[m].task \/ c0 = NoConv THEN {} ELSE LoadConversationHistory(c0)
<1>2. /\ history' = {e} \cup loaded
      /\ convOf'[m] = e.conv /\ UNCHANGED shape
      /\ e.msg = m /\ e.by \in MessageKinds
  BY <1>0, <1>1 DEF ArriveDoes, Begin, TypeOK
<1>3. \A r \in loaded : r \in rows /\ r.conv = c0 /\ c0 # NoConv /\ ~shape[m].task
  BY DEF LoadConversationHistory, Oldest
<1>4. loaded \subseteq Entry
  BY <1>3 DEF TypeOK
<1>5. \A r \in loaded : r.conv = e.conv /\ r.n < e.n
  <2> SUFFICES ASSUME NEW r \in loaded PROVE r.conv = e.conv /\ r.n < e.n
    OBVIOUS
  <2>1. r.conv = e.conv /\ r.n <= size[r.conv]
    BY <1>1, <1>3 DEF ArriveDoes, RowsInv
  <2>2. e.n = size[e.conv] + 1 /\ size[e.conv] \in Nat /\ r.n \in Nat
    BY <1>1, <1>4 DEF ArriveDoes, TypeOK, Entry
  <2> QED
    BY <2>1, <2>2
<1> QED
  BY <1>2, <1>3, <1>4, <1>5 DEF OwnHistory, EndsWith

LEMMA PromptStep ==
  TypeOK /\ RowsInv /\ PromptInv /\ [Next]_vars => PromptInv'
<1> SUFFICES ASSUME TypeOK, RowsInv, PromptInv, [Next]_vars, NEW k \in Msgs, k \notin disturbed'
             PROVE  /\ pc'[k] = "refreshing" => OwnHistory(k)'
                    /\ pc'[k] \in Prompted => OwnPrompt(k)'
  BY DEF PromptInv, UndisturbedPrompt, Prompted
<1> DEFINE Goal == /\ pc'[k] = "refreshing" => OwnHistory(k)'
                   /\ pc'[k] \in Prompted => OwnPrompt(k)'
<1>1. ASSUME NEW m \in Msgs, Deliver(m) PROVE Goal
  <2>1. CASE pc'[k] = "admitted"
    BY <2>1 DEF Prompted
  <2>2. CASE pc'[k] # "admitted"
    <3>1. pc'[k] = pc[k] /\ UNCHANGED <<shape, prompt, convOf, history, disturbed>>
      BY <1>1, <2>2 DEF Deliver, TypeOK
    <3> QED
      BY <3>1, OthersPrompt
  <2> QED
    BY <2>1, <2>2
<1>2. ASSUME NEW m \in Msgs, Begin(m) PROVE Goal
  <2>1. CASE k = m
    <3>1. OwnHistory(m)' /\ history' \in SUBSET Entry
      BY <1>2, BeginHistory
    <3>2. pc'[m] \in {"delegating", "refreshing"} \/ prompt'[m] = LastOf(history')
      BY <1>2 DEF Begin, TypeOK
    <3>3. prompt'[m] = LastOf(history') => OwnPrompt(m)'
      <4>1. PICK e \in history' : EndsWith(history', m, e)
        BY <3>1 DEF OwnHistory
      <4>2. e \in LastOf(history') /\ LastOf(history') \subseteq history'
        BY <3>1, <4>1, CutHistory
      <4> QED
        BY <3>1, <4>1, <4>2 DEF OwnHistory, OwnPrompt, EndsWith, MessageKinds
    <3> QED
      BY <2>1, <3>1, <3>2, <3>3 DEF Prompted
  <2>2. CASE k # m
    <3>1. /\ pc'[k] = pc[k] /\ prompt'[k] = prompt[k] /\ UNCHANGED shape
          /\ k \notin disturbed /\ pc[k] # "refreshing"
      BY <1>2, <2>2 DEF Begin, Arrive, TypeOK, Turns
    <3>2. convOf'[k] = convOf[k]
      BY <1>2, <2>2 DEF Begin, TypeOK
    <3> QED
      BY <3>1, <3>2, OthersPrompt
  <2> QED
    BY <2>1, <2>2
<1>3. ASSUME NEW m \in Msgs, Prepare(m) PROVE Goal
  <2>1. CASE k = m
    <3>1. k \in Msgs \ disturbed /\ pc[k] = "refreshing"
      BY <1>3, <2>1 DEF Prepare
    <3>2. OwnHistory(k)
      BY <3>1 DEF PromptInv
    <3>3. PICK e \in history : EndsWith(history, k, e)
      BY <3>2 DEF OwnHistory
    <3>4. e \in LastOf(history) /\ LastOf(history) \subseteq history
      BY <3>3, CutHistory DEF TypeOK
    <3>5. pc'[k] = "llm" /\ prompt'[k] = LastOf(history) /\ UNCHANGED <<convOf, shape>>
      BY <1>3, <2>1 DEF Prepare, TypeOK
    <3>6. OwnPrompt(k)'
      BY <3>2, <3>3, <3>4, <3>5 DEF OwnHistory, OwnPrompt, EndsWith, MessageKinds
    <3> QED
      BY <3>5, <3>6
  <2>2. CASE k # m
    <3>1. /\ pc'[k] = pc[k] /\ prompt'[k] = prompt[k]
          /\ UNCHANGED <<shape, convOf, history, disturbed>>
      BY <1>3, <2>2 DEF Prepare, TypeOK
    <3> QED
      BY <3>1, OthersPrompt
  <2> QED
    BY <2>1, <2>2
<1>4. ASSUME NEW m \in Msgs,
             DelegateFails(m) \/ DelegateReturns(m) \/ ReplyDelegates(m)
             \/ ReplyFails(m) \/ AnswerFails(m) \/ Delegate(m)
      PROVE  Goal
  <2>1. /\ UNCHANGED <<shape, convOf, history, disturbed>>
        /\ \A j \in Msgs \ {m} : pc'[j] = pc[j] /\ prompt'[j] = prompt[j]
        /\ pc'[m] \in {"fallback", "closing", "delegating", "delegatedTo"}
    BY <1>4 DEF DelegateFails, DelegateReturns, ReplyDelegates, ReplyFails,
                AnswerFails, Delegate, TypeOK
  <2>2. CASE k = m
    BY <2>1, <2>2 DEF Prompted
  <2>3. CASE k # m
    BY <2>1, <2>3, OthersPrompt
  <2> QED
    BY <2>2, <2>3
<1>5. ASSUME NEW m \in Msgs, AskForTools(m) \/ ToolsDone(m) \/ DelegateToolDone(m) \/ Answer(m)
      PROVE  Goal
  <2>1. /\ UNCHANGED <<shape, convOf, history, disturbed, prompt>>
        /\ \A j \in Msgs \ {m} : pc'[j] = pc[j]
        /\ pc[m] \in Prompted /\ pc'[m] \in Prompted /\ pc'[m] # "refreshing"
    BY <1>5 DEF AskForTools, ToolsDone, DelegateToolDone, Answer, Prompted, TypeOK
  <2>2. CASE k = m
    <3>1. OwnPrompt(k)
      BY <2>1, <2>2 DEF PromptInv, UndisturbedPrompt, Prompted
    <3> QED
      BY <2>1, <2>2, <3>1 DEF OwnPrompt
  <2>3. CASE k # m
    BY <2>1, <2>3, OthersPrompt
  <2> QED
    BY <2>2, <2>3
<1>6. ASSUME NEW m \in Msgs, Claim(m) \/ Reply(m) \/ FinishStream(m) PROVE Goal
  <2>1. /\ UNCHANGED <<shape, convOf, prompt>>
        /\ \A j \in Msgs \ {m} : pc'[j] = pc[j]
        /\ pc'[m] \in {"closing", "delegating"}
        /\ \/ disturbed' = disturbed \cup (Turns({"refreshing"}) \ {m})
           \/ UNCHANGED <<history, disturbed>>
    BY <1>6 DEF Claim, Reply, FinishStream, SaveAssistant, SendMessage, PushAnswer, TypeOK
  <2>2. CASE k = m
    BY <2>1, <2>2 DEF Prompted
  <2>3. CASE k # m
    <3>1. k \in Msgs \ disturbed /\ (pc[k] = "refreshing" => history' = history)
      BY <2>1, <2>3 DEF Turns
    <3> QED
      BY <2>1, <2>3, <3>1, OthersPrompt
  <2> QED
    BY <2>2, <2>3
<1>11. ASSUME NEW m \in Msgs, BeginFails(m) PROVE Goal
  <2>1. /\ UNCHANGED <<shape, convOf, prompt>> /\ pc'[m] = "stuck"
        /\ \A j \in Msgs \ {m} : pc'[j] = pc[j]
        /\ \/ disturbed' = (disturbed \ {m}) \cup (Turns({"refreshing"}) \ {m})
           \/ UNCHANGED <<history, disturbed>>
    BY <1>11 DEF BeginFails, Arrive, TypeOK
  <2>2. CASE k = m
    BY <2>1, <2>2 DEF Prompted
  <2>3. CASE k # m
    <3>1. k \in Msgs \ disturbed /\ (pc[k] = "refreshing" => history' = history)
      BY <2>1, <2>3 DEF Turns
    <3> QED
      BY <2>1, <2>3, <3>1, OthersPrompt
  <2> QED
    BY <2>2, <2>3
<1>7. ASSUME NEW m \in Msgs, Close(m) \/ CloseFails(m) PROVE Goal
  <2>1. /\ UNCHANGED <<shape, history>> /\ pc'[m] \in {"done", "stuck"}
        /\ disturbed' = disturbed \ {m}
        /\ \A j \in Msgs \ {m} :
             pc'[j] = pc[j] /\ prompt'[j] = prompt[j] /\ convOf'[j] = convOf[j]
    BY <1>7 DEF Close, CloseFails, TypeOK
  <2>2. CASE k = m
    BY <2>1, <2>2 DEF Prompted
  <2>3. CASE k # m
    BY <2>1, <2>3, OthersPrompt
  <2> QED
    BY <2>2, <2>3
<1>8. ASSUME NEW m \in Msgs, Expire(m) PROVE Goal
  BY <1>8, OthersPrompt DEF Expire
<1>9. CASE LeaveWindow
  BY <1>9, OthersPrompt DEF LeaveWindow
<1>10. CASE UNCHANGED vars
  BY <1>10, OthersPrompt DEF vars
<1> QED
  BY <1>1, <1>2, <1>3, <1>4, <1>5, <1>6, <1>7, <1>8, <1>9, <1>10, <1>11 DEF Next, Step

(* The history field is shared by all turns, yet a turn whose field no other *)
(* turn wrote while it waited for the RAG cache sends the LLM its own        *)
(* message and, before it, messages of its own conversation only.            *)
THEOREM PromptCorrect == Spec => []UndisturbedPrompt
<1>1. Init => PromptInv
  BY DEF Init, PromptInv, UndisturbedPrompt
<1>2. PromptInv => UndisturbedPrompt
  BY DEF PromptInv
<1> QED
  BY <1>1, <1>2, WindowInductive, RowsInductive, PromptStep, PTL DEF Spec

=============================================================================
