--------------------------- MODULE Indexes_proofs ---------------------------
(* Proofs about the two indexes: MessageIndex, for any messages,              *)
(* conversations, strategies, batch size, failures and restarts, and, in the  *)
(* second part, RagIndex, for any documents, edits, runs and restarts.        *)
EXTENDS MessageIndex, RagIndex, TLAPS

(* The watermark is that of a message; the one in the database is not after it. *)
MarkInv ==
    /\ mark.id # 0 => time[mark.id] # 0
    /\ stored.id # 0 => time[stored.id] # 0
    /\ stored.at < mark.at \/ (stored.at = mark.at /\ stored.id <= mark.id)

(* A run has the first messages after the watermark in hand, and those it has  *)
(* done with are found by the strategies it has done.                          *)
BatchInv ==
    /\ \A b \in batch : After(b, mark) /\ time[b] # 0
    /\ \A n \in rows \ (batch \cup late) :
          ConvOf[n] \notin deleted /\ After(n, mark) => \A b \in batch : Before(b, n)
    /\ \A m \in batch \ Blank, s \in Strategies :
          ConvOf[m] \notin deleted /\ s < pc => copies[s][m] > 0

(* What the watermark in memory has passed is found.                           *)
FoundInv ==
    \A m \in rows \ Blank :
       m \notin late /\ ConvOf[m] \notin deleted /\ ~After(m, mark) => Found(m)

PurgeInv == \A c \in Convs : purging[c] # 0 => c \in deleted
SavedInv == \A m \in rows : time[m] # 0

SkipInv == MarkInv /\ BatchInv /\ FoundInv /\ PurgeInv /\ SavedInv

(* A deletion is complete in the tables it has been through, and no run brings *)
(* anything back.                                                              *)
ForgetInv ==
    \A c \in deleted \ left :
       /\ \A m \in batch : ConvOf[m] # c
       /\ \A s \in Strategies, m \in Msgs :
             ConvOf[m] = c /\ (purging[c] = 0 \/ s < purging[c]) => copies[s][m] = 0

-----------------------------------------------------------------------------
(* Types *)

LEMMA Kinds ==
    /\ Msgs \subseteq Nat \ {0} /\ Sent \subseteq Msgs /\ MaxTime \in Nat \ {0} /\ Last \in Nat \ {0}
    /\ MaxFails \in Nat /\ MaxStops \in Nat
    /\ [at |-> 0, id |-> 0] \in Watermarks
BY IndexAssumption DEF IndexAssumption, Watermarks

LEMMA WithoutTypes ==
    ASSUME NEW table \in [Msgs -> Nat], NEW c
    PROVE  Without(table, c) \in [Msgs -> Nat]
BY DEF Without

LEMMA InitTypes == Init => TypeOK
BY Kinds DEF Init, TypeOK, Strategies

LEMMA FinishTypes == ASSUME TypeOK, Finish PROVE TypeOK'
<1>1. PICK m \in batch : mark' = [at |-> time[m], id |-> m] BY DEF Finish
<1>2. mark' \in Watermarks BY <1>1 DEF TypeOK, Watermarks
<1>3. stored' \in Watermarks BY <1>2 DEF Finish, TypeOK
<1>4. fails' \in 0 .. MaxFails BY Kinds DEF Finish, TypeOK
<1> QED BY <1>2, <1>3, <1>4, Kinds DEF Finish, TypeOK, database

(* A message is saved at some time.                                           *)
LEMMA NextSaves ==
    ASSUME TypeOK,
           (\E m \in Msgs \ Sent : Save(m)) \/ (\E m \in Sent : Receive(m))
    PROVE  \E m \in Msgs, t \in 1 .. MaxTime : SaveAt(m, t)
<1>1. now \in 1 .. MaxTime /\ Sent \subseteq Msgs BY Kinds DEF TypeOK
<1> QED BY <1>1 DEF Save, Receive

LEMMA NextTypes == ASSUME TypeOK, [Next]_vars PROVE TypeOK'
<1>1. CASE Index
  <2>1. pc' = 1 /\ batch' \in SUBSET Unindexed BY <1>1 DEF Index
  <2>2. batch' \subseteq Msgs BY <2>1 DEF Unindexed, TypeOK
  <2>3. pc' \in 0 .. Last + 1 BY <2>1, Kinds
  <2> QED BY <1>1, <2>2, <2>3 DEF Index, TypeOK, database
<1>2. CASE Add
  <2>1. copies' \in [Strategies -> [Msgs -> Nat]] BY <1>2 DEF Add, TypeOK
  <2>2. pc' \in 0 .. Last + 1 BY <1>2, Kinds DEF Add, Strategies
  <2> QED BY <1>2, <2>1, <2>2 DEF Add, TypeOK, database
<1>3. CASE Finish BY <1>3, FinishTypes
<1>4. CASE Fail
  <2>1. fails' \in 0 .. MaxFails /\ aborts' \in Nat BY <1>4, Kinds DEF Fail, TypeOK
  <2>2. pc' \in 0 .. Last + 1 /\ batch' = {} BY <1>4, Kinds DEF Fail
  <2> QED BY <1>4, <2>1, <2>2 DEF Fail, TypeOK, database
<1>5. CASE Tick
  <2>1. now' \in 1 .. MaxTime BY <1>5, Kinds DEF Tick, TypeOK
  <2> QED BY <1>5, <2>1 DEF Tick, TypeOK, run
<1>6. CASE Restart
  <2>1. stops' \in 0 .. MaxStops /\ aborts' \in Nat BY <1>6, Kinds DEF Restart, TypeOK
  <2>2. pc' \in 0 .. Last + 1 /\ batch' = {} BY <1>6, Kinds DEF Restart
  <2>3. purging' \in [Convs -> 0 .. Last] BY <1>6, Kinds DEF Restart
  <2>4. mark' \in Watermarks BY <1>6 DEF Restart, TypeOK
  <2>5. left' \subseteq Convs BY <1>6 DEF Restart, TypeOK
  <2> QED BY <1>6, <2>1, <2>2, <2>3, <2>4, <2>5 DEF Restart, TypeOK, database
<1>7. ASSUME NEW c \in Convs, Clear(c) PROVE TypeOK'
  BY <1>7 DEF Clear, TypeOK, run
<1>8. ASSUME NEW c \in Convs, Delete(c) PROVE TypeOK'
  <2>1. purging' \in [Convs -> 0 .. Last] BY <1>8, Kinds DEF Delete, TypeOK
  <2> QED BY <1>8, <2>1 DEF Delete, TypeOK, database, run
<1>9. ASSUME NEW c \in Convs, Purge(c) PROVE TypeOK'
  <2>1. purging[c] \in Strategies BY <1>9, Kinds DEF Purge, TypeOK, Strategies
  <2>2. copies' \in [Strategies -> [Msgs -> Nat]]
    BY <1>9, <2>1, WithoutTypes DEF Purge, TypeOK
  <2>3. purging' \in [Convs -> 0 .. Last] BY <1>9, <2>1, Kinds DEF Purge, TypeOK, Strategies
  <2> QED BY <1>9, <2>2, <2>3 DEF Purge, TypeOK, database, run
<1>10. ASSUME NEW c \in Convs, PurgeFails(c) PROVE TypeOK'
  <2>1. fails' \in 0 .. MaxFails BY <1>10, Kinds DEF PurgeFails, TypeOK
  <2>2. purging' \in [Convs -> 0 .. Last] BY <1>10, Kinds DEF PurgeFails, TypeOK
  <2> QED BY <1>10, <2>1, <2>2 DEF PurgeFails, TypeOK, database, run
<1>11. ASSUME NEW m \in Msgs, NEW t \in 1 .. MaxTime, SaveAt(m, t) PROVE TypeOK'
  <2>1. time' \in [Msgs -> 0 .. MaxTime] BY <1>11, Kinds DEF SaveAt, TypeOK
  <2>2. rows' \subseteq Msgs /\ late' \subseteq Msgs BY <1>11 DEF SaveAt, TypeOK
  <2> QED BY <1>11, <2>1, <2>2 DEF SaveAt, TypeOK, run
<1>12. CASE UNCHANGED vars BY <1>12 DEF vars, TypeOK
<1> QED
  BY <1>1, <1>2, <1>3, <1>4, <1>5, <1>6, <1>7, <1>8, <1>9, <1>10, <1>11, <1>12, NextSaves
  DEF Next

(* Every variable keeps its kind (message-embeddings/service.ts).             *)
THEOREM TypeCorrect == Spec => []TypeOK
<1>1. Init => TypeOK BY InitTypes
<1>2. TypeOK /\ [Next]_vars => TypeOK' BY NextTypes
<1> QED BY <1>1, <1>2, PTL DEF Spec

-----------------------------------------------------------------------------
(* Nothing is skipped *)

LEMMA Numbers ==
    ASSUME TypeOK
    PROVE  /\ now \in Nat /\ mark.at \in Nat /\ mark.id \in Nat
           /\ stored.at \in Nat /\ stored.id \in Nat
           /\ \A m \in Msgs : m \in Nat /\ m # 0 /\ time[m] \in Nat
           /\ rows \subseteq Msgs /\ batch \subseteq Msgs
<1>1. mark \in Watermarks /\ stored \in Watermarks BY DEF TypeOK
<1>2. \A w \in Watermarks : w.at \in Nat /\ w.id \in Nat
  <2>1. (0 .. MaxTime) \subseteq Nat /\ (Msgs \cup {0}) \subseteq Nat BY Kinds
  <2>2. \A w \in Watermarks : w.at \in 0 .. MaxTime /\ w.id \in Msgs \cup {0} BY DEF Watermarks
  <2> QED BY <2>1, <2>2
<1>3. now \in 1 .. MaxTime /\ time \in [Msgs -> 0 .. MaxTime] BY DEF TypeOK
<1>4. now \in Nat /\ \A m \in Msgs : time[m] \in Nat BY <1>3, Kinds
<1>5. \A m \in Msgs : m \in Nat /\ m # 0 BY Kinds
<1>6. rows \subseteq Msgs /\ batch \subseteq Msgs BY DEF TypeOK
<1> QED BY <1>1, <1>2, <1>4, <1>5, <1>6

LEMMA InitSkips == ASSUME Init PROVE SkipInv
<1>1. /\ mark.at = 0 /\ mark.id = 0 /\ stored.at = 0 /\ stored.id = 0
      /\ \A m \in Msgs : time[m] = 0
  BY DEF Init
<1>2. MarkInv BY <1>1 DEF MarkInv
<1>3. rows = {} /\ batch = {} BY DEF Init
<1>4. BatchInv /\ FoundInv /\ SavedInv BY <1>3 DEF BatchInv, FoundInv, SavedInv
<1>5. PurgeInv BY DEF Init, PurgeInv
<1> QED BY <1>2, <1>4, <1>5 DEF SkipInv

LEMMA IndexSkips == ASSUME TypeOK, SkipInv, Index PROVE SkipInv'
<1>1. /\ pc' = 1 /\ batch' \in SUBSET Unindexed /\ IsBatch(batch')
      /\ UNCHANGED <<now, rows, time, late, deleted, copies, mark, stored, purging>>
  BY DEF Index, database
<1>2. MarkInv' /\ PurgeInv' /\ SavedInv' BY <1>1 DEF SkipInv, MarkInv, PurgeInv, SavedInv
<1>3. FoundInv' BY <1>1 DEF SkipInv, FoundInv, After, Found
<1>4. \A b \in batch' : After(b, mark)' /\ (time[b] # 0)'
  BY <1>1 DEF Unindexed, After, SkipInv, SavedInv
<1>5. ASSUME NEW n \in (rows \ (batch \cup late))', (ConvOf[n] \notin deleted /\ After(n, mark))',
             NEW b \in batch'
      PROVE  Before(b, n)'
  <2>1. n \in Unindexed \ batch' BY <1>1, <1>5 DEF Unindexed, After
  <2> QED BY <1>1, <1>5, <2>1 DEF IsBatch, Before
<1>6. \A s \in Strategies : ~(s < pc') BY <1>1 DEF Strategies
<1>7. BatchInv' BY <1>4, <1>5, <1>6 DEF BatchInv
<1> QED BY <1>2, <1>3, <1>7 DEF SkipInv

LEMMA AddSkips == ASSUME TypeOK, SkipInv, Add PROVE SkipInv'
<1>1. /\ pc \in Strategies /\ pc' = pc + 1
      /\ UNCHANGED <<now, rows, time, late, deleted, mark, stored, batch, purging>>
  BY DEF Add, database
<1>2. MarkInv' /\ PurgeInv' /\ SavedInv' BY <1>1 DEF SkipInv, MarkInv, PurgeInv, SavedInv
<1>3. \A s \in Strategies, m \in Msgs :
        /\ copies[s][m] \in Nat
        /\ copies'[s][m] = IF s = pc /\ m \in batch \ Blank THEN copies[s][m] + 1 ELSE copies[s][m]
  BY <1>1 DEF Add, TypeOK
<1>4. \A s \in Strategies, m \in Msgs : copies[s][m] > 0 => copies'[s][m] > 0 BY <1>3
<1>5. FoundInv' BY <1>1, <1>4, Numbers DEF SkipInv, FoundInv, After, Found
<1>6. ASSUME NEW m \in batch \ Blank, NEW s \in Strategies, ConvOf[m] \notin deleted, s < pc + 1
      PROVE  copies'[s][m] > 0
  <2>1. m \in Msgs /\ s \in Nat /\ pc \in Nat BY <1>1, Numbers DEF Strategies
  <2>2. CASE s = pc BY <1>3, <2>1, <2>2
  <2>3. CASE s # pc
    <3>1. s < pc BY <1>6, <2>1, <2>3
    <3>2. copies[s][m] > 0 BY <1>6, <3>1 DEF SkipInv, BatchInv
    <3> QED BY <1>4, <2>1, <3>2
  <2> QED BY <2>2, <2>3
<1>7. BatchInv' BY <1>1, <1>6 DEF SkipInv, BatchInv, After, Before
<1> QED BY <1>2, <1>5, <1>7 DEF SkipInv

LEMMA FinishSkips == ASSUME TypeOK, SkipInv, Finish PROVE SkipInv'
<1>1. /\ pc = Last + 1 /\ batch' = {}
      /\ UNCHANGED <<now, rows, time, late, deleted, copies, purging>>
      /\ stored' = mark' \/ stored' = stored
  BY DEF Finish, database
<1>2. PICK m \in batch : /\ \A n \in batch \ {m} : Before(n, m)
                        /\ mark' = [at |-> time[m], id |-> m]
  BY DEF Finish
<1>3. m \in Msgs /\ mark'.at = time[m] /\ mark'.id = m BY <1>2, Numbers
<1>4. After(m, mark) /\ time[m] # 0 BY <1>2 DEF SkipInv, BatchInv
<1>5. MarkInv'
  <2>1. time[mark'.id] # 0 BY <1>3, <1>4
  <2>4. stored'.id # 0 => time[stored'.id] # 0 BY <1>1, <2>1 DEF SkipInv, MarkInv
  <2>2. stored.at < time[m] \/ (stored.at = time[m] /\ stored.id <= m)
    BY <1>3, <1>4, Numbers DEF SkipInv, MarkInv, After
  <2>3. stored'.at < mark'.at \/ (stored'.at = mark'.at /\ stored'.id <= mark'.id)
    BY <1>1, <1>3, <2>2, Numbers
  <2> QED BY <1>1, <2>1, <2>3, <2>4 DEF SkipInv, MarkInv
<1>6. PurgeInv' /\ SavedInv' /\ BatchInv'
  BY <1>1 DEF SkipInv, PurgeInv, SavedInv, BatchInv
<1>7. ASSUME NEW n \in rows \ Blank, n \notin late, ConvOf[n] \notin deleted,
             ~(time[n] > time[m] \/ (time[n] = time[m] /\ n > m))
      PROVE  Found(n)
  <2>1. n \in Msgs BY Numbers
  <2>2. CASE ~After(n, mark) BY <1>7, <2>2 DEF SkipInv, FoundInv
  <2>3. CASE After(n, mark) /\ n \in batch
    <3>1. \A s \in Strategies : s < pc BY <1>1, Kinds DEF Strategies
    <3> QED BY <1>7, <2>3, <3>1 DEF SkipInv, BatchInv, Found
  <2>4. CASE After(n, mark) /\ n \notin batch
    <3>1. Before(m, n) BY <1>2, <1>7, <2>4 DEF SkipInv, BatchInv
    <3> QED BY <1>3, <1>7, <2>1, <3>1, Numbers DEF Before
  <2> QED BY <2>2, <2>3, <2>4
<1>8. FoundInv' BY <1>1, <1>3, <1>7 DEF FoundInv, After, Found
<1> QED BY <1>5, <1>6, <1>8 DEF SkipInv

(* A run that ends early, with the watermark in memory or the one read again.  *)
LEMMA StopSkips ==
    ASSUME TypeOK, SkipInv, Fail \/ Restart
    PROVE  SkipInv'
<1>1. /\ batch' = {} /\ UNCHANGED <<now, rows, time, late, deleted, copies, stored>>
      /\ mark' = mark \/ mark' = stored
  BY DEF Fail, Restart, database
<1>2. \A c \in Convs : purging'[c] # 0 => purging[c] # 0 BY DEF Fail, Restart
<1>3. PurgeInv' /\ SavedInv' /\ BatchInv'
  BY <1>1, <1>2 DEF SkipInv, PurgeInv, SavedInv, BatchInv
<1>4. FoundInv'
  <2>1. ASSUME NEW n \in rows, ~After(n, stored) PROVE ~After(n, mark)
    BY <2>1, Numbers DEF After, SkipInv, MarkInv
  <2> QED BY <1>1, <2>1 DEF SkipInv, FoundInv, After, Found
<1>5. MarkInv'
  <2>1. CASE mark' = mark BY <1>1, <2>1 DEF SkipInv, MarkInv
  <2>2. CASE mark' = stored
    <3>1. stored.id # 0 => time[stored.id] # 0 BY DEF SkipInv, MarkInv
    <3>2. stored.id <= stored.id BY Numbers
    <3> QED BY <1>1, <2>2, <3>1, <3>2 DEF SkipInv, MarkInv
  <2> QED BY <1>1, <2>1, <2>2
<1> QED BY <1>3, <1>4, <1>5 DEF SkipInv

LEMMA SaveSkips ==
    ASSUME TypeOK, SkipInv, NEW m \in Msgs, NEW t \in 1 .. MaxTime, SaveAt(m, t)
    PROVE  SkipInv'
<1>1. /\ time[m] = 0 /\ rows' = rows \cup {m} /\ time' = [time EXCEPT ![m] = t]
      /\ UNCHANGED <<deleted, copies, mark, stored, pc, batch, purging>>
  BY DEF SaveAt, run
<1>2. /\ late \subseteq late' /\ late' \subseteq late \cup {m}
      /\ m \notin late' => /\ ~(t < mark.at \/ (t = mark.at /\ m <= mark.id))
                         /\ \A n \in batch : ~(t < time[n] \/ (t = time[n] /\ m < n))
  BY DEF SaveAt, Overtaken
<1>3. /\ time'[m] = t /\ \A n \in Msgs \ {m} : time'[n] = time[n]
      /\ t # 0 /\ t \in Nat
  BY <1>1, Kinds DEF TypeOK
<1>4. \A n \in Msgs : time[n] # 0 => time'[n] # 0
  BY <1>3, Numbers
<1>5. mark.id \in Msgs \cup {0} /\ stored.id \in Msgs \cup {0} BY DEF TypeOK, Watermarks
<1>6. MarkInv' BY <1>1, <1>4, <1>5 DEF SkipInv, MarkInv
<1>7. PurgeInv' /\ SavedInv' BY <1>1, <1>3, Numbers DEF SkipInv, PurgeInv, SavedInv
<1>8. m \notin batch /\ m \notin rows /\ m # mark.id
  BY <1>1, Kinds DEF SkipInv, BatchInv, SavedInv, MarkInv
<1>9. m \notin late' => time'[m] > mark.at \/ (time'[m] = mark.at /\ m > mark.id)
  BY <1>2, <1>3, Numbers
<1>10. FoundInv'
  <2>1. ASSUME NEW n \in rows \ Blank, n \notin late', ConvOf[n] \notin deleted,
               ~(time'[n] > mark.at \/ (time'[n] = mark.at /\ n > mark.id))
        PROVE  Found(n)
    BY <1>2, <1>3, <1>8, <2>1, Numbers DEF SkipInv, FoundInv, After
  <2> QED BY <1>1, <1>9, <2>1 DEF FoundInv, After, Found
<1>11. \A b \in batch : time'[b] = time[b] /\ b \in Msgs BY <1>3, <1>8, Numbers
<1>12. ASSUME NEW n \in rows' \ (batch \cup late'), ConvOf[n] \notin deleted,
              time'[n] > mark.at \/ (time'[n] = mark.at /\ n > mark.id), NEW b \in batch
       PROVE  time'[b] < time'[n] \/ (time'[b] = time'[n] /\ b < n)
  <2>1. CASE n = m
    <3>1. b # m /\ ~(t < time[b] \/ (t = time[b] /\ m < b))
      BY <1>2, <1>8, <1>12, <2>1
    <3> QED BY <1>3, <1>11, <2>1, <3>1, Numbers
  <2>2. CASE n # m
    <3>1. n \in rows \ (batch \cup late) /\ n \in Msgs BY <1>1, <1>2, <1>12, <2>2, Numbers
    <3>2. time'[n] = time[n] BY <1>3, <2>2, <3>1
    <3>3. Before(b, n) BY <1>12, <3>1, <3>2 DEF SkipInv, BatchInv, After
    <3> QED BY <1>11, <3>2, <3>3 DEF Before
  <2> QED BY <2>1, <2>2
<1>13. BatchInv' BY <1>1, <1>11, <1>12 DEF SkipInv, BatchInv, After, Before
<1> QED BY <1>6, <1>7, <1>10, <1>13 DEF SkipInv

LEMMA PurgeSkips == ASSUME TypeOK, SkipInv, NEW c \in Convs, Purge(c) PROVE SkipInv'
<1>1. /\ purging[c] # 0 /\ UNCHANGED <<now, rows, time, late, deleted, mark, stored, pc, batch>>
      /\ copies' = [copies EXCEPT ![purging[c]] = Without(@, c)]
  BY DEF Purge, database, run
<1>2. c \in deleted BY <1>1 DEF SkipInv, PurgeInv
<1>3. ASSUME NEW s \in Strategies, NEW m \in Msgs, ConvOf[m] \notin deleted
      PROVE  copies'[s][m] = copies[s][m]
  BY <1>1, <1>2, <1>3 DEF TypeOK, Without
<1>4. FoundInv' BY <1>1, <1>3, Numbers DEF SkipInv, FoundInv, After, Found
<1>5. BatchInv' BY <1>1, <1>3, Numbers DEF SkipInv, BatchInv, After, Before
<1>6. MarkInv' /\ SavedInv' BY <1>1 DEF SkipInv, MarkInv, SavedInv
<1>7. PurgeInv' BY <1>1, <1>2 DEF SkipInv, PurgeInv, Purge, TypeOK
<1> QED BY <1>4, <1>5, <1>6, <1>7 DEF SkipInv

LEMMA OtherSkips ==
    ASSUME TypeOK, SkipInv,
           \/ Tick \/ UNCHANGED vars
           \/ \E c \in Convs : Clear(c) \/ Delete(c) \/ PurgeFails(c)
    PROVE  SkipInv'
<1>1. /\ UNCHANGED <<time, late, copies, mark, stored, pc, batch>>
      /\ rows' \subseteq rows /\ deleted \subseteq deleted'
  BY DEF Tick, vars, Clear, Delete, PurgeFails, database, run
<1>2. \A c \in Convs : purging'[c] # 0 => purging[c] # 0 \/ c \in deleted'
  BY DEF Tick, vars, Clear, Delete, PurgeFails, TypeOK
<1>3. MarkInv' BY <1>1, Numbers DEF SkipInv, MarkInv
<1>4. BatchInv' BY <1>1 DEF SkipInv, BatchInv, After, Before
<1>5. FoundInv' BY <1>1 DEF SkipInv, FoundInv, After, Found
<1>6. PurgeInv' /\ SavedInv' BY <1>1, <1>2 DEF SkipInv, PurgeInv, SavedInv
<1> QED BY <1>3, <1>4, <1>5, <1>6 DEF SkipInv

LEMMA SkipsKept == ASSUME TypeOK, SkipInv, [Next]_vars PROVE SkipInv'
BY IndexSkips, AddSkips, FinishSkips, StopSkips, NextSaves, SaveSkips, PurgeSkips, OtherSkips
   DEF Next

(* The watermark in the database passes no message by, whatever failed and     *)
(* whenever the program was stopped (indexNewMessages), unless the message was  *)
(* overtaken when it was saved.                                                 *)
THEOREM NothingSkippedCorrect == Spec => []NothingSkipped
<1>1. Init => TypeOK /\ SkipInv BY InitTypes, InitSkips
<1>2. TypeOK /\ SkipInv /\ [Next]_vars => TypeOK' /\ SkipInv'
  BY NextTypes, SkipsKept
<1>3. TypeOK /\ SkipInv => NothingSkipped
  <2> SUFFICES ASSUME TypeOK, SkipInv, NEW m \in rows \ Blank,
                      m \notin late, ConvOf[m] \notin deleted, ~After(m, stored)
               PROVE  Found(m)
    BY DEF NothingSkipped
  <2>1. ~After(m, mark) BY Numbers DEF After, SkipInv, MarkInv
  <2> QED BY <2>1 DEF SkipInv, FoundInv
<1> QED BY <1>1, <1>2, <1>3, PTL DEF Spec

-----------------------------------------------------------------------------
(* The program's own messages come in order *)

(* A watermark w is that of a message, or the first one.                      *)
MarkOf(w, at) == IF w.id = 0 THEN w.at = 0 ELSE at[w.id] = w.at

(* No message of the program is after the clock.                              *)
OrderInv ==
    /\ \A m \in Msgs \ Sent : time[m] <= now
    /\ MarkOf(mark, time) /\ MarkOf(stored, time)
    /\ \A m \in late : time[m] # 0
    /\ OwnMessagesInOrder

LEMMA SaveOrder ==
    ASSUME TypeOK, SkipInv, OrderInv, NEW m \in Msgs, NEW t \in 1 .. MaxTime, SaveAt(m, t),
           m \in Sent \/ t = now
    PROVE  OrderInv'
<1>1. /\ time[m] = 0 /\ time' = [time EXCEPT ![m] = t]
      /\ UNCHANGED <<now, mark, stored, batch>>
      /\ late' = IF Overtaken(m, t) THEN late \cup {m} ELSE late
  BY DEF SaveAt, run
<1>2. /\ time'[m] = t /\ \A n \in Msgs \ {m} : time'[n] = time[n]
      /\ t # 0 /\ t \in Nat /\ now \in Nat /\ late \subseteq Msgs
  BY <1>1, Kinds DEF TypeOK
<1>3. \A n \in Msgs \ Sent : time'[n] <= now' BY <1>1, <1>2 DEF OrderInv
<1>4. MarkOf(mark, time') /\ MarkOf(stored, time')
  <2>1. mark.id \in Msgs \cup {0} /\ stored.id \in Msgs \cup {0} BY DEF TypeOK, Watermarks
  <2>2. mark.id # m /\ stored.id # m BY <1>1, Kinds DEF SkipInv, MarkInv
  <2> QED BY <1>2, <2>1, <2>2 DEF OrderInv, MarkOf
<1>5. \A n \in late : n # m /\ time'[n] = time[n] /\ time[n] # 0
  BY <1>1, <1>2 DEF OrderInv
<1>6. \A n \in late' : time'[n] # 0 BY <1>1, <1>2, <1>5
<1>7. ASSUME NEW l \in late' \ Sent
      PROVE  \E n \in Msgs : \/ time'[n] = time'[l] /\ n > l
                             \/ n \in Sent /\ time'[n] > time'[l]
  <2>1. CASE l \in late
    <3>1. PICK n \in Msgs : \/ time[n] = time[l] /\ n > l
                            \/ n \in Sent /\ time[n] > time[l]
      BY <1>7, <2>1 DEF OrderInv, OwnMessagesInOrder
    <3>2. time[n] # 0 BY <1>5, <2>1, <3>1, <1>2, Numbers
    <3>3. time'[n] = time[n] /\ time'[l] = time[l] BY <1>1, <1>2, <1>5, <2>1, <3>2
    <3> QED BY <3>1, <3>3
  <2>2. CASE l \notin late
    <3>1. l = m /\ t = now /\ Overtaken(m, t) BY <1>1, <1>7, <2>2
    <3>2. \A n \in Msgs : n \in Sent \/ time[n] <= t BY <1>2, <3>1 DEF OrderInv
    <3>3. ASSUME NEW n \in Msgs, n # m, t < time[n] \/ (t = time[n] /\ m < n)
          PROVE  \/ time'[n] = time'[l] /\ n > l
                 \/ n \in Sent /\ time'[n] > time'[l]
      BY <1>2, <3>1, <3>2, <3>3, Numbers
    <3>4. CASE t < mark.at \/ (t = mark.at /\ m <= mark.id)
      <4>1. mark.at # 0 BY <1>2, <3>4, Numbers
      <4>2. mark.id \in Msgs /\ time[mark.id] = mark.at
        BY <4>1 DEF OrderInv, MarkOf, TypeOK, Watermarks
      <4>3. mark.id # m BY <1>1, <4>1, <4>2
      <4> QED BY <3>3, <3>4, <4>2, <4>3, Numbers
    <3>5. CASE \E n \in batch : t < time[n] \/ (t = time[n] /\ m < n)
      <4>1. PICK n \in batch : t < time[n] \/ (t = time[n] /\ m < n) BY <3>5
      <4>2. n \in Msgs /\ n # m BY <1>1, <4>1, Numbers DEF SkipInv, BatchInv
      <4> QED BY <3>3, <4>1, <4>2
    <3> QED BY <3>1, <3>4, <3>5 DEF Overtaken
  <2> QED BY <2>1, <2>2
<1>8. OwnMessagesInOrder' BY <1>7 DEF OwnMessagesInOrder
<1> QED BY <1>1, <1>3, <1>4, <1>6, <1>8 DEF OrderInv

LEMMA OrderKept == ASSUME TypeOK, SkipInv, OrderInv, [Next]_vars PROVE OrderInv'
<1>1. ASSUME NEW m \in Msgs \ Sent, Save(m) PROVE OrderInv'
  <2>1. now \in 1 .. MaxTime BY DEF TypeOK
  <2> QED BY <1>1, <2>1, SaveOrder DEF Save
<1>2. ASSUME NEW m \in Sent, Receive(m) PROVE OrderInv'
  <2>1. m \in Msgs BY Kinds
  <2> QED BY <1>2, <2>1, SaveOrder DEF Receive
<1>3. CASE Finish
  <2>1. UNCHANGED <<now, time, late>> /\ (stored' = mark' \/ stored' = stored)
    BY <1>3 DEF Finish, database
  <2>2. PICK m \in batch : mark' = [at |-> time[m], id |-> m] BY <1>3 DEF Finish
  <2>3. MarkOf(mark', time) BY <2>2, Numbers DEF MarkOf
  <2> QED BY <2>1, <2>3 DEF OrderInv, OwnMessagesInOrder
<1>4. CASE Restart
  <2>1. UNCHANGED <<now, time, late, stored>> /\ mark' = stored BY <1>4 DEF Restart, database
  <2> QED BY <2>1 DEF OrderInv, OwnMessagesInOrder
<1>5. CASE Tick
  <2>1. UNCHANGED <<time, late, mark, stored>> /\ now' = now + 1 BY <1>5 DEF Tick, run
  <2>2. \A m \in Msgs \ Sent : time[m] <= now' BY <2>1, Numbers DEF OrderInv
  <2> QED BY <2>1, <2>2 DEF OrderInv, OwnMessagesInOrder
<1>6. CASE \/ Index \/ Add \/ Fail \/ UNCHANGED vars
           \/ \E c \in Convs : Clear(c) \/ Delete(c) \/ Purge(c) \/ PurgeFails(c)
  <2>1. UNCHANGED <<now, time, late, mark, stored>>
    BY <1>6 DEF Index, Add, Fail, vars, Clear, Delete, Purge, PurgeFails, database, run
  <2> QED BY <2>1 DEF OrderInv, OwnMessagesInOrder
<1> QED BY <1>1, <1>2, <1>3, <1>4, <1>5, <1>6 DEF Next

(* The cursor overtakes no message of the program but for one of its millisecond *)
(* with a greater id, or for a messenger's with a later time (the condition of   *)
(* indexNewMessages and the times of azure-bot.ts).                              *)
THEOREM OrderCorrect == Spec => []OwnMessagesInOrder
<1>1. Init => TypeOK /\ SkipInv /\ OrderInv
  <2>1. Init => OrderInv
    <3> SUFFICES ASSUME Init PROVE OrderInv OBVIOUS
    <3>1. /\ now = 1 /\ late = {} /\ \A m \in Msgs : time[m] = 0
          /\ mark.at = 0 /\ mark.id = 0 /\ stored.at = 0 /\ stored.id = 0
      BY DEF Init
    <3> QED BY <3>1 DEF OrderInv, MarkOf, OwnMessagesInOrder
  <2> QED BY <2>1, InitTypes, InitSkips
<1>2. TypeOK /\ SkipInv /\ OrderInv /\ [Next]_vars => TypeOK' /\ SkipInv' /\ OrderInv'
  BY NextTypes, SkipsKept, OrderKept
<1>3. OrderInv => OwnMessagesInOrder BY DEF OrderInv
<1> QED BY <1>1, <1>2, <1>3, PTL DEF Spec

-----------------------------------------------------------------------------
(* A deleted conversation is forgotten *)

LEMMA ForgetKept == ASSUME TypeOK, ForgetInv, [Next]_vars PROVE ForgetInv'
<1> SUFFICES ASSUME NEW c \in (deleted \ left)'
             PROVE  /\ \A m \in batch' : ConvOf[m] # c
                    /\ \A s \in Strategies, m \in Msgs :
                          ConvOf[m] = c /\ (purging'[c] = 0 \/ s < purging'[c]) => copies'[s][m] = 0
  BY DEF ForgetInv
<1> DEFINE Goal ==
      /\ \A m \in batch' : ConvOf[m] # c
      /\ \A s \in Strategies, m \in Msgs :
            ConvOf[m] = c /\ (purging'[c] = 0 \/ s < purging'[c]) => copies'[s][m] = 0
<1>c. c \in Convs
  <2>1. TypeOK' BY NextTypes
  <2> QED BY <2>1 DEF TypeOK
<1>1. ASSUME Index PROVE Goal
  <2>1. UNCHANGED <<deleted, left, purging, copies>> BY <1>1 DEF Index
  <2>2. \A m \in batch' : ConvOf[m] \notin deleted BY <1>1 DEF Index, Unindexed
  <2> QED BY <2>1, <2>2 DEF ForgetInv
<1>2. ASSUME Add PROVE Goal
  <2>1. UNCHANGED <<deleted, left, purging, batch>> BY <1>2 DEF Add
  <2>2. \A s \in Strategies, m \in Msgs : m \notin batch => copies'[s][m] = copies[s][m]
    BY <1>2 DEF Add, TypeOK
  <2> QED BY <2>1, <2>2 DEF ForgetInv
<1>3. ASSUME Finish \/ Fail PROVE Goal
  <2>1. UNCHANGED <<deleted, left, purging, copies>> /\ batch' = {} BY <1>3 DEF Finish, Fail
  <2> QED BY <2>1 DEF ForgetInv
<1>4. ASSUME Restart PROVE Goal
  <2>1. /\ UNCHANGED <<deleted, copies>> /\ batch' = {} /\ left \subseteq left'
        /\ purging[c] = 0
    BY <1>4, <1>c DEF Restart
  <2> QED BY <2>1 DEF ForgetInv
<1>5. ASSUME NEW d \in Convs, Delete(d) PROVE Goal
  <2>1. UNCHANGED <<copies, batch>> /\ purging' = [purging EXCEPT ![d] = 1]
    BY <1>5 DEF Delete, run
  <2>2. CASE c = d
    <3>1. purging'[c] = 1 /\ \A s \in Strategies : ~(s < 1)
      BY <2>1, <2>2 DEF TypeOK, Strategies
    <3>2. \A m \in batch : ConvOf[m] # c BY <1>5, <2>2 DEF Delete
    <3> QED BY <2>1, <3>1, <3>2
  <2>3. CASE c # d
    <3>1. purging'[c] = purging[c] BY <1>c, <2>1, <2>3 DEF TypeOK
    <3>2. c \in deleted \ left BY <1>5, <2>3 DEF Delete
    <3> QED BY <2>1, <3>1, <3>2 DEF ForgetInv
  <2> QED BY <2>2, <2>3
<1>6. ASSUME NEW d \in Convs, Purge(d) PROVE Goal
  <2>1. UNCHANGED <<deleted, left, batch>> BY <1>6 DEF Purge, run
  <2>2. /\ purging[d] \in Strategies /\ purging[d] \in Nat
        /\ copies' = [copies EXCEPT ![purging[d]] = Without(@, d)]
        /\ purging' = [purging EXCEPT ![d] = IF @ = Last THEN 0 ELSE @ + 1]
    BY <1>6, Kinds DEF Purge, TypeOK, Strategies
  <2>3. \A s \in Strategies, m \in Msgs :
          copies'[s][m] = IF s = purging[d] /\ ConvOf[m] = d THEN 0 ELSE copies[s][m]
    BY <2>2 DEF TypeOK, Without
  <2>4. ASSUME NEW s \in Strategies, NEW m \in Msgs, ConvOf[m] = c,
               purging'[c] = 0 \/ s < purging'[c]
        PROVE  copies'[s][m] = 0
    <3>1. s \in Nat /\ s <= Last BY Kinds DEF Strategies
    <3>2. CASE c # d
      <4>1. purging'[c] = purging[c] BY <1>c, <2>2, <3>2 DEF TypeOK
      <4> QED BY <2>1, <2>3, <2>4, <3>2, <4>1 DEF ForgetInv
    <3>3. CASE c = d /\ s = purging[d] BY <2>3, <2>4, <3>3
    <3>4. CASE c = d /\ s # purging[d]
      <4>1. purging'[d] = IF purging[d] = Last THEN 0 ELSE purging[d] + 1
        BY <2>2 DEF TypeOK
      <4>2. s < purging[d] BY <2>2, <2>4, <3>1, <3>4, <4>1, Kinds
      <4>3. copies[s][m] = 0 BY <2>1, <2>4, <3>4, <4>2 DEF ForgetInv
      <4> QED BY <2>3, <4>3
    <3> QED BY <3>2, <3>3, <3>4
  <2> QED BY <2>1, <2>4 DEF ForgetInv
<1>7. ASSUME NEW d \in Convs, PurgeFails(d) PROVE Goal
  <2>1. /\ UNCHANGED <<deleted, copies, batch>> /\ left' = left \cup {d}
        /\ purging' = [purging EXCEPT ![d] = 0]
    BY <1>7 DEF PurgeFails, run
  <2>2. purging'[c] = purging[c] /\ c \in deleted \ left BY <1>c, <2>1 DEF TypeOK
  <2> QED BY <2>1, <2>2 DEF ForgetInv
<1>8. ASSUME \/ Tick \/ UNCHANGED vars
             \/ (\E d \in Convs : Clear(d))
             \/ (\E m \in Msgs, t \in 1 .. MaxTime : SaveAt(m, t))
      PROVE  Goal
  <2>1. UNCHANGED <<deleted, left, purging, copies, batch>>
    BY <1>8 DEF Tick, vars, Clear, SaveAt, run
  <2> QED BY <2>1 DEF ForgetInv
<1> HIDE DEF Goal
<1>9. Goal BY <1>1, <1>2, <1>3, <1>4, <1>5, <1>6, <1>7, <1>8, NextSaves DEF Next
<1> QED BY <1>9 DEF Goal

(* "Delete all vectors for a conversation" (deleteByConversationId): none are   *)
(* left and none come back, in any table, unless a run had its messages in hand *)
(* or the deletion broke off.                                                   *)
THEOREM DeletionCorrect == Spec => []DeletedIsForgotten
<1>1. Init => TypeOK /\ ForgetInv
  BY InitTypes DEF Init, ForgetInv
<1>2. TypeOK /\ ForgetInv /\ [Next]_vars => TypeOK' /\ ForgetInv'
  BY NextTypes, ForgetKept
<1>3. ForgetInv => DeletedIsForgotten BY DEF ForgetInv, DeletedIsForgotten
<1> QED BY <1>1, <1>2, <1>3, PTL DEF Spec

-----------------------------------------------------------------------------
(* No copy without a lost run *)

(* A message after the watermark is in a table as often as a run was lost, and *)
(* once more if the run has stored it there.                                   *)
CopyInv ==
    /\ pc = 0 => batch = {}
    /\ \A m \in Msgs, s \in Strategies :
          /\ time[m] = 0 => copies[s][m] = 0
          /\ copies[s][m] <= aborts + 1
          /\ After(m, mark) /\ ~(m \in batch /\ s < pc) => copies[s][m] <= aborts

LEMMA Counts ==
    ASSUME TypeOK
    PROVE  /\ aborts \in Nat /\ \A m \in Msgs, s \in Strategies : copies[s][m] \in Nat
           /\ pc \in Nat /\ Strategies \subseteq Nat \ {0}
<1>1. aborts \in Nat /\ pc \in 0 .. Last + 1 /\ copies \in [Strategies -> [Msgs -> Nat]]
  BY DEF TypeOK
<1>2. Strategies \subseteq Nat \ {0} /\ (0 .. Last + 1) \subseteq Nat BY Kinds DEF Strategies
<1> QED BY <1>1, <1>2

LEMMA CopiesKept == ASSUME TypeOK, SkipInv, CopyInv, [Next]_vars PROVE CopyInv'
<1>1. ASSUME Index PROVE CopyInv'
  <2>1. /\ UNCHANGED <<time, copies, mark, aborts>> /\ pc = 0 /\ pc' = 1
    BY <1>1 DEF Index, database
  <2>2. batch = {} BY <2>1 DEF CopyInv
  <2> QED BY <2>1, <2>2 DEF CopyInv, After
<1>2. ASSUME Add PROVE CopyInv'
  <2>1. /\ UNCHANGED <<time, mark, batch, aborts>> /\ pc \in Strategies /\ pc' = pc + 1
    BY <1>2 DEF Add, database
  <2>2. \A s \in Strategies, m \in Msgs :
          copies'[s][m] = IF s = pc /\ m \in batch \ Blank THEN copies[s][m] + 1 ELSE copies[s][m]
    BY <1>2 DEF Add, TypeOK
  <2>3. \A m \in batch : After(m, mark) /\ time[m] # 0 BY DEF SkipInv, BatchInv
  <2>4. ASSUME NEW m \in Msgs, NEW s \in Strategies
        PROVE  /\ time[m] = 0 => copies'[s][m] = 0
               /\ copies'[s][m] <= aborts + 1
               /\ After(m, mark) /\ ~(m \in batch /\ s < pc + 1) => copies'[s][m] <= aborts
    <3>1. CASE s = pc /\ m \in batch \ Blank
      <4>1. copies[s][m] <= aborts BY <2>3, <3>1, Counts DEF CopyInv
      <4> QED BY <2>2, <2>3, <3>1, <4>1, Counts
    <3>2. CASE ~(s = pc /\ m \in batch \ Blank)
      <4>1. copies'[s][m] = copies[s][m] BY <2>2, <3>2
      <4>2. s < pc => s < pc + 1 BY Counts
      <4> QED BY <4>1, <4>2 DEF CopyInv
    <3> QED BY <3>1, <3>2
  <2>5. pc' # 0 BY <2>1, Counts
  <2> QED BY <2>1, <2>4, <2>5 DEF CopyInv, After
<1>3. ASSUME Finish PROVE CopyInv'
  <2>1. UNCHANGED <<time, copies, aborts>> /\ batch' = {} BY <1>3 DEF Finish, database
  <2>2. PICK m \in batch : /\ \A n \in batch \ {m} : Before(n, m)
                          /\ mark' = [at |-> time[m], id |-> m]
    BY <1>3 DEF Finish
  <2>3. m \in Msgs /\ After(m, mark) BY <2>2, Numbers DEF SkipInv, BatchInv
  <2>4. ASSUME NEW n \in Msgs, time[n] > time[m] \/ (time[n] = time[m] /\ n > m)
        PROVE  After(n, mark) /\ n \notin batch
    <3>1. After(n, mark) BY <2>3, <2>4, Numbers DEF After
    <3>2. ~Before(n, m) /\ n # m BY <2>3, <2>4, Numbers DEF Before
    <3> QED BY <2>2, <3>1, <3>2
  <2> QED BY <2>1, <2>2, <2>4 DEF CopyInv, After
<1>4. ASSUME Fail PROVE CopyInv'
  <2>1. UNCHANGED <<time, copies, mark>> /\ batch' = {} /\ aborts' = aborts + 1
    BY <1>4 DEF Fail, database
  <2>2. \A m \in Msgs, s \in Strategies : copies[s][m] <= aborts + 1 /\ copies[s][m] <= aborts + 1 + 1
    BY Counts DEF CopyInv
  <2> QED BY <2>1, <2>2 DEF CopyInv
<1>5. ASSUME Restart PROVE CopyInv'
  <2>1. UNCHANGED <<time, copies>> /\ batch' = {} BY <1>5 DEF Restart, database
  <2>2. CASE pc # 0 \/ mark # stored
    <3>1. aborts' = aborts + 1 BY <1>5, <2>2 DEF Restart
    <3>2. \A m \in Msgs, s \in Strategies : copies[s][m] <= aborts + 1 /\ copies[s][m] <= aborts + 1 + 1
      BY Counts DEF CopyInv
    <3> QED BY <2>1, <3>1, <3>2 DEF CopyInv
  <2>3. CASE pc = 0 /\ mark = stored
    <3>1. aborts' = aborts /\ mark' = mark BY <1>5, <2>3 DEF Restart
    <3>2. batch = {} BY <2>3 DEF CopyInv
    <3> QED BY <2>1, <3>1, <3>2 DEF CopyInv, After
  <2> QED BY <2>2, <2>3
<1>6. ASSUME NEW m \in Msgs, NEW t \in 1 .. MaxTime, SaveAt(m, t) PROVE CopyInv'
  <2>1. UNCHANGED <<copies, mark, batch, pc, aborts>> /\ time[m] = 0 BY <1>6 DEF SaveAt, run
  <2>2. \A n \in Msgs \ {m} : time'[n] = time[n] BY <1>6 DEF SaveAt, TypeOK
  <2>3. \A s \in Strategies : copies[s][m] = 0 /\ copies[s][m] <= aborts
    BY <2>1, Counts DEF CopyInv
  <2> QED BY <2>1, <2>2, <2>3 DEF CopyInv, After
<1>7. ASSUME NEW c \in Convs, Purge(c) PROVE CopyInv'
  <2>1. UNCHANGED <<time, mark, batch, pc, aborts>> BY <1>7 DEF Purge, database, run
  <2>2. \A s \in Strategies, m \in Msgs : copies'[s][m] = copies[s][m] \/ copies'[s][m] = 0
    BY <1>7 DEF Purge, TypeOK, Without
  <2>3. 0 <= aborts /\ 0 <= aborts + 1 BY Counts
  <2> QED BY <2>1, <2>2, <2>3 DEF CopyInv, After
<1>8. ASSUME \/ Tick \/ UNCHANGED vars
             \/ \E c \in Convs : Clear(c) \/ Delete(c) \/ PurgeFails(c)
      PROVE  CopyInv'
  <2>1. UNCHANGED <<time, copies, mark, batch, pc, aborts>>
    BY <1>8 DEF Tick, vars, Clear, Delete, PurgeFails, database, run
  <2> QED BY <2>1 DEF CopyInv, After
<1> QED BY <1>1, <1>2, <1>3, <1>4, <1>5, <1>6, <1>7, <1>8, NextSaves DEF Next

(* A message is in a table once, and once more at most for every run that      *)
(* failed or whose end was lost (indexNewMessages).                            *)
THEOREM CopiesCorrect == Spec => []NoNeedlessCopies
<1>1. Init => TypeOK /\ SkipInv BY InitTypes, InitSkips
<1>2. Init => CopyInv
  <2> SUFFICES ASSUME Init PROVE CopyInv OBVIOUS
  <2>1. /\ batch = {} /\ aborts = 0
        /\ \A m \in Msgs, s \in Strategies : copies[s][m] = 0
    BY DEF Init
  <2> QED BY <2>1 DEF CopyInv
<1>3. TypeOK /\ SkipInv /\ [Next]_vars => SkipInv' BY SkipsKept
<1>4. TypeOK /\ SkipInv /\ CopyInv /\ [Next]_vars => TypeOK' /\ SkipInv' /\ CopyInv'
  BY NextTypes, <1>3, CopiesKept
<1>5. TypeOK /\ CopyInv => NoNeedlessCopies
  <2> SUFFICES ASSUME TypeOK, CopyInv, NEW s \in Strategies, NEW m \in Msgs
               PROVE  copies[s][m] <= 1 + aborts
    BY DEF NoNeedlessCopies
  <2>1. copies[s][m] <= aborts + 1 BY DEF CopyInv
  <2> QED BY <2>1, Counts
<1> QED BY <1>1, <1>2, <1>4, <1>5, PTL DEF Spec

-----------------------------------------------------------------------------
(* The index of a RAG project.                                                *)

(* What is under way between the steps of a run, and what it knows.           *)
UnderWay ==
    /\ indexing <=> place # "idle"
    /\ indexing => runs > 0
    /\ doing.of # NoFile =>
          place = "working" /\ gone = {} /\ old = {} /\ doing.of \in todo
    /\ place # "working" => todo = {} /\ gone = {}
    /\ todo \subseteq docFiles /\ gone \cap docFiles = {}
    /\ place \in {"opening", "clearing", "working", "saving"} /\ quiet =>
          docFiles = {f \in Files : disk[f] # 0}

(* No time is after the clock, and a manifest that is no whole file records   *)
(* nothing.                                                                   *)
TimesInv ==
    /\ \A f \in Files : manifest[f].at <= clock /\ file.docs[f].at <= clock /\ disk[f] <= clock
    /\ file.kind # "whole" => file.docs = NewManifest
    /\ place = "creating" => manifest = NewManifest /\ file.docs = NewManifest

RagInv == RagTypeOK /\ UnderWay /\ TimesInv

LEMMA RagKinds ==
    /\ Parts \in Nat \ {0} /\ MaxEdits \in Nat \ {0} /\ MaxRuns \in Nat
    /\ MaxRestarts \in Nat /\ NoFile \notin Files
    /\ Unknown \in Entries /\ NewManifest \in Manifests
    /\ \A f \in Files : NewManifest[f] = Unknown
    /\ Unknown.status = "none" /\ Unknown.at = 0
    /\ Absent.kind = "absent" /\ Absent.docs = NewManifest
    /\ Torn.kind = "torn" /\ Torn.docs = NewManifest
    /\ Nothing.of = NoFile
    /\ 0 \in Times /\ 1 .. MaxEdits \subseteq Times
    /\ Torn \in [kind : {"absent", "torn", "whole"}, docs : Manifests]
    /\ Nothing \in [of : Files \cup {NoFile}, time : Times, parts : 0 .. Parts]
<1>1. /\ Parts \in Nat \ {0} /\ MaxEdits \in Nat \ {0} /\ MaxRuns \in Nat
      /\ MaxRestarts \in Nat /\ NoFile \notin Files
  BY RagAssumption
<1>2. Unknown \in Entries /\ Unknown.status = "none" /\ Unknown.at = 0
  BY <1>1 DEF Unknown, Entries, Times
<1>3. NewManifest \in Manifests /\ \A f \in Files : NewManifest[f] = Unknown
  BY <1>2 DEF NewManifest, Manifests
<1>4. 0 \in Times /\ 1 .. MaxEdits \subseteq Times
  BY <1>1 DEF Times
<1>5. Torn \in [kind : {"absent", "torn", "whole"}, docs : Manifests]
  BY <1>3 DEF Torn
<1>6. Nothing \in [of : Files \cup {NoFile}, time : Times, parts : 0 .. Parts]
  BY <1>1, <1>4 DEF Nothing
<1> QED
  BY <1>1, <1>2, <1>3, <1>4, <1>5, <1>6 DEF Absent, Torn, Nothing

(* The file of manifests m is a whole one.                                    *)
LEMMA WholeKinds ==
    ASSUME NEW m \in Manifests
    PROVE  /\ Whole(m).kind = "whole" /\ Whole(m).docs = m
           /\ Whole(m) \in [kind : {"absent", "torn", "whole"}, docs : Manifests]
BY DEF Whole

LEMMA EntryKinds ==
    ASSUME NEW s \in {"none", "indexed", "failed"}, NEW t \in Times, NEW f \in Files,
           NEW m \in Manifests
    PROVE  [m EXCEPT ![f] = [status |-> s, at |-> t]] \in Manifests
BY DEF Entries, Manifests

LEMMA UnknownKinds ==
    ASSUME NEW f \in Files, NEW m \in Manifests
    PROVE  [m EXCEPT ![f] = Unknown] \in Manifests
BY RagKinds DEF Manifests

(* Handles of the store.                                                      *)
LEMMA HandleKinds ==
    /\ NoHandle \in Handles /\ ~NoHandle.there /\ NoHandle.knows = {}
    /\ \A ts \in SUBSET Tables :
          Handle(ts) \in Handles /\ Handle(ts).there /\ Handle(ts).knows = ts
BY DEF NoHandle, Handle, Handles

LEMMA HandleChanges ==
    ASSUME NEW h \in Handles, NEW n \in Tables
    PROVE  /\ Knowing(h, n) \in Handles /\ Forgetting(h, n) \in Handles
           /\ Knowing(h, n).knows = h.knows \cup {n} /\ Forgetting(h, n).knows = h.knows \ {n}
           /\ Knowing(h, n).there = h.there /\ Forgetting(h, n).there = h.there
BY DEF Knowing, Forgetting, Handles

LEMMA InitRag == ASSUME RagInit PROVE RagInv
<1>1. RagTypeOK
  <2>1. clock \in 1 .. MaxEdits /\ disk \in [Files -> Times]
    BY RagKinds DEF RagInit, Times
  <2>2. file \in [kind : {"absent", "torn", "whole"}, docs : Manifests]
    BY RagKinds DEF RagInit, Absent
  <2>3. runs \in 0 .. MaxRuns /\ restarts \in 0 .. MaxRestarts
    BY RagKinds DEF RagInit
  <2> QED
    BY <2>1, <2>2, <2>3, RagKinds, HandleKinds DEF RagInit, RagTypeOK
<1>2. UnderWay
  BY RagKinds DEF RagInit, UnderWay
<1>3. TimesInv
  BY RagKinds DEF RagInit, TimesInv
<1> QED
  BY <1>1, <1>2, <1>3 DEF RagInv

LEMMA RagKept == ASSUME RagInv, [RagNext]_ragVars PROVE RagInv'
<1> USE DEF folder, work, history, index, handles
<1>1. ASSUME NEW f \in BOOLEAN, Start(f) PROVE RagInv'
  <2>1. RagTypeOK'
    <3>1. runs' \in 0 .. MaxRuns
      BY <1>1, RagKinds DEF Start, RagInv, RagTypeOK
    <3> QED
      BY <1>1, <3>1, RagKinds DEF Start, RagInv, RagTypeOK
  <2>2. UnderWay'
    <3>1. runs \in Nat
      BY <1>1, RagKinds DEF Start, RagInv, RagTypeOK
    <3>2. runs' > 0
      BY <1>1, <3>1 DEF Start
    <3>3. place = "idle"
      BY <1>1 DEF Start, RagInv, UnderWay
    <3> QED
      BY <1>1, <3>2, <3>3 DEF Start, RagInv, UnderWay
  <2>3. TimesInv'
    BY <1>1 DEF Start, RagInv, TimesInv
  <2> QED
    BY <2>1, <2>2, <2>3 DEF RagInv
<1>2. CASE Load
  <2>1. RagTypeOK'
    BY <1>2, RagKinds DEF Load, Scan, RagInv, RagTypeOK
  <2>2. UnderWay'
    BY <1>2, RagKinds DEF Load, Scan, RagInv, RagTypeOK, UnderWay
  <2>3. TimesInv'
    BY <1>2, RagKinds
    DEF Load, Scan, RagInv, RagTypeOK, TimesInv, Times, Entries, Manifests
  <2> QED
    BY <2>1, <2>2, <2>3 DEF RagInv
<1>3. CASE Created
  <2>1. RagTypeOK'
    BY <1>3, RagKinds, WholeKinds DEF Created, Scan, RagInv, RagTypeOK
  <2>2. UnderWay'
    BY <1>3, RagKinds DEF Created, Scan, RagInv, RagTypeOK, UnderWay
  <2>3. TimesInv'
    BY <1>3, RagKinds, WholeKinds
    DEF Created, Scan, RagInv, RagTypeOK, TimesInv, Times, Entries,
      Manifests
  <2> QED
    BY <2>1, <2>2, <2>3 DEF RagInv
<1>4. CASE Opened
  <2>1. RagTypeOK'
    <3>1. store' \in Handles
      BY <1>4, HandleKinds DEF Opened, RagInv, RagTypeOK
    <3>2. lost' \in BOOLEAN
      BY <1>4 DEF Opened, RagInv, RagTypeOK
    <3> QED
      BY <1>4, <3>1, <3>2 DEF Opened, Categorize, ToIndex, RagInv, RagTypeOK
  <2>2. UnderWay'
    BY <1>4, RagKinds DEF Opened, Categorize, ToIndex, RagInv, RagTypeOK, UnderWay
  <2>3. TimesInv'
    BY <1>4 DEF Opened, Categorize, ToIndex, RagInv, TimesInv
  <2> QED
    BY <2>1, <2>2, <2>3 DEF RagInv
<1>5. ASSUME NEW n \in Tables, DropTable(n) PROVE RagInv'
  <2>1. RagTypeOK'
    <3>1. store' \in Handles /\ own' \in Handles /\ querying' \in Handles
      BY <1>5, HandleChanges DEF DropTable, RagInv, RagTypeOK
    <3> QED
      BY <1>5, <3>1 DEF DropTable, RagInv, RagTypeOK
  <2>2. UnderWay'
    BY <1>5, RagKinds DEF DropTable, RagInv, RagTypeOK, UnderWay
  <2>3. TimesInv'
    BY <1>5 DEF DropTable, RagInv, TimesInv
  <2> QED
    BY <2>1, <2>2, <2>3 DEF RagInv
<1>6. CASE Cleared
  <2>1. RagTypeOK'
    <3>1. store' \in Handles /\ own' \in Handles
      BY <1>6, HandleKinds DEF Cleared, RagInv, RagTypeOK
    <3> QED
      BY <1>6, <3>1, RagKinds DEF Cleared, Categorize, ToIndex, RagInv, RagTypeOK
  <2>2. UnderWay'
    BY <1>6, RagKinds DEF Cleared, Categorize, ToIndex, RagInv, RagTypeOK, UnderWay
  <2>3. TimesInv'
    BY <1>6, RagKinds
    DEF Cleared, Categorize, RagInv, RagTypeOK, TimesInv, Times, Entries, Manifests
  <2> QED
    BY <2>1, <2>2, <2>3 DEF RagInv
<1>7. CASE AddVectors
  <2>1. RagTypeOK'
    <3>a. runs \in 0 .. MaxRuns /\ doing.parts \in 0 .. Parts /\ doing.parts < Parts
      BY <1>7 DEF AddVectors, RagInv, RagTypeOK
    <3>b. place = "working" /\ runs > 0 /\ doing.of \in Files
      BY <1>7 DEF AddVectors, RagInv, RagTypeOK, UnderWay
    <3>1. runs \in 1 .. MaxRuns /\ doing.of \in Files /\ doing.parts + 1 \in 1 .. Parts
      BY <3>a, <3>b, RagKinds
    <3>c. doing.parts + 1 \in Tables
      BY <3>1 DEF Tables
    <3>2. [of |-> doing.of, time |-> doing.time, run |-> runs, part |-> doing.parts + 1]
             \in Row
      BY <3>1, <3>c DEF RagInv, RagTypeOK, Row
    <3>3. doing' \in [of : Files \cup {NoFile}, time : Times, parts : 0 .. Parts]
      BY <1>7, <3>1 DEF AddVectors, RagInv, RagTypeOK
    <3>4. store' \in Handles /\ own' \in Handles
      BY <1>7, <3>c, HandleChanges DEF AddVectors, RagInv, RagTypeOK
    <3>5. vectors' \subseteq Row /\ tables' \subseteq Tables
      BY <1>7, <3>2, <3>c DEF AddVectors, RagInv, RagTypeOK
    <3> QED
      BY <1>7, <3>3, <3>4, <3>5 DEF AddVectors, RagInv, RagTypeOK
  <2>2. UnderWay'
    BY <1>7, RagKinds DEF AddVectors, RagInv, RagTypeOK, UnderWay
  <2>3. TimesInv'
    BY <1>7 DEF AddVectors, RagInv, TimesInv
  <2> QED
    BY <2>1, <2>2, <2>3 DEF RagInv
<1>8. CASE SaveManifest
  <2>1. RagTypeOK'
    BY <1>8, RagKinds DEF SaveManifest, RagInv, RagTypeOK
  <2>2. UnderWay'
    BY <1>8, RagKinds DEF SaveManifest, RagInv, RagTypeOK, UnderWay
  <2>3. TimesInv'
    BY <1>8, RagKinds
    DEF SaveManifest, RagInv, RagTypeOK, TimesInv, Times, Entries, Manifests
  <2> QED
    BY <2>1, <2>2, <2>3 DEF RagInv
<1>9. CASE Saved
  <2>1. RagTypeOK'
    BY <1>9, WholeKinds, HandleKinds DEF Saved, RagInv, RagTypeOK
  <2>2. UnderWay'
    BY <1>9, RagKinds DEF Saved, RagInv, RagTypeOK, UnderWay
  <2>3. TimesInv'
    BY <1>9, WholeKinds
    DEF Saved, RagInv, RagTypeOK, TimesInv, Times, Entries, Manifests
  <2> QED
    BY <2>1, <2>2, <2>3 DEF RagInv
<1>10. CASE Throws
  <2>1. RagTypeOK'
    BY <1>10, RagKinds, HandleKinds DEF Throws, Abort, RagInv, RagTypeOK
  <2>2. UnderWay'
    BY <1>10, RagKinds DEF Throws, Abort, RagInv, RagTypeOK, UnderWay
  <2>3. TimesInv'
    BY <1>10 DEF Throws, Abort, RagInv, TimesInv
  <2> QED
    BY <2>1, <2>2, <2>3 DEF RagInv
<1>11. ASSUME NEW f \in Files, RemoveGone(f) PROVE RagInv'
  <2>1. RagTypeOK'
    BY <1>11, UnknownKinds DEF RemoveGone, Deleted, RagInv, RagTypeOK
  <2>2. UnderWay'
    BY <1>11, RagKinds DEF RemoveGone, Deleted, RagInv, RagTypeOK, UnderWay
  <2>3. TimesInv'
    BY <1>11, RagKinds
    DEF RemoveGone, Deleted, RagInv, RagTypeOK, TimesInv, Times, Entries,
      Manifests
  <2> QED
    BY <2>1, <2>2, <2>3 DEF RagInv
<1>12. ASSUME NEW f \in Files, RemoveOld(f) PROVE RagInv'
  <2>1. RagTypeOK'
    BY <1>12 DEF RemoveOld, Deleted, RagInv, RagTypeOK
  <2>2. UnderWay'
    BY <1>12, RagKinds DEF RemoveOld, Deleted, RagInv, RagTypeOK, UnderWay
  <2>3. TimesInv'
    BY <1>12 DEF RemoveOld, Deleted, RagInv, TimesInv
  <2> QED
    BY <2>1, <2>2, <2>3 DEF RagInv
<1>13. ASSUME NEW f \in Files, Read(f) PROVE RagInv'
  <2>1. RagTypeOK'
    BY <1>13, RagKinds DEF Read, RagInv, RagTypeOK
  <2>2. UnderWay'
    BY <1>13, RagKinds DEF Read, RagInv, RagTypeOK, UnderWay
  <2>3. TimesInv'
    BY <1>13 DEF Read, RagInv, TimesInv
  <2> QED
    BY <2>1, <2>2, <2>3 DEF RagInv
<1>14. ASSUME NEW f \in Files, Indexed(f) PROVE RagInv'
  <2>1. RagTypeOK'
    <3>1. manifest' \in Manifests
      BY <1>14, RagKinds, EntryKinds DEF Indexed, Working, Record, RagInv, RagTypeOK
    <3> QED
      BY <1>14, <3>1, RagKinds DEF Indexed, Working, Record, RagInv, RagTypeOK
  <2>2. UnderWay'
    BY <1>14, RagKinds DEF Indexed, Working, Record, RagInv, RagTypeOK, UnderWay
  <2>3. TimesInv'
    BY <1>14, RagKinds
    DEF Indexed, Working, Record, RagInv, RagTypeOK, TimesInv, Times,
      Entries, Manifests
  <2> QED
    BY <2>1, <2>2, <2>3 DEF RagInv
<1>15. ASSUME NEW f \in Files, FailDocument(f) PROVE RagInv'
  <2>1. RagTypeOK'
    BY <1>15, RagKinds, EntryKinds DEF FailDocument, Working, Record, RagInv, RagTypeOK
  <2>2. UnderWay'
    BY <1>15, RagKinds DEF FailDocument, Working, Record, RagInv, RagTypeOK, UnderWay
  <2>3. TimesInv'
    BY <1>15, RagKinds
    DEF FailDocument, Working, Record, RagInv, RagTypeOK, TimesInv, Times, Entries,
      Manifests
  <2> QED
    BY <2>1, <2>2, <2>3 DEF RagInv
<1>16. ASSUME NEW f \in Files, Edit(f) PROVE RagInv'
  <2>1. RagTypeOK'
    <3>1. clock' \in 1 .. MaxEdits /\ disk' \in [Files -> Times]
      BY <1>16, RagKinds DEF Edit, Times, RagInv, RagTypeOK
    <3> QED
      BY <1>16, <3>1 DEF Edit, RagInv, RagTypeOK
  <2>2. UnderWay'
    BY <1>16, RagKinds DEF Edit, RagInv, RagTypeOK, UnderWay
  <2>3. TimesInv'
    BY <1>16 DEF Edit, RagInv, RagTypeOK, TimesInv, Times, Entries, Manifests
  <2> QED
    BY <2>1, <2>2, <2>3 DEF RagInv
<1>17. ASSUME NEW f \in Files, Remove(f) PROVE RagInv'
  <2>1. RagTypeOK'
    <3>1. disk' \in [Files -> Times]
      BY <1>17, RagKinds DEF Remove, RagInv, RagTypeOK
    <3> QED
      BY <1>17, <3>1 DEF Remove, RagInv, RagTypeOK
  <2>2. UnderWay'
    BY <1>17, RagKinds DEF Remove, RagInv, RagTypeOK, UnderWay
  <2>3. TimesInv'
    BY <1>17, RagKinds
    DEF Remove, RagInv, RagTypeOK, TimesInv, Times, Entries, Manifests
  <2> QED
    BY <2>1, <2>2, <2>3 DEF RagInv
<1>18. CASE List
  <2>1. RagTypeOK'
    BY <1>18, RagKinds DEF List, IsRecord, RagInv, RagTypeOK
  <2>2. UnderWay'
    BY <1>18, RagKinds DEF List, IsRecord, RagInv, RagTypeOK, UnderWay
  <2>3. TimesInv'
    BY <1>18, RagKinds
    DEF List, IsRecord, RagInv, RagTypeOK, TimesInv, Times, Entries,
      Manifests
  <2> QED
    BY <2>1, <2>2, <2>3 DEF RagInv
<1>20. CASE Listed
  <2>1. RagTypeOK'
    BY <1>20, RagKinds, WholeKinds DEF Listed, IsRecord, RagInv, RagTypeOK
  <2>2. UnderWay'
    BY <1>20, RagKinds DEF Listed, IsRecord, RagInv, RagTypeOK, UnderWay
  <2>3. TimesInv'
    BY <1>20, RagKinds, WholeKinds
    DEF Listed, IsRecord, RagInv, RagTypeOK, TimesInv, Times, Entries,
      Manifests
  <2> QED
    BY <2>1, <2>2, <2>3 DEF RagInv
<1>21. CASE RestartProgram
  <2>1. RagTypeOK'
    <3>1. restarts' \in 0 .. MaxRestarts
      BY <1>21, RagKinds DEF RestartProgram, RagInv, RagTypeOK
    <3> QED
      BY <1>21, <3>1, RagKinds, HandleKinds DEF RestartProgram, RagInv, RagTypeOK
  <2>2. UnderWay'
    BY <1>21, RagKinds DEF RestartProgram, RagInv, RagTypeOK, UnderWay
  <2>3. TimesInv'
    BY <1>21 DEF RestartProgram, RagInv, TimesInv
  <2> QED
    BY <2>1, <2>2, <2>3 DEF RagInv
<1>22. CASE UNCHANGED ragVars
  <2>1. RagTypeOK'
    BY <1>22 DEF ragVars, RagInv, RagTypeOK
  <2>2. UnderWay'
    BY <1>22 DEF ragVars, RagInv, RagTypeOK, UnderWay
  <2>3. TimesInv'
    BY <1>22 DEF ragVars, RagInv, TimesInv
  <2> QED
    BY <2>1, <2>2, <2>3 DEF RagInv
<1>23. CASE QueryOpens \/ QueryOpened
  <2>1. RagTypeOK'
    BY <1>23, HandleKinds DEF QueryOpens, QueryOpened, RagInv, RagTypeOK
  <2>2. UnderWay'
    BY <1>23, RagKinds DEF QueryOpens, QueryOpened, RagInv, RagTypeOK, UnderWay
  <2>3. TimesInv'
    BY <1>23 DEF QueryOpens, QueryOpened, RagInv, TimesInv
  <2> QED
    BY <2>1, <2>2, <2>3 DEF RagInv
<1> QED
  BY <1>1, <1>2, <1>3, <1>4, <1>5, <1>6, <1>7, <1>8, <1>9, <1>10, <1>11, <1>12,
     <1>13, <1>14, <1>15, <1>16, <1>17, <1>18, <1>20, <1>21, <1>22,
     <1>23
  DEF RagNext, RunStep

(* Every variable keeps its kind.                                             *)
THEOREM RagTypeCorrect == RagSpec => []RagTypeOK
<1>1. RagInit => RagInv
  BY InitRag
<1>2. RagInv /\ [RagNext]_ragVars => RagInv'
  BY RagKept
<1>3. RagInv => RagTypeOK
  BY DEF RagInv
<1> QED
  BY <1>1, <1>2, <1>3, PTL DEF RagSpec

-----------------------------------------------------------------------------
(* A run that counts knows every table: it has just made its handle or learned *)
(* of each table as it made it, and keeps it when a query sets another.        *)
Early == {"idle", "loading", "creating", "opening"}
Late == {"working", "saving"}

HandleInv ==
    /\ \A r \in vectors : r.part \in tables
    /\ place \in Early => ~own.there
    /\ place \in Late \cup {"clearing"} => store.there
    /\ (~lost \/ force) /\ place \in Late => Mine = tables

LEMMA HandleKept == ASSUME RagInv, HandleInv, [RagNext]_ragVars PROVE HandleInv'
<1> USE DEF folder, work, history, index, handles, Early, Late
<1>t. /\ tables \subseteq Tables /\ store \in Handles /\ own \in Handles /\ querying \in Handles
  BY DEF RagInv, RagTypeOK
<1>1. ASSUME NEW f \in BOOLEAN, Start(f) PROVE HandleInv'
  BY <1>1 DEF Start, HandleInv, RagInv, UnderWay
<1>2. CASE Load \/ Created
  BY <1>2 DEF Load, Created, HandleInv
<1>3. CASE Opened
  <2>1. /\ place = "opening" /\ UNCHANGED <<vectors, tables, own, force>> /\ ~own.there
        /\ place' \in {"clearing", "working"} /\ (place' = "working" => ~force)
        /\ lost' = (lost \/ Misses)
    BY <1>3 DEF Opened, Categorize, HandleInv
  <2>2. store'.there /\ (~lost' => store'.knows = tables)
    BY <1>3, <1>t, <2>1, HandleKinds DEF Opened, Misses
  <2> QED
    BY <2>1, <2>2 DEF HandleInv, Mine
<1>4. ASSUME NEW n \in Tables, DropTable(n) PROVE HandleInv'
  <2>1. store'.there = store.there
    BY <1>4, <1>t, HandleChanges DEF DropTable
  <2> QED
    BY <1>4, <2>1 DEF DropTable, HandleInv
<1>5. CASE Cleared
  <2>1. /\ UNCHANGED <<vectors, tables>> /\ place' = "working" /\ ~own'.there
        /\ store'.there /\ store'.knows = tables
    BY <1>5, <1>t, HandleKinds DEF Cleared, Categorize
  <2> QED
    BY <2>1 DEF HandleInv, Mine
<1>6. CASE AddVectors
  <2> DEFINE n == doing.parts + 1
  <2>1. /\ tables' = tables \cup {n} /\ UNCHANGED <<place, lost, force>>
        /\ \A r \in vectors' : r \in vectors \/ r.part = n
        /\ own' = IF own.there THEN Knowing(own, n) ELSE own
        /\ store' = IF own.there THEN store ELSE Knowing(store, n)
    BY <1>6 DEF AddVectors
  <2>2. n \in Tables
    BY <1>6, RagKinds DEF AddVectors, RagInv, RagTypeOK, Tables
  <2> HIDE DEF n
  <2>3. Mine' = Mine \cup {n} /\ own'.there = own.there /\ store'.there = store.there
    BY <1>t, <2>1, <2>2, HandleChanges DEF Mine
  <2> QED
    BY <2>1, <2>3 DEF HandleInv
<1>7. CASE SaveManifest
  BY <1>7 DEF SaveManifest, HandleInv, Mine
<1>8. CASE Saved
  BY <1>8, HandleKinds DEF Saved, HandleInv
<1>9. CASE Throws \/ RestartProgram
  BY <1>9, HandleKinds DEF Throws, Abort, RestartProgram, HandleInv
<1>10. ASSUME NEW f \in Files, RemoveGone(f) \/ RemoveOld(f) PROVE HandleInv'
  <2>1. /\ vectors' \subseteq vectors /\ UNCHANGED <<tables, store, own, place, lost, force>>
    BY <1>10 DEF RemoveGone, RemoveOld, Deleted
  <2> QED
    BY <2>1 DEF HandleInv, Mine
<1>11. ASSUME NEW f \in Files, Read(f) \/ Indexed(f) \/ FailDocument(f) \/ Edit(f) \/ Remove(f)
       PROVE  HandleInv'
  <2>1. UNCHANGED <<vectors, tables, store, own, place, lost, force>>
    BY <1>11 DEF Read, Indexed, FailDocument, Edit, Remove
  <2> QED
    BY <2>1 DEF HandleInv, Mine
<1>12. CASE List \/ Listed \/ QueryOpens \/ UNCHANGED ragVars
  <2>1. UNCHANGED <<vectors, tables, store, own, place, force>>
    BY <1>12 DEF List, Listed, QueryOpens, ragVars
  <2>2. lost => lost'
    <3>t. lost \in BOOLEAN
      BY DEF RagInv, RagTypeOK
    <3>1. CASE List \/ Listed
      <4>1. lost' = (lost \/ IsRecord)
        BY <3>1 DEF List, Listed
      <4> QED
        BY <3>t, <4>1, Zenon
    <3>2. CASE QueryOpens \/ UNCHANGED ragVars
      BY <3>2 DEF QueryOpens, ragVars
    <3> QED
      BY <1>12, <3>1, <3>2
  <2> QED
    BY <2>1, <2>2 DEF HandleInv, Mine
<1>13. CASE QueryOpened
  <2>1. UNCHANGED <<vectors, tables, place, lost, force>> /\ store'.there
    BY <1>13 DEF QueryOpened
  <2>2. CASE Begun /\ ~own.there
    <3>1. own' = store /\ store.there
      BY <1>13, <2>2 DEF QueryOpened, HandleInv, Begun
    <3> QED
      BY <2>1, <2>2, <3>1 DEF HandleInv, Mine, Begun
  <2>3. CASE ~(Begun /\ ~own.there)
    BY <1>13, <2>1, <2>3 DEF QueryOpened, HandleInv, Mine, Begun
  <2> QED
    BY <2>2, <2>3
<1> QED
  BY <1>1, <1>2, <1>3, <1>4, <1>5, <1>6, <1>7, <1>8, <1>9, <1>10, <1>11, <1>12, <1>13
  DEF RagNext, RunStep

(* Why the store is what the manifest says.  Until a run changes the store,   *)
(* that is what the file says; then it is what the manifest the run works on  *)
(* says of the documents it has done with, and of those it has still to index *)
(* there are the rows this run wrote.  A run that is lost leaves it at that,  *)
(* unless it is forced, which begins with an empty store.                     *)

RowsIn(R, f) == {r \in R : r.of = f}

(* What an entry e says of document f, whose time is t, and the rows R.       *)
Agrees(e, f, R, t, race) ==
    /\ e.status = "none" => RowsIn(R, f) = {}
    /\ \A r, q \in RowsIn(R, f) : r.run = q.run /\ r.time = q.time
    /\ e.status = "indexed" =>
          /\ \A n \in 1 .. Parts : \E r \in RowsIn(R, f) : r.part = n
          /\ t \in 1 .. e.at /\ ~race => \A r \in RowsIn(R, f) : r.time = t

(* What run n, which does d, has written for a document that it has to index. *)
Partial(f, R, n, d) ==
    /\ \A r \in RowsIn(R, f) : d.of = f /\ r.run = n /\ r.time = d.time
    /\ d.of = f => \A k \in 1 .. d.parts : \E r \in RowsIn(R, f) : r.part = k

RecordInv ==
    /\ ~lost /\ place \in {"creating", "opening"} => manifest = file.docs
    /\ ~lost /\ place \in Early =>
          \A f \in Files : Agrees(file.docs[f], f, vectors, disk[f], f \in raced)
    /\ (~lost \/ force) /\ place \in Late =>
          \A f \in Files \ todo : Agrees(manifest[f], f, vectors, disk[f], f \in raced)
    /\ (~lost \/ force) /\ place \in Late =>
          \A f \in todo \ old : Partial(f, vectors, runs, doing)

(* If nobody edits the folder, what a run has done with is recorded as failed *)
(* or as indexed after its last edit.                                         *)
CoverInv ==
    (~lost \/ force) /\ place \in {"working", "saving"} /\ quiet =>
       \A f \in Files \ todo : disk[f] # 0 /\ f \notin raced =>
          \/ manifest[f].status = "failed"
          \/ manifest[f].status = "indexed" /\ disk[f] <= manifest[f].at

(* A document without rows agrees with an entry that does not say indexed.    *)
LEMMA NoRowsAgree ==
    ASSUME NEW e, e.status # "indexed", NEW f, NEW R, RowsIn(R, f) = {}, NEW t, NEW race
    PROVE  Agrees(e, f, R, t, race)
BY DEF Agrees

(* An entry goes on to be right if the rows of the document stay and its time *)
(* does, or is none that the entry speaks of.                                 *)
LEMMA AgreesKept ==
    ASSUME NEW e, NEW f, NEW R, NEW t, NEW race, Agrees(e, f, R, t, race),
           NEW S, RowsIn(S, f) = RowsIn(R, f), NEW u, u = t \/ u \notin 1 .. e.at
    PROVE  Agrees(e, f, S, u, race)
BY DEF Agrees

LEMMA PartialKept ==
    ASSUME NEW f, NEW R, NEW n, NEW d, Partial(f, R, n, d), NEW S, RowsIn(S, f) = RowsIn(R, f)
    PROVE  Partial(f, S, n, d)
BY DEF Partial

(* Of a run that does not count, and of one that drops tables, nothing is      *)
(* claimed.                                                                   *)
LEMMA NothingClaimed ==
    ASSUME place' = "clearing" \/ (place' \in Late /\ lost' /\ ~force')
    PROVE  RecordInv' /\ CoverInv'
BY DEF RecordInv, CoverInv, Early, Late

(* A run that counts deletes all rows of a document.                          *)
LEMMA AllDeleted ==
    ASSUME HandleInv, ~lost \/ force, place \in Late, NEW f
    PROVE  Deleted(f) = {r \in vectors : r.of # f}
BY DEF HandleInv, Deleted

LEMMA InitRecord == ASSUME RagInit PROVE HandleInv /\ RecordInv /\ CoverInv
<1>1. \A f \in Files : RowsIn(vectors, f) = {} /\ file.docs[f].status = "none"
  BY RagKinds DEF RagInit, RowsIn
<1>2. \A f \in Files : Agrees(file.docs[f], f, vectors, disk[f], f \in raced)
  BY <1>1, NoRowsAgree
<1> QED
  BY <1>2, HandleKinds DEF RagInit, HandleInv, RecordInv, CoverInv, Late

(* Steps between runs and up to the first change of the store.                *)
LEMMA EarlyRecord ==
    ASSUME RecordInv, UNCHANGED <<disk, vectors, raced>>, place' \in Early,
           lost' \/ (~lost /\ place \in Early /\ file'.docs = file.docs),
           lost' \/ (place' \in {"creating", "opening"} => manifest' = file'.docs)
    PROVE  RecordInv' /\ CoverInv'
<1>1. place' \notin Late /\ place' \notin {"working", "saving"}
  BY DEF Early, Late
<1> QED
  BY <1>1 DEF RecordInv, CoverInv

(* Steps that leave the run, the store and what it says alone.                *)
LEMMA RecordStays ==
    ASSUME RecordInv, CoverInv, lost => lost', ~lost' => file'.docs = file.docs,
           UNCHANGED <<place, manifest, vectors, disk, raced, force, todo, old, runs, doing, quiet>>
    PROVE  RecordInv' /\ CoverInv'
BY DEF RecordInv, CoverInv

(* Documents are edited and removed.                                          *)
LEMMA FolderRecord ==
    ASSUME RagInv, RecordInv, CoverInv, NEW f \in Files,
           Edit(f) \/ Remove(f)
    PROVE  RecordInv' /\ CoverInv'
<1>1. /\ UNCHANGED <<place, manifest, file, lost, vectors, raced, force, todo, old, runs, doing>>
      /\ ~quiet' /\ \A g \in Files : g # f => disk'[g] = disk[g]
  BY DEF Edit, Remove, work, index, RagInv, RagTypeOK
<1>2. clock \in Nat /\ \A g \in Files : manifest[g].at \in Nat /\ file.docs[g].at \in Nat
  BY RagKinds DEF RagInv, RagTypeOK, Manifests, Entries, Times
<1>3. disk'[f] = clock + 1 \/ disk'[f] = 0
  BY DEF Edit, Remove, RagInv, RagTypeOK
<1>4. disk'[f] \notin 1 .. manifest[f].at /\ disk'[f] \notin 1 .. file.docs[f].at
  BY <1>2, <1>3 DEF RagInv, TimesInv
<1>5. \A g \in Files : /\ Agrees(manifest[g], g, vectors, disk[g], g \in raced)
                            => Agrees(manifest[g], g, vectors, disk'[g], g \in raced)
                       /\ Agrees(file.docs[g], g, vectors, disk[g], g \in raced)
                            => Agrees(file.docs[g], g, vectors, disk'[g], g \in raced)
  BY <1>1, <1>4, AgreesKept
<1>6. RecordInv'
  BY <1>1, <1>5 DEF RecordInv
<1> QED
  BY <1>1, <1>6 DEF CoverInv

(* Documents are sorted out: what is not to be indexed was indexed after its  *)
(* last edit, and what is new has no rows.                                    *)
LEMMA SortedRecord ==
    ASSUME RagInv, NEW m \in Manifests, Categorize(m), manifest' = m, todo = {},
           doing.of = NoFile, NoFile \notin Files,
           quiet => docFiles = {f \in Files : disk[f] # 0},
           UNCHANGED <<vectors, disk, raced, runs, doing, quiet>>, place' = "working",
           (~lost' \/ force') =>
              \A f \in Files : Agrees(m[f], f, vectors, disk[f], f \in raced)
    PROVE  RecordInv' /\ CoverInv'
<1>1. ASSUME ~lost' \/ force', NEW f \in todo' \ old' PROVE Partial(f, vectors, runs, doing)
  <2>1. f \in Files /\ m[f].status = "none"
    BY <1>1 DEF Categorize, ToIndex, RagInv, RagTypeOK
  <2>2. RowsIn(vectors, f) = {}
    BY <1>1, <2>1 DEF Agrees
  <2> QED
    BY <2>1, <2>2 DEF Partial
<1>2. ASSUME quiet, NEW f \in Files \ todo', disk[f] # 0
      PROVE  m[f].status = "indexed" /\ disk[f] <= m[f].at
  <2>1. f \in docFiles
    BY <1>2
  <2>2. m[f].status \notin {"none", "failed"} /\ ~(disk[f] > m[f].at)
    BY <1>2, <2>1 DEF Categorize, ToIndex, IsChanged
  <2>3. m[f].status \in {"none", "indexed", "failed"}
        /\ m[f].at \in Int /\ disk[f] \in Int
    BY DEF RagInv, RagTypeOK, Manifests, Entries, Times
  <2> QED
    BY <2>2, <2>3
<1>3. RecordInv'
  BY <1>1 DEF RecordInv, Early, Late
<1> QED
  BY <1>2, <1>3 DEF CoverInv

(* The steps that change the store or say something of it.                    *)
LEMMA WorkRecord ==
    ASSUME RagInv, HandleInv, RecordInv, CoverInv,
           \/ Opened \/ Cleared \/ AddVectors \/ SaveManifest
           \/ \E f \in Files : \/ RemoveGone(f) \/ RemoveOld(f) \/ Read(f)
                               \/ Indexed(f) \/ FailDocument(f)
    PROVE  RecordInv' /\ CoverInv'
<1> USE DEF folder, work, history, index, handles
<1>n. /\ NoFile \notin Files /\ todo \subseteq Files /\ old \subseteq todo
      /\ \A f \in Files : NewManifest[f].status = "none"
  BY RagKinds DEF RagInv, RagTypeOK
<1>d. /\ place # "working" => todo = {} /\ doing.of = NoFile
      /\ doing.of # NoFile => place = "working" /\ doing.of \in todo
      /\ place \in {"opening", "clearing"} /\ quiet => docFiles = {f \in Files : disk[f] # 0}
  BY DEF RagInv, UnderWay
<1>1. CASE Opened
  <2>1. /\ place = "opening" /\ lost' = (lost \/ Misses)
        /\ UNCHANGED <<manifest, vectors, disk, raced, runs, doing, quiet, force>>
        /\ IF force THEN place' = "clearing" ELSE Categorize(manifest)
    BY <1>1 DEF Opened
  <2>2. CASE ~force
    <3>1. ~lost' => \A f \in Files : Agrees(manifest[f], f, vectors, disk[f], f \in raced)
      BY <2>1 DEF RecordInv, Early
    <3>2. Categorize(manifest) /\ place' = "working" /\ manifest \in Manifests
      BY <2>1, <2>2 DEF Categorize, RagInv, RagTypeOK
    <3> QED
      BY <1>n, <1>d, <2>1, <2>2, <3>1, <3>2, SortedRecord
  <2> QED
    BY <2>1, <2>2, NothingClaimed
<1>3. CASE Cleared
  <2>1. /\ Categorize(NewManifest) /\ place = "clearing" /\ place' = "working" /\ tables = {}
        /\ manifest' = NewManifest /\ UNCHANGED <<vectors, disk, raced, runs, doing, quiet>>
    BY <1>3 DEF Cleared, Categorize
  <2>2. \A f \in Files : RowsIn(vectors, f) = {}
    BY <2>1 DEF HandleInv, RowsIn
  <2>3. \A f \in Files : Agrees(NewManifest[f], f, vectors, disk[f], f \in raced)
    BY <1>n, <2>2, NoRowsAgree
  <2> QED
    BY <1>n, <1>d, <2>1, <2>3, RagKinds, SortedRecord
<1>4. CASE AddVectors
  <2> DEFINE row == [of |-> doing.of, time |-> doing.time, run |-> runs, part |-> doing.parts + 1]
  <2>1. /\ doing.of # NoFile /\ vectors' = vectors \cup {row}
        /\ doing' = [doing EXCEPT !.parts = doing.parts + 1]
        /\ UNCHANGED <<disk, raced, place, lost, force, file, manifest, todo, old, runs, quiet>>
    BY <1>4 DEF AddVectors
  <2>2. doing.of \in todo /\ place = "working" /\ doing.parts \in Nat
    BY <1>d, <2>1 DEF RagInv, RagTypeOK
  <2>3. \A f : f # doing.of => RowsIn(vectors', f) = RowsIn(vectors, f)
    BY <2>1 DEF RowsIn
  <2>4. doing'.of = doing.of /\ doing'.time = doing.time /\ doing'.parts = doing.parts + 1
    BY <2>1 DEF RagInv, RagTypeOK
  <2>5. ASSUME NEW f \in todo \ old, Partial(f, vectors, runs, doing)
        PROVE  Partial(f, vectors', runs, doing')
    <3>1. CASE f # doing.of
      BY <2>3, <2>4, <2>5, <3>1 DEF Partial
    <3>2. CASE f = doing.of
      <4>1. RowsIn(vectors', f) = RowsIn(vectors, f) \cup {row}
        BY <2>1, <3>2 DEF RowsIn
      <4>2. \A k \in 1 .. doing'.parts : k \in 1 .. doing.parts \/ k = doing.parts + 1
        BY <2>2, <2>4
      <4>3. \A k \in 1 .. doing.parts : \E r \in RowsIn(vectors', f) : r.part = k
        BY <2>5, <3>2, <4>1 DEF Partial
      <4>4. row \in RowsIn(vectors', f) /\ row.part = doing.parts + 1
        BY <4>1
      <4>5. \A k \in 1 .. doing'.parts : \E r \in RowsIn(vectors', f) : r.part = k
        BY <4>2, <4>3, <4>4
      <4>6. \A r \in RowsIn(vectors', f) : doing'.of = f /\ r.run = runs /\ r.time = doing'.time
        BY <2>4, <2>5, <3>2, <4>1 DEF Partial
      <4> QED
        BY <4>5, <4>6 DEF Partial
    <3> QED
      BY <3>1, <3>2
  <2>6. \A f \in Files \ todo : /\ Agrees(manifest[f], f, vectors, disk[f], f \in raced)
                                    => Agrees(manifest[f], f, vectors', disk[f], f \in raced)
    BY <2>2, <2>3, AgreesKept
  <2>7. RecordInv'
    BY <2>1, <2>2, <2>5, <2>6 DEF RecordInv, Early, Late
  <2> QED
    BY <2>1, <2>7 DEF CoverInv
<1>5. CASE SaveManifest
  <2>1. /\ place = "working" /\ place' = "saving" /\ todo = {}
        /\ UNCHANGED <<vectors, disk, raced, lost, force, manifest, todo, quiet>>
    BY <1>5 DEF SaveManifest
  <2>2. RecordInv'
    BY <2>1 DEF RecordInv, Early, Late
  <2> QED
    BY <2>1, <2>2 DEF CoverInv
<1>6. ASSUME NEW f \in Files, RemoveGone(f) PROVE RecordInv' /\ CoverInv'
  <2>a. CASE lost /\ ~force
    BY <1>6, <2>a, NothingClaimed DEF RemoveGone, Late
  <2> SUFFICES ASSUME ~lost \/ force PROVE RecordInv' /\ CoverInv'
    BY <2>a
  <2>b. Deleted(f) = {r \in vectors : r.of # f}
    BY <1>6, AllDeleted DEF RemoveGone, Late
  <2>1. /\ place = "working" /\ f \in gone /\ vectors' = {r \in vectors : r.of # f}
        /\ manifest' = [manifest EXCEPT ![f] = Unknown]
        /\ UNCHANGED <<disk, raced, place, lost, force, todo, old, runs, doing, quiet>>
    BY <1>6, <2>b DEF RemoveGone
  <2>2. manifest'[f].status = "none" /\ \A g \in Files : g # f => manifest'[g] = manifest[g]
    BY <2>1, RagKinds DEF RagInv, RagTypeOK, Manifests
  <2>3. RowsIn(vectors', f) = {} /\ \A g : g # f => RowsIn(vectors', g) = RowsIn(vectors, g)
    BY <2>1 DEF RowsIn
  <2>4. f \notin todo /\ (quiet => disk[f] = 0)
    BY <2>1 DEF RagInv, UnderWay
  <2>5. Agrees(manifest'[f], f, vectors', disk[f], f \in raced)
    BY <2>2, <2>3, NoRowsAgree
  <2>6. \A g \in Files : /\ g # f /\ Agrees(manifest[g], g, vectors, disk[g], g \in raced)
                               => Agrees(manifest'[g], g, vectors', disk[g], g \in raced)
    BY <2>2, <2>3, AgreesKept
  <2>7. \A g \in todo : Partial(g, vectors, runs, doing) => Partial(g, vectors', runs, doing)
    BY <2>3, <2>4, PartialKept
  <2>8. RecordInv'
    BY <2>1, <2>5, <2>6, <2>7 DEF RecordInv, Early, Late
  <2> QED
    BY <2>1, <2>2, <2>4, <2>8 DEF CoverInv
<1>7. ASSUME NEW f \in Files, RemoveOld(f) PROVE RecordInv' /\ CoverInv'
  <2>a. CASE lost /\ ~force
    BY <1>7, <2>a, NothingClaimed DEF RemoveOld, Late
  <2> SUFFICES ASSUME ~lost \/ force PROVE RecordInv' /\ CoverInv'
    BY <2>a
  <2>b. Deleted(f) = {r \in vectors : r.of # f}
    BY <1>7, AllDeleted DEF RemoveOld, Late
  <2>1. /\ place = "working" /\ f \in old /\ vectors' = {r \in vectors : r.of # f}
        /\ old' = old \ {f}
        /\ UNCHANGED <<disk, raced, place, lost, force, manifest, todo, runs, doing, quiet>>
    BY <1>7, <2>b DEF RemoveOld
  <2>2. RowsIn(vectors', f) = {} /\ \A g : g # f => RowsIn(vectors', g) = RowsIn(vectors, g)
    BY <2>1 DEF RowsIn
  <2>3. doing.of = NoFile
    BY <2>1 DEF RagInv, UnderWay
  <2>4. Partial(f, vectors', runs, doing)
    BY <1>n, <2>2, <2>3 DEF Partial
  <2>5. \A g \in todo : /\ g # f /\ Partial(g, vectors, runs, doing)
                             => Partial(g, vectors', runs, doing)
    BY <2>2, PartialKept
  <2>6. \A g \in Files \ todo : /\ Agrees(manifest[g], g, vectors, disk[g], g \in raced)
                                    => Agrees(manifest[g], g, vectors', disk[g], g \in raced)
    BY <1>n, <2>1, <2>2, AgreesKept
  <2>7. RecordInv'
    BY <2>1, <2>4, <2>5, <2>6 DEF RecordInv, Early, Late
  <2> QED
    BY <2>1, <2>7 DEF CoverInv
<1>8. ASSUME NEW f \in Files, Read(f) PROVE RecordInv' /\ CoverInv'
  <2>1. /\ place = "working" /\ f \in todo /\ old = {} /\ doing.of = NoFile
        /\ doing'.of = f /\ doing'.parts = 0 /\ raced' = raced \ {f}
        /\ UNCHANGED <<vectors, disk, place, lost, force, manifest, todo, old, runs, quiet>>
    BY <1>8 DEF Read
  <2>2. \A g \in todo : Partial(g, vectors, runs, doing) => Partial(g, vectors, runs, doing')
    BY <1>n, <2>1 DEF Partial
  <2>3. \A g \in Files \ todo : (g \in raced') <=> (g \in raced)
    BY <2>1
  <2>4. RecordInv'
    BY <2>1, <2>2, <2>3 DEF RecordInv, Early, Late
  <2>5. \A g \in Files \ todo' : g \in Files \ todo /\ (g \notin raced' => g \notin raced)
    BY <2>1, <2>3
  <2> QED
    BY <2>1, <2>4, <2>5 DEF CoverInv
<1>9. ASSUME NEW f \in Files, Indexed(f) PROVE RecordInv' /\ CoverInv'
  <2>1. /\ place = "working" /\ f \in todo /\ old = {} /\ doing.of = f /\ doing.parts = Parts
        /\ manifest' = [manifest EXCEPT ![f] = [status |-> "indexed", at |-> clock]]
        /\ todo' = todo \ {f} /\ doing'.of = NoFile
        /\ raced' = IF disk[f] # doing.time THEN raced \cup {f} ELSE raced
        /\ UNCHANGED <<vectors, disk, place, lost, force, old, runs, quiet>>
    BY <1>9, RagKinds DEF Indexed, Working, Record
  <2>2. /\ manifest'[f] = [status |-> "indexed", at |-> clock]
        /\ \A g \in Files : g # f => manifest'[g] = manifest[g]
    BY <2>1 DEF RagInv, RagTypeOK, Manifests
  <2>3. \A g \in Files : g # f => (g \in raced' <=> g \in raced)
    BY <2>1
  <2>4. ASSUME Partial(f, vectors, runs, doing)
        PROVE  Agrees(manifest'[f], f, vectors, disk[f], f \in raced')
    <3>1. f \notin raced' => disk[f] = doing.time
      BY <2>1
    <3> QED
      BY <2>1, <2>2, <2>4, <3>1 DEF Partial, Agrees
  <2>5. \A g \in todo : /\ g # f /\ Partial(g, vectors, runs, doing)
                             => Partial(g, vectors, runs, doing')
    BY <1>n, <2>1 DEF Partial
  <2>6. disk[f] <= clock
    BY DEF RagInv, TimesInv
  <2>7. RecordInv'
    BY <2>1, <2>2, <2>3, <2>4, <2>5 DEF RecordInv, Early, Late
  <2> QED
    BY <2>1, <2>2, <2>3, <2>6, <2>7 DEF CoverInv
<1>10. ASSUME NEW f \in Files, FailDocument(f) PROVE RecordInv' /\ CoverInv'
  <2>1. /\ place = "working" /\ f \in todo /\ old = {} /\ doing.of \in {NoFile, f}
        /\ manifest' = [manifest EXCEPT ![f] = [status |-> "failed", at |-> 0]]
        /\ todo' = todo \ {f} /\ doing'.of = NoFile
        /\ UNCHANGED <<vectors, disk, raced, place, lost, force, old, runs, quiet>>
    BY <1>10, RagKinds DEF FailDocument, Working, Record
  <2>2. /\ manifest'[f].status = "failed"
        /\ \A g \in Files : g # f => manifest'[g] = manifest[g]
    BY <2>1 DEF RagInv, RagTypeOK, Manifests
  <2>3. ASSUME Partial(f, vectors, runs, doing)
        PROVE  Agrees(manifest'[f], f, vectors, disk[f], f \in raced)
    BY <2>2, <2>3 DEF Partial, Agrees
  <2>4. \A g \in todo : /\ g # f /\ Partial(g, vectors, runs, doing)
                             => Partial(g, vectors, runs, doing')
    BY <1>n, <2>1 DEF Partial
  <2>5. RecordInv'
    BY <2>1, <2>2, <2>3, <2>4 DEF RecordInv, Early, Late
  <2> QED
    BY <2>1, <2>2, <2>5 DEF CoverInv
<1> QED
  BY <1>1, <1>3, <1>4, <1>5, <1>6, <1>7, <1>8, <1>9, <1>10

LEMMA RecordKept ==
    ASSUME RagInv, HandleInv, RecordInv, CoverInv, [RagNext]_ragVars
    PROVE  RecordInv' /\ CoverInv'
<1> USE DEF folder, work, history, index, handles
<1>p. place \in Early \cup {"clearing"} \cup Late
  BY DEF RagInv, RagTypeOK, Early, Late
<1>1. ASSUME NEW f \in BOOLEAN, Start(f) PROVE RecordInv' /\ CoverInv'
  <2>1. /\ UNCHANGED <<disk, vectors, raced, lost, file>> /\ place' = "loading" /\ place = "idle"
    BY <1>1 DEF Start, RagInv, UnderWay
  <2> QED
    BY <2>1, EarlyRecord DEF Early
<1>2. CASE Load \/ Created
  <2>1. /\ UNCHANGED <<disk, vectors, raced>> /\ place' \in {"creating", "opening"}
        /\ place \in {"loading", "creating"}
    BY <1>2 DEF Load, Created, Scan
  <2>l. lost => lost'
    <3>1. CASE UNCHANGED lost
      BY <3>1
    <3>2. CASE lost' = (lost \/ IsRecord)
      <4>1. lost \in BOOLEAN
        BY DEF RagInv, RagTypeOK
      <4> QED
        BY <3>2, <4>1, Zenon
    <3> QED
      BY <1>2, <3>1, <3>2 DEF Load, Created
  <2>2. lost' \/ (file'.docs = file.docs /\ manifest' = file'.docs)
    <3>1. CASE Load
      BY <3>1, RagKinds DEF Load, IsRecord, RagInv, TimesInv
    <3>2. CASE Created
      BY <3>2, RagKinds, WholeKinds DEF Created, RagInv, TimesInv
    <3> QED
      BY <1>2, <3>1, <3>2
  <2> QED
    BY <2>1, <2>l, <2>2, EarlyRecord DEF Early
<1>3. CASE Saved
  <2>1. /\ UNCHANGED <<disk, vectors, raced>> /\ place' = "idle" /\ place = "saving"
        /\ file'.docs = manifest /\ lost' = (lost /\ ~force)
    BY <1>3 DEF Saved, Whole
  <2>2. todo = {}
    BY <2>1 DEF RagInv, UnderWay
  <2>3. ~lost' => \A f \in Files : Agrees(manifest[f], f, vectors, disk[f], f \in raced)
    BY <2>1, <2>2 DEF RecordInv, Late
  <2> QED
    BY <2>1, <2>3 DEF RecordInv, CoverInv, Early, Late
<1>4. CASE Throws \/ RestartProgram
  <2>1. /\ UNCHANGED <<disk, vectors, raced, file>> /\ place' = "idle"
        /\ lost' = (lost \/ place \in Late \cup {"clearing"})
    BY <1>4 DEF Throws, Abort, RestartProgram, Begun, Late
  <2> QED
    BY <1>p, <2>1, EarlyRecord DEF Early
<1>5. CASE List \/ Listed \/ QueryOpens \/ QueryOpened \/ UNCHANGED ragVars
  <2>1. UNCHANGED <<place, manifest, vectors, disk, raced, force, todo, old, runs, doing, quiet>>
    BY <1>5 DEF List, Listed, QueryOpens, QueryOpened, ragVars
  <2>2. (lost => lost') /\ (~lost' => file'.docs = file.docs)
    <3>1. file.docs = NewManifest \/ IsRecord
      BY DEF IsRecord, RagInv, TimesInv
    <3>2. CASE List
      BY <3>1, <3>2, RagKinds DEF List
    <3>3. CASE Listed
      BY <3>1, <3>3, RagKinds, WholeKinds DEF Listed
    <3>4. CASE QueryOpens \/ QueryOpened \/ UNCHANGED ragVars
      BY <3>4 DEF QueryOpens, QueryOpened, ragVars
    <3> QED
      BY <1>5, <3>2, <3>3, <3>4
  <2> QED
    BY <2>1, <2>2, RecordStays
<1>6. ASSUME NEW n \in Tables, DropTable(n) PROVE RecordInv' /\ CoverInv'
  BY <1>6, NothingClaimed DEF DropTable
<1> QED
  BY <1>1, <1>2, <1>3, <1>4, <1>5, <1>6, FolderRecord, WorkRecord DEF RagNext, RunStep

(* Between runs the store is what the manifest says, until a run or the       *)
(* manifest is lost or a run misses tables: no document without an entry has rows, none the rows of  *)
(* two runs, and an indexed one has all of them.                              *)
THEOREM RecordCorrect == RagSpec => []RecordMatchesRows
<1>1. RagInit => RagInv /\ HandleInv /\ RecordInv /\ CoverInv
  BY InitRag, InitRecord
<1>2. RagInv /\ HandleInv /\ RecordInv /\ CoverInv /\ [RagNext]_ragVars
        => RagInv' /\ HandleInv' /\ RecordInv' /\ CoverInv'
  BY RagKept, HandleKept, RecordKept
<1>3. RagInv /\ RecordInv => RecordMatchesRows
  <2> SUFFICES ASSUME RagInv, RecordInv, ~indexing, ~lost, NEW f \in Files
               PROVE  Agrees(file.docs[f], f, vectors, disk[f], f \in raced)
    BY DEF RecordMatchesRows, RowsOf, Agrees, RowsIn
  <2>1. place = "idle"
    BY DEF RagInv, UnderWay
  <2> QED
    BY <2>1 DEF RecordInv, Early
<1> QED
  BY <1>1, <1>2, <1>3, PTL DEF RagSpec

(* A run during which nobody edits the folder leaves every document either    *)
(* recorded as failed or found by its present content, unless it was edited   *)
(* while an earlier run indexed it.                                           *)
THEOREM CoverCorrect == RagSpec => QuietRunCovers
<1> DEFINE Covered == place = "saving" /\ quiet /\ ~lost =>
             \A f \in Files : disk[f] # 0 /\ f \notin raced =>
                manifest[f].status = "failed" \/ \E r \in RowsOf(f) : r.time = disk[f]
<1>1. RagInit => RagInv /\ HandleInv /\ RecordInv /\ CoverInv
  BY InitRag, InitRecord
<1>2. RagInv /\ HandleInv /\ RecordInv /\ CoverInv /\ [RagNext]_ragVars
        => RagInv' /\ HandleInv' /\ RecordInv' /\ CoverInv'
  BY RagKept, HandleKept, RecordKept
<1>3. RagInv /\ RecordInv /\ CoverInv => Covered
  <2> SUFFICES ASSUME RagInv, RecordInv, CoverInv, place = "saving", quiet, ~lost,
                      NEW f \in Files, disk[f] # 0, f \notin raced, manifest[f].status # "failed"
               PROVE  \E r \in RowsOf(f) : r.time = disk[f]
    OBVIOUS
  <2>1. f \notin todo
    BY DEF RagInv, UnderWay
  <2>2. manifest[f].status = "indexed" /\ disk[f] <= manifest[f].at
    BY <2>1 DEF CoverInv
  <2>3. disk[f] \in 1 .. manifest[f].at
    BY <2>2 DEF RagInv, RagTypeOK, Manifests, Entries, Times
  <2>4. Agrees(manifest[f], f, vectors, disk[f], f \in raced)
    BY <2>1 DEF RecordInv, Late
  <2>5. 1 \in 1 .. Parts
    BY RagKinds
  <2>6. PICK r \in RowsIn(vectors, f) : r.part = 1
    BY <2>2, <2>4, <2>5 DEF Agrees
  <2>7. r.time = disk[f]
    BY <2>2, <2>3, <2>4 DEF Agrees
  <2> QED
    BY <2>6, <2>7 DEF RowsOf, RowsIn
<1>4. Covered /\ [RagNext]_ragVars =>
        [place = "saving" /\ file' = Whole(manifest) /\ quiet /\ ~lost =>
           \A f \in Files : disk[f] # 0 /\ f \notin raced =>
              manifest[f].status = "failed" \/ \E r \in RowsOf(f) : r.time = disk[f]]_ragVars
  OBVIOUS
<1> QED
  BY <1>1, <1>2, <1>3, <1>4, PTL DEF RagSpec, QuietRunCovers
=============================================================================
