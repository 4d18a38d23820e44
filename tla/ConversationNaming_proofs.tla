--------------------- MODULE ConversationNaming_proofs ---------------------
(***************************************************************************)
(* Proofs about ConversationNaming, for any number of messages and         *)
(* conversations, any threshold and any limits that reach it.              *)
(***************************************************************************)
EXTENDS ConversationNaming, SequenceTheorems, TLAPS

(* What the proofs need to know of the kinds of values.                      *)
Kinds ==
  /\ title \in [All -> Titles]
  /\ spoken \in [All -> Nat] /\ events \in [All -> Nat]
  /\ count \in [All -> Nat] /\ naming \in [All -> Nat] /\ asked \in [All -> Nat]

(* A conversation a title has been asked for is past the threshold, in the   *)
(* count and in the rows every later load counts.                            *)
PastThreshold ==
  \A c \in All : asked[c] > 0 => count[c] >= Threshold /\ Rows(c) >= Threshold

(* The user's names are marked, and nobody asks for a title of the Feed.     *)
Marked ==
  /\ \A c \in All : title[c] = "manual" => c \in manual
  /\ naming[Feed] = 0

NamingInv == Kinds /\ NamedOnce /\ PastThreshold /\ FeedKept /\ Marked

(* What a count is corrected to does not fall below the threshold again.     *)
Corrected(counted) ==
  /\ counted \in [All -> Nat]
  /\ \A c \in All : asked[c] > 0 => counted[c] >= Threshold

LEMMA LoadCorrects ==
  ASSUME NamingInv, NEW conv \in All \cup {NoConv}
  PROVE  Corrected(LoadedCount(conv)) /\ Corrected(count)
<1>1. Corrected(count)
  BY DEF NamingInv, Kinds, PastThreshold, Corrected
<1>2. CASE conv = NoConv
  BY <1>1, <1>2 DEF LoadedCount
<1>3. CASE conv # NoConv
  <2>1. conv \in All
    BY <1>3
  <2>2. Rows(conv) \in Nat /\ LoadLimit \in Nat /\ Threshold \in Nat /\ Threshold <= LoadLimit
    BY <2>1, LimitsAssumption DEF NamingInv, Kinds, Rows
  <2>3. AtMost(Rows(conv), LoadLimit) \in Nat
    BY <2>2 DEF AtMost
  <2>4. asked[conv] > 0 => AtMost(Rows(conv), LoadLimit) >= Threshold
    BY <2>1, <2>2 DEF NamingInv, PastThreshold, AtMost
  <2>5. LoadedCount(conv) = [count EXCEPT ![conv] = AtMost(Rows(conv), LoadLimit)]
    BY <1>3 DEF LoadedCount
  <2> QED
    BY <1>1, <2>1, <2>3, <2>4, <2>5 DEF Corrected, NamingInv, Kinds
<1> QED
  BY <1>1, <1>2, <1>3

(* A save asks for no title, or for the first one of an unnamed conversation *)
(* that is at the threshold with it.                                         *)
LEMMA SaveCases ==
  ASSUME NamingInv, NEW c \in All, NEW text, NEW counted, Corrected(counted),
         SaveMessage(c, text, counted)
  PROVE  \/ /\ UNCHANGED <<naming, asked>>
            /\ count' \in [All -> Nat]
            /\ \A d \in All : count'[d] >= counted[d]
         \/ /\ c # Feed /\ c \notin manual /\ asked[c] = 0
            /\ naming' = [naming EXCEPT ![c] = @ + 1]
            /\ asked' = [asked EXCEPT ![c] = @ + 1]
            /\ count' = [counted EXCEPT ![c] = Threshold]
            /\ Rows(c) + 1 >= Threshold
<1> DEFINE n == counted[c] + 1
           fires == c # Feed /\ n = Threshold /\ AutoNames(c)
<1>1. counted \in [All -> Nat] /\ counted[c] \in Nat /\ naming[c] \in Nat /\ asked[c] \in Nat
      /\ naming \in [All -> Nat] /\ asked \in [All -> Nat]
  BY DEF NamingInv, Kinds, Corrected
<1>2. count' = IF c = Feed THEN counted ELSE [counted EXCEPT ![c] = n]
  BY DEF SaveMessage
<1>3. CASE ~fires
  <2>1. naming' = [naming EXCEPT ![c] = @ + 0] /\ asked' = [asked EXCEPT ![c] = @ + 0]
    BY <1>3 DEF SaveMessage
  <2>2. UNCHANGED <<naming, asked>>
    BY <1>1, <2>1
  <2>3. count' \in [All -> Nat] /\ \A d \in All : count'[d] >= counted[d]
    BY <1>1, <1>2
  <2> QED
    BY <2>2, <2>3
<1>4. CASE fires
  <2>1. naming' = [naming EXCEPT ![c] = @ + 1] /\ asked' = [asked EXCEPT ![c] = @ + 1]
    BY <1>4 DEF SaveMessage
  <2>2. count' = [counted EXCEPT ![c] = Threshold]
    BY <1>2, <1>4
  <2>3. Threshold \in Nat /\ MessagesToLoad \in Nat /\ Rows(c) \in Nat
    BY LimitsAssumption DEF NamingInv, Kinds, Rows
  <2>4. Rows(c) + 1 >= Threshold
    BY <1>4, <2>3 DEF AutoNames, AtMost
  <2>5. asked[c] = 0
    BY <1>1, <1>4, <2>3 DEF Corrected
  <2> QED
    BY <1>4, <2>1, <2>2, <2>4, <2>5 DEF AutoNames
<1> QED
  BY <1>3, <1>4

LEMMA EnsuredKept ==
  ASSUME NamingInv, NEW c \in All, NEW text
  PROVE  /\ EnsuredTitle(c, text) \in Titles
         /\ EnsuredTitle(c, text) = "manual" <=> title[c] = "manual"
         /\ c = Feed => EnsuredTitle(c, text) = "given"
BY DEF NamingInv, Kinds, FeedKept, EnsuredTitle, Titles

(* A save keeps the invariant.                                               *)
LEMMA SaveKeeps ==
  ASSUME NamingInv, NEW c \in All, NEW text, NEW counted, Corrected(counted),
         SaveMessage(c, text, counted), UNCHANGED <<manual, deleted, events>>
  PROVE  NamingInv'
<1>1. title' = [title EXCEPT ![c] = EnsuredTitle(c, text)] /\ spoken' = [spoken EXCEPT ![c] = @ + 1]
  BY DEF SaveMessage
<1>2. Feed \in All /\ Threshold \in Nat
  BY LimitsAssumption DEF All
<1>3. /\ title' \in [All -> Titles] /\ spoken' \in [All -> Nat] /\ events' \in [All -> Nat]
      /\ title'[Feed] = "given"
      /\ \A d \in All : title'[d] = "manual" => d \in manual'
      /\ \A d \in All : Rows(d)' >= Rows(d) /\ Rows(d) \in Nat
      /\ Rows(c)' = Rows(c) + 1
  BY <1>1, <1>2, EnsuredKept DEF NamingInv, Kinds, FeedKept, Marked, Rows
<1>4. CASE /\ UNCHANGED <<naming, asked>>
           /\ count' \in [All -> Nat]
           /\ \A d \in All : count'[d] >= counted[d]
  <2>1. Kinds' /\ NamedOnce' /\ FeedKept' /\ Marked'
    BY <1>3, <1>4 DEF NamingInv, Kinds, NamedOnce, FeedKept, Marked
  <2>2. PastThreshold'
    <3> SUFFICES ASSUME NEW d \in All, asked'[d] > 0
                 PROVE  count'[d] >= Threshold /\ Rows(d)' >= Threshold
      BY DEF PastThreshold
    <3>1. counted[d] >= Threshold /\ counted[d] \in Nat /\ count'[d] \in Nat /\ count'[d] >= counted[d]
      BY <1>4 DEF Corrected
    <3>2. Rows(d) >= Threshold /\ Rows(d)' >= Rows(d) /\ Rows(d) \in Nat /\ Rows(d)' \in Nat
      BY <1>3, <1>4 DEF NamingInv, PastThreshold, Rows
    <3> QED
      BY <1>2, <3>1, <3>2
  <2> QED
    BY <2>1, <2>2 DEF NamingInv
<1>5. CASE /\ c # Feed /\ c \notin manual /\ asked[c] = 0
           /\ naming' = [naming EXCEPT ![c] = @ + 1]
           /\ asked' = [asked EXCEPT ![c] = @ + 1]
           /\ count' = [counted EXCEPT ![c] = Threshold]
           /\ Rows(c) + 1 >= Threshold
  <2>1. Kinds'
    BY <1>2, <1>3, <1>5 DEF NamingInv, Kinds, Corrected
  <2>2. NamedOnce'
    BY <1>5 DEF NamingInv, Kinds, NamedOnce
  <2>3. FeedKept' /\ Marked'
    BY <1>2, <1>3, <1>5 DEF NamingInv, Kinds, FeedKept, Marked
  <2>4. PastThreshold'
    <3> SUFFICES ASSUME NEW d \in All, asked'[d] > 0
                 PROVE  count'[d] >= Threshold /\ Rows(d)' >= Threshold
      BY DEF PastThreshold
    <3>1. CASE d = c
      BY <1>2, <1>3, <1>5, <3>1 DEF Corrected
    <3>2. CASE d # c
      <4>1. asked[d] > 0 /\ count'[d] = counted[d]
        BY <1>5, <3>2 DEF NamingInv, Kinds, Corrected
      <4>2. Rows(d) >= Threshold /\ Rows(d)' >= Rows(d) /\ Rows(d) \in Nat /\ Rows(d)' \in Nat
        BY <1>3, <4>1 DEF NamingInv, PastThreshold, Rows
      <4> QED
        BY <1>2, <4>1, <4>2 DEF Corrected
    <3> QED
      BY <3>1, <3>2
  <2> QED
    BY <2>1, <2>2, <2>3, <2>4 DEF NamingInv
<1> QED
  BY <1>4, <1>5, SaveCases

LEMMA EnsuresAll ==
  ASSUME NEW conv \in Made \cup {NoConv}
  PROVE  EnsureConversation(conv) \subseteq All
BY DEF EnsureConversation, FindRecent, Made

LEMMA NamingInit == Init => NamingInv
BY DEF Init, NamingInv, Kinds, NamedOnce, PastThreshold, FeedKept, Marked, Titles, All

(* Every action keeps the invariant.                                         *)
LEMMA NamingStep == NamingInv /\ [Next]_vars => NamingInv'
<1> SUFFICES ASSUME NamingInv, [Next]_vars PROVE NamingInv'
  OBVIOUS
<1> USE DEF Rows
<1>0. Feed \in All /\ Threshold \in Nat /\ Made \subseteq All
  BY LimitsAssumption DEF All, Made
<1>1. ASSUME NEW m \in Msgs, HandleMessage(m) PROVE NamingInv'
  <2>1. PICK conv \in Made \cup {NoConv}, task \in BOOLEAN, text \in BOOLEAN :
          LET initial == IF conv = Feed /\ ~task THEN NoConv ELSE conv
              counted == IF task THEN count ELSE LoadedCount(initial)
          IN \E c \in EnsureConversation(initial) : SaveMessage(c, text, counted)
    BY <1>1 DEF HandleMessage
  <2> DEFINE initial == IF conv = Feed /\ ~task THEN NoConv ELSE conv
             counted == IF task THEN count ELSE LoadedCount(initial)
  <2>2. initial \in Made \cup {NoConv}
    OBVIOUS
  <2>3. Corrected(counted)
    BY <1>0, <2>2, LoadCorrects
  <2>4. PICK c \in EnsureConversation(initial) : SaveMessage(c, text, counted)
    BY <2>1
  <2>5. c \in All
    BY <2>2, EnsuresAll
  <2>6. UNCHANGED <<manual, deleted, events>>
    BY <1>1 DEF HandleMessage
  <2> HIDE DEF initial, counted
  <2> QED
    BY <2>3, <2>4, <2>5, <2>6, SaveKeeps
<1>2. ASSUME NEW m \in Msgs, RunTask(m) PROVE NamingInv'
  <2>1. UNCHANGED <<manual, deleted, events>>
    BY <1>2 DEF RunTask
  <2>2. PICK conv \in Made \cup {NoConv} : \E c \in EnsureConversation(conv) :
          \/ SaveMessage(c, FALSE, count)
          \/ /\ title' = [title EXCEPT ![c] = EnsuredTitle(c, FALSE)]
             /\ UNCHANGED <<spoken, count, naming, asked>>
    BY <1>2 DEF RunTask
  <2>3. PICK c \in All :
          \/ SaveMessage(c, FALSE, count)
          \/ /\ title' = [title EXCEPT ![c] = EnsuredTitle(c, FALSE)]
             /\ UNCHANGED <<spoken, count, naming, asked>>
    BY <2>2, EnsuresAll
  <2>4. CASE SaveMessage(c, FALSE, count)
    <3>1. Corrected(count)
      BY LoadCorrects
    <3> QED
      BY <2>1, <2>4, <3>1, SaveKeeps
  <2>5. CASE /\ title' = [title EXCEPT ![c] = EnsuredTitle(c, FALSE)]
             /\ UNCHANGED <<spoken, count, naming, asked>>
    BY <1>0, <2>1, <2>5, EnsuredKept
       DEF NamingInv, Kinds, NamedOnce, PastThreshold, FeedKept, Marked
  <2> QED
    BY <2>3, <2>4, <2>5
<1>3. ASSUME NEW m \in Msgs, EventRow(m) PROVE NamingInv'
  <2>1. PICK c \in All : events' = [events EXCEPT ![c] = @ + 1]
    BY <1>3 DEF EventRow
  <2>2. UNCHANGED <<title, manual, deleted, spoken, count, naming, asked>>
    BY <1>3 DEF EventRow
  <2>3. events' \in [All -> Nat] /\ \A d \in All : events'[d] >= events[d]
    BY <2>1 DEF NamingInv, Kinds
  <2>4. PastThreshold'
    BY <1>0, <2>2, <2>3 DEF NamingInv, Kinds, PastThreshold
  <2> QED
    BY <2>2, <2>3, <2>4 DEF NamingInv, Kinds, NamedOnce, FeedKept, Marked
<1>4. ASSUME NEW m \in Msgs, Answer(m) PROVE NamingInv'
  <2>1. turn[m] \in All /\ SaveMessage(turn[m], FALSE, count) /\ UNCHANGED <<manual, deleted, events>>
    BY <1>4 DEF Answer
  <2>2. Corrected(count)
    BY LoadCorrects
  <2> QED
    BY <2>1, <2>2, SaveKeeps
<1>5. ASSUME NEW m \in Msgs, EndTurn(m) PROVE NamingInv'
  BY <1>5 DEF EndTurn, NamingInv, Kinds, NamedOnce, PastThreshold, FeedKept, Marked
<1>6. ASSUME NEW c \in All, AutoName(c) PROVE NamingInv'
  <2>1. c # Feed
    BY <1>6 DEF AutoName, NamingInv, Marked
  <2> QED
    BY <1>0, <1>6, <2>1
       DEF AutoName, NamingInv, Kinds, NamedOnce, PastThreshold, FeedKept, Marked, Titles
<1>7. ASSUME NEW c \in All, AutoNameFails(c) PROVE NamingInv'
  <2>1. c # Feed
    BY <1>7 DEF AutoNameFails, NamingInv, Marked
  <2> QED
    BY <1>0, <1>7, <2>1
       DEF AutoNameFails, NamingInv, Kinds, NamedOnce, PastThreshold, FeedKept, Marked
<1>8. ASSUME NEW c \in All, CreateConversation(c) PROVE NamingInv'
  <2>1. c # Feed
    BY <1>8 DEF CreateConversation, NamingInv, FeedKept
  <2> QED
    BY <1>0, <1>8, <2>1
       DEF CreateConversation, NamingInv, Kinds, NamedOnce, PastThreshold, FeedKept, Marked, Titles
<1>9. ASSUME NEW c \in All, RenameConversation(c) PROVE NamingInv'
  BY <1>0, <1>9
     DEF RenameConversation, NamingInv, Kinds, NamedOnce, PastThreshold, FeedKept, Marked, Titles
<1>10. ASSUME NEW c \in All, DeleteConversation(c) PROVE NamingInv'
  BY <1>10 DEF DeleteConversation, NamingInv, Kinds, NamedOnce, PastThreshold, FeedKept, Marked
<1>11. ASSUME NEW c \in All, ClearMessages(c) PROVE NamingInv'
  BY <1>0, <1>11
     DEF ClearMessages, NamingInv, Kinds, NamedOnce, PastThreshold, FeedKept, Marked
<1>12. ASSUME Lapse PROVE NamingInv'
  BY <1>12 DEF Lapse, NamingInv, Kinds, NamedOnce, PastThreshold, FeedKept, Marked
<1>13. ASSUME Restart PROVE NamingInv'
  BY <1>0, <1>13 DEF Restart, NamingInv, Kinds, NamedOnce, PastThreshold, FeedKept, Marked
<1>14. CASE UNCHANGED vars
  BY <1>14 DEF vars, NamingInv, Kinds, NamedOnce, PastThreshold, FeedKept, Marked
<1> QED
  BY <1>1, <1>2, <1>3, <1>4, <1>5, <1>6, <1>7, <1>8, <1>9, <1>10, <1>11, <1>12, <1>13, <1>14
     DEF Next

(* A conversation that is not cleared has the model asked for a title at     *)
(* most once in the life of the process.                                     *)
THEOREM TitleAskedOnce == Spec => []NamedOnce
<1>1. NamingInv => NamedOnce
  BY DEF NamingInv
<1> QED
  BY <1>1, NamingInit, NamingStep, PTL DEF Spec

(* The Feed keeps its name, and is not deleted.                              *)
THEOREM FeedKeepsItsName == Spec => []FeedKept
<1>1. NamingInv => FeedKept
  BY DEF NamingInv
<1> QED
  BY <1>1, NamingInit, NamingStep, PTL DEF Spec

(* A save neither takes a user's name away nor asks for a title of it.       *)
LEMMA SaveKeepsNames ==
  ASSUME NamingInv, NEW c \in All, NEW text, NEW counted, Corrected(counted),
         SaveMessage(c, text, counted), NEW d \in All, title[d] = "manual"
  PROVE  title'[d] = "manual" /\ naming'[d] = naming[d]
<1>1. title' = [title EXCEPT ![c] = EnsuredTitle(c, text)]
  BY DEF SaveMessage
<1>2. title'[d] = "manual"
  BY <1>1, EnsuredKept DEF NamingInv, Kinds
<1>3. c = d => c \in manual
  BY DEF NamingInv, Marked
<1>4. naming'[d] = naming[d]
  BY <1>3, SaveCases DEF NamingInv, Kinds
<1> QED
  BY <1>2, <1>4

(* No step changes a user's name, or asks for a title in its place, once no  *)
(* title is being asked for.                                                 *)
LEMMA NamesStep ==
  ASSUME NamingInv, [Next]_vars, NEW d \in All, title[d] = "manual", naming[d] = 0
  PROVE  title'[d] = "manual" /\ naming'[d] = 0
<1>1. ASSUME NEW m \in Msgs, HandleMessage(m) PROVE title'[d] = "manual" /\ naming'[d] = 0
  <2>1. PICK conv \in Made \cup {NoConv}, task \in BOOLEAN, text \in BOOLEAN :
          LET initial == IF conv = Feed /\ ~task THEN NoConv ELSE conv
              counted == IF task THEN count ELSE LoadedCount(initial)
          IN \E c \in EnsureConversation(initial) : SaveMessage(c, text, counted)
    BY <1>1 DEF HandleMessage
  <2> DEFINE initial == IF conv = Feed /\ ~task THEN NoConv ELSE conv
             counted == IF task THEN count ELSE LoadedCount(initial)
  <2>2. initial \in Made \cup {NoConv}
    OBVIOUS
  <2>3. Corrected(counted)
    BY <2>2, LoadCorrects DEF Made
  <2>4. PICK c \in EnsureConversation(initial) : SaveMessage(c, text, counted)
    BY <2>1
  <2>5. c \in All
    BY <2>2, EnsuresAll
  <2> HIDE DEF initial, counted
  <2> QED
    BY <2>3, <2>4, <2>5, SaveKeepsNames
<1>2. ASSUME NEW m \in Msgs, RunTask(m) PROVE title'[d] = "manual" /\ naming'[d] = 0
  <2>1. PICK conv \in Made \cup {NoConv} : \E c \in EnsureConversation(conv) :
          \/ SaveMessage(c, FALSE, count)
          \/ /\ title' = [title EXCEPT ![c] = EnsuredTitle(c, FALSE)]
             /\ UNCHANGED naming
    BY <1>2 DEF RunTask
  <2>2. PICK c \in All :
          \/ SaveMessage(c, FALSE, count)
          \/ /\ title' = [title EXCEPT ![c] = EnsuredTitle(c, FALSE)]
             /\ UNCHANGED naming
    BY <2>1, EnsuresAll
  <2>3. CASE SaveMessage(c, FALSE, count)
    BY <2>3, LoadCorrects, SaveKeepsNames
  <2>4. CASE title' = [title EXCEPT ![c] = EnsuredTitle(c, FALSE)] /\ UNCHANGED naming
    BY <2>4, EnsuredKept DEF NamingInv, Kinds
  <2> QED
    BY <2>2, <2>3, <2>4
<1>3. ASSUME NEW m \in Msgs, Answer(m) PROVE title'[d] = "manual" /\ naming'[d] = 0
  <2>1. turn[m] \in All /\ SaveMessage(turn[m], FALSE, count)
    BY <1>3 DEF Answer
  <2> QED
    BY <2>1, LoadCorrects, SaveKeepsNames
<1>4. ASSUME NEW m \in Msgs, EventRow(m) \/ EndTurn(m) PROVE title'[d] = "manual" /\ naming'[d] = 0
  BY <1>4 DEF EventRow, EndTurn
<1>5. ASSUME NEW c \in All, AutoName(c) \/ AutoNameFails(c)
      PROVE  title'[d] = "manual" /\ naming'[d] = 0
  BY <1>5 DEF AutoName, AutoNameFails, NamingInv, Kinds
<1>6. ASSUME NEW c \in All, CreateConversation(c) \/ RenameConversation(c)
      PROVE  title'[d] = "manual" /\ naming'[d] = 0
  BY <1>6 DEF CreateConversation, RenameConversation, NamingInv, Kinds
<1>7. ASSUME NEW c \in All, DeleteConversation(c) \/ ClearMessages(c)
      PROVE  title'[d] = "manual" /\ naming'[d] = 0
  BY <1>7 DEF DeleteConversation, ClearMessages
<1>8. ASSUME Lapse \/ Restart PROVE title'[d] = "manual" /\ naming'[d] = 0
  BY <1>8 DEF Lapse, Restart
<1>9. CASE UNCHANGED vars
  BY <1>9 DEF vars
<1> QED
  BY <1>1, <1>2, <1>3, <1>4, <1>5, <1>6, <1>7, <1>8, <1>9 DEF Next

(* A user's name stays once no title is being asked for.                     *)
THEOREM NameStays == Spec => ManualNameStays
<1>1. NamingInv /\ [Next]_vars
        => [\A c \in All : title[c] = "manual" /\ naming[c] = 0
              => title'[c] = "manual" /\ naming'[c] = 0]_vars
  BY NamesStep
<1> QED
  BY <1>1, NamingInit, NamingStep, PTL DEF Spec, ManualNameStays

-----------------------------------------------------------------------------
(* Types *)

(* What a step that changes title and recent in this way leaves.             *)
Grows == Made \subseteq Made' /\ recent' \in Seq(Made')

LEMMA TouchedSeq ==
  ASSUME NEW S, recent \in Seq(S), NEW c \in S
  PROVE  Touched(c) \in Seq(S)
<1>0. <<c>> \in Seq(S) /\ Len(recent) \in Nat /\ DOMAIN recent = 1..Len(recent)
  BY LenProperties
<1>1. CASE \E i \in DOMAIN recent : recent[i] = c
  <2>1. Place(c) \in 1..Len(recent)
    BY <1>0, <1>1 DEF Place
  <2>2. \A i \in 1..Len(recent) : recent[i] \in S
    BY ElementOfSeq
  <2>3. SubSeq(recent, 1, Place(c) - 1) \in Seq(S)
    <3>1. Place(c) - 1 \in Int /\ \A i \in 1..(Place(c) - 1) : i \in 1..Len(recent)
      BY <1>0, <2>1
    <3> QED
      BY <2>2, <3>1, SubSeqProperties
  <2>4. SubSeq(recent, Place(c) + 1, Len(recent)) \in Seq(S)
    <3>1. Place(c) + 1 \in Int /\ Len(recent) \in Int
          /\ \A i \in (Place(c) + 1)..Len(recent) : i \in 1..Len(recent)
      BY <1>0, <2>1
    <3> QED
      BY <2>2, <3>1, SubSeqProperties
  <2>5. SubSeq(recent, 1, Place(c) - 1) \o SubSeq(recent, Place(c) + 1, Len(recent)) \in Seq(S)
    BY <2>3, <2>4, ConcatProperties
  <2> QED
    BY <1>0, <1>1, <2>5, ConcatProperties DEF Touched
<1>2. CASE ~ \E i \in DOMAIN recent : recent[i] = c
  BY <1>2, AppendProperties DEF Touched
<1> QED
  BY <1>1, <1>2

(* A conversation that gets a title and is touched.                          *)
LEMMA TouchGrows ==
  ASSUME TypeOK, NEW c \in All, NEW t, t # "unmade",
         title' = [title EXCEPT ![c] = t], recent' = Touched(c)
  PROVE  Grows /\ c \in Made'
<1>1. title'[c] = t /\ \A d \in All \ {c} : title'[d] = title[d]
  BY DEF TypeOK
<1>2. Made \subseteq Made' /\ c \in Made'
  BY <1>1 DEF Made
<1>3. recent \in Seq(Made')
  BY <1>2, SeqMonotonic DEF TypeOK
<1> QED
  BY <1>2, <1>3, TouchedSeq DEF Grows

LEMMA EnsuredMade ==
  ASSUME TypeOK, NEW c \in All, NEW text
  PROVE  EnsuredTitle(c, text) # "unmade"
BY DEF TypeOK, EnsuredTitle, Titles

(* SaveMessage makes its conversation and leaves the others alone.           *)
LEMMA SaveGrows ==
  ASSUME TypeOK, NEW c \in All, NEW text, NEW counted, SaveMessage(c, text, counted),
         UNCHANGED events
  PROVE  /\ Grows /\ c \in Made'
         /\ \A d \in All \ Made' : Rows(d)' = 0 /\ naming'[d] = 0
<1>1. title' = [title EXCEPT ![c] = EnsuredTitle(c, text)] /\ recent' = Touched(c)
  BY DEF SaveMessage
<1>2. Grows /\ c \in Made'
  BY <1>1, EnsuredMade, TouchGrows
<1>3. \A d \in All \ {c} : spoken'[d] = spoken[d] /\ naming'[d] = naming[d]
  BY DEF SaveMessage, TypeOK
<1>4. \A d \in All \ Made' : d # c /\ d \in All \ Made
  BY <1>2 DEF Grows
<1> QED
  BY <1>2, <1>3, <1>4 DEF TypeOK, Rows

(* What is left of the type invariant when the kinds are known.              *)
LEMMA TypeFrom ==
  ASSUME TypeOK, Kinds', Grows, manual' \subseteq Made', deleted' \subseteq Made',
         runRow' \in Made' \cup {NoConv}, turn' \in [Msgs -> Made' \cup {"new", "done"}],
         requests' \in 0..MaxRequests,
         \A d \in All \ Made' : Rows(d)' = 0 /\ naming'[d] = 0
  PROVE  TypeOK'
BY DEF TypeOK, Kinds, Grows

(* A turn that stays, ends or works in the conversation it has made.         *)
LEMMA TurnsGrow ==
  ASSUME TypeOK, Made \subseteq Made', NEW m \in Msgs, NEW t \in Made' \cup {"new", "done"}
  PROVE  /\ [turn EXCEPT ![m] = t] \in [Msgs -> Made' \cup {"new", "done"}]
         /\ turn \in [Msgs -> Made' \cup {"new", "done"}]
         /\ manual \subseteq Made' /\ deleted \subseteq Made' /\ runRow \in Made' \cup {NoConv}
BY DEF TypeOK

(* A turn under way works in a conversation that exists.                     *)
LEMMA TurnsInMade ==
  ASSUME TypeOK, NEW m \in Msgs, turn[m] \in All
  PROVE  turn[m] \in Made
BY NamesAssumption DEF TypeOK

LEMMA TypeStep == TypeOK /\ NamingInv /\ [Next]_vars => TypeOK'
<1> SUFFICES ASSUME TypeOK, NamingInv, [Next]_vars PROVE TypeOK'
  OBVIOUS
<1>0. Kinds'
  BY NamingStep DEF NamingInv
<1>a. Made \subseteq All /\ Feed \in All /\ MaxRequests \in Nat /\ requests \in 0..MaxRequests
  BY LimitsAssumption DEF Made, All, TypeOK
<1>1. ASSUME NEW m \in Msgs, HandleMessage(m) PROVE TypeOK'
  <2>1. PICK conv \in Made \cup {NoConv}, task \in BOOLEAN, text \in BOOLEAN :
          LET initial == IF conv = Feed /\ ~task THEN NoConv ELSE conv
              counted == IF task THEN count ELSE LoadedCount(initial)
          IN \E c \in EnsureConversation(initial) :
               SaveMessage(c, text, counted) /\ turn' = [turn EXCEPT ![m] = c]
    BY <1>1 DEF HandleMessage
  <2> DEFINE initial == IF conv = Feed /\ ~task THEN NoConv ELSE conv
             counted == IF task THEN count ELSE LoadedCount(initial)
  <2>2. initial \in Made \cup {NoConv}
    OBVIOUS
  <2>3. PICK c \in EnsureConversation(initial) :
          SaveMessage(c, text, counted) /\ turn' = [turn EXCEPT ![m] = c]
    BY <2>1
  <2>4. c \in All
    BY <2>2, EnsuresAll
  <2>5. UNCHANGED <<manual, deleted, events, runRow, requests>>
    BY <1>1 DEF HandleMessage
  <2> HIDE DEF initial, counted
  <2>6. Grows /\ c \in Made' /\ \A d \in All \ Made' : Rows(d)' = 0 /\ naming'[d] = 0
    BY <2>3, <2>4, <2>5, SaveGrows
  <2> QED
    BY <1>0, <1>a, <2>3, <2>5, <2>6, TurnsGrow, TypeFrom DEF Grows
<1>2. ASSUME NEW m \in Msgs, RunTask(m) PROVE TypeOK'
  <2>1. PICK conv \in Made \cup {NoConv} : \E c \in EnsureConversation(conv) :
          \/ /\ SaveMessage(c, FALSE, count) /\ runRow' = c
             /\ turn' = [turn EXCEPT ![m] = c]
          \/ /\ title' = [title EXCEPT ![c] = EnsuredTitle(c, FALSE)]
             /\ recent' = Touched(c)
             /\ turn' = [turn EXCEPT ![m] = IF conv = NoConv THEN "done" ELSE c]
             /\ UNCHANGED <<spoken, naming, runRow>>
    BY <1>2 DEF RunTask
  <2>2. PICK c \in All :
          \/ /\ SaveMessage(c, FALSE, count) /\ runRow' = c
             /\ turn' = [turn EXCEPT ![m] = c]
          \/ /\ title' = [title EXCEPT ![c] = EnsuredTitle(c, FALSE)]
             /\ recent' = Touched(c)
             /\ turn' = [turn EXCEPT ![m] = IF conv = NoConv THEN "done" ELSE c]
             /\ UNCHANGED <<spoken, naming, runRow>>
    BY <2>1, EnsuresAll
  <2>3. UNCHANGED <<manual, deleted, events, requests>>
    BY <1>2 DEF RunTask
  <2>4. CASE SaveMessage(c, FALSE, count) /\ runRow' = c /\ turn' = [turn EXCEPT ![m] = c]
    <3>1. Grows /\ c \in Made' /\ \A d \in All \ Made' : Rows(d)' = 0 /\ naming'[d] = 0
      BY <2>3, <2>4, SaveGrows
    <3> QED
      BY <1>0, <1>a, <2>3, <2>4, <3>1, TurnsGrow, TypeFrom DEF Grows
  <2>5. CASE /\ title' = [title EXCEPT ![c] = EnsuredTitle(c, FALSE)]
             /\ recent' = Touched(c)
             /\ turn' = [turn EXCEPT ![m] = IF conv = NoConv THEN "done" ELSE c]
             /\ UNCHANGED <<spoken, naming, runRow>>
    <3>1. Grows /\ c \in Made'
      BY <2>5, EnsuredMade, TouchGrows
    <3>2. \A d \in All \ Made' : Rows(d)' = 0 /\ naming'[d] = 0
      BY <2>3, <2>5, <3>1 DEF TypeOK, Grows, Rows
    <3>3. (IF conv = NoConv THEN "done" ELSE c) \in Made' \cup {"new", "done"}
      BY <3>1
    <3> QED
      BY <1>0, <1>a, <2>3, <2>5, <3>1, <3>2, <3>3, TurnsGrow, TypeFrom DEF Grows
  <2> QED
    BY <2>2, <2>4, <2>5
<1>3. ASSUME NEW m \in Msgs, EventRow(m) PROVE TypeOK'
  <2>1. turn[m] \in Made /\ events' = [events EXCEPT ![turn[m]] = @ + 1]
    BY <1>3, TurnsInMade DEF EventRow
  <2>2. UNCHANGED <<title, manual, deleted, recent, spoken, naming, runRow, turn, requests>>
    BY <1>3 DEF EventRow
  <2>3. Made' = Made
    BY <2>2 DEF Made
  <2>4. \A d \in All \ Made : events'[d] = events[d]
    BY <1>a, <2>1 DEF NamingInv, Kinds
  <2> QED
    BY <1>0, <2>2, <2>3, <2>4 DEF TypeOK, Kinds, Rows
<1>4. ASSUME NEW m \in Msgs, Answer(m) PROVE TypeOK'
  <2>1. turn[m] \in All /\ SaveMessage(turn[m], FALSE, count) /\ turn' = [turn EXCEPT ![m] = "done"]
        /\ UNCHANGED <<manual, deleted, events, runRow, requests>>
    BY <1>4 DEF Answer
  <2>2. Grows /\ \A d \in All \ Made' : Rows(d)' = 0 /\ naming'[d] = 0
    BY <2>1, SaveGrows
  <2> QED
    BY <1>0, <1>a, <2>1, <2>2, TurnsGrow, TypeFrom DEF Grows
<1>5. ASSUME NEW m \in Msgs, EndTurn(m) PROVE TypeOK'
  BY <1>0, <1>5 DEF EndTurn, TypeOK, Kinds, Made, Rows
<1>6. ASSUME NEW c \in All, AutoName(c) PROVE TypeOK'
  <2>1. /\ naming[c] > 0 /\ naming' = [naming EXCEPT ![c] = @ - 1]
        /\ title' = [title EXCEPT ![c] = "auto"] /\ recent' = Touched(c)
        /\ UNCHANGED <<manual, deleted, spoken, events, runRow, turn, requests>>
    BY <1>6 DEF AutoName
  <2>2. Grows /\ c \in Made'
    BY <2>1, TouchGrows
  <2>3. \A d \in All \ Made' : Rows(d)' = 0 /\ naming'[d] = 0
    BY <2>1, <2>2 DEF TypeOK, Grows, Rows
  <2>4. /\ turn \in [Msgs -> Made' \cup {"new", "done"}]
        /\ manual \subseteq Made' /\ deleted \subseteq Made' /\ runRow \in Made' \cup {NoConv}
    BY <2>2 DEF TypeOK, Grows
  <2> QED
    BY <1>0, <1>a, <2>1, <2>2, <2>3, <2>4, TypeFrom
<1>7. ASSUME NEW c \in All, AutoNameFails(c) PROVE TypeOK'
  <2>1. naming[c] > 0 /\ naming' = [naming EXCEPT ![c] = @ - 1]
    BY <1>7 DEF AutoNameFails
  <2>2. UNCHANGED <<title, manual, deleted, recent, spoken, events, runRow, turn, requests>>
    BY <1>7 DEF AutoNameFails
  <2>3. Made' = Made
    BY <2>2 DEF Made
  <2>4. \A d \in All \ Made : naming'[d] = 0
    BY <2>1 DEF TypeOK
  <2> QED
    BY <1>0, <2>2, <2>3, <2>4 DEF TypeOK, Kinds, Rows
<1>8. ASSUME NEW c \in All, CreateConversation(c) PROVE TypeOK'
  <2>1. PICK t \in {"default", "given"} : title' = [title EXCEPT ![c] = t]
    BY <1>8 DEF CreateConversation
  <2>2. /\ recent' = Touched(c) /\ requests < MaxRequests /\ requests' = requests + 1
        /\ UNCHANGED <<manual, deleted, spoken, events, naming, runRow, turn>>
    BY <1>8 DEF CreateConversation, Request
  <2>3. Grows /\ c \in Made'
    BY <2>1, <2>2, TouchGrows
  <2>4. \A d \in All \ Made' : Rows(d)' = 0 /\ naming'[d] = 0
    BY <2>2, <2>3 DEF TypeOK, Grows, Rows
  <2>5. /\ turn \in [Msgs -> Made' \cup {"new", "done"}]
        /\ manual \subseteq Made' /\ deleted \subseteq Made' /\ runRow \in Made' \cup {NoConv}
    BY <2>3 DEF TypeOK, Grows
  <2>6. requests' \in 0..MaxRequests
    BY <1>a, <2>2
  <2> QED
    BY <1>0, <2>2, <2>3, <2>4, <2>5, <2>6, TypeFrom
<1>9. ASSUME NEW c \in All, RenameConversation(c) PROVE TypeOK'
  <2>1. /\ title' = [title EXCEPT ![c] = "manual"] /\ manual' = manual \cup {c}
        /\ recent' = Touched(c) /\ requests < MaxRequests /\ requests' = requests + 1
        /\ UNCHANGED <<deleted, spoken, events, naming, runRow, turn>>
    BY <1>9 DEF RenameConversation, Request
  <2>2. Grows /\ c \in Made'
    BY <2>1, TouchGrows
  <2>3. \A d \in All \ Made' : Rows(d)' = 0 /\ naming'[d] = 0
    BY <2>1, <2>2 DEF TypeOK, Grows, Rows
  <2>4. /\ turn \in [Msgs -> Made' \cup {"new", "done"}]
        /\ manual' \subseteq Made' /\ deleted \subseteq Made' /\ runRow \in Made' \cup {NoConv}
    BY <2>1, <2>2 DEF TypeOK, Grows
  <2>5. requests' \in 0..MaxRequests
    BY <1>a, <2>1
  <2> QED
    BY <1>0, <2>1, <2>2, <2>3, <2>4, <2>5, TypeFrom
<1>10. ASSUME NEW c \in All, DeleteConversation(c) PROVE TypeOK'
  <2>1. /\ c \in Made /\ deleted' = deleted \cup {c}
        /\ requests < MaxRequests /\ requests' = requests + 1
        /\ UNCHANGED <<title, manual, recent, spoken, events, naming, runRow, turn>>
    BY <1>10 DEF DeleteConversation, Request
  <2>2. Made' = Made /\ requests' \in 0..MaxRequests
    BY <1>a, <2>1 DEF Made
  <2> QED
    BY <1>0, <2>1, <2>2 DEF TypeOK, Kinds, Rows
<1>11. ASSUME NEW c \in All, ClearMessages(c) PROVE TypeOK'
  <2>1. /\ c \in Made /\ spoken' = [spoken EXCEPT ![c] = 0] /\ events' = [events EXCEPT ![c] = 0]
        /\ runRow' = IF runRow = c THEN NoConv ELSE runRow
        /\ requests < MaxRequests /\ requests' = requests + 1
        /\ UNCHANGED <<title, manual, deleted, recent, naming, turn>>
    BY <1>11 DEF ClearMessages, Request
  <2>2. Made' = Made /\ requests' \in 0..MaxRequests
    BY <1>a, <2>1 DEF Made
  <2>3. \A d \in All \ Made : Rows(d)' = 0
    BY <2>1 DEF TypeOK, Rows
  <2>4. runRow' \in Made \cup {NoConv}
    BY <2>1 DEF TypeOK
  <2> QED
    BY <1>0, <2>1, <2>2, <2>3, <2>4 DEF TypeOK, Kinds
<1>12. ASSUME Lapse PROVE TypeOK'
  <2>1. /\ recent # <<>> /\ recent' = Tail(recent)
        /\ requests < MaxRequests /\ requests' = requests + 1
        /\ UNCHANGED <<title, manual, deleted, spoken, events, naming, runRow, turn>>
    BY <1>12 DEF Lapse, Request
  <2>2. Made' = Made /\ requests' \in 0..MaxRequests
    BY <1>a, <2>1 DEF Made
  <2>3. recent' \in Seq(Made)
    BY <2>1, HeadTailProperties DEF TypeOK
  <2> QED
    BY <1>0, <2>1, <2>2, <2>3 DEF TypeOK, Kinds, Rows
<1>13. ASSUME Restart PROVE TypeOK'
  <2>1. /\ naming' = [c \in All |-> 0] /\ requests < MaxRequests /\ requests' = requests + 1
        /\ turn' = [m \in Msgs |-> IF turn[m] = "new" THEN "new" ELSE "done"]
        /\ UNCHANGED <<title, manual, deleted, recent, spoken, events, runRow>>
    BY <1>13 DEF Restart, Request
  <2>2. Made' = Made /\ requests' \in 0..MaxRequests
    BY <1>a, <2>1 DEF Made
  <2> QED
    BY <1>0, <2>1, <2>2 DEF TypeOK, Kinds, Rows
<1>14. CASE UNCHANGED vars
  BY <1>14 DEF vars, TypeOK, Made, Rows
<1> QED
  BY <1>1, <1>2, <1>3, <1>4, <1>5, <1>6, <1>7, <1>8, <1>9, <1>10, <1>11, <1>12, <1>13, <1>14
     DEF Next

(* Every variable keeps its kind of value, and only conversations that exist *)
(* have rows, titles under way or turns.                                     *)
THEOREM TypeCorrect == Spec => []TypeOK
<1>1. Init => TypeOK
  <2> SUFFICES ASSUME Init PROVE TypeOK
    OBVIOUS
  <2>1. Feed \in Made
    BY DEF Init, Made, All
  <2>2. <<>> \in Seq(Made) /\ <<Feed>> \in Seq(Made)
    BY <2>1, EmptySeq
  <2>3. recent \in Seq(Made)
    BY <2>2 DEF Init
  <2> QED
    BY <2>3, LimitsAssumption DEF Init, TypeOK, Titles, Rows
<1> QED
  BY <1>1, NamingInit, NamingStep, TypeStep, PTL DEF Spec
=============================================================================
