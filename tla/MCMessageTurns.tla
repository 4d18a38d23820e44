--------------------------- MODULE MCMessageTurns ---------------------------
(* Instances of MessageTurns for TLC. *)
EXTENDS MessageTurns, TLC

CONSTANTS m1, m2, m3, c1, n1, n2, feed, none, error

MCOldConvs == {c1}
MCNewConvs == {n1, n2}

Plain(c) == [conv |-> c, task |-> FALSE, command |-> FALSE, streams |-> TRUE, dbFails |-> FALSE]

(* A chat message, a command without a conversation, a message of a channel  *)
(* that does not stream, and a scheduled task.                               *)
TurnShapes ==
  {Plain(c1),
   [Plain(none) EXCEPT !.command = TRUE],
   [Plain(c1) EXCEPT !.streams = FALSE],
   [Plain(feed) EXCEPT !.task = TRUE]}

(* A chat message and a command without a conversation, with a database that *)
(* fails; both messages are of these two, or neither is.                     *)
FailingShapes ==
  {[Plain(c1) EXCEPT !.dbFails = TRUE],
   [Plain(none) EXCEPT !.command = TRUE, !.dbFails = TRUE]}

MCShapes == TurnShapes \cup FailingShapes

TurnsInit ==
  /\ Init
  /\ \/ \A m \in Msgs : ~shape[m].dbFails
     \/ /\ \A m \in Msgs : shape[m].dbFails
        /\ \E m \in Msgs : shape[m].conv = none

TurnsSpec == TurnsInit /\ [][Next]_vars

ChatShapes == {Plain(c1)}

MsgSymmetry == Permutations(Msgs)
=============================================================================
