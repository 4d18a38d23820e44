------------------------ MODULE MCConversationNaming ------------------------
(* Instances of ConversationNaming for TLC. *)
EXTENDS ConversationNaming, TLC

CONSTANTS m1, m2, m3, c1, c2, feed, none

(* Messages are interchangeable, and so are the conversations to be made.    *)
NamingSymmetry == Permutations(Msgs) \cup Permutations(Convs)
=============================================================================
