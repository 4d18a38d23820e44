--------------------------- MODULE MCMessageIndex ---------------------------
(* Instances of MessageIndex for TLC. *)
EXTENDS MessageIndex

CONSTANTS c1, c2

\* The first message has a conversation to itself.
MCConvOf == [m \in Msgs |-> IF m = 1 THEN c1 ELSE c2]
=============================================================================
