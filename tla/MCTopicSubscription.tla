------------------------- MODULE MCTopicSubscription -------------------------
(***************************************************************************)
(* Small instances of TopicSubscription.                                   *)
(***************************************************************************)
EXTENDS TopicSubscription

CONSTANT tx

Single == [tx |-> NoTransaction, total |-> 1]
Chunk  == [tx |-> tx, total |-> 2]

\* A message in two chunks around one of a single response.
Mixed == <<Chunk, Single, Chunk>>

=============================================================================
