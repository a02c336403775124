------------------------ MODULE MCChunkedTransaction ------------------------
(***************************************************************************)
(* Small instances of ChunkedTransaction.                                  *)
(***************************************************************************)
EXTENDS ChunkedTransaction

CONSTANTS n1, n2

TwoNodes  == <<n1, n2>>

\* Nothing, or three bytes: two chunks of the file's size, three of the default.
ShortMessages == {<<>>, <<1, 2, 3>>}

=============================================================================
