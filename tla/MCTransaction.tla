---------------------------- MODULE MCTransaction ----------------------------
(***************************************************************************)
(* Small instances of Transaction.                                         *)
(***************************************************************************)
EXTENDS Transaction

CONSTANTS n1, n2, op, k

TwoNodes == <<n1, n2>>

=============================================================================
