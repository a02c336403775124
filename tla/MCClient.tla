------------------------------- MODULE MCClient -------------------------------
(***************************************************************************)
(* Small instances of Client.                                              *)
(***************************************************************************)
EXTENDS Client

CONSTANTS a, b

=============================================================================
