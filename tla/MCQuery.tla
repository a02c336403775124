------------------------------- MODULE MCQuery -------------------------------
(* Every class, two nodes and two prices, one of which is over the default   *)
(* limit.                                                                    *)
EXTENDS Query

MCClientLimits == {Unset, 2}
NodeSymmetry == Permutations(Nodes)

KnownDivergences ==
  [unsent    |-> {"TransactionRecord"} \X {"includeChildren", "includeDuplicates"},
   unchecked |-> {<<"ContractCall", "senderAccountId">>}]

NothingKnown == [unsent |-> {}, unchecked |-> {}]
=============================================================================
