-------------------- MODULE AccountTransactions --------------------
(*****************************************************************************)
(* The transactions about accounts, their allowances and transfers. For      *)
(* each class: its members and the value its constructor leaves in them;     *)
(* its setters, each guarded by requireNotFrozen; and its body: how build    *)
(* and initFromSourceTransactionBody treat each member, and the IDs that     *)
(* validateChecksums looks at.                                               *)
(*****************************************************************************)
EXTENDS ProtobufFields

AccountCreateMembers ==
  [absent |-> {"key", "stakedAccountId", "stakedNodeId", "alias"},
   zero   |-> {"initialBalance", "receiverSignatureRequired", "accountMemo",
               "maxAutomaticTokenAssociations", "declineStakingReward", "hookCreationDetails"},
   preset |-> {"autoRenewPeriod"},
   ids    |-> {"stakedAccountId", "hookCreationDetails"}]

AccountCreateSetters ==
  Each({"key", "initialBalance", "receiverSignatureRequired", "autoRenewPeriod", "accountMemo",
        "maxAutomaticTokenAssociations", "declineStakingReward", "alias", "hookCreationDetails"})
  \cup Exclusive("stakedAccountId", "stakedNodeId")
  \cup {Setter({"alias", "key"}, {}), Setter({"key"}, {"alias"})}

AccountCreateBody ==
  [rules   |-> Optional({"key", "stakedAccountId", "stakedNodeId", "alias"})
               ++ Message({"autoRenewPeriod"})
               ++ Plain({"initialBalance", "receiverSignatureRequired", "accountMemo",
                         "maxAutomaticTokenAssociations", "declineStakingReward", "hookCreationDetails"}),
   oneofs  |-> {<<"stakedAccountId", "stakedNodeId">>},
   checked |-> {"stakedAccountId"}]

-----------------------------------------------------------------------------

(* The two staking members are written one after the other, the node last.   *)
AccountUpdateMembers ==
  [absent |-> {"key", "receiverSignatureRequired", "autoRenewPeriod", "expirationTime",
               "accountMemo", "maxAutomaticTokenAssociations", "stakedAccountId", "stakedNodeId",
               "declineStakingReward"},
   zero   |-> {"accountId", "hooksToDelete", "hookCreationDetails"},
   preset |-> {},
   ids    |-> {"accountId", "stakedAccountId", "hookCreationDetails"}]

AccountUpdateSetters ==
  Each({"accountId", "key", "receiverSignatureRequired", "autoRenewPeriod", "expirationTime",
        "accountMemo", "maxAutomaticTokenAssociations", "declineStakingReward",
        "hookCreationDetails", "hooksToDelete"})
  \cup Exclusive("stakedAccountId", "stakedNodeId")

AccountUpdateBody ==
  [rules   |-> Optional({"key", "receiverSignatureRequired", "autoRenewPeriod", "expirationTime", "accountMemo",
                        "maxAutomaticTokenAssociations", "stakedAccountId", "stakedNodeId",
                        "declineStakingReward"})
               ++ Nonzero({"accountId"})
               ++ Plain({"hooksToDelete", "hookCreationDetails"}),
   oneofs  |-> {<<"stakedNodeId", "stakedAccountId">>},
   checked |-> {"accountId", "stakedAccountId"}]

-----------------------------------------------------------------------------

AccountDeleteMembers ==
  [absent |-> {"deleteAccountId", "transferAccountId"},
   zero   |-> {},
   preset |-> {},
   ids    |-> {"deleteAccountId", "transferAccountId"}]

AccountDeleteSetters ==
  Each({"deleteAccountId", "transferAccountId"})

AccountDeleteBody ==
  [rules   |-> Optional({"deleteAccountId", "transferAccountId"}),
   oneofs  |-> {},
   checked |-> {"deleteAccountId", "transferAccountId"}]

-----------------------------------------------------------------------------

AccountAllowanceApproveMembers ==
  [absent |-> {},
   zero   |-> {"hbarAllowances", "tokenAllowances", "nftAllowances"},
   preset |-> {},
   ids    |-> {"hbarAllowances", "tokenAllowances", "nftAllowances"}]

AccountAllowanceApproveSetters ==
  Each({"hbarAllowances", "tokenAllowances", "nftAllowances"})

AccountAllowanceApproveBody ==
  [rules   |-> Plain({"hbarAllowances", "tokenAllowances", "nftAllowances"}),
   oneofs  |-> {},
   checked |-> {"hbarAllowances", "tokenAllowances", "nftAllowances"}]

-----------------------------------------------------------------------------

AccountAllowanceDeleteMembers ==
  [absent |-> {},
   zero   |-> {"nftAllowanceDeletions"},
   preset |-> {},
   ids    |-> {"nftAllowanceDeletions"}]

AccountAllowanceDeleteSetters ==
  Each({"nftAllowanceDeletions"})

AccountAllowanceDeleteBody ==
  [rules   |-> Plain({"nftAllowanceDeletions"}),
   oneofs  |-> {},
   checked |-> {"nftAllowanceDeletions"}]

-----------------------------------------------------------------------------

(* tokenTransferHooks are the hook calls inside tokenTransfers:              *)
(* TokenTransfer::toProtobuf sends them, and the transfers are read back     *)
(* without them.                                                             *)
TransferMembers ==
  [absent |-> {},
   zero   |-> {"hbarTransfers", "tokenTransfers", "nftTransfers", "tokenTransferHooks"},
   preset |-> {},
   ids    |-> {"hbarTransfers", "tokenTransfers", "nftTransfers"}]

TransferSetters ==
  Each({"hbarTransfers", "tokenTransfers", "nftTransfers"})
  \cup {Setter({"tokenTransfers", "tokenTransferHooks"}, {})}

TransferBody ==
  [rules   |-> Plain({"hbarTransfers", "tokenTransfers", "nftTransfers"})
               ++ Unread({"tokenTransferHooks"}),
   oneofs  |-> {},
   checked |-> {"hbarTransfers", "tokenTransfers", "nftTransfers"}]

=============================================================================
