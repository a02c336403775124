-------------------- MODULE AccountMessages --------------------
(*****************************************************************************)
(* The messages about balances, accounts and their transfers of hbars. For   *)
(* each class: its members and the value its constructor leaves in them,     *)
(* and how fromProtobuf and toProtobuf treat each member.                    *)
(*****************************************************************************)
EXTENDS ProtobufFields

(* toProtobuf writes the balance and no token.                               *)
AccountBalanceMembers ==
  Holding({}, {"balance", "tokens"}, {})

AccountBalanceMessage ==
  Carrying(Plain({"balance"})
           ++ Unwritten({"tokens"}), {})

-----------------------------------------------------------------------------

AccountInfoMembers ==
  Holding({"key", "publicKeyAlias", "evmAddressAlias"},
          {"accountId", "contractAccountId", "isDeleted", "proxyReceived", "balance",
           "receiverSignatureRequired", "expirationTime", "autoRenewPeriod", "memo",
           "ownedNfts", "maxAutomaticTokenAssociations", "ledgerId", "stakingInfo",
           "tokenRelationships"},
          {})

AccountInfoMessage ==
  Carrying(Optional({"key"})
           ++ Positive({"publicKeyAlias", "evmAddressAlias"})
           ++ Message({"accountId", "expirationTime", "autoRenewPeriod", "stakingInfo"})
           ++ Plain({"contractAccountId", "isDeleted", "proxyReceived", "balance",
                     "receiverSignatureRequired", "memo", "ownedNfts",
                     "maxAutomaticTokenAssociations", "ledgerId", "tokenRelationships"}),
           {<<"publicKeyAlias", "evmAddressAlias">>})

-----------------------------------------------------------------------------

AccountRecordsMembers ==
  Holding({}, {"accountId", "records"}, {})

AccountRecordsMessage ==
  Carrying(Plain({"accountId", "records"}), {})

-----------------------------------------------------------------------------

HbarAllowanceMembers ==
  Holding({}, {"ownerAccountId", "spenderAccountId", "amount"}, {})

HbarAllowanceMessage ==
  Carrying(Message({"ownerAccountId", "spenderAccountId"})
           ++ Plain({"amount"}), {})

-----------------------------------------------------------------------------

(* A hook call is absent while its type is UNINITIALIZED.                    *)
HbarTransferMembers ==
  Holding({"hookCall"}, {"accountId", "amount", "isApproved"}, {})

HbarTransferMessage ==
  Carrying(Optional({"hookCall"})
           ++ Message({"accountId"})
           ++ Plain({"amount", "isApproved"}), {})

-----------------------------------------------------------------------------

ProxyStakerMembers ==
  Holding({}, {"accountId", "amount"}, {})

ProxyStakerMessage ==
  Carrying(Plain({"accountId", "amount"}), {})

-----------------------------------------------------------------------------

StakingInfoMembers ==
  Holding({"stakePeriodStart", "stakedAccountId", "stakedNodeId"},
          {"declineRewards", "pendingReward", "stakedToMe"},
          {})

StakingInfoMessage ==
  Carrying(Optional({"stakePeriodStart", "stakedAccountId", "stakedNodeId"})
           ++ Plain({"declineRewards", "pendingReward", "stakedToMe"}),
           {<<"stakedAccountId", "stakedNodeId">>})

=============================================================================
