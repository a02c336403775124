-------------------- MODULE TokenMessages --------------------
(*****************************************************************************)
(* The messages about tokens, their transfers and fees, receipts and         *)
(* records. For each class: its members and the value its constructor        *)
(* leaves in them, and how fromProtobuf and toProtobuf treat each member.    *)
(*****************************************************************************)
EXTENDS ProtobufFields

TokenAllowanceMembers ==
  Holding({}, {"amount", "tokenId", "ownerAccountId", "spenderAccountId"}, {})

TokenAllowanceMessage ==
  Carrying(Nonzero({"tokenId", "ownerAccountId", "spenderAccountId"})
           ++ Plain({"amount"}), {})

-----------------------------------------------------------------------------

TokenAssociationMembers ==
  Holding({}, {"accountId", "tokenId"}, {})

TokenAssociationMessage ==
  Carrying(Message({"accountId", "tokenId"}), {})

-----------------------------------------------------------------------------

(* toProtobuf dereferences every key.                                        *)
TokenInfoMembers ==
  Holding({"adminKey", "kycKey", "freezeKey", "wipeKey", "supplyKey", "feeScheduleKey",
           "pauseKey", "metadataKey", "defaultFreezeStatus", "defaultKycStatus", "pauseStatus"},
          {"tokenId", "tokenName", "tokenSymbol", "decimals", "totalSupply",
           "treasuryAccountId", "isDeleted", "autoRenewAccountId", "autoRenewPeriod",
           "expirationTime", "tokenMemo", "maxSupply", "ledgerId", "metadata", "customFees"},
          {"tokenType", "supplyType"})

TokenInfoMessage ==
  Carrying(Positive({"defaultFreezeStatus", "defaultKycStatus", "pauseStatus"})
           ++ Message({"tokenId", "treasuryAccountId", "autoRenewAccountId", "autoRenewPeriod",
                       "expirationTime"})
           ++ Plain({"tokenName", "tokenSymbol", "decimals", "totalSupply", "isDeleted",
                     "tokenMemo", "tokenType", "supplyType", "maxSupply", "ledgerId",
                     "metadata", "customFees"})
           ++ Dereferenced({"adminKey", "kycKey", "freezeKey", "wipeKey", "supplyKey",
                            "feeScheduleKey", "pauseKey", "metadataKey"}), {})

-----------------------------------------------------------------------------

TokenNftAllowanceMembers ==
  Holding({"tokenId", "ownerAccountId", "spenderAccountId", "approvedForAll",
           "delegatingSpenderAccountId"},
          {"serialNumbers"},
          {})

\* Mutant: fromProtobuf forgets the delegating spender.
TokenNftAllowanceMessageUnread ==
  Carrying(Optional({"tokenId", "ownerAccountId", "spenderAccountId", "approvedForAll"})
           ++ Plain({"serialNumbers"}) ++ Unread({"delegatingSpenderAccountId"}),
           {})

TokenNftAllowanceMessage ==
  Carrying(Optional({"tokenId", "ownerAccountId", "spenderAccountId", "approvedForAll",
                     "delegatingSpenderAccountId"})
           ++ Plain({"serialNumbers"}), {})

-----------------------------------------------------------------------------

TokenNftInfoMembers ==
  Holding({"spenderId"}, {"nftId", "accountId", "creationTime", "metadata", "ledgerId"}, {})

TokenNftInfoMessage ==
  Carrying(Optional({"spenderId"})
           ++ Message({"nftId", "accountId", "creationTime"})
           ++ Plain({"metadata", "ledgerId"}), {})

-----------------------------------------------------------------------------

(* The token of mNftId belongs to the list that holds the transfer.          *)
TokenNftTransferMembers ==
  Holding({"senderHookCall", "receiverHookCall"},
          {"senderAccountId", "receiverAccountId", "isApproval", "tokenId", "serialNum"},
          {})

TokenNftTransferMessage ==
  Carrying(Optional({"senderHookCall", "receiverHookCall"})
           ++ Plain({"senderAccountId", "receiverAccountId", "isApproval", "serialNum"})
           ++ Unwritten({"tokenId"}), {})

-----------------------------------------------------------------------------

TokenRelationshipMembers ==
  Holding({"kycStatus", "freezeStatus"},
          {"tokenId", "symbol", "balance", "decimals", "automaticAssociation"},
          {})

TokenRelationshipMessage ==
  Carrying(Positive({"kycStatus", "freezeStatus"})
           ++ Message({"tokenId"})
           ++ Plain({"symbol", "balance", "decimals", "automaticAssociation"}), {})

-----------------------------------------------------------------------------

(* The token and its decimals belong to the list that holds the transfer.    *)
TokenTransferMembers ==
  Holding({"hookCall"},
          {"accountId", "amount", "isApproval", "tokenId", "expectedDecimals"},
          {})

TokenTransferMessage ==
  Carrying(Optional({"hookCall"})
           ++ Plain({"accountId", "amount", "isApproval"})
           ++ Unwritten({"tokenId", "expectedDecimals"}), {})

-----------------------------------------------------------------------------

AssessedCustomFeeMembers ==
  Holding({"tokenId"}, {"amount", "feeCollectorAccountId", "payerAccountIdList"}, {})

AssessedCustomFeeMessage ==
  Carrying(Optional({"tokenId"})
           ++ Message({"feeCollectorAccountId"})
           ++ Plain({"amount", "payerAccountIdList"}), {})

-----------------------------------------------------------------------------

(* fee stands for the members of the derived class; fromProtobuf throws      *)
(* without it.                                                               *)
CustomFeeMembers ==
  Holding({"fee"}, {"feeCollectorAccountId", "allCollectorsAreExempt"}, {})

CustomFeeMessage ==
  OneOf(Optional({"fee"})
        ++ Plain({"feeCollectorAccountId", "allCollectorsAreExempt"}), {}, {"fee"})

-----------------------------------------------------------------------------

CustomFeeLimitMembers ==
  Holding({"payerId"}, {"customFees"}, {})

CustomFeeLimitMessage ==
  Carrying(Optional({"payerId"})
           ++ Plain({"customFees"}), {})

-----------------------------------------------------------------------------

CustomFixedFeeMembers ==
  Holding({"denominatingTokenId"}, {"amount"}, {})

CustomFixedFeeMessage ==
  Carrying(Optional({"denominatingTokenId"})
           ++ Plain({"amount"}), {})

-----------------------------------------------------------------------------

CustomFractionalFeeMembers ==
  Holding({}, {"numerator", "minAmount", "maxAmount"}, {"denominator", "assessmentMethod"})

CustomFractionalFeeMessage ==
  Carrying(Message({"numerator", "denominator"})
           ++ Plain({"minAmount", "maxAmount", "assessmentMethod"}), {})

-----------------------------------------------------------------------------

CustomRoyaltyFeeMembers ==
  Holding({"fallbackFee"}, {"numerator"}, {"denominator"})

CustomRoyaltyFeeMessage ==
  Carrying(Optional({"fallbackFee"})
           ++ Message({"numerator", "denominator"}), {})

-----------------------------------------------------------------------------

PendingAirdropIdMembers ==
  Holding({"ft", "nft"}, {"sender", "receiver"}, {})

PendingAirdropIdMessage ==
  Carrying(Optional({"ft", "nft"})
           ++ Plain({"sender", "receiver"}), {<<"nft", "ft">>})

-----------------------------------------------------------------------------

PendingAirdropRecordMembers ==
  Holding({}, {"pendingAirdropId", "amount"}, {})

PendingAirdropRecordMessage ==
  Carrying(Plain({"pendingAirdropId", "amount"}), {})

-----------------------------------------------------------------------------

(* The ID, duplicates and children come from a                               *)
(* TransactionGetReceiptResponse; currentRate and nextRate are the two of    *)
(* mExchangeRates.                                                           *)
TransactionReceiptMembers ==
  Holding({"accountId", "fileId", "contractId", "topicId", "topicSequenceNumber",
           "topicRunningHash", "topicRunningHashVersion", "tokenId", "newTotalSupply",
           "scheduleId", "scheduledTransactionId", "nodeId", "registeredNodeId"},
          {"transactionId", "currentRate", "nextRate", "serialNumbers", "duplicates", "children"},
          {"status"})

TransactionReceiptMessage ==
  Carrying(Optional({"accountId", "fileId", "contractId", "topicId", "scheduleId",
                     "scheduledTransactionId"})
           ++ Positive({"topicSequenceNumber", "topicRunningHash", "topicRunningHashVersion",
                        "registeredNodeId"})
           ++ Message({"currentRate"})
           ++ Plain({"status", "serialNumbers"})
           ++ OptionalScalar({"newTotalSupply", "nodeId"})
           ++ Unwritten({"transactionId", "nextRate", "duplicates", "children"})
           ++ Dropped({"tokenId"}), {})

-----------------------------------------------------------------------------

(* toProtobuf makes a message of each pending airdrop and adds it to         *)
(* nothing; children and duplicates come from a                              *)
(* TransactionGetRecordResponse.                                             *)
TransactionRecordMembers ==
  Holding({"receipt", "consensusTimestamp", "transactionId", "contractFunctionResult",
           "scheduleRef", "parentConsensusTimestamp", "prngNumber", "alias", "ethereumHash",
           "evmAddress"},
          {"transactionHash", "memo", "transactionFee", "hbarTransferList",
           "tokenTransferList", "nftTransferList", "assessedCustomFees",
           "automaticTokenAssociations", "paidStakingRewards", "highVolumePricingMultiplier",
           "prngBytes", "children", "duplicates", "pendingAirdropRecords"},
          {})

TransactionRecordMessage ==
  Carrying(Optional({"receipt", "consensusTimestamp", "transactionId",
                     "contractFunctionResult", "scheduleRef", "parentConsensusTimestamp",
                     "prngNumber"})
           ++ Positive({"alias", "ethereumHash", "evmAddress"})
           ++ Message({"prngBytes"})
           ++ Plain({"transactionHash", "memo", "transactionFee", "hbarTransferList",
                     "tokenTransferList", "nftTransferList", "assessedCustomFees",
                     "automaticTokenAssociations", "paidStakingRewards",
                     "highVolumePricingMultiplier"})
           ++ Unwritten({"children", "duplicates", "pendingAirdropRecords"}),
           {<<"prngNumber", "prngBytes">>})

=============================================================================
