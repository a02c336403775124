-------------------- MODULE TokenTransactions --------------------
(*****************************************************************************)
(* The transactions about tokens, their holders and airdrops. For each       *)
(* class: its members and the value its constructor leaves in them; its      *)
(* setters, each guarded by requireNotFrozen; and its body: how build and    *)
(* initFromSourceTransactionBody treat each member, and the IDs that         *)
(* validateChecksums looks at.                                               *)
(*****************************************************************************)
EXTENDS ProtobufFields

(* validateChecksums is empty.                                               *)
TokenAirdropMembers ==
  [absent |-> {},
   zero   |-> {"tokenTransfers", "nftTransfers"},
   preset |-> {},
   ids    |-> {"tokenTransfers", "nftTransfers"}]

TokenAirdropSetters ==
  Each({"tokenTransfers", "nftTransfers"})

TokenAirdropBody ==
  [rules   |-> Plain({"tokenTransfers", "nftTransfers"}),
   oneofs  |-> {},
   checked |-> {}]

-----------------------------------------------------------------------------

TokenAssociateMembers ==
  [absent |-> {"accountId"},
   zero   |-> {"tokenIds"},
   preset |-> {},
   ids    |-> {"accountId", "tokenIds"}]

TokenAssociateSetters ==
  Each({"accountId", "tokenIds"})

TokenAssociateBody ==
  [rules   |-> Optional({"accountId"})
               ++ Plain({"tokenIds"}),
   oneofs  |-> {},
   checked |-> {"accountId", "tokenIds"}]

-----------------------------------------------------------------------------

TokenBurnMembers ==
  [absent |-> {},
   zero   |-> {"tokenId", "amount", "serialNumbers"},
   preset |-> {},
   ids    |-> {"tokenId"}]

TokenBurnSetters ==
  Each({"tokenId", "amount", "serialNumbers"})

TokenBurnBody ==
  [rules   |-> Nonzero({"tokenId"})
               ++ Plain({"amount", "serialNumbers"}),
   oneofs  |-> {},
   checked |-> {"tokenId"}]

-----------------------------------------------------------------------------

(* validateChecksums is empty.                                               *)
TokenCancelAirdropMembers ==
  [absent |-> {}, zero |-> {"pendingAirdrops"}, preset |-> {}, ids |-> {"pendingAirdrops"}]

TokenCancelAirdropSetters ==
  Each({"pendingAirdrops"})

TokenCancelAirdropBody ==
  [rules   |-> Plain({"pendingAirdrops"}),
   oneofs  |-> {},
   checked |-> {}]

-----------------------------------------------------------------------------

(* validateChecksums is empty.                                               *)
TokenClaimAirdropMembers ==
  [absent |-> {}, zero |-> {"pendingAirdrops"}, preset |-> {}, ids |-> {"pendingAirdrops"}]

TokenClaimAirdropSetters ==
  Each({"pendingAirdrops"})

TokenClaimAirdropBody ==
  [rules   |-> Plain({"pendingAirdrops"}),
   oneofs  |-> {},
   checked |-> {}]

-----------------------------------------------------------------------------

(* addToBody makes the payer the auto-renew account if none was set.         *)
TokenCreateMembers ==
  [absent |-> {"treasuryAccountId", "adminKey", "kycKey", "freezeKey", "wipeKey", "supplyKey",
               "autoRenewAccountId", "feeScheduleKey", "pauseKey", "metadataKey"},
   zero   |-> {"tokenName", "tokenSymbol", "decimals", "initialSupply", "freezeDefault",
               "tokenMemo", "tokenType", "supplyType", "maxSupply", "customFees", "metadata"},
   preset |-> {"expirationTime", "autoRenewPeriod"},
   ids    |-> {"treasuryAccountId", "autoRenewAccountId", "customFees"}]

TokenCreateSetters ==
  Each({"tokenName", "tokenSymbol", "decimals", "initialSupply", "treasuryAccountId", "adminKey",
        "kycKey", "freezeKey", "wipeKey", "supplyKey", "freezeDefault", "expirationTime",
        "autoRenewAccountId", "autoRenewPeriod", "tokenMemo", "tokenType", "supplyType",
        "maxSupply", "feeScheduleKey", "customFees", "pauseKey", "metadata", "metadataKey"})

TokenCreateBody ==
  [rules   |-> Optional({"treasuryAccountId", "adminKey", "kycKey", "freezeKey", "wipeKey", "supplyKey",
                        "feeScheduleKey", "pauseKey", "metadataKey"})
               ++ PayerUnlessSet({"autoRenewAccountId"})
               ++ Message({"expirationTime", "autoRenewPeriod"})
               ++ Plain({"tokenName", "tokenSymbol", "decimals", "initialSupply", "freezeDefault", "tokenMemo",
                         "tokenType", "supplyType", "maxSupply", "customFees", "metadata"}),
   oneofs  |-> {},
   checked |-> {"treasuryAccountId", "autoRenewAccountId", "customFees"}]

-----------------------------------------------------------------------------

TokenDeleteMembers ==
  [absent |-> {"tokenId"}, zero |-> {}, preset |-> {}, ids |-> {"tokenId"}]

TokenDeleteSetters ==
  Each({"tokenId"})

TokenDeleteBody ==
  [rules   |-> Optional({"tokenId"}),
   oneofs  |-> {},
   checked |-> {"tokenId"}]

-----------------------------------------------------------------------------

TokenDissociateMembers ==
  [absent |-> {"accountId"},
   zero   |-> {"tokenIds"},
   preset |-> {},
   ids    |-> {"accountId", "tokenIds"}]

TokenDissociateSetters ==
  Each({"accountId", "tokenIds"})

TokenDissociateBody ==
  [rules   |-> Optional({"accountId"})
               ++ Plain({"tokenIds"}),
   oneofs  |-> {},
   checked |-> {"accountId", "tokenIds"}]

-----------------------------------------------------------------------------

TokenFeeScheduleUpdateMembers ==
  [absent |-> {},
   zero   |-> {"tokenId", "customFees"},
   preset |-> {},
   ids    |-> {"tokenId", "customFees"}]

TokenFeeScheduleUpdateSetters ==
  Each({"tokenId", "customFees"})

TokenFeeScheduleUpdateBody ==
  [rules   |-> Nonzero({"tokenId"})
               ++ Plain({"customFees"}),
   oneofs  |-> {},
   checked |-> {"tokenId", "customFees"}]

-----------------------------------------------------------------------------

TokenFreezeMembers ==
  [absent |-> {},
   zero   |-> {"accountId", "tokenId"},
   preset |-> {},
   ids    |-> {"accountId", "tokenId"}]

TokenFreezeSetters ==
  Each({"accountId", "tokenId"})

TokenFreezeBody ==
  [rules   |-> Nonzero({"accountId", "tokenId"}),
   oneofs  |-> {},
   checked |-> {"accountId", "tokenId"}]

-----------------------------------------------------------------------------

TokenGrantKycMembers ==
  [absent |-> {},
   zero   |-> {"accountId", "tokenId"},
   preset |-> {},
   ids    |-> {"accountId", "tokenId"}]

TokenGrantKycSetters ==
  Each({"accountId", "tokenId"})

TokenGrantKycBody ==
  [rules   |-> Nonzero({"accountId", "tokenId"}),
   oneofs  |-> {},
   checked |-> {"accountId", "tokenId"}]

-----------------------------------------------------------------------------

TokenMintMembers ==
  [absent |-> {},
   zero   |-> {"tokenId", "amount", "metadataList"},
   preset |-> {},
   ids    |-> {"tokenId"}]

TokenMintSetters ==
  Each({"tokenId", "amount", "metadataList"})

\* Mutant: initFromSourceTransactionBody forgets the metadata.
TokenMintBodyUnread ==
  [rules   |-> Nonzero({"tokenId"}) ++ Plain({"amount"}) ++ Unread({"metadataList"}),
   oneofs  |-> {}, checked |-> {"tokenId"}]

TokenMintBody ==
  [rules   |-> Nonzero({"tokenId"})
               ++ Plain({"amount", "metadataList"}),
   oneofs  |-> {},
   checked |-> {"tokenId"}]

-----------------------------------------------------------------------------

TokenPauseMembers ==
  [absent |-> {}, zero |-> {"tokenId"}, preset |-> {}, ids |-> {"tokenId"}]

TokenPauseSetters ==
  Each({"tokenId"})

TokenPauseBody ==
  [rules   |-> Nonzero({"tokenId"}),
   oneofs  |-> {},
   checked |-> {"tokenId"}]

-----------------------------------------------------------------------------

TokenRejectMembers ==
  [absent |-> {"owner"},
   zero   |-> {"fts", "nfts"},
   preset |-> {},
   ids    |-> {"owner", "fts", "nfts"}]

TokenRejectSetters ==
  Each({"owner", "fts", "nfts"})

TokenRejectBody ==
  [rules   |-> Optional({"owner"})
               ++ Plain({"fts", "nfts"}),
   oneofs  |-> {},
   checked |-> {"owner", "fts", "nfts"}]

-----------------------------------------------------------------------------

TokenRevokeKycMembers ==
  [absent |-> {},
   zero   |-> {"accountId", "tokenId"},
   preset |-> {},
   ids    |-> {"accountId", "tokenId"}]

TokenRevokeKycSetters ==
  Each({"accountId", "tokenId"})

TokenRevokeKycBody ==
  [rules   |-> Nonzero({"accountId", "tokenId"}),
   oneofs  |-> {},
   checked |-> {"accountId", "tokenId"}]

-----------------------------------------------------------------------------

TokenUnfreezeMembers ==
  [absent |-> {},
   zero   |-> {"accountId", "tokenId"},
   preset |-> {},
   ids    |-> {"accountId", "tokenId"}]

TokenUnfreezeSetters ==
  Each({"accountId", "tokenId"})

TokenUnfreezeBody ==
  [rules   |-> Nonzero({"accountId", "tokenId"}),
   oneofs  |-> {},
   checked |-> {"accountId", "tokenId"}]

-----------------------------------------------------------------------------

TokenUnpauseMembers ==
  [absent |-> {}, zero |-> {"tokenId"}, preset |-> {}, ids |-> {"tokenId"}]

TokenUnpauseSetters ==
  Each({"tokenId"})

TokenUnpauseBody ==
  [rules   |-> Nonzero({"tokenId"}),
   oneofs  |-> {},
   checked |-> {"tokenId"}]

-----------------------------------------------------------------------------

TokenUpdateNftsMembers ==
  [absent |-> {}, zero |-> {"tokenId", "serials", "metadata"}, preset |-> {}, ids |-> {"tokenId"}]

TokenUpdateNftsSetters ==
  Each({"tokenId", "serials", "metadata"})

TokenUpdateNftsBody ==
  [rules   |-> Message({"tokenId"})
               ++ Plain({"serials", "metadata"}),
   oneofs  |-> {},
   checked |-> {"tokenId"}]

-----------------------------------------------------------------------------

TokenUpdateMembers ==
  [absent |-> {"tokenName", "tokenSymbol", "treasuryAccountId", "adminKey", "kycKey",
               "freezeKey", "wipeKey", "supplyKey", "autoRenewAccountId", "autoRenewPeriod",
               "expirationTime", "tokenMemo", "feeScheduleKey", "pauseKey", "metadataKey"},
   zero   |-> {"tokenId", "metadata", "keyVerificationMode"},
   preset |-> {},
   ids    |-> {"tokenId", "treasuryAccountId", "autoRenewAccountId"}]

TokenUpdateSetters ==
  Each({"tokenId", "tokenName", "tokenSymbol", "treasuryAccountId", "adminKey", "kycKey",
        "freezeKey", "wipeKey", "supplyKey", "autoRenewAccountId", "autoRenewPeriod",
        "expirationTime", "tokenMemo", "feeScheduleKey", "pauseKey", "metadata", "metadataKey",
        "keyVerificationMode"})

TokenUpdateBody ==
  [rules   |-> Optional({"treasuryAccountId", "adminKey", "kycKey", "freezeKey", "wipeKey", "supplyKey",
                        "autoRenewAccountId", "autoRenewPeriod", "expirationTime", "tokenMemo",
                        "feeScheduleKey", "pauseKey", "metadataKey"})
               ++ Message({"tokenId"})
               ++ Plain({"metadata", "keyVerificationMode"})
               ++ OptionalScalar({"tokenName", "tokenSymbol"}),
   oneofs  |-> {},
   checked |-> {"tokenId", "treasuryAccountId", "autoRenewAccountId"}]

-----------------------------------------------------------------------------

TokenWipeMembers ==
  [absent |-> {},
   zero   |-> {"tokenId", "accountId", "amount", "serialNumbers"},
   preset |-> {},
   ids    |-> {"tokenId", "accountId"}]

TokenWipeSetters ==
  Each({"tokenId", "accountId", "amount", "serialNumbers"})

\* Mutant: validateChecksums looks at the token only.
TokenWipeBodyTokenOnly ==
  [rules   |-> Nonzero({"tokenId", "accountId"}) ++ Plain({"amount", "serialNumbers"}),
   oneofs  |-> {}, checked |-> {"tokenId"}]

TokenWipeBody ==
  [rules   |-> Nonzero({"tokenId", "accountId"})
               ++ Plain({"amount", "serialNumbers"}),
   oneofs  |-> {},
   checked |-> {"tokenId", "accountId"}]

=============================================================================
