--------------------------- MODULE MCNetworkObjects ---------------------------
(* Every class, with up to MaxFields fields sent by the network, and the     *)
(* members that are known to be lost (README, Findings).                     *)
EXTENDS NetworkObjects

KnownDivergences ==
  [unread |->
     {<<"DelegateContractId", "evmAddress">>, <<"Key", "delegatableContractId">>,
      <<"BlockNodeServiceEndpoint", "otherEndpointApis">>},
   unwritten |->
     {<<"AccountBalance", "tokens">>, <<"TopicInfo", "feeCollectors">>,
      <<"TokenTransfer", "tokenId">>, <<"TokenTransfer", "expectedDecimals">>,
      <<"TokenNftTransfer", "tokenId">>,
      <<"TransactionReceipt", "transactionId">>, <<"TransactionReceipt", "nextRate">>,
      <<"TransactionReceipt", "tokenId">>, <<"TransactionReceipt", "duplicates">>,
      <<"TransactionReceipt", "children">>,
      <<"TransactionRecord", "pendingAirdropRecords">>, <<"TransactionRecord", "duplicates">>,
      <<"TransactionRecord", "children">>},
   crashing |->
     {"TokenInfo"} \X {"adminKey", "kycKey", "freezeKey", "wipeKey", "supplyKey",
                       "feeScheduleKey", "pauseKey", "metadataKey"}]

NothingKnown == [unread |-> {}, unwritten |-> {}, crashing |-> {}]
=============================================================================
