-------------------------- MODULE MCTransactionBodies --------------------------
(* Every class, with up to MaxEdits calls of its setters, and the members    *)
(* that are known to break each property (README, Findings).                 *)
EXTENDS TransactionBodies

KnownDivergences ==
  [lost |->
     {<<"Transfer", "tokenTransferHooks">>, <<"TopicUpdate", "feeCollectors">>,
      <<"TopicMessageSubmit", "message">>, <<"TopicMessageSubmit", "customFeeLimits">>,
      <<"FileAppend", "contents">>},
   cut |-> {<<"FileAppend", "contents">>},
   dropped |-> {<<"Transfer", "tokenTransferHooks">>},
   unscheduled |->
     {"AccountDelete", "ScheduleDelete", "TokenUnfreeze", "TokenAirdrop", "TokenCancelAirdrop",
      "TokenClaimAirdrop", "TokenReject", "TokenUpdateNfts", "TokenUpdate", "RegisteredNodeCreate",
      "RegisteredNodeUpdate", "RegisteredNodeDelete"},
   unset |-> {<<"NodeUpdate", "declineReward">>},
   unchecked |->
     {<<"AccountCreate", "hookCreationDetails">>, <<"AccountUpdate", "hookCreationDetails">>,
      <<"ContractCreate", "hookCreationDetails">>, <<"ContractUpdate", "hookCreationDetails">>,
      <<"TokenAirdrop", "tokenTransfers">>, <<"TokenAirdrop", "nftTransfers">>,
      <<"TokenCancelAirdrop", "pendingAirdrops">>, <<"TokenClaimAirdrop", "pendingAirdrops">>,
      <<"TopicCreate", "feeCollectors">>, <<"TopicUpdate", "feeCollectors">>,
      <<"TopicMessageSubmit", "customFeeLimits">>}]

NothingKnown ==
  [lost |-> {}, cut |-> {}, dropped |-> {}, unscheduled |-> {}, unset |-> {}, unchecked |-> {}]
=============================================================================
