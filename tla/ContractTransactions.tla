-------------------- MODULE ContractTransactions --------------------
(*****************************************************************************)
(* The transactions about smart contracts, Ethereum calls and hooks. For     *)
(* each class: its members and the value its constructor leaves in them;     *)
(* its setters, each guarded by requireNotFrozen; and its body: how build    *)
(* and initFromSourceTransactionBody treat each member, and the IDs that     *)
(* validateChecksums looks at.                                               *)
(*****************************************************************************)
EXTENDS ProtobufFields

ContractCreateMembers ==
  [absent |-> {"bytecodeFileId", "bytecode", "adminKey", "autoRenewAccountId", "stakedAccountId",
               "stakedNodeId"},
   zero   |-> {"gas", "initialBalance", "constructorParameters", "memo",
               "maxAutomaticTokenAssociations", "declineStakingReward", "hookCreationDetails"},
   preset |-> {"autoRenewPeriod"},
   ids    |-> {"bytecodeFileId", "autoRenewAccountId", "stakedAccountId", "hookCreationDetails"}]

ContractCreateSetters ==
  Each({"adminKey", "gas", "initialBalance", "autoRenewPeriod", "constructorParameters", "memo",
        "maxAutomaticTokenAssociations", "autoRenewAccountId", "declineStakingReward",
        "hookCreationDetails"})
  \cup Exclusive("bytecode", "bytecodeFileId")
  \cup Exclusive("stakedAccountId", "stakedNodeId")

ContractCreateBody ==
  [rules   |-> Optional({"bytecodeFileId", "bytecode", "adminKey", "autoRenewAccountId", "stakedAccountId",
                        "stakedNodeId"})
               ++ Message({"autoRenewPeriod"})
               ++ Plain({"gas", "initialBalance", "constructorParameters", "memo", "maxAutomaticTokenAssociations",
                         "declineStakingReward", "hookCreationDetails"}),
   oneofs  |-> {<<"stakedAccountId", "stakedNodeId">>, <<"bytecodeFileId", "bytecode">>},
   checked |-> {"bytecodeFileId", "autoRenewAccountId", "stakedAccountId"}]

-----------------------------------------------------------------------------

ContractUpdateMembers ==
  [absent |-> {"expirationTime", "adminKey", "autoRenewPeriod", "contractMemo",
               "maxAutomaticTokenAssociations", "autoRenewAccountId", "stakedAccountId",
               "stakedNodeId", "declineStakingReward"},
   zero   |-> {"contractId", "hooksToDelete", "hookCreationDetails"},
   preset |-> {},
   ids    |-> {"contractId", "autoRenewAccountId", "stakedAccountId", "hookCreationDetails"}]

ContractUpdateSetters ==
  Each({"contractId", "expirationTime", "adminKey", "autoRenewPeriod", "contractMemo",
        "maxAutomaticTokenAssociations", "autoRenewAccountId", "declineStakingReward",
        "hookCreationDetails", "hooksToDelete"})
  \cup Exclusive("stakedAccountId", "stakedNodeId")

ContractUpdateBody ==
  [rules   |-> Optional({"expirationTime", "adminKey", "autoRenewPeriod", "contractMemo",
                        "maxAutomaticTokenAssociations", "autoRenewAccountId", "stakedAccountId",
                        "stakedNodeId", "declineStakingReward"})
               ++ Message({"contractId"})
               ++ Plain({"hooksToDelete", "hookCreationDetails"}),
   oneofs  |-> {<<"stakedAccountId", "stakedNodeId">>},
   checked |-> {"contractId", "autoRenewAccountId", "stakedAccountId"}]

-----------------------------------------------------------------------------

ContractDeleteMembers ==
  [absent |-> {"transferAccountId", "transferContractId", "permanentRemoval"},
   zero   |-> {"contractId"},
   preset |-> {},
   ids    |-> {"contractId", "transferAccountId", "transferContractId"}]

ContractDeleteSetters ==
  Each({"contractId", "permanentRemoval"})
  \cup Exclusive("transferAccountId", "transferContractId")

ContractDeleteBody ==
  [rules   |-> Optional({"transferAccountId", "transferContractId"})
               ++ Message({"contractId"})
               ++ OptionalScalar({"permanentRemoval"}),
   oneofs  |-> {<<"transferAccountId", "transferContractId">>},
   checked |-> {"contractId", "transferAccountId", "transferContractId"}]

-----------------------------------------------------------------------------

ContractExecuteMembers ==
  [absent |-> {},
   zero   |-> {"contractId", "gas", "payableAmount", "functionParameters"},
   preset |-> {},
   ids    |-> {"contractId"}]

ContractExecuteSetters ==
  Each({"contractId", "gas", "payableAmount", "functionParameters"})

ContractExecuteBody ==
  [rules   |-> Message({"contractId"})
               ++ Plain({"gas", "payableAmount", "functionParameters"}),
   oneofs  |-> {},
   checked |-> {"contractId"}]

-----------------------------------------------------------------------------

EthereumMembers ==
  [absent |-> {"callDataFileId"},
   zero   |-> {"ethereumData", "maxGasAllowance"},
   preset |-> {},
   ids    |-> {"callDataFileId"}]

EthereumSetters ==
  Each({"ethereumData", "callDataFileId", "maxGasAllowance"})

EthereumBody ==
  [rules   |-> Optional({"callDataFileId"})
               ++ Plain({"ethereumData", "maxGasAllowance"}),
   oneofs  |-> {},
   checked |-> {"callDataFileId"}]

-----------------------------------------------------------------------------

HookStoreMembers ==
  [absent |-> {}, zero |-> {"hookId", "storageUpdates"}, preset |-> {}, ids |-> {"hookId"}]

HookStoreSetters ==
  Each({"hookId", "storageUpdates"})
  \cup {Setter({}, {"storageUpdates"})}

HookStoreBody ==
  [rules   |-> Message({"hookId"})
               ++ Plain({"storageUpdates"}),
   oneofs  |-> {},
   checked |-> {"hookId"}]

=============================================================================
