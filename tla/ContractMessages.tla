-------------------- MODULE ContractMessages --------------------
(*****************************************************************************)
(* The messages about contracts, their calls and hooks. For each class: its  *)
(* members and the value its constructor leaves in them, and how             *)
(* fromProtobuf and toProtobuf treat each member.                            *)
(*****************************************************************************)
EXTENDS ProtobufFields

(* The prefix of an error result is data.                                    *)
ContractFunctionResultMembers ==
  Holding({"evmAddress", "signerNonce"},
          {"contractId", "errorMessage", "bloom", "gasUsed", "logs", "gas", "hbarAmount",
           "functionParameters", "senderAccountId", "contractNonces", "contractCallResult"},
          {})

ContractFunctionResultMessage ==
  Carrying(Optional({"evmAddress", "signerNonce"})
           ++ Message({"contractId", "senderAccountId"})
           ++ Plain({"errorMessage", "bloom", "gasUsed", "logs", "gas", "hbarAmount",
                     "functionParameters", "contractNonces", "contractCallResult"}), {})

-----------------------------------------------------------------------------

ContractInfoMembers ==
  Holding({"adminKey", "autoRenewAccountId"},
          {"contractId", "accountId", "contractAccountId", "expirationTime", "autoRenewPeriod",
           "storage", "memo", "balance", "isDeleted", "ledgerId",
           "maxAutomaticTokenAssociations", "stakingInfo", "tokenRelationships"},
          {})

ContractInfoMessage ==
  Carrying(Optional({"adminKey", "autoRenewAccountId"})
           ++ Message({"contractId", "accountId", "expirationTime", "autoRenewPeriod",
                       "stakingInfo"})
           ++ Plain({"contractAccountId", "storage", "memo", "balance", "isDeleted",
                     "ledgerId", "maxAutomaticTokenAssociations", "tokenRelationships"}), {})

-----------------------------------------------------------------------------

ContractLogInfoMembers ==
  Holding({}, {"contractId", "bloom", "topics", "data"}, {})

ContractLogInfoMessage ==
  Carrying(Plain({"contractId", "bloom", "topics", "data"}), {})

-----------------------------------------------------------------------------

ContractNonceInfoMembers ==
  Holding({}, {"contractId", "nonce"}, {})

ContractNonceInfoMessage ==
  Carrying(Plain({"contractId", "nonce"}), {})

-----------------------------------------------------------------------------

EvmHookMembers ==
  Holding({}, {"evmHookSpec", "storageUpdates"}, {})

EvmHookMessage ==
  Carrying(Message({"evmHookSpec"})
           ++ Plain({"storageUpdates"}), {})

-----------------------------------------------------------------------------

EvmHookCallMembers ==
  Holding({}, {"data", "gasLimit"}, {})

EvmHookCallMessage ==
  Carrying(Plain({"data", "gasLimit"}), {})

-----------------------------------------------------------------------------

EvmHookMappingEntriesMembers ==
  Holding({}, {"mappingSlot", "entries"}, {})

EvmHookMappingEntriesMessage ==
  Carrying(Plain({"mappingSlot", "entries"}), {})

-----------------------------------------------------------------------------

EvmHookMappingEntryMembers ==
  Holding({"key", "preimage"}, {"value"}, {})

EvmHookMappingEntryMessage ==
  Carrying(Optional({"key", "preimage"})
           ++ Plain({"value"}), {<<"preimage", "key">>})

-----------------------------------------------------------------------------

EvmHookSpecMembers ==
  Holding({"contractId"}, {}, {})

EvmHookSpecMessage ==
  Carrying(Optional({"contractId"}), {})

-----------------------------------------------------------------------------

EvmHookStorageSlotMembers ==
  Holding({}, {"key", "value"}, {})

EvmHookStorageSlotMessage ==
  Carrying(Plain({"key", "value"}), {})

-----------------------------------------------------------------------------

EvmHookStorageUpdateMembers ==
  Holding({"storageSlot", "mappingEntries"}, {}, {})

EvmHookStorageUpdateMessage ==
  Carrying(Optional({"storageSlot", "mappingEntries"}), {<<"mappingEntries", "storageSlot">>})

-----------------------------------------------------------------------------

HookCallMembers ==
  Holding({"evmHookCall"}, {"hookId"}, {})

HookCallMessage ==
  Carrying(Optional({"evmHookCall"})
           ++ Nonzero({"hookId"}), {})

-----------------------------------------------------------------------------

HookCreationDetailsMembers ==
  Holding({"evmHook", "adminKey"}, {"extensionPoint", "hookId"}, {})

HookCreationDetailsMessage ==
  Carrying(Optional({"evmHook", "adminKey"})
           ++ Plain({"extensionPoint", "hookId"}), {})

-----------------------------------------------------------------------------

HookEntityIdMembers ==
  Holding({"accountId", "contractId"}, {}, {})

HookEntityIdMessage ==
  Carrying(Optional({"accountId", "contractId"}), {<<"accountId", "contractId">>})

-----------------------------------------------------------------------------

HookIdMembers ==
  Holding({}, {"entityId", "hookId"}, {})

HookIdMessage ==
  Carrying(Plain({"entityId", "hookId"}), {})

=============================================================================
