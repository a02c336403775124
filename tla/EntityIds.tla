-------------------- MODULE EntityIds --------------------
(*****************************************************************************)
(* The messages about IDs of entities and transactions, and keys. For each   *)
(* class: its members and the value its constructor leaves in them, and how  *)
(* fromProtobuf and toProtobuf treat each member.                            *)
(*****************************************************************************)
EXTENDS ProtobufFields

(* The checksum of an entity ID never travels.                               *)
AccountIdMembers ==
  Holding({"accountNum", "publicKeyAlias", "evmAddressAlias"}, {"shardNum", "realmNum"}, {})

AccountIdMessage ==
  Carrying(Optional({"accountNum", "publicKeyAlias", "evmAddressAlias"})
           ++ Plain({"shardNum", "realmNum"}),
           {<<"accountNum", "publicKeyAlias">>, <<"accountNum", "evmAddressAlias">>, <<"publicKeyAlias", "evmAddressAlias">>})

-----------------------------------------------------------------------------

ContractIdMembers ==
  Holding({"contractNum", "evmAddress"}, {"shardNum", "realmNum"}, {})

ContractIdMessage ==
  Carrying(Optional({"contractNum", "evmAddress"})
           ++ Plain({"shardNum", "realmNum"}), {<<"contractNum", "evmAddress">>})

-----------------------------------------------------------------------------

(* fromProtobuf takes the number alone.                                      *)
DelegateContractIdMembers == ContractIdMembers

DelegateContractIdMessage ==
  Carrying(Plain({"shardNum", "realmNum"}) ++ OptionalScalar({"contractNum"}) ++ Unread({"evmAddress"}),
           {<<"contractNum", "evmAddress">>})

-----------------------------------------------------------------------------

FileIdMembers ==
  Holding({}, {"shardNum", "realmNum", "fileNum"}, {})

FileIdMessage ==
  Carrying(Plain({"shardNum", "realmNum", "fileNum"}), {})

-----------------------------------------------------------------------------

NftIdMembers ==
  Holding({}, {"tokenId", "serialNum"}, {})

NftIdMessage ==
  Carrying(Plain({"tokenId", "serialNum"}), {})

-----------------------------------------------------------------------------

ScheduleIdMembers ==
  Holding({}, {"shardNum", "realmNum", "scheduleNum"}, {})

ScheduleIdMessage ==
  Carrying(Plain({"shardNum", "realmNum", "scheduleNum"}), {})

-----------------------------------------------------------------------------

TokenIdMembers ==
  Holding({}, {"shardNum", "realmNum", "tokenNum"}, {})

TokenIdMessage ==
  Carrying(Plain({"shardNum", "realmNum", "tokenNum"}), {})

-----------------------------------------------------------------------------

TopicIdMembers ==
  Holding({}, {"shardNum", "realmNum", "topicNum"}, {})

TopicIdMessage ==
  Carrying(Plain({"shardNum", "realmNum", "topicNum"}), {})

-----------------------------------------------------------------------------

TransactionIdMembers ==
  Holding({}, {"validTransactionTime", "accountId", "scheduled", "nonce"}, {})

TransactionIdMessage ==
  Carrying(Message({"validTransactionTime", "accountId"})
           ++ Plain({"scheduled", "nonce"}), {})

-----------------------------------------------------------------------------

(* What kind of key it is: toProtobufKey of each class of keys writes its    *)
(* own, fromProtobuf knows five of the six.                                  *)
KeyMembers ==
  Holding({"contractId", "ed25519", "ecdsaSecp256k1", "keyList", "thresholdKey",
           "delegatableContractId"}, {}, {})

KeyMessage ==
  LET known == {"contractId", "ed25519", "ecdsaSecp256k1", "keyList", "thresholdKey"}
  IN  OneOf(Optional(known) ++ Unread({"delegatableContractId"}),
            {p \in (known \cup {"delegatableContractId"}) \X (known \cup {"delegatableContractId"}) :
               p[1] # p[2]}, known)

-----------------------------------------------------------------------------

(* As a key: a list with a threshold is a threshold key.                     *)
KeyListMembers ==
  Holding({}, {"threshold", "keys"}, {})

KeyListMessage ==
  Carrying(Plain({"threshold", "keys"}), {})

=============================================================================
