----------------------------- MODULE QueryTables -----------------------------
(***************************************************************************)
(* The queries that are sent to a consensus node. For each class: its      *)
(* members, all as their types make them; its setters; and its request:    *)
(* how buildRequest treats each member, and the IDs that validateChecksums *)
(* looks at.                                                               *)
(***************************************************************************)
EXTENDS ProtobufFields

-----------------------------------------------------------------------------

AccountBalanceQueryMembers ==
  [absent |-> {"accountId", "contractId"}, zero |-> {},
   preset |-> {}, ids |-> {"accountId", "contractId"}]

\* Mutant: the setters do not reset each other's member.
AccountBalanceQuerySettersKeeping == Each({"accountId", "contractId"})

AccountBalanceQuerySetters == Exclusive("accountId", "contractId")

AccountBalanceQueryRequest ==
  [rules   |-> Optional({"accountId", "contractId"}),
   oneofs  |-> {<<"contractId", "accountId">>},
   checked |-> {"accountId", "contractId"}]

-----------------------------------------------------------------------------

AccountInfoQueryMembers ==
  [absent |-> {}, zero |-> {"accountId"},
   preset |-> {}, ids |-> {"accountId"}]

AccountInfoQuerySetters == Each({"accountId"})

AccountInfoQueryRequest ==
  [rules   |-> Message({"accountId"}),
   oneofs  |-> {},
   checked |-> {"accountId"}]

-----------------------------------------------------------------------------

AccountRecordsQueryMembers ==
  [absent |-> {}, zero |-> {"accountId"},
   preset |-> {}, ids |-> {"accountId"}]

AccountRecordsQuerySetters == Each({"accountId"})

AccountRecordsQueryRequest ==
  [rules   |-> Message({"accountId"}),
   oneofs  |-> {},
   checked |-> {"accountId"}]

-----------------------------------------------------------------------------

ContractByteCodeQueryMembers ==
  [absent |-> {}, zero |-> {"contractId"},
   preset |-> {}, ids |-> {"contractId"}]

ContractByteCodeQuerySetters == Each({"contractId"})

ContractByteCodeQueryRequest ==
  [rules   |-> Message({"contractId"}),
   oneofs  |-> {},
   checked |-> {"contractId"}]

-----------------------------------------------------------------------------

ContractCallQueryMembers ==
  [absent |-> {"senderAccountId"}, zero |-> {"contractId", "functionParameters", "gas"},
   preset |-> {}, ids |-> {"contractId", "senderAccountId"}]

ContractCallQuerySetters == Each({"contractId", "gas", "functionParameters", "senderAccountId"})

ContractCallQueryRequest ==
  [rules   |-> Message({"contractId"}) ++ Plain({"gas", "functionParameters"})
               ++ Optional({"senderAccountId"}),
   oneofs  |-> {},
   checked |-> {"contractId"}]

-----------------------------------------------------------------------------

ContractInfoQueryMembers ==
  [absent |-> {}, zero |-> {"contractId"},
   preset |-> {}, ids |-> {"contractId"}]

ContractInfoQuerySetters == Each({"contractId"})

ContractInfoQueryRequest ==
  [rules   |-> Message({"contractId"}),
   oneofs  |-> {},
   checked |-> {"contractId"}]

-----------------------------------------------------------------------------

FileContentsQueryMembers ==
  [absent |-> {}, zero |-> {"fileId"},
   preset |-> {}, ids |-> {"fileId"}]

FileContentsQuerySetters == Each({"fileId"})

FileContentsQueryRequest ==
  [rules   |-> Message({"fileId"}),
   oneofs  |-> {},
   checked |-> {"fileId"}]

-----------------------------------------------------------------------------

FileInfoQueryMembers ==
  [absent |-> {}, zero |-> {"fileId"},
   preset |-> {}, ids |-> {"fileId"}]

FileInfoQuerySetters == Each({"fileId"})

FileInfoQueryRequest ==
  [rules   |-> Message({"fileId"}),
   oneofs  |-> {},
   checked |-> {"fileId"}]

-----------------------------------------------------------------------------

NetworkVersionInfoQueryMembers == Holding({}, {}, {})

NetworkVersionInfoQuerySetters == {}

NetworkVersionInfoQueryRequest == [rules |-> <<>>, oneofs |-> {}, checked |-> {}]

-----------------------------------------------------------------------------

ScheduleInfoQueryMembers ==
  [absent |-> {}, zero |-> {"scheduleId"},
   preset |-> {}, ids |-> {"scheduleId"}]

ScheduleInfoQuerySetters == Each({"scheduleId"})

ScheduleInfoQueryRequest ==
  [rules   |-> Message({"scheduleId"}),
   oneofs  |-> {},
   checked |-> {"scheduleId"}]

-----------------------------------------------------------------------------

TokenInfoQueryMembers ==
  [absent |-> {}, zero |-> {"tokenId"},
   preset |-> {}, ids |-> {"tokenId"}]

TokenInfoQuerySetters == Each({"tokenId"})

TokenInfoQueryRequest ==
  [rules   |-> Message({"tokenId"}),
   oneofs  |-> {},
   checked |-> {"tokenId"}]

-----------------------------------------------------------------------------

TokenNftInfoQueryMembers ==
  [absent |-> {}, zero |-> {"nftId"},
   preset |-> {}, ids |-> {"nftId"}]

TokenNftInfoQuerySetters == Each({"nftId"})

TokenNftInfoQueryRequest ==
  [rules   |-> Message({"nftId"}),
   oneofs  |-> {},
   checked |-> {"nftId"}]

-----------------------------------------------------------------------------

TopicInfoQueryMembers ==
  [absent |-> {}, zero |-> {"topicId"},
   preset |-> {}, ids |-> {"topicId"}]

TopicInfoQuerySetters == Each({"topicId"})

TopicInfoQueryRequest ==
  [rules   |-> Message({"topicId"}),
   oneofs  |-> {},
   checked |-> {"topicId"}]

-----------------------------------------------------------------------------

TransactionReceiptQueryMembers ==
  [absent |-> {"transactionId"}, zero |-> {"includeChildren", "includeDuplicates"},
   preset |-> {}, ids |-> {"transactionId"}]

TransactionReceiptQuerySetters == Each({"transactionId", "includeChildren", "includeDuplicates"})

TransactionReceiptQueryRequest ==
  [rules   |-> Optional({"transactionId"})
               ++ Plain({"includeChildren", "includeDuplicates"}),
   oneofs  |-> {},
   checked |-> {"transactionId"}]

-----------------------------------------------------------------------------

TransactionRecordQueryMembers ==
  [absent |-> {"transactionId"}, zero |-> {"includeChildren", "includeDuplicates"},
   preset |-> {}, ids |-> {"transactionId"}]

TransactionRecordQuerySetters == Each({"transactionId", "includeChildren", "includeDuplicates"})

\* buildRequest leaves the two flags out.
TransactionRecordQueryRequest ==
  [rules   |-> Optional({"transactionId"})
               ++ Unwritten({"includeChildren", "includeDuplicates"}),
   oneofs  |-> {},
   checked |-> {"transactionId"}]

=============================================================================
