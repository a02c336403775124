-------------------- MODULE NetworkMessages --------------------
(*****************************************************************************)
(* The messages about nodes, exchange rates and fees, files, schedules and   *)
(* topics. For each class: its members and the value its constructor leaves  *)
(* in them, and how fromProtobuf and toProtobuf treat each member.           *)
(*****************************************************************************)
EXTENDS ProtobufFields

EndpointMembers ==
  Holding({}, {"address", "port", "domainName"}, {})

EndpointMessage ==
  Carrying(Plain({"address", "port", "domainName"}), {<<"address", "domainName">>})

-----------------------------------------------------------------------------

NodeAddressMembers ==
  Holding({},
          {"rSAPublicKey", "nodeAccountId", "nodeCertHash", "endpoints", "description"},
          {"nodeId"})

NodeAddressMessage ==
  Carrying(Plain({"rSAPublicKey", "nodeId", "nodeAccountId", "nodeCertHash", "endpoints",
                  "description"}), {})

-----------------------------------------------------------------------------

NodeAddressBookMembers ==
  Holding({}, {"nodeAddresses"}, {})

NodeAddressBookMessage ==
  Carrying(Plain({"nodeAddresses"}), {})

-----------------------------------------------------------------------------

NetworkVersionInfoMembers ==
  Holding({}, {"protobufVersion", "servicesVersion"}, {})

NetworkVersionInfoMessage ==
  Carrying(Plain({"protobufVersion", "servicesVersion"}), {})

-----------------------------------------------------------------------------

SemanticVersionMembers ==
  Holding({}, {"major", "minor", "patch", "pre", "build"}, {})

SemanticVersionMessage ==
  Carrying(Plain({"major", "minor", "patch", "pre", "build"}), {})

-----------------------------------------------------------------------------

(* mExchangeRateInCents is computed by the constructor.                      *)
ExchangeRateMembers ==
  Holding({}, {"hbars", "cents", "expirationTime"}, {})

ExchangeRateMessage ==
  Carrying(Plain({"hbars", "cents", "expirationTime"}), {})

-----------------------------------------------------------------------------

ExchangeRatesMembers ==
  Holding({}, {"currentRate", "nextRate"}, {})

ExchangeRatesMessage ==
  Carrying(Plain({"currentRate", "nextRate"}), {})

-----------------------------------------------------------------------------

FeeComponentsMembers ==
  Holding({},
          {"min", "max", "constant", "transactionBandwidthBytes", "transactionVerification",
           "transactionRamByteHour", "transactionStorageByteHour", "contractTransactionGas",
           "transferVolumeHbar", "responseMemoryByte", "responseDiskByte"},
          {})

FeeComponentsMessage ==
  Carrying(Plain({"min", "max", "constant", "transactionBandwidthBytes",
                  "transactionVerification", "transactionRamByteHour",
                  "transactionStorageByteHour", "contractTransactionGas", "transferVolumeHbar",
                  "responseMemoryByte", "responseDiskByte"}), {})

-----------------------------------------------------------------------------

FeeDataMembers ==
  Holding({}, {"nodeData", "networkData", "serviceData"}, {"type"})

FeeDataMessage ==
  Carrying(Message({"nodeData", "networkData", "serviceData"})
           ++ Plain({"type"}), {})

-----------------------------------------------------------------------------

FeeScheduleMembers ==
  Holding({}, {"expirationTime", "transactionFeeSchedules"}, {})

FeeScheduleMessage ==
  Carrying(Message({"expirationTime"})
           ++ Plain({"transactionFeeSchedules"}), {})

-----------------------------------------------------------------------------

FeeSchedulesMembers ==
  Holding({}, {"currentFeeSchedule", "nextFeeSchedule"}, {})

FeeSchedulesMessage ==
  Carrying(Message({"currentFeeSchedule", "nextFeeSchedule"}), {})

-----------------------------------------------------------------------------

TransactionFeeScheduleMembers ==
  Holding({}, {"requestType", "fees"}, {})

TransactionFeeScheduleMessage ==
  Carrying(Plain({"requestType", "fees"}), {})

-----------------------------------------------------------------------------

FileInfoMembers ==
  Holding({},
          {"fileId", "size", "expirationTime", "isDeleted", "adminKeys", "memo", "ledgerId"},
          {})

FileInfoMessage ==
  Carrying(Message({"fileId", "expirationTime", "adminKeys"})
           ++ Plain({"size", "isDeleted", "memo", "ledgerId"}), {})

-----------------------------------------------------------------------------

ScheduleInfoMembers ==
  Holding({"executionTime", "deletionTime", "adminKey"},
          {"scheduleId", "expirationTime", "scheduledTransaction", "memo", "signatories",
           "creatorAccountId", "payerAccountId", "scheduledTransactionId", "ledgerId",
           "waitForExpiry"},
          {})

ScheduleInfoMessage ==
  Carrying(Optional({"executionTime", "deletionTime", "adminKey"})
           ++ Nonzero({"signatories"})
           ++ Message({"scheduleId", "expirationTime", "scheduledTransaction",
                       "creatorAccountId", "payerAccountId", "scheduledTransactionId"})
           ++ Plain({"memo", "ledgerId", "waitForExpiry"}), {<<"deletionTime", "executionTime">>})

-----------------------------------------------------------------------------

(* feeCollectors are the collector accounts of mCustomFixedFees: read, not   *)
(* written.                                                                  *)
TopicInfoMembers ==
  Holding({"adminKey", "submitKey", "autoRenewPeriod", "autoRenewAccountId", "feeScheduleKey"},
          {"topicId", "memo", "runningHash", "sequenceNumber", "expirationTime", "ledgerId",
           "customFixedFees", "feeCollectors", "feeExemptKeys"},
          {})

TopicInfoMessage ==
  Carrying(Optional({"adminKey", "submitKey", "autoRenewPeriod", "autoRenewAccountId",
                     "feeScheduleKey"})
           ++ Message({"topicId", "expirationTime"})
           ++ Plain({"memo", "runningHash", "sequenceNumber", "ledgerId", "customFixedFees",
                     "feeExemptKeys"})
           ++ Unwritten({"feeCollectors"}), {})

-----------------------------------------------------------------------------

RegisteredServiceEndpointMembers ==
  Holding({"ipAddress", "domainName"}, {"port", "requiresTls"}, {})

RegisteredServiceEndpointMessage ==
  Carrying(Optional({"ipAddress", "domainName"})
           ++ Plain({"port", "requiresTls"}), {<<"ipAddress", "domainName">>})

-----------------------------------------------------------------------------

(* otherEndpointApis are the ones after the first, which alone is read.      *)
BlockNodeServiceEndpointMembers ==
  Inheriting(RegisteredServiceEndpointMembers,
             Holding({"otherEndpointApis"}, {}, {"endpointApi"}))

BlockNodeServiceEndpointMessage ==
  Extending(RegisteredServiceEndpointMessage,
            Message({"endpointApi"}) ++ Unread({"otherEndpointApis"}))

-----------------------------------------------------------------------------

GeneralServiceEndpointMembers ==
  Inheriting(RegisteredServiceEndpointMembers, Holding({"description"}, {}, {}))

GeneralServiceEndpointMessage ==
  Extending(RegisteredServiceEndpointMessage, Positive({"description"}))

-----------------------------------------------------------------------------

MirrorNodeServiceEndpointMembers == RegisteredServiceEndpointMembers

MirrorNodeServiceEndpointMessage == RegisteredServiceEndpointMessage

-----------------------------------------------------------------------------

RpcRelayServiceEndpointMembers == RegisteredServiceEndpointMembers

RpcRelayServiceEndpointMessage == RegisteredServiceEndpointMessage

=============================================================================
