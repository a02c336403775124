---------------------------- MODULE NetworkObjects ----------------------------
(***************************************************************************)
(* An object of any class that the network sends and the SDK reads: from   *)
(* its message, to the bytes its user keeps, and back from the bytes.  The *)
(* tables say how each class treats its fields; the machine sends any few  *)
(* of the fields and compares what the network said with what the object   *)
(* shows before and after its time as bytes.                               *)
(***************************************************************************)
EXTENDS EntityIds, AccountMessages, ContractMessages, NetworkMessages, TokenMessages

CONSTANTS
  MaxFields,  \* the fields the network sends
  Known       \* the members, by what happens to them, that are known to be lost

ASSUME MaxFieldsAssumption == MaxFields \in Nat

VARIABLES
  kind,    \* the class
  sent,    \* the message of the network
  wire,    \* the message last read or written
  fields,  \* what each member holds
  shown,   \* what each member held when the message of the network was read
  phase

vars == <<kind, sent, wire, fields, shown, phase>>

Class(m, b) == [members |-> m, message |-> b]

Table ==
  [AccountId |-> Class(AccountIdMembers, AccountIdMessage),
   ContractId |-> Class(ContractIdMembers, ContractIdMessage),
   DelegateContractId |-> Class(DelegateContractIdMembers, DelegateContractIdMessage),
   FileId |-> Class(FileIdMembers, FileIdMessage),
   NftId |-> Class(NftIdMembers, NftIdMessage),
   ScheduleId |-> Class(ScheduleIdMembers, ScheduleIdMessage),
   TokenId |-> Class(TokenIdMembers, TokenIdMessage),
   TopicId |-> Class(TopicIdMembers, TopicIdMessage),
   TransactionId |-> Class(TransactionIdMembers, TransactionIdMessage),
   Key |-> Class(KeyMembers, KeyMessage),
   KeyList |-> Class(KeyListMembers, KeyListMessage),
   AccountBalance |-> Class(AccountBalanceMembers, AccountBalanceMessage),
   AccountInfo |-> Class(AccountInfoMembers, AccountInfoMessage),
   AccountRecords |-> Class(AccountRecordsMembers, AccountRecordsMessage),
   HbarAllowance |-> Class(HbarAllowanceMembers, HbarAllowanceMessage),
   HbarTransfer |-> Class(HbarTransferMembers, HbarTransferMessage),
   ProxyStaker |-> Class(ProxyStakerMembers, ProxyStakerMessage),
   StakingInfo |-> Class(StakingInfoMembers, StakingInfoMessage),
   ContractFunctionResult |-> Class(ContractFunctionResultMembers, ContractFunctionResultMessage),
   ContractInfo |-> Class(ContractInfoMembers, ContractInfoMessage),
   ContractLogInfo |-> Class(ContractLogInfoMembers, ContractLogInfoMessage),
   ContractNonceInfo |-> Class(ContractNonceInfoMembers, ContractNonceInfoMessage),
   EvmHook |-> Class(EvmHookMembers, EvmHookMessage),
   EvmHookCall |-> Class(EvmHookCallMembers, EvmHookCallMessage),
   EvmHookMappingEntries |-> Class(EvmHookMappingEntriesMembers, EvmHookMappingEntriesMessage),
   EvmHookMappingEntry |-> Class(EvmHookMappingEntryMembers, EvmHookMappingEntryMessage),
   EvmHookSpec |-> Class(EvmHookSpecMembers, EvmHookSpecMessage),
   EvmHookStorageSlot |-> Class(EvmHookStorageSlotMembers, EvmHookStorageSlotMessage),
   EvmHookStorageUpdate |-> Class(EvmHookStorageUpdateMembers, EvmHookStorageUpdateMessage),
   HookCall |-> Class(HookCallMembers, HookCallMessage),
   HookCreationDetails |-> Class(HookCreationDetailsMembers, HookCreationDetailsMessage),
   HookEntityId |-> Class(HookEntityIdMembers, HookEntityIdMessage),
   HookId |-> Class(HookIdMembers, HookIdMessage),
   Endpoint |-> Class(EndpointMembers, EndpointMessage),
   NodeAddress |-> Class(NodeAddressMembers, NodeAddressMessage),
   NodeAddressBook |-> Class(NodeAddressBookMembers, NodeAddressBookMessage),
   NetworkVersionInfo |-> Class(NetworkVersionInfoMembers, NetworkVersionInfoMessage),
   SemanticVersion |-> Class(SemanticVersionMembers, SemanticVersionMessage),
   ExchangeRate |-> Class(ExchangeRateMembers, ExchangeRateMessage),
   ExchangeRates |-> Class(ExchangeRatesMembers, ExchangeRatesMessage),
   FeeComponents |-> Class(FeeComponentsMembers, FeeComponentsMessage),
   FeeData |-> Class(FeeDataMembers, FeeDataMessage),
   FeeSchedule |-> Class(FeeScheduleMembers, FeeScheduleMessage),
   FeeSchedules |-> Class(FeeSchedulesMembers, FeeSchedulesMessage),
   TransactionFeeSchedule |-> Class(TransactionFeeScheduleMembers, TransactionFeeScheduleMessage),
   FileInfo |-> Class(FileInfoMembers, FileInfoMessage),
   ScheduleInfo |-> Class(ScheduleInfoMembers, ScheduleInfoMessage),
   TopicInfo |-> Class(TopicInfoMembers, TopicInfoMessage),
   RegisteredServiceEndpoint |-> Class(RegisteredServiceEndpointMembers, RegisteredServiceEndpointMessage),
   BlockNodeServiceEndpoint |-> Class(BlockNodeServiceEndpointMembers, BlockNodeServiceEndpointMessage),
   GeneralServiceEndpoint |-> Class(GeneralServiceEndpointMembers, GeneralServiceEndpointMessage),
   MirrorNodeServiceEndpoint |-> Class(MirrorNodeServiceEndpointMembers, MirrorNodeServiceEndpointMessage),
   RpcRelayServiceEndpoint |-> Class(RpcRelayServiceEndpointMembers, RpcRelayServiceEndpointMessage),
   TokenAllowance |-> Class(TokenAllowanceMembers, TokenAllowanceMessage),
   TokenAssociation |-> Class(TokenAssociationMembers, TokenAssociationMessage),
   TokenInfo |-> Class(TokenInfoMembers, TokenInfoMessage),
   TokenNftAllowance |-> Class(TokenNftAllowanceMembers, TokenNftAllowanceMessage),
   TokenNftInfo |-> Class(TokenNftInfoMembers, TokenNftInfoMessage),
   TokenNftTransfer |-> Class(TokenNftTransferMembers, TokenNftTransferMessage),
   TokenRelationship |-> Class(TokenRelationshipMembers, TokenRelationshipMessage),
   TokenTransfer |-> Class(TokenTransferMembers, TokenTransferMessage),
   AssessedCustomFee |-> Class(AssessedCustomFeeMembers, AssessedCustomFeeMessage),
   CustomFee |-> Class(CustomFeeMembers, CustomFeeMessage),
   CustomFeeLimit |-> Class(CustomFeeLimitMembers, CustomFeeLimitMessage),
   CustomFixedFee |-> Class(CustomFixedFeeMembers, CustomFixedFeeMessage),
   CustomFractionalFee |-> Class(CustomFractionalFeeMembers, CustomFractionalFeeMessage),
   CustomRoyaltyFee |-> Class(CustomRoyaltyFeeMembers, CustomRoyaltyFeeMessage),
   PendingAirdropId |-> Class(PendingAirdropIdMembers, PendingAirdropIdMessage),
   PendingAirdropRecord |-> Class(PendingAirdropRecordMembers, PendingAirdropRecordMessage),
   TransactionReceipt |-> Class(TransactionReceiptMembers, TransactionReceiptMessage),
   TransactionRecord |-> Class(TransactionRecordMembers, TransactionRecordMessage)]

Kinds == DOMAIN Table
Message_(k) == Table[k].message

-----------------------------------------------------------------------------

(* What the network may put in a field. *)
Sendable(rule) == {"value"} \cup ({"zero"} \ rule.unsent)

(* A key is of some kind and a fee of some class, known to the SDK or not. *)
Complete(k, w) ==
  LET b == Message_(k)
  IN  b.variants # {} => \E f \in b.variants \cup UNION {{p[1], p[2]} : p \in b.oneofs} : w[f] # "none"

(* fromProtobuf throws when it knows none of the alternatives. *)
Refused(k, w) ==
  Message_(k).variants # {} /\ \A f \in Message_(k).variants : w[f] = "none"

(* fromProtobuf.  A record without a transaction ID has a receipt even if  *)
(* the message has none.                                                   *)
Received(k, w) ==
  LET read == ReadBack(Table[k].members, Message_(k), w, "body")
  IN  IF k = "TransactionRecord" /\ w["transactionId"] = "none" /\ w["receipt"] = "none"
        THEN [read EXCEPT !["receipt"] = "zero"]
        ELSE read

Init ==
  /\ kind \in Kinds
  /\ sent = Blank(Message_(kind)) /\ wire = sent
  /\ fields = Initially(Table[kind].members) /\ shown = fields
  /\ phase = "network"

(* The network gives one more field a value; a oneof holds one field.      *)
Send(f, v) ==
  /\ phase = "network"
  /\ Cardinality({g \in DOMAIN sent : sent[g] # "none"}) < MaxFields
  /\ sent[f] = "none"
  /\ \A p \in Message_(kind).oneofs : f \in {p[1], p[2]} => sent[p[1]] = "none" /\ sent[p[2]] = "none"
  /\ sent' = [sent EXCEPT ![f] = v]
  /\ wire' = sent'
  /\ UNCHANGED <<kind, fields, shown, phase>>

Read(from, to) ==
  /\ phase = from
  /\ IF Refused(kind, wire)
       THEN phase' = "refused" /\ UNCHANGED fields
       ELSE phase' = to /\ fields' = Received(kind, wire)
  /\ UNCHANGED <<kind, sent, wire>>

(* fromProtobuf of the answer. *)
Receive == Complete(kind, sent) /\ Read("network", "received") /\ shown' = fields'

(* toBytes; a pointer that is dereferenced and not there is the end.       *)
ToBytes ==
  /\ phase = "received"
  /\ IF CanBeWritten(Message_(kind), fields)
       THEN phase' = "bytes" /\ wire' = Written(Message_(kind), fields)
       ELSE phase' = "crashed" /\ UNCHANGED wire
  /\ UNCHANGED <<kind, sent, fields, shown>>

(* fromBytes. *)
FromBytes == Read("bytes", "restored") /\ UNCHANGED shown

Done == phase \in {"refused", "crashed", "restored"} /\ UNCHANGED vars

Next ==
  \/ \E f \in DOMAIN sent : \E v \in Sendable(Message_(kind).rules[f]) : Send(f, v)
  \/ Receive \/ ToBytes \/ FromBytes \/ Done

Spec == Init /\ [][Next]_vars

-----------------------------------------------------------------------------

(* Whatever the network sends shows in the object, the object can always   *)
(* be turned into bytes, and the object read from the bytes shows what the *)
(* one before did: the user who keeps a receipt, an info or a key keeps    *)
(* all of it.                                                              *)
KeptAsSent ==
  /\ phase \in {"received", "bytes", "restored"} =>
       \A f \in DOMAIN sent :
         sent[f] = "value" => <<kind, f>> \in Known.unread \/ shown[f] = "value"
  /\ phase = "restored" => \A f \in DOMAIN sent : <<kind, f>> \in Known.unwritten \/ fields[f] = shown[f]
  /\ phase = "refused" => \E f \in DOMAIN sent : <<kind, f>> \in Known.unread /\ sent[f] # "none"
  /\ phase = "crashed" => \E f \in DOMAIN sent : <<kind, f>> \in Known.crashing /\ fields[f] = "absent"
=============================================================================
