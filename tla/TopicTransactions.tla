-------------------- MODULE TopicTransactions --------------------
(*****************************************************************************)
(* The transactions about topics and their messages. For each class: its     *)
(* members and the value its constructor leaves in them; its setters, each   *)
(* guarded by requireNotFrozen; and its body: how build and                  *)
(* initFromSourceTransactionBody treat each member, and the IDs that         *)
(* validateChecksums looks at.                                               *)
(*****************************************************************************)
EXTENDS ProtobufFields

(* feeCollectors are the collector accounts of customFixedFees.              *)
TopicCreateMembers ==
  [absent |-> {"adminKey", "submitKey", "autoRenewAccountId", "feeScheduleKey"},
   zero   |-> {"memo", "feeExemptKeys", "customFixedFees", "feeCollectors"},
   preset |-> {"autoRenewPeriod"},
   ids    |-> {"autoRenewAccountId", "feeCollectors"}]

TopicCreateSetters ==
  Each({"memo", "adminKey", "submitKey", "autoRenewPeriod", "autoRenewAccountId", "feeScheduleKey",
        "feeExemptKeys"})
  \cup {Setter({"customFixedFees", "feeCollectors"}, {})}

TopicCreateBody ==
  [rules   |-> Optional({"adminKey", "submitKey", "autoRenewAccountId", "feeScheduleKey"})
               ++ Message({"autoRenewPeriod"})
               ++ Plain({"memo", "feeExemptKeys", "customFixedFees", "feeCollectors"}),
   oneofs  |-> {},
   checked |-> {"autoRenewAccountId"}]

-----------------------------------------------------------------------------

(* feeCollectors are the collector accounts of customFixedFees: read by      *)
(* initFromSourceTransactionBody, not written by build.                      *)
TopicUpdateMembers ==
  [absent |-> {"memo", "expirationTime", "adminKey", "submitKey", "autoRenewPeriod",
               "autoRenewAccountId", "feeScheduleKey"},
   zero   |-> {"topicId", "feeExemptKeys", "customFixedFees", "feeCollectors"},
   preset |-> {},
   ids    |-> {"topicId", "autoRenewAccountId", "feeCollectors"}]

TopicUpdateSetters ==
  Each({"topicId", "memo", "expirationTime", "adminKey", "submitKey", "autoRenewPeriod",
        "autoRenewAccountId", "feeScheduleKey", "feeExemptKeys"})
  \cup {Setter({"customFixedFees", "feeCollectors"}, {})}

TopicUpdateBody ==
  [rules   |-> Optional({"memo", "expirationTime", "adminKey", "submitKey", "autoRenewPeriod",
                        "autoRenewAccountId", "feeScheduleKey"})
               ++ Nonzero({"topicId"})
               ++ Plain({"feeExemptKeys", "customFixedFees"})
               ++ Unwritten({"feeCollectors"}),
   oneofs  |-> {},
   checked |-> {"topicId", "autoRenewAccountId"}]

-----------------------------------------------------------------------------

TopicDeleteMembers ==
  [absent |-> {"topicId"}, zero |-> {}, preset |-> {}, ids |-> {"topicId"}]

TopicDeleteSetters ==
  Each({"topicId"})

TopicDeleteBody ==
  [rules   |-> Optional({"topicId"}),
   oneofs  |-> {},
   checked |-> {"topicId"}]

-----------------------------------------------------------------------------

(* addToBody appends the fee limits to the source body each time it is       *)
(* built; the message is put together again from the chunks of the signed    *)
(* transactions.                                                             *)
TopicMessageSubmitMembers ==
  [absent |-> {},
   zero   |-> {"topicId", "customFeeLimits", "message"},
   preset |-> {},
   ids    |-> {"topicId", "customFeeLimits"}]

TopicMessageSubmitSetters ==
  Each({"topicId", "customFeeLimits", "message"})
  \cup {Setter({}, {"customFeeLimits"})}

TopicMessageSubmitBody ==
  [rules   |-> Nonzero({"topicId"})
               ++ Appended({"customFeeLimits"})
               ++ Chunks({"message"}),
   oneofs  |-> {},
   checked |-> {"topicId"}]

=============================================================================
