-------------------- MODULE ScheduleTransactions --------------------
(*****************************************************************************)
(* The transactions about schedules and batches. For each class: its         *)
(* members and the value its constructor leaves in them; its setters, each   *)
(* guarded by requireNotFrozen; and its body: how build and                  *)
(* initFromSourceTransactionBody treat each member, and the IDs that         *)
(* validateChecksums looks at.                                               *)
(*****************************************************************************)
EXTENDS ProtobufFields

(* The members live in ScheduleCreateTransactionImpl.                        *)
ScheduleCreateMembers ==
  [absent |-> {"scheduledTransaction", "adminKey", "payerAccountId", "expirationTime"},
   zero   |-> {"memo", "waitForExpiration"},
   preset |-> {},
   ids    |-> {"payerAccountId"}]

ScheduleCreateSetters ==
  Each({"scheduledTransaction", "memo", "adminKey", "payerAccountId", "expirationTime",
        "waitForExpiration"})

ScheduleCreateBody ==
  [rules   |-> Optional({"adminKey", "payerAccountId", "expirationTime"})
               ++ Message({"scheduledTransaction"})
               ++ Plain({"memo", "waitForExpiration"}),
   oneofs  |-> {},
   checked |-> {"payerAccountId"}]

-----------------------------------------------------------------------------

ScheduleDeleteMembers ==
  [absent |-> {"scheduleId"}, zero |-> {}, preset |-> {}, ids |-> {"scheduleId"}]

ScheduleDeleteSetters ==
  Each({"scheduleId"})

ScheduleDeleteBody ==
  [rules   |-> Optional({"scheduleId"}),
   oneofs  |-> {},
   checked |-> {"scheduleId"}]

-----------------------------------------------------------------------------

ScheduleSignMembers ==
  [absent |-> {"scheduleId"}, zero |-> {}, preset |-> {}, ids |-> {"scheduleId"}]

ScheduleSignSetters ==
  Each({"scheduleId"})
  \cup {Setter({}, {"scheduleId"})}

ScheduleSignBody ==
  [rules   |-> Optional({"scheduleId"}),
   oneofs  |-> {},
   checked |-> {"scheduleId"}]

-----------------------------------------------------------------------------

(* validateChecksums is empty: an inner transaction is checked by nobody.    *)
BatchMembers ==
  [absent |-> {}, zero |-> {"innerTransactions"}, preset |-> {}, ids |-> {}]

BatchSetters ==
  Each({"innerTransactions"})

BatchBody ==
  [rules   |-> Plain({"innerTransactions"}),
   oneofs  |-> {},
   checked |-> {}]

=============================================================================
