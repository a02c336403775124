--------------------------- MODULE TransactionBodies ---------------------------
(***************************************************************************)
(* One transaction of any class, from its constructor to the body that is  *)
(* sent: edited, frozen, regenerated, turned into bytes and read again,    *)
(* scheduled and read from the schedule's info, executed by a client that  *)
(* validates checksums.  What the SDK does is the same for every class and *)
(* is driven by the tables of the classes; the properties compare the      *)
(* transaction its user made with the body that leaves and with the        *)
(* transaction that somebody else reads.                                   *)
(***************************************************************************)
EXTENDS AccountTransactions, ContractTransactions, FileTransactions, NodeTransactions,
        ScheduleTransactions, TokenTransactions, TopicTransactions

CONSTANTS
  MaxEdits,   \* calls of setters
  MaxRounds,  \* times a frozen transaction is regenerated
  Known       \* the members, by property, that are known to break it (cut: read from several
              \* chunks only)

ASSUME BoundsAssumption == MaxEdits \in Nat /\ MaxRounds \in Nat

VARIABLES
  kind,       \* the class
  fields,     \* what each member holds
  source,     \* mSourceTransactionBody
  frozen,
  phase,      \* what has been done with the transaction
  made,       \* the transaction as its user made it, and the body first built of it
  touched,    \* the members its user set or reset
  sent,       \* the IDs of another ledger in the body that was executed
  edits, rounds

vars == <<kind, fields, source, frozen, phase, made, touched, sent, edits, rounds>>

-----------------------------------------------------------------------------

(* The classes. *)
Class(m, s, b) == [members |-> m, setters |-> s, body |-> b]

Table ==
  [AccountCreate |-> Class(AccountCreateMembers, AccountCreateSetters, AccountCreateBody),
   AccountUpdate |-> Class(AccountUpdateMembers, AccountUpdateSetters, AccountUpdateBody),
   AccountDelete |-> Class(AccountDeleteMembers, AccountDeleteSetters, AccountDeleteBody),
   AccountAllowanceApprove |-> Class(AccountAllowanceApproveMembers, AccountAllowanceApproveSetters, AccountAllowanceApproveBody),
   AccountAllowanceDelete |-> Class(AccountAllowanceDeleteMembers, AccountAllowanceDeleteSetters, AccountAllowanceDeleteBody),
   Transfer |-> Class(TransferMembers, TransferSetters, TransferBody),
   ContractCreate |-> Class(ContractCreateMembers, ContractCreateSetters, ContractCreateBody),
   ContractUpdate |-> Class(ContractUpdateMembers, ContractUpdateSetters, ContractUpdateBody),
   ContractDelete |-> Class(ContractDeleteMembers, ContractDeleteSetters, ContractDeleteBody),
   ContractExecute |-> Class(ContractExecuteMembers, ContractExecuteSetters, ContractExecuteBody),
   Ethereum |-> Class(EthereumMembers, EthereumSetters, EthereumBody),
   HookStore |-> Class(HookStoreMembers, HookStoreSetters, HookStoreBody),
   FileCreate |-> Class(FileCreateMembers, FileCreateSetters, FileCreateBody),
   FileUpdate |-> Class(FileUpdateMembers, FileUpdateSetters, FileUpdateBody),
   FileAppend |-> Class(FileAppendMembers, FileAppendSetters, FileAppendBody),
   FileDelete |-> Class(FileDeleteMembers, FileDeleteSetters, FileDeleteBody),
   SystemDelete |-> Class(SystemDeleteMembers, SystemDeleteSetters, SystemDeleteBody),
   SystemUndelete |-> Class(SystemUndeleteMembers, SystemUndeleteSetters, SystemUndeleteBody),
   Freeze |-> Class(FreezeMembers, FreezeSetters, FreezeBody),
   Prng |-> Class(PrngMembers, PrngSetters, PrngBody),
   NodeCreate |-> Class(NodeCreateMembers, NodeCreateSetters, NodeCreateBody),
   NodeUpdate |-> Class(NodeUpdateMembers, NodeUpdateSetters, NodeUpdateBody),
   NodeDelete |-> Class(NodeDeleteMembers, NodeDeleteSetters, NodeDeleteBody),
   RegisteredNodeCreate |-> Class(RegisteredNodeCreateMembers, RegisteredNodeCreateSetters, RegisteredNodeCreateBody),
   RegisteredNodeUpdate |-> Class(RegisteredNodeUpdateMembers, RegisteredNodeUpdateSetters, RegisteredNodeUpdateBody),
   RegisteredNodeDelete |-> Class(RegisteredNodeDeleteMembers, RegisteredNodeDeleteSetters, RegisteredNodeDeleteBody),
   ScheduleCreate |-> Class(ScheduleCreateMembers, ScheduleCreateSetters, ScheduleCreateBody),
   ScheduleDelete |-> Class(ScheduleDeleteMembers, ScheduleDeleteSetters, ScheduleDeleteBody),
   ScheduleSign |-> Class(ScheduleSignMembers, ScheduleSignSetters, ScheduleSignBody),
   Batch |-> Class(BatchMembers, BatchSetters, BatchBody),
   TokenAirdrop |-> Class(TokenAirdropMembers, TokenAirdropSetters, TokenAirdropBody),
   TokenAssociate |-> Class(TokenAssociateMembers, TokenAssociateSetters, TokenAssociateBody),
   TokenBurn |-> Class(TokenBurnMembers, TokenBurnSetters, TokenBurnBody),
   TokenCancelAirdrop |-> Class(TokenCancelAirdropMembers, TokenCancelAirdropSetters, TokenCancelAirdropBody),
   TokenClaimAirdrop |-> Class(TokenClaimAirdropMembers, TokenClaimAirdropSetters, TokenClaimAirdropBody),
   TokenCreate |-> Class(TokenCreateMembers, TokenCreateSetters, TokenCreateBody),
   TokenDelete |-> Class(TokenDeleteMembers, TokenDeleteSetters, TokenDeleteBody),
   TokenDissociate |-> Class(TokenDissociateMembers, TokenDissociateSetters, TokenDissociateBody),
   TokenFeeScheduleUpdate |-> Class(TokenFeeScheduleUpdateMembers, TokenFeeScheduleUpdateSetters, TokenFeeScheduleUpdateBody),
   TokenFreeze |-> Class(TokenFreezeMembers, TokenFreezeSetters, TokenFreezeBody),
   TokenGrantKyc |-> Class(TokenGrantKycMembers, TokenGrantKycSetters, TokenGrantKycBody),
   TokenMint |-> Class(TokenMintMembers, TokenMintSetters, TokenMintBody),
   TokenPause |-> Class(TokenPauseMembers, TokenPauseSetters, TokenPauseBody),
   TokenReject |-> Class(TokenRejectMembers, TokenRejectSetters, TokenRejectBody),
   TokenRevokeKyc |-> Class(TokenRevokeKycMembers, TokenRevokeKycSetters, TokenRevokeKycBody),
   TokenUnfreeze |-> Class(TokenUnfreezeMembers, TokenUnfreezeSetters, TokenUnfreezeBody),
   TokenUnpause |-> Class(TokenUnpauseMembers, TokenUnpauseSetters, TokenUnpauseBody),
   TokenUpdateNfts |-> Class(TokenUpdateNftsMembers, TokenUpdateNftsSetters, TokenUpdateNftsBody),
   TokenUpdate |-> Class(TokenUpdateMembers, TokenUpdateSetters, TokenUpdateBody),
   TokenWipe |-> Class(TokenWipeMembers, TokenWipeSetters, TokenWipeBody),
   TopicCreate |-> Class(TopicCreateMembers, TopicCreateSetters, TopicCreateBody),
   TopicUpdate |-> Class(TopicUpdateMembers, TopicUpdateSetters, TopicUpdateBody),
   TopicDelete |-> Class(TopicDeleteMembers, TopicDeleteSetters, TopicDeleteBody),
   TopicMessageSubmit |-> Class(TopicMessageSubmitMembers, TopicMessageSubmitSetters, TopicMessageSubmitBody)]

Kinds == DOMAIN Table
MembersTable(k) == Table[k].members
Body(k)         == Table[k].body

(* Which class each way of reading a body makes of the transaction it      *)
(* contains.  A class refuses the body of another.                         *)
FromBytes == [k \in Kinds |-> k]

FromBody == [k \in Kinds \ {"TokenAirdrop", "TokenCancelAirdrop", "TokenClaimAirdrop", "TokenUpdate"} |-> k]

(* The transactions a SchedulableTransactionBody has a field for. *)
ScheduledKinds ==
  {"AccountCreate", "AccountUpdate", "AccountDelete", "AccountAllowanceApprove",
   "AccountAllowanceDelete", "Transfer", "ContractCreate", "ContractUpdate", "ContractDelete",
   "ContractExecute", "FileCreate", "FileUpdate", "FileAppend", "FileDelete", "SystemDelete",
   "SystemUndelete", "Freeze", "Prng", "NodeCreate", "NodeUpdate", "NodeDelete",
   "RegisteredNodeCreate", "RegisteredNodeUpdate", "RegisteredNodeDelete", "ScheduleDelete",
   "TokenAirdrop", "TokenAssociate", "TokenBurn", "TokenCancelAirdrop", "TokenClaimAirdrop",
   "TokenCreate", "TokenDelete", "TokenDissociate", "TokenFeeScheduleUpdate", "TokenFreeze",
   "TokenGrantKyc", "TokenMint", "TokenPause", "TokenReject", "TokenRevokeKyc", "TokenUnfreeze",
   "TokenUnpause", "TokenUpdate", "TokenUpdateNfts", "TokenWipe", "TopicCreate", "TopicUpdate",
   "TopicDelete", "TopicMessageSubmit"}

(* The second test for cryptodeleteallowance hides AccountDelete, and      *)
(* TokenUpdate has no branch; two branches construct another class.        *)
FromSchedulable ==
  [k \in ScheduledKinds \ {"AccountDelete", "TokenUpdate"} |->
     CASE k = "ScheduleDelete" -> "ScheduleCreate"
       [] k = "TokenUnfreeze"  -> "TokenFreeze"
       [] OTHER                -> k]

ToSchedulable ==
  {"AccountAllowanceApprove", "AccountAllowanceDelete", "AccountCreate", "AccountUpdate",
   "ContractCreate", "ContractDelete", "ContractExecute", "ContractUpdate", "FileAppend",
   "FileCreate", "FileDelete", "FileUpdate", "Freeze", "NodeCreate", "NodeDelete", "NodeUpdate",
   "Prng", "ScheduleDelete", "SystemDelete", "SystemUndelete", "TokenAirdrop", "TokenAssociate",
   "TokenBurn", "TokenCancelAirdrop", "TokenClaimAirdrop", "TokenCreate", "TokenDelete",
   "TokenDissociate", "TokenFeeScheduleUpdate", "TokenFreeze", "TokenGrantKyc", "TokenMint",
   "TokenPause", "TokenRevokeKyc", "TokenUnfreeze", "TokenUnpause", "TokenWipe", "TopicCreate",
   "TopicDelete", "TopicMessageSubmit", "TopicUpdate", "Transfer"}

-----------------------------------------------------------------------------

(* updateSourceTransactionBody: the body of the class is built into the    *)
(* source body, which may have a transaction ID.                           *)
Updated(k, f, src, identified) ==
  LET w == WrittenInto(Body(k), f, src) IN IF identified THEN WithPayer(Body(k), w) ELSE w

Init ==
  /\ kind \in Kinds
  /\ fields = Initially(MembersTable(kind))
  /\ source = Blank(Body(kind))
  /\ frozen = FALSE /\ phase = "made"
  /\ made = [kind |-> kind, fields |-> fields, body |-> source]
  /\ touched = {} /\ sent = {} /\ edits = 0 /\ rounds = 0

(* A setter of the class. *)
Edit(s, v) ==
  /\ phase = "made" /\ ~frozen /\ edits < MaxEdits
  /\ fields' = Assigned(MembersTable(kind), fields, s, v)
  /\ touched' = touched \cup s.assigns \cup s.clears
  /\ edits' = edits + 1
  /\ UNCHANGED <<kind, source, frozen, phase, made, sent, rounds>>

(* freezeWith, of a new transaction or of one read from incomplete bytes:  *)
(* a transaction without an ID is given one.                               *)
Freeze ==
  /\ phase \in {"made", "restored"} /\ ~frozen /\ CanBeWritten(Body(kind), fields)
  /\ frozen' = TRUE
  /\ source' = Updated(kind, fields, source, TRUE)
  /\ UNCHANGED <<kind, fields, phase, made, touched, sent, edits, rounds>>

(* regenerateSignedTransactions, when the transaction ID has expired.      *)
Regenerate ==
  /\ phase \in {"made", "restored"} /\ frozen /\ rounds < MaxRounds
  /\ source' = Updated(kind, fields, source, TRUE)
  /\ rounds' = rounds + 1
  /\ UNCHANGED <<kind, fields, frozen, phase, made, touched, sent, edits>>

(* toBytes and fromBytes.  A transaction that is not frozen updates its    *)
(* source body; it travels as a body unless its nodes are set, and in      *)
(* several chunks only if it has an ID.                                    *)
Restore(way, identified) ==
  LET src == IF frozen THEN source ELSE Updated(kind, fields, source, identified)
      k   == FromBytes[kind]
  IN  /\ phase = "made" /\ CanBeWritten(Body(kind), fields)
      /\ (frozen => way # "body") /\ (way = "chunks" => identified)
      /\ made' = [kind |-> kind, fields |-> fields, body |-> src]
      /\ source' = src
      /\ IF k = kind
           THEN /\ fields' = ReadBack(MembersTable(k), Body(k), src, way)
                /\ phase' = "restored"
           ELSE /\ phase' = "refused"
                /\ UNCHANGED fields
      /\ UNCHANGED <<kind, frozen, touched, sent, edits, rounds>>

(* schedule: the source body is updated and read as the transaction of a   *)
(* new ScheduleCreateTransaction.                                          *)
Schedule(identified) ==
  LET src == Updated(kind, fields, source, identified)
  IN  /\ phase = "made" /\ ~frozen /\ CanBeWritten(Body(kind), fields)
      /\ made' = [kind |-> kind, fields |-> fields, body |-> src]
      /\ source' = src
      /\ IF kind \in DOMAIN FromBody /\ FromBody[kind] = kind
           THEN /\ fields' = ReadBack(MembersTable(kind), Body(kind), src, "body")
                /\ phase' = "wrapped"
           ELSE /\ phase' = "refused"
                /\ UNCHANGED fields
      /\ UNCHANGED <<kind, frozen, touched, sent, edits, rounds>>

\* Mutant: toProtobuf updates the source body of every class.
RewrittenAlways(k, f, src) == Updated(k, f, src, FALSE)

(* toProtobuf of the wrapped transaction: the source body updated again,   *)
(* except for a message to a topic.  The payer of an ID is a member by now. *)
Rewritten(k, f, src) == IF k = "TopicMessageSubmit" THEN src ELSE Updated(k, f, src, FALSE)

(* ScheduleCreateTransaction::build.                                       *)
Submit ==
  /\ phase = "wrapped"
  /\ source' = Rewritten(kind, fields, source)
  /\ phase' = IF kind \in ToSchedulable THEN "submitted" ELSE "refused"
  /\ UNCHANGED <<kind, fields, frozen, made, touched, sent, edits, rounds>>

(* ScheduleInfo::fromProtobuf, of what the network kept.                   *)
Inspect ==
  /\ phase = "submitted"
  /\ IF kind \in DOMAIN FromSchedulable /\ FromSchedulable[kind] = kind
       THEN /\ fields' = ReadBack(MembersTable(kind), Body(kind), source, "body")
            /\ phase' = "inspected"
       ELSE /\ phase' = "refused"
            /\ UNCHANGED fields
  /\ UNCHANGED <<kind, source, frozen, made, touched, sent, edits, rounds>>

(* onExecute, by a client that validates checksums: validateChecksums of   *)
(* the class, then the body goes to a node.                                *)
Execute ==
  /\ phase \in {"made", "restored"} /\ frozen
  /\ IF \E f \in Body(kind).checked : fields[f] = "bad"
       THEN phase' = "rejected" /\ UNCHANGED sent
       ELSE phase' = "executed" /\ sent' = {f \in DOMAIN fields : fields[f] = "bad"}
  /\ UNCHANGED <<kind, fields, source, frozen, made, touched, edits, rounds>>

(* build throws while a required member is not set, and nothing changes. *)
BuildThrows == phase = "made" /\ ~CanBeWritten(Body(kind), fields) /\ UNCHANGED vars

Done == phase \in {"refused", "rejected", "executed", "inspected"} /\ UNCHANGED vars

Next ==
  \/ \E s \in Table[kind].setters, v \in {"zero", "value", "bad"} : Edit(s, v)
  \/ \E way \in Ways, identified \in BOOLEAN : Restore(way, identified)
  \/ \E identified \in BOOLEAN : Schedule(identified)
  \/ Freeze \/ Regenerate \/ Submit \/ Inspect \/ Execute
  \/ BuildThrows \/ Done

Spec == Init /\ [][Next]_vars

-----------------------------------------------------------------------------

(* The update transactions, and the member that names what is updated. *)
UpdateTarget ==
  [AccountUpdate |-> "accountId", ContractUpdate |-> "contractId", FileUpdate |-> "fileId",
   NodeUpdate |-> "nodeId", RegisteredNodeUpdate |-> "registeredNodeId", TokenUpdate |-> "tokenId",
   TokenUpdateNfts |-> "tokenId", TopicUpdate |-> "topicId"]

(* The getters show what the user asked for, a checksum aside. *)
Same(shown, asked, except) ==
  \A f \in touched : <<made.kind, f>> \in except \/ shown[f] = OnWire(asked[f])

(* A transaction read from its bytes is of the class it was, its getters   *)
(* show what the user set, and a body built of it is the body that was     *)
(* read: nobody who adds a signature or an ID to it changes what it does.  *)
RestoredAsMade ==
  phase = "restored" =>
    /\ Same(fields, made.fields, Known.lost)
    /\ \A f \in DOMAIN fields :
         <<made.kind, f>> \in Known.lost \/ Written(Body(kind), fields)[f] = made.body[f]

(* A transaction of a class that can be scheduled is sent in a schedule    *)
(* with the body it has alone, and is read from the schedule's info as it  *)
(* was made; no step on the way refuses it.                                *)
ScheduledAsMade ==
  made.kind \notin Known.unscheduled =>
    /\ phase = "submitted" =>
         \A f \in DOMAIN fields : <<made.kind, f>> \in Known.dropped \/ source[f] = made.body[f]
    /\ phase = "inspected" => Same(fields, made.fields, Known.lost \ Known.cut)
    /\ phase = "refused" => made.kind \notin ScheduledKinds

(* An update carries no field that its user has not set, whether it goes   *)
(* out as made or by another's hand: the network leaves alone what an      *)
(* update does not name.                                                   *)
UnsetIsNotSent ==
  kind \in DOMAIN UpdateTarget =>
    \A f \in DOMAIN fields \ (touched \cup {UpdateTarget[kind]}) :
      <<kind, f>> \in Known.unset \/ source[f] = "none"

(* A client that validates checksums sends no ID of another ledger. *)
NoBadIdSent == \A f \in sent : <<kind, f>> \in Known.unchecked
=============================================================================
