-------------------------- MODULE TransactionBodies_proofs --------------------------
(***************************************************************************)
(* What is left of a transaction of any class after any number of edits    *)
(* and of regenerations, in its bytes and in a schedule.                   *)
(***************************************************************************)
EXTENDS TransactionBodies, TLAPS

-----------------------------------------------------------------------------
(***************************************************************************)
(* The members that break a promise (README, Findings), and what the table *)
(* of a class says of the others.                                          *)
(***************************************************************************)
\* Written and not read back, or not as one transaction writes them.
DroppedMembers == {<<"Transfer", "tokenTransferHooks">>}
TopicParts     == {<<"TopicMessageSubmit", "message">>, <<"TopicMessageSubmit", "customFeeLimits">>}
Exempt         == DroppedMembers \cup TopicParts
LostMembers    == Exempt \cup {<<"TopicUpdate", "feeCollectors">>}

\* Of the chunks in the bytes of a frozen transaction, the first is read.
CutMembers == {<<"FileAppend", "contents">>}

\* Written by an update that does not set them.
UnsetMembers == {<<"NodeUpdate", "declineReward">>}

\* IDs that no validateChecksums looks at.
UncheckedMembers ==
  {<<"AccountCreate", "hookCreationDetails">>, <<"AccountUpdate", "hookCreationDetails">>,
   <<"ContractCreate", "hookCreationDetails">>, <<"ContractUpdate", "hookCreationDetails">>,
   <<"TokenAirdrop", "tokenTransfers">>, <<"TokenAirdrop", "nftTransfers">>,
   <<"TokenCancelAirdrop", "pendingAirdrops">>, <<"TokenClaimAirdrop", "pendingAirdrops">>,
   <<"TopicCreate", "feeCollectors">>, <<"TopicUpdate", "feeCollectors">>,
   <<"TopicMessageSubmit", "customFeeLimits">>}

\* Classes of a scheduled body that a schedule refuses, or reads as another class.
UnscheduledKinds ==
  {"AccountDelete", "ScheduleDelete", "TokenUnfreeze", "TokenAirdrop", "TokenCancelAirdrop",
   "TokenClaimAirdrop", "TokenReject", "TokenUpdateNfts", "TokenUpdate", "RegisteredNodeCreate",
   "RegisteredNodeUpdate", "RegisteredNodeDelete"}

\* A member that is sent as it is, and read as it was sent; or not at all.
Faithful(m, s, f, rule) ==
  /\ ~rule.appended /\ rule.chunks # "joined"
  /\ rule.payer => rule.unsent = {"absent"} /\ rule.unread = {"none"} /\ \A t \in s : f \notin t.clears
  /\ \/ rule.unsent = {"absent"} /\ rule.unread = {"none"} /\ f \in m.absent
     \/ rule.unsent = {"zero"} /\ rule.unread = {}
     \/ rule.unsent = {} /\ rule.unread = {"none"}
     \/ rule.unsent = {"zero"} /\ rule.unread = {"none"} /\ f \in m.zero \ m.absent
     \/ rule.unsent = {"absent", "zero"} /\ rule.unread = {} /\ \A t \in s : f \notin t.clears

Silent(rule) == rule.unsent = Values /\ rule.unread = {} /\ ~rule.appended /\ ~rule.payer /\ rule.chunks = "one"

\* Each member has a rule, under which it keeps what it holds.
Ruled(k, m, s, b) ==
  /\ DOMAIN b.rules = MembersOf(m)
  /\ \A f \in MembersOf(m) :
       \/ <<k, f>> \notin LostMembers /\ Faithful(m, s, f, b.rules[f])
       \/ <<k, f>> \in LostMembers \ Exempt /\ Silent(b.rules[f])
       \/ <<k, f>> \in Exempt

\* A member of which the first chunk is read is one of these.
Cut(k, m, b) == \A f \in MembersOf(m) : b.rules[f].chunks = "first" => <<k, f>> \in CutMembers

\* Each setter of a oneof resets the other member, which is then not sent.
Separate(k, m, s, b) ==
  \A p \in b.oneofs :
    /\ p[1] \in m.absent /\ p[2] \in m.absent /\ p[1] # p[2]
    /\ \A q \in {p[1], p[2]} : <<k, q>> \notin LostMembers \cup CutMembers /\ ~b.rules[q].payer
    /\ "absent" \in b.rules[p[1]].unsent /\ b.rules[p[1]].unread = {"none"}
    /\ "absent" \in b.rules[p[2]].unsent /\ b.rules[p[2]].unread = {"none"}
    /\ \A t \in s : /\ p[1] \in t.assigns => p[2] \in t.clears \ t.assigns
                    /\ p[2] \in t.assigns => p[1] \in t.clears \ t.assigns

\* Each ID is checked.
Checked(k, m, b) == \A f \in m.ids : f \in b.checked \/ <<k, f>> \in UncheckedMembers

\* An update sends no member as its constructor, or a body without it, leaves it.
Quiet(k, m, b) ==
  k \in DOMAIN UpdateTarget =>
    \A f \in MembersOf(m) \ {UpdateTarget[k]} :
      \/ <<k, f>> \in UnsetMembers
      \/ /\ ~b.rules[f].payer /\ Initially(m)[f] \in b.rules[f].unsent
         /\ "none" \notin b.rules[f].unread => "zero" \in b.rules[f].unsent

Complete(k, m, s, b) ==
  /\ Ruled(k, m, s, b) /\ Separate(k, m, s, b) /\ Checked(k, m, b) /\ Quiet(k, m, b) /\ Cut(k, m, b)
  /\ \A t \in s : t.assigns \cup t.clears \subseteq MembersOf(m)

-----------------------------------------------------------------------------
(***************************************************************************)
(* Every class is complete.                                                *)
(***************************************************************************)
USE DEF Complete, Ruled, Faithful, Silent, Separate, Checked, Quiet, Cut,
        LostMembers, DroppedMembers, TopicParts, CutMembers, Exempt, UnsetMembers, UncheckedMembers, UpdateTarget,
        MembersOf, Initially, Optional, Plain, Message, Nonzero, OptionalScalar, Required, Unread,
        Unwritten, Appended, PayerUnlessSet, Chunks, FirstChunk, Rule, ++, Each, Exclusive, Setter

LEMMA AccountCreateComplete == Complete("AccountCreate", AccountCreateMembers, AccountCreateSetters, AccountCreateBody)
  <1>1. DOMAIN AccountCreateBody.rules = MembersOf(AccountCreateMembers)
    BY DEF AccountCreateMembers, AccountCreateBody
  <1>2. ASSUME NEW f \in MembersOf(AccountCreateMembers)
        PROVE  \/ <<"AccountCreate", f>> \notin LostMembers
                  /\ Faithful(AccountCreateMembers, AccountCreateSetters, f, AccountCreateBody.rules[f])
               \/ <<"AccountCreate", f>> \in LostMembers \ Exempt /\ Silent(AccountCreateBody.rules[f])
               \/ <<"AccountCreate", f>> \in Exempt
    BY DEF AccountCreateMembers, AccountCreateSetters, AccountCreateBody
  <1>3. Ruled("AccountCreate", AccountCreateMembers, AccountCreateSetters, AccountCreateBody)
    BY <1>1, <1>2
  <1>4. Separate("AccountCreate", AccountCreateMembers, AccountCreateSetters, AccountCreateBody)
    BY DEF AccountCreateMembers, AccountCreateSetters, AccountCreateBody
  <1>5. Checked("AccountCreate", AccountCreateMembers, AccountCreateBody)
    BY DEF AccountCreateMembers, AccountCreateBody
  <1>6. Quiet("AccountCreate", AccountCreateMembers, AccountCreateBody)
    BY DEF AccountCreateMembers, AccountCreateBody
  <1>7. \A t \in AccountCreateSetters : t.assigns \cup t.clears \subseteq MembersOf(AccountCreateMembers)
    BY DEF AccountCreateMembers, AccountCreateSetters
  <1>8. Cut("AccountCreate", AccountCreateMembers, AccountCreateBody)
    BY DEF AccountCreateMembers, AccountCreateBody
  <1>9. QED
    BY <1>3, <1>4, <1>5, <1>6, <1>7, <1>8

LEMMA AccountUpdateComplete == Complete("AccountUpdate", AccountUpdateMembers, AccountUpdateSetters, AccountUpdateBody)
  <1>1. DOMAIN AccountUpdateBody.rules = MembersOf(AccountUpdateMembers)
    BY DEF AccountUpdateMembers, AccountUpdateBody
  <1>2. ASSUME NEW f \in MembersOf(AccountUpdateMembers)
        PROVE  \/ <<"AccountUpdate", f>> \notin LostMembers
                  /\ Faithful(AccountUpdateMembers, AccountUpdateSetters, f, AccountUpdateBody.rules[f])
               \/ <<"AccountUpdate", f>> \in LostMembers \ Exempt /\ Silent(AccountUpdateBody.rules[f])
               \/ <<"AccountUpdate", f>> \in Exempt
    BY DEF AccountUpdateMembers, AccountUpdateSetters, AccountUpdateBody
  <1>3. Ruled("AccountUpdate", AccountUpdateMembers, AccountUpdateSetters, AccountUpdateBody)
    BY <1>1, <1>2
  <1>4. Separate("AccountUpdate", AccountUpdateMembers, AccountUpdateSetters, AccountUpdateBody)
    BY DEF AccountUpdateMembers, AccountUpdateSetters, AccountUpdateBody
  <1>5. Checked("AccountUpdate", AccountUpdateMembers, AccountUpdateBody)
    BY DEF AccountUpdateMembers, AccountUpdateBody
  <1>6. Quiet("AccountUpdate", AccountUpdateMembers, AccountUpdateBody)
    BY DEF AccountUpdateMembers, AccountUpdateBody
  <1>7. \A t \in AccountUpdateSetters : t.assigns \cup t.clears \subseteq MembersOf(AccountUpdateMembers)
    BY DEF AccountUpdateMembers, AccountUpdateSetters
  <1>8. Cut("AccountUpdate", AccountUpdateMembers, AccountUpdateBody)
    BY DEF AccountUpdateMembers, AccountUpdateBody
  <1>9. QED
    BY <1>3, <1>4, <1>5, <1>6, <1>7, <1>8

LEMMA AccountDeleteComplete == Complete("AccountDelete", AccountDeleteMembers, AccountDeleteSetters, AccountDeleteBody)
  BY DEF AccountDeleteMembers, AccountDeleteSetters, AccountDeleteBody

LEMMA AccountAllowanceApproveComplete == Complete("AccountAllowanceApprove", AccountAllowanceApproveMembers, AccountAllowanceApproveSetters, AccountAllowanceApproveBody)
  BY DEF AccountAllowanceApproveMembers, AccountAllowanceApproveSetters, AccountAllowanceApproveBody

LEMMA AccountAllowanceDeleteComplete == Complete("AccountAllowanceDelete", AccountAllowanceDeleteMembers, AccountAllowanceDeleteSetters, AccountAllowanceDeleteBody)
  BY DEF AccountAllowanceDeleteMembers, AccountAllowanceDeleteSetters, AccountAllowanceDeleteBody

LEMMA TransferComplete == Complete("Transfer", TransferMembers, TransferSetters, TransferBody)
  BY DEF TransferMembers, TransferSetters, TransferBody

LEMMA ContractCreateComplete == Complete("ContractCreate", ContractCreateMembers, ContractCreateSetters, ContractCreateBody)
  <1>1. DOMAIN ContractCreateBody.rules = MembersOf(ContractCreateMembers)
    BY DEF ContractCreateMembers, ContractCreateBody
  <1>2. ASSUME NEW f \in MembersOf(ContractCreateMembers)
        PROVE  \/ <<"ContractCreate", f>> \notin LostMembers
                  /\ Faithful(ContractCreateMembers, ContractCreateSetters, f, ContractCreateBody.rules[f])
               \/ <<"ContractCreate", f>> \in LostMembers \ Exempt /\ Silent(ContractCreateBody.rules[f])
               \/ <<"ContractCreate", f>> \in Exempt
    BY DEF ContractCreateMembers, ContractCreateSetters, ContractCreateBody
  <1>3. Ruled("ContractCreate", ContractCreateMembers, ContractCreateSetters, ContractCreateBody)
    BY <1>1, <1>2
  <1>4. Separate("ContractCreate", ContractCreateMembers, ContractCreateSetters, ContractCreateBody)
    BY DEF ContractCreateMembers, ContractCreateSetters, ContractCreateBody
  <1>5. Checked("ContractCreate", ContractCreateMembers, ContractCreateBody)
    BY DEF ContractCreateMembers, ContractCreateBody
  <1>6. Quiet("ContractCreate", ContractCreateMembers, ContractCreateBody)
    BY DEF ContractCreateMembers, ContractCreateBody
  <1>7. \A t \in ContractCreateSetters : t.assigns \cup t.clears \subseteq MembersOf(ContractCreateMembers)
    BY DEF ContractCreateMembers, ContractCreateSetters
  <1>8. Cut("ContractCreate", ContractCreateMembers, ContractCreateBody)
    BY DEF ContractCreateMembers, ContractCreateBody
  <1>9. QED
    BY <1>3, <1>4, <1>5, <1>6, <1>7, <1>8

LEMMA ContractUpdateComplete == Complete("ContractUpdate", ContractUpdateMembers, ContractUpdateSetters, ContractUpdateBody)
  <1>1. DOMAIN ContractUpdateBody.rules = MembersOf(ContractUpdateMembers)
    BY DEF ContractUpdateMembers, ContractUpdateBody
  <1>2. ASSUME NEW f \in MembersOf(ContractUpdateMembers)
        PROVE  \/ <<"ContractUpdate", f>> \notin LostMembers
                  /\ Faithful(ContractUpdateMembers, ContractUpdateSetters, f, ContractUpdateBody.rules[f])
               \/ <<"ContractUpdate", f>> \in LostMembers \ Exempt /\ Silent(ContractUpdateBody.rules[f])
               \/ <<"ContractUpdate", f>> \in Exempt
    BY DEF ContractUpdateMembers, ContractUpdateSetters, ContractUpdateBody
  <1>3. Ruled("ContractUpdate", ContractUpdateMembers, ContractUpdateSetters, ContractUpdateBody)
    BY <1>1, <1>2
  <1>4. Separate("ContractUpdate", ContractUpdateMembers, ContractUpdateSetters, ContractUpdateBody)
    BY DEF ContractUpdateMembers, ContractUpdateSetters, ContractUpdateBody
  <1>5. Checked("ContractUpdate", ContractUpdateMembers, ContractUpdateBody)
    BY DEF ContractUpdateMembers, ContractUpdateBody
  <1>6. Quiet("ContractUpdate", ContractUpdateMembers, ContractUpdateBody)
    BY DEF ContractUpdateMembers, ContractUpdateBody
  <1>7. \A t \in ContractUpdateSetters : t.assigns \cup t.clears \subseteq MembersOf(ContractUpdateMembers)
    BY DEF ContractUpdateMembers, ContractUpdateSetters
  <1>8. Cut("ContractUpdate", ContractUpdateMembers, ContractUpdateBody)
    BY DEF ContractUpdateMembers, ContractUpdateBody
  <1>9. QED
    BY <1>3, <1>4, <1>5, <1>6, <1>7, <1>8

LEMMA ContractDeleteComplete == Complete("ContractDelete", ContractDeleteMembers, ContractDeleteSetters, ContractDeleteBody)
  <1>1. DOMAIN ContractDeleteBody.rules = MembersOf(ContractDeleteMembers)
    BY DEF ContractDeleteMembers, ContractDeleteBody
  <1>2. ASSUME NEW f \in MembersOf(ContractDeleteMembers)
        PROVE  \/ <<"ContractDelete", f>> \notin LostMembers
                  /\ Faithful(ContractDeleteMembers, ContractDeleteSetters, f, ContractDeleteBody.rules[f])
               \/ <<"ContractDelete", f>> \in LostMembers \ Exempt /\ Silent(ContractDeleteBody.rules[f])
               \/ <<"ContractDelete", f>> \in Exempt
    <2>1. CASE f \in {"permanentRemoval"}
      <3>1. ContractDeleteBody.rules[f] = OptionalScalar({"permanentRemoval"})[f]
        BY <2>1 DEF ContractDeleteBody
      <3>2. \A t \in ContractDeleteSetters : f \notin t.clears
        BY <2>1 DEF ContractDeleteSetters
      <3>3. QED
        BY <2>1, <3>1, <3>2
    <2>2. CASE f \notin {"permanentRemoval"}
      BY <2>2 DEF ContractDeleteMembers, ContractDeleteBody
    <2>3. QED
      BY <2>1, <2>2
  <1>3. Ruled("ContractDelete", ContractDeleteMembers, ContractDeleteSetters, ContractDeleteBody)
    BY <1>1, <1>2
  <1>4. Separate("ContractDelete", ContractDeleteMembers, ContractDeleteSetters, ContractDeleteBody)
    BY DEF ContractDeleteMembers, ContractDeleteSetters, ContractDeleteBody
  <1>5. Checked("ContractDelete", ContractDeleteMembers, ContractDeleteBody)
    BY DEF ContractDeleteMembers, ContractDeleteBody
  <1>6. Quiet("ContractDelete", ContractDeleteMembers, ContractDeleteBody)
    BY DEF ContractDeleteMembers, ContractDeleteBody
  <1>7. \A t \in ContractDeleteSetters : t.assigns \cup t.clears \subseteq MembersOf(ContractDeleteMembers)
    BY DEF ContractDeleteMembers, ContractDeleteSetters
  <1>8. Cut("ContractDelete", ContractDeleteMembers, ContractDeleteBody)
    BY DEF ContractDeleteMembers, ContractDeleteBody
  <1>9. QED
    BY <1>3, <1>4, <1>5, <1>6, <1>7, <1>8

LEMMA ContractExecuteComplete == Complete("ContractExecute", ContractExecuteMembers, ContractExecuteSetters, ContractExecuteBody)
  BY DEF ContractExecuteMembers, ContractExecuteSetters, ContractExecuteBody

LEMMA EthereumComplete == Complete("Ethereum", EthereumMembers, EthereumSetters, EthereumBody)
  BY DEF EthereumMembers, EthereumSetters, EthereumBody

LEMMA HookStoreComplete == Complete("HookStore", HookStoreMembers, HookStoreSetters, HookStoreBody)
  BY DEF HookStoreMembers, HookStoreSetters, HookStoreBody

LEMMA FileCreateComplete == Complete("FileCreate", FileCreateMembers, FileCreateSetters, FileCreateBody)
  BY DEF FileCreateMembers, FileCreateSetters, FileCreateBody

LEMMA FileUpdateComplete == Complete("FileUpdate", FileUpdateMembers, FileUpdateSetters, FileUpdateBody)
  <1>1. DOMAIN FileUpdateBody.rules = MembersOf(FileUpdateMembers)
    BY DEF FileUpdateMembers, FileUpdateBody
  <1>2. ASSUME NEW f \in MembersOf(FileUpdateMembers)
        PROVE  \/ <<"FileUpdate", f>> \notin LostMembers
                  /\ Faithful(FileUpdateMembers, FileUpdateSetters, f, FileUpdateBody.rules[f])
               \/ <<"FileUpdate", f>> \in LostMembers \ Exempt /\ Silent(FileUpdateBody.rules[f])
               \/ <<"FileUpdate", f>> \in Exempt
    <2>1. CASE f \in {"contents"}
      <3>1. FileUpdateBody.rules[f] = OptionalScalar({"contents"})[f]
        BY <2>1 DEF FileUpdateBody
      <3>2. \A t \in FileUpdateSetters : f \notin t.clears
        BY <2>1 DEF FileUpdateSetters
      <3>3. QED
        BY <2>1, <3>1, <3>2
    <2>2. CASE f \notin {"contents"}
      BY <2>2 DEF FileUpdateMembers, FileUpdateBody
    <2>3. QED
      BY <2>1, <2>2
  <1>3. Ruled("FileUpdate", FileUpdateMembers, FileUpdateSetters, FileUpdateBody)
    BY <1>1, <1>2
  <1>4. Separate("FileUpdate", FileUpdateMembers, FileUpdateSetters, FileUpdateBody)
    BY DEF FileUpdateMembers, FileUpdateSetters, FileUpdateBody
  <1>5. Checked("FileUpdate", FileUpdateMembers, FileUpdateBody)
    BY DEF FileUpdateMembers, FileUpdateBody
  <1>6. Quiet("FileUpdate", FileUpdateMembers, FileUpdateBody)
    BY DEF FileUpdateMembers, FileUpdateBody
  <1>7. \A t \in FileUpdateSetters : t.assigns \cup t.clears \subseteq MembersOf(FileUpdateMembers)
    BY DEF FileUpdateMembers, FileUpdateSetters
  <1>8. Cut("FileUpdate", FileUpdateMembers, FileUpdateBody)
    BY DEF FileUpdateMembers, FileUpdateBody
  <1>9. QED
    BY <1>3, <1>4, <1>5, <1>6, <1>7, <1>8

LEMMA FileAppendComplete == Complete("FileAppend", FileAppendMembers, FileAppendSetters, FileAppendBody)
  BY DEF FileAppendMembers, FileAppendSetters, FileAppendBody

LEMMA FileDeleteComplete == Complete("FileDelete", FileDeleteMembers, FileDeleteSetters, FileDeleteBody)
  BY DEF FileDeleteMembers, FileDeleteSetters, FileDeleteBody

LEMMA SystemDeleteComplete == Complete("SystemDelete", SystemDeleteMembers, SystemDeleteSetters, SystemDeleteBody)
  BY DEF SystemDeleteMembers, SystemDeleteSetters, SystemDeleteBody

LEMMA SystemUndeleteComplete == Complete("SystemUndelete", SystemUndeleteMembers, SystemUndeleteSetters, SystemUndeleteBody)
  BY DEF SystemUndeleteMembers, SystemUndeleteSetters, SystemUndeleteBody

LEMMA FreezeComplete == Complete("Freeze", FreezeMembers, FreezeSetters, FreezeBody)
  BY DEF FreezeMembers, FreezeSetters, FreezeBody

LEMMA PrngComplete == Complete("Prng", PrngMembers, PrngSetters, PrngBody)
  BY DEF PrngMembers, PrngSetters, PrngBody

LEMMA NodeCreateComplete == Complete("NodeCreate", NodeCreateMembers, NodeCreateSetters, NodeCreateBody)
  <1>1. DOMAIN NodeCreateBody.rules = MembersOf(NodeCreateMembers)
    BY DEF NodeCreateMembers, NodeCreateBody
  <1>2. ASSUME NEW f \in MembersOf(NodeCreateMembers)
        PROVE  \/ <<"NodeCreate", f>> \notin LostMembers
                  /\ Faithful(NodeCreateMembers, NodeCreateSetters, f, NodeCreateBody.rules[f])
               \/ <<"NodeCreate", f>> \in LostMembers \ Exempt /\ Silent(NodeCreateBody.rules[f])
               \/ <<"NodeCreate", f>> \in Exempt
    <2>1. CASE f \in {"description", "grpcCertificateHash"}
      <3>1. NodeCreateBody.rules[f] = OptionalScalar({"description", "grpcCertificateHash"})[f]
        BY <2>1 DEF NodeCreateBody
      <3>2. \A t \in NodeCreateSetters : f \notin t.clears
        BY <2>1 DEF NodeCreateSetters
      <3>3. QED
        BY <2>1, <3>1, <3>2
    <2>2. CASE f \notin {"description", "grpcCertificateHash"}
      BY <2>2 DEF NodeCreateMembers, NodeCreateBody
    <2>3. QED
      BY <2>1, <2>2
  <1>3. Ruled("NodeCreate", NodeCreateMembers, NodeCreateSetters, NodeCreateBody)
    BY <1>1, <1>2
  <1>4. Separate("NodeCreate", NodeCreateMembers, NodeCreateSetters, NodeCreateBody)
    BY DEF NodeCreateMembers, NodeCreateSetters, NodeCreateBody
  <1>5. Checked("NodeCreate", NodeCreateMembers, NodeCreateBody)
    BY DEF NodeCreateMembers, NodeCreateBody
  <1>6. Quiet("NodeCreate", NodeCreateMembers, NodeCreateBody)
    BY DEF NodeCreateMembers, NodeCreateBody
  <1>7. \A t \in NodeCreateSetters : t.assigns \cup t.clears \subseteq MembersOf(NodeCreateMembers)
    BY DEF NodeCreateMembers, NodeCreateSetters
  <1>8. Cut("NodeCreate", NodeCreateMembers, NodeCreateBody)
    BY DEF NodeCreateMembers, NodeCreateBody
  <1>9. QED
    BY <1>3, <1>4, <1>5, <1>6, <1>7, <1>8

LEMMA NodeUpdateComplete == Complete("NodeUpdate", NodeUpdateMembers, NodeUpdateSetters, NodeUpdateBody)
  <1>1. DOMAIN NodeUpdateBody.rules = MembersOf(NodeUpdateMembers)
    BY DEF NodeUpdateMembers, NodeUpdateBody
  <1>2. ASSUME NEW f \in MembersOf(NodeUpdateMembers)
        PROVE  \/ <<"NodeUpdate", f>> \notin LostMembers
                  /\ Faithful(NodeUpdateMembers, NodeUpdateSetters, f, NodeUpdateBody.rules[f])
               \/ <<"NodeUpdate", f>> \in LostMembers \ Exempt /\ Silent(NodeUpdateBody.rules[f])
               \/ <<"NodeUpdate", f>> \in Exempt
    BY DEF NodeUpdateMembers, NodeUpdateSetters, NodeUpdateBody
  <1>3. Ruled("NodeUpdate", NodeUpdateMembers, NodeUpdateSetters, NodeUpdateBody)
    BY <1>1, <1>2
  <1>4. Separate("NodeUpdate", NodeUpdateMembers, NodeUpdateSetters, NodeUpdateBody)
    BY DEF NodeUpdateMembers, NodeUpdateSetters, NodeUpdateBody
  <1>5. Checked("NodeUpdate", NodeUpdateMembers, NodeUpdateBody)
    BY DEF NodeUpdateMembers, NodeUpdateBody
  <1>6. Quiet("NodeUpdate", NodeUpdateMembers, NodeUpdateBody)
    BY DEF NodeUpdateMembers, NodeUpdateBody
  <1>7. \A t \in NodeUpdateSetters : t.assigns \cup t.clears \subseteq MembersOf(NodeUpdateMembers)
    BY DEF NodeUpdateMembers, NodeUpdateSetters
  <1>8. Cut("NodeUpdate", NodeUpdateMembers, NodeUpdateBody)
    BY DEF NodeUpdateMembers, NodeUpdateBody
  <1>9. QED
    BY <1>3, <1>4, <1>5, <1>6, <1>7, <1>8

LEMMA NodeDeleteComplete == Complete("NodeDelete", NodeDeleteMembers, NodeDeleteSetters, NodeDeleteBody)
  BY DEF NodeDeleteMembers, NodeDeleteSetters, NodeDeleteBody

LEMMA RegisteredNodeCreateComplete == Complete("RegisteredNodeCreate", RegisteredNodeCreateMembers, RegisteredNodeCreateSetters, RegisteredNodeCreateBody)
  BY DEF RegisteredNodeCreateMembers, RegisteredNodeCreateSetters, RegisteredNodeCreateBody

LEMMA RegisteredNodeUpdateComplete == Complete("RegisteredNodeUpdate", RegisteredNodeUpdateMembers, RegisteredNodeUpdateSetters, RegisteredNodeUpdateBody)
  BY DEF RegisteredNodeUpdateMembers, RegisteredNodeUpdateSetters, RegisteredNodeUpdateBody

LEMMA RegisteredNodeDeleteComplete == Complete("RegisteredNodeDelete", RegisteredNodeDeleteMembers, RegisteredNodeDeleteSetters, RegisteredNodeDeleteBody)
  BY DEF RegisteredNodeDeleteMembers, RegisteredNodeDeleteSetters, RegisteredNodeDeleteBody

LEMMA ScheduleCreateComplete == Complete("ScheduleCreate", ScheduleCreateMembers, ScheduleCreateSetters, ScheduleCreateBody)
  <1>1. DOMAIN ScheduleCreateBody.rules = MembersOf(ScheduleCreateMembers)
    BY DEF ScheduleCreateMembers, ScheduleCreateBody
  <1>2. ASSUME NEW f \in MembersOf(ScheduleCreateMembers)
        PROVE  \/ <<"ScheduleCreate", f>> \notin LostMembers
                  /\ Faithful(ScheduleCreateMembers, ScheduleCreateSetters, f, ScheduleCreateBody.rules[f])
               \/ <<"ScheduleCreate", f>> \in LostMembers \ Exempt /\ Silent(ScheduleCreateBody.rules[f])
               \/ <<"ScheduleCreate", f>> \in Exempt
    BY DEF ScheduleCreateMembers, ScheduleCreateSetters, ScheduleCreateBody
  <1>3. Ruled("ScheduleCreate", ScheduleCreateMembers, ScheduleCreateSetters, ScheduleCreateBody)
    BY <1>1, <1>2
  <1>4. Separate("ScheduleCreate", ScheduleCreateMembers, ScheduleCreateSetters, ScheduleCreateBody)
    BY DEF ScheduleCreateMembers, ScheduleCreateSetters, ScheduleCreateBody
  <1>5. Checked("ScheduleCreate", ScheduleCreateMembers, ScheduleCreateBody)
    BY DEF ScheduleCreateMembers, ScheduleCreateBody
  <1>6. Quiet("ScheduleCreate", ScheduleCreateMembers, ScheduleCreateBody)
    BY DEF ScheduleCreateMembers, ScheduleCreateBody
  <1>7. \A t \in ScheduleCreateSetters : t.assigns \cup t.clears \subseteq MembersOf(ScheduleCreateMembers)
    BY DEF ScheduleCreateMembers, ScheduleCreateSetters
  <1>8. Cut("ScheduleCreate", ScheduleCreateMembers, ScheduleCreateBody)
    BY DEF ScheduleCreateMembers, ScheduleCreateBody
  <1>9. QED
    BY <1>3, <1>4, <1>5, <1>6, <1>7, <1>8

LEMMA ScheduleDeleteComplete == Complete("ScheduleDelete", ScheduleDeleteMembers, ScheduleDeleteSetters, ScheduleDeleteBody)
  BY DEF ScheduleDeleteMembers, ScheduleDeleteSetters, ScheduleDeleteBody

LEMMA ScheduleSignComplete == Complete("ScheduleSign", ScheduleSignMembers, ScheduleSignSetters, ScheduleSignBody)
  BY DEF ScheduleSignMembers, ScheduleSignSetters, ScheduleSignBody

LEMMA BatchComplete == Complete("Batch", BatchMembers, BatchSetters, BatchBody)
  BY DEF BatchMembers, BatchSetters, BatchBody

LEMMA TokenAirdropComplete == Complete("TokenAirdrop", TokenAirdropMembers, TokenAirdropSetters, TokenAirdropBody)
  BY DEF TokenAirdropMembers, TokenAirdropSetters, TokenAirdropBody

LEMMA TokenAssociateComplete == Complete("TokenAssociate", TokenAssociateMembers, TokenAssociateSetters, TokenAssociateBody)
  BY DEF TokenAssociateMembers, TokenAssociateSetters, TokenAssociateBody

LEMMA TokenBurnComplete == Complete("TokenBurn", TokenBurnMembers, TokenBurnSetters, TokenBurnBody)
  BY DEF TokenBurnMembers, TokenBurnSetters, TokenBurnBody

LEMMA TokenCancelAirdropComplete == Complete("TokenCancelAirdrop", TokenCancelAirdropMembers, TokenCancelAirdropSetters, TokenCancelAirdropBody)
  BY DEF TokenCancelAirdropMembers, TokenCancelAirdropSetters, TokenCancelAirdropBody

LEMMA TokenClaimAirdropComplete == Complete("TokenClaimAirdrop", TokenClaimAirdropMembers, TokenClaimAirdropSetters, TokenClaimAirdropBody)
  BY DEF TokenClaimAirdropMembers, TokenClaimAirdropSetters, TokenClaimAirdropBody

LEMMA TokenCreateComplete == Complete("TokenCreate", TokenCreateMembers, TokenCreateSetters, TokenCreateBody)
  <1>1. DOMAIN TokenCreateBody.rules = MembersOf(TokenCreateMembers)
    BY DEF TokenCreateMembers, TokenCreateBody
  <1>2. ASSUME NEW f \in MembersOf(TokenCreateMembers)
        PROVE  \/ <<"TokenCreate", f>> \notin LostMembers
                  /\ Faithful(TokenCreateMembers, TokenCreateSetters, f, TokenCreateBody.rules[f])
               \/ <<"TokenCreate", f>> \in LostMembers \ Exempt /\ Silent(TokenCreateBody.rules[f])
               \/ <<"TokenCreate", f>> \in Exempt
    <2>1. CASE f = "autoRenewAccountId"
      <3>1. TokenCreateBody.rules[f] = PayerUnlessSet({"autoRenewAccountId"})[f]
        BY <2>1 DEF TokenCreateBody
      <3>2. f \in TokenCreateMembers.absent /\ \A t \in TokenCreateSetters : t.clears = {}
        BY <2>1 DEF TokenCreateMembers, TokenCreateSetters
      <3>3. QED
        BY <2>1, <3>1, <3>2
    <2>2. CASE f # "autoRenewAccountId"
      BY <2>2 DEF TokenCreateMembers, TokenCreateSetters, TokenCreateBody
    <2>3. QED
      BY <2>1, <2>2
  <1>3. Ruled("TokenCreate", TokenCreateMembers, TokenCreateSetters, TokenCreateBody)
    BY <1>1, <1>2
  <1>4. Separate("TokenCreate", TokenCreateMembers, TokenCreateSetters, TokenCreateBody)
    BY DEF TokenCreateMembers, TokenCreateSetters, TokenCreateBody
  <1>5. Checked("TokenCreate", TokenCreateMembers, TokenCreateBody)
    BY DEF TokenCreateMembers, TokenCreateBody
  <1>6. Quiet("TokenCreate", TokenCreateMembers, TokenCreateBody)
    BY DEF TokenCreateMembers, TokenCreateBody
  <1>7. \A t \in TokenCreateSetters : t.assigns \cup t.clears \subseteq MembersOf(TokenCreateMembers)
    BY DEF TokenCreateMembers, TokenCreateSetters
  <1>8. Cut("TokenCreate", TokenCreateMembers, TokenCreateBody)
    BY DEF TokenCreateMembers, TokenCreateBody
  <1>9. QED
    BY <1>3, <1>4, <1>5, <1>6, <1>7, <1>8

LEMMA TokenDeleteComplete == Complete("TokenDelete", TokenDeleteMembers, TokenDeleteSetters, TokenDeleteBody)
  BY DEF TokenDeleteMembers, TokenDeleteSetters, TokenDeleteBody

LEMMA TokenDissociateComplete == Complete("TokenDissociate", TokenDissociateMembers, TokenDissociateSetters, TokenDissociateBody)
  BY DEF TokenDissociateMembers, TokenDissociateSetters, TokenDissociateBody

LEMMA TokenFeeScheduleUpdateComplete == Complete("TokenFeeScheduleUpdate", TokenFeeScheduleUpdateMembers, TokenFeeScheduleUpdateSetters, TokenFeeScheduleUpdateBody)
  BY DEF TokenFeeScheduleUpdateMembers, TokenFeeScheduleUpdateSetters, TokenFeeScheduleUpdateBody

LEMMA TokenFreezeComplete == Complete("TokenFreeze", TokenFreezeMembers, TokenFreezeSetters, TokenFreezeBody)
  BY DEF TokenFreezeMembers, TokenFreezeSetters, TokenFreezeBody

LEMMA TokenGrantKycComplete == Complete("TokenGrantKyc", TokenGrantKycMembers, TokenGrantKycSetters, TokenGrantKycBody)
  BY DEF TokenGrantKycMembers, TokenGrantKycSetters, TokenGrantKycBody

LEMMA TokenMintComplete == Complete("TokenMint", TokenMintMembers, TokenMintSetters, TokenMintBody)
  BY DEF TokenMintMembers, TokenMintSetters, TokenMintBody

LEMMA TokenPauseComplete == Complete("TokenPause", TokenPauseMembers, TokenPauseSetters, TokenPauseBody)
  BY DEF TokenPauseMembers, TokenPauseSetters, TokenPauseBody

LEMMA TokenRejectComplete == Complete("TokenReject", TokenRejectMembers, TokenRejectSetters, TokenRejectBody)
  <1>1. DOMAIN TokenRejectBody.rules = MembersOf(TokenRejectMembers)
    BY DEF TokenRejectMembers, TokenRejectBody
  <1>2. ASSUME NEW f \in MembersOf(TokenRejectMembers)
        PROVE  \/ <<"TokenReject", f>> \notin LostMembers
                  /\ Faithful(TokenRejectMembers, TokenRejectSetters, f, TokenRejectBody.rules[f])
               \/ <<"TokenReject", f>> \in LostMembers \ Exempt /\ Silent(TokenRejectBody.rules[f])
               \/ <<"TokenReject", f>> \in Exempt
    BY DEF TokenRejectMembers, TokenRejectSetters, TokenRejectBody
  <1>3. Ruled("TokenReject", TokenRejectMembers, TokenRejectSetters, TokenRejectBody)
    BY <1>1, <1>2
  <1>4. Separate("TokenReject", TokenRejectMembers, TokenRejectSetters, TokenRejectBody)
    BY DEF TokenRejectMembers, TokenRejectSetters, TokenRejectBody
  <1>5. Checked("TokenReject", TokenRejectMembers, TokenRejectBody)
    BY DEF TokenRejectMembers, TokenRejectBody
  <1>6. Quiet("TokenReject", TokenRejectMembers, TokenRejectBody)
    BY DEF TokenRejectMembers, TokenRejectBody
  <1>7. \A t \in TokenRejectSetters : t.assigns \cup t.clears \subseteq MembersOf(TokenRejectMembers)
    BY DEF TokenRejectMembers, TokenRejectSetters
  <1>8. Cut("TokenReject", TokenRejectMembers, TokenRejectBody)
    BY DEF TokenRejectMembers, TokenRejectBody
  <1>9. QED
    BY <1>3, <1>4, <1>5, <1>6, <1>7, <1>8

LEMMA TokenRevokeKycComplete == Complete("TokenRevokeKyc", TokenRevokeKycMembers, TokenRevokeKycSetters, TokenRevokeKycBody)
  BY DEF TokenRevokeKycMembers, TokenRevokeKycSetters, TokenRevokeKycBody

LEMMA TokenUnfreezeComplete == Complete("TokenUnfreeze", TokenUnfreezeMembers, TokenUnfreezeSetters, TokenUnfreezeBody)
  BY DEF TokenUnfreezeMembers, TokenUnfreezeSetters, TokenUnfreezeBody

LEMMA TokenUnpauseComplete == Complete("TokenUnpause", TokenUnpauseMembers, TokenUnpauseSetters, TokenUnpauseBody)
  BY DEF TokenUnpauseMembers, TokenUnpauseSetters, TokenUnpauseBody

LEMMA TokenUpdateNftsComplete == Complete("TokenUpdateNfts", TokenUpdateNftsMembers, TokenUpdateNftsSetters, TokenUpdateNftsBody)
  BY DEF TokenUpdateNftsMembers, TokenUpdateNftsSetters, TokenUpdateNftsBody

LEMMA TokenUpdateComplete == Complete("TokenUpdate", TokenUpdateMembers, TokenUpdateSetters, TokenUpdateBody)
  <1>1. DOMAIN TokenUpdateBody.rules = MembersOf(TokenUpdateMembers)
    BY DEF TokenUpdateMembers, TokenUpdateBody
  <1>2. ASSUME NEW f \in MembersOf(TokenUpdateMembers)
        PROVE  \/ <<"TokenUpdate", f>> \notin LostMembers
                  /\ Faithful(TokenUpdateMembers, TokenUpdateSetters, f, TokenUpdateBody.rules[f])
               \/ <<"TokenUpdate", f>> \in LostMembers \ Exempt /\ Silent(TokenUpdateBody.rules[f])
               \/ <<"TokenUpdate", f>> \in Exempt
    <2>1. CASE f \in {"tokenName", "tokenSymbol"}
      <3>1. TokenUpdateBody.rules[f] = OptionalScalar({"tokenName", "tokenSymbol"})[f]
        BY <2>1 DEF TokenUpdateBody
      <3>2. \A t \in TokenUpdateSetters : t.clears = {}
        BY DEF TokenUpdateSetters
      <3>3. QED
        BY <2>1, <3>1, <3>2
    <2>2. CASE f \in {"tokenId", "metadata", "keyVerificationMode"}
      BY <2>2 DEF TokenUpdateBody
    <2>3. CASE f \in TokenUpdateMembers.absent \ {"tokenName", "tokenSymbol"}
      <3>1. TokenUpdateBody.rules[f] = Optional(TokenUpdateMembers.absent)[f]
        BY <2>3 DEF TokenUpdateMembers, TokenUpdateBody
      <3>2. QED
        BY <2>3, <3>1
    <2>4. QED
      BY <2>1, <2>2, <2>3 DEF TokenUpdateMembers
  <1>3. Ruled("TokenUpdate", TokenUpdateMembers, TokenUpdateSetters, TokenUpdateBody)
    BY <1>1, <1>2
  <1>4. Separate("TokenUpdate", TokenUpdateMembers, TokenUpdateSetters, TokenUpdateBody)
    BY DEF TokenUpdateMembers, TokenUpdateSetters, TokenUpdateBody
  <1>5. Checked("TokenUpdate", TokenUpdateMembers, TokenUpdateBody)
    BY DEF TokenUpdateMembers, TokenUpdateBody
  <1>6. ASSUME NEW f \in MembersOf(TokenUpdateMembers) \ {"tokenId"}
        PROVE  /\ ~TokenUpdateBody.rules[f].payer /\ Initially(TokenUpdateMembers)[f] \in TokenUpdateBody.rules[f].unsent
               /\ "none" \notin TokenUpdateBody.rules[f].unread => "zero" \in TokenUpdateBody.rules[f].unsent
    <2>1. CASE f \in {"metadata", "keyVerificationMode"}
      BY <2>1 DEF TokenUpdateMembers, TokenUpdateBody
    <2>2. CASE f \in TokenUpdateMembers.absent
      BY <2>2 DEF TokenUpdateMembers, TokenUpdateBody
    <2>3. QED
      BY <2>1, <2>2 DEF TokenUpdateMembers
  <1>7. \A t \in TokenUpdateSetters : t.assigns \cup t.clears \subseteq MembersOf(TokenUpdateMembers)
    BY DEF TokenUpdateMembers, TokenUpdateSetters
  <1>8. Cut("TokenUpdate", TokenUpdateMembers, TokenUpdateBody)
    BY DEF TokenUpdateMembers, TokenUpdateBody
  <1>9. QED
    BY <1>3, <1>4, <1>5, <1>6, <1>7, <1>8

LEMMA TokenWipeComplete == Complete("TokenWipe", TokenWipeMembers, TokenWipeSetters, TokenWipeBody)
  BY DEF TokenWipeMembers, TokenWipeSetters, TokenWipeBody

LEMMA TopicCreateComplete == Complete("TopicCreate", TopicCreateMembers, TopicCreateSetters, TopicCreateBody)
  <1>1. DOMAIN TopicCreateBody.rules = MembersOf(TopicCreateMembers)
    BY DEF TopicCreateMembers, TopicCreateBody
  <1>2. ASSUME NEW f \in MembersOf(TopicCreateMembers)
        PROVE  \/ <<"TopicCreate", f>> \notin LostMembers
                  /\ Faithful(TopicCreateMembers, TopicCreateSetters, f, TopicCreateBody.rules[f])
               \/ <<"TopicCreate", f>> \in LostMembers \ Exempt /\ Silent(TopicCreateBody.rules[f])
               \/ <<"TopicCreate", f>> \in Exempt
    BY DEF TopicCreateMembers, TopicCreateSetters, TopicCreateBody
  <1>3. Ruled("TopicCreate", TopicCreateMembers, TopicCreateSetters, TopicCreateBody)
    BY <1>1, <1>2
  <1>4. Separate("TopicCreate", TopicCreateMembers, TopicCreateSetters, TopicCreateBody)
    BY DEF TopicCreateMembers, TopicCreateSetters, TopicCreateBody
  <1>5. Checked("TopicCreate", TopicCreateMembers, TopicCreateBody)
    BY DEF TopicCreateMembers, TopicCreateBody
  <1>6. Quiet("TopicCreate", TopicCreateMembers, TopicCreateBody)
    BY DEF TopicCreateMembers, TopicCreateBody
  <1>7. \A t \in TopicCreateSetters : t.assigns \cup t.clears \subseteq MembersOf(TopicCreateMembers)
    BY DEF TopicCreateMembers, TopicCreateSetters
  <1>8. Cut("TopicCreate", TopicCreateMembers, TopicCreateBody)
    BY DEF TopicCreateMembers, TopicCreateBody
  <1>9. QED
    BY <1>3, <1>4, <1>5, <1>6, <1>7, <1>8

LEMMA TopicUpdateComplete == Complete("TopicUpdate", TopicUpdateMembers, TopicUpdateSetters, TopicUpdateBody)
  <1>1. DOMAIN TopicUpdateBody.rules = MembersOf(TopicUpdateMembers)
    BY DEF TopicUpdateMembers, TopicUpdateBody
  <1>2. ASSUME NEW f \in MembersOf(TopicUpdateMembers)
        PROVE  \/ <<"TopicUpdate", f>> \notin LostMembers
                  /\ Faithful(TopicUpdateMembers, TopicUpdateSetters, f, TopicUpdateBody.rules[f])
               \/ <<"TopicUpdate", f>> \in LostMembers \ Exempt /\ Silent(TopicUpdateBody.rules[f])
               \/ <<"TopicUpdate", f>> \in Exempt
    BY DEF TopicUpdateMembers, TopicUpdateSetters, TopicUpdateBody
  <1>3. Ruled("TopicUpdate", TopicUpdateMembers, TopicUpdateSetters, TopicUpdateBody)
    BY <1>1, <1>2
  <1>4. Separate("TopicUpdate", TopicUpdateMembers, TopicUpdateSetters, TopicUpdateBody)
    BY DEF TopicUpdateMembers, TopicUpdateSetters, TopicUpdateBody
  <1>5. Checked("TopicUpdate", TopicUpdateMembers, TopicUpdateBody)
    BY DEF TopicUpdateMembers, TopicUpdateBody
  <1>6. ASSUME NEW f \in MembersOf(TopicUpdateMembers) \ {"topicId"}
        PROVE  /\ ~TopicUpdateBody.rules[f].payer /\ Initially(TopicUpdateMembers)[f] \in TopicUpdateBody.rules[f].unsent
               /\ "none" \notin TopicUpdateBody.rules[f].unread => "zero" \in TopicUpdateBody.rules[f].unsent
    <2>1. CASE f \in {"feeExemptKeys", "customFixedFees"}
      BY <2>1 DEF TopicUpdateMembers, TopicUpdateBody
    <2>2. CASE f = "feeCollectors"
      BY <2>2 DEF TopicUpdateMembers, TopicUpdateBody, Values
    <2>3. CASE f \in TopicUpdateMembers.absent
      BY <2>3 DEF TopicUpdateMembers, TopicUpdateBody
    <2>4. QED
      BY <2>1, <2>2, <2>3 DEF TopicUpdateMembers
  <1>7. \A t \in TopicUpdateSetters : t.assigns \cup t.clears \subseteq MembersOf(TopicUpdateMembers)
    BY DEF TopicUpdateMembers, TopicUpdateSetters
  <1>8. Cut("TopicUpdate", TopicUpdateMembers, TopicUpdateBody)
    BY DEF TopicUpdateMembers, TopicUpdateBody
  <1>9. QED
    BY <1>3, <1>4, <1>5, <1>6, <1>7, <1>8

LEMMA TopicDeleteComplete == Complete("TopicDelete", TopicDeleteMembers, TopicDeleteSetters, TopicDeleteBody)
  BY DEF TopicDeleteMembers, TopicDeleteSetters, TopicDeleteBody

LEMMA TopicMessageSubmitComplete == Complete("TopicMessageSubmit", TopicMessageSubmitMembers, TopicMessageSubmitSetters, TopicMessageSubmitBody)
  BY DEF TopicMessageSubmitMembers, TopicMessageSubmitSetters, TopicMessageSubmitBody

HIDE DEF Complete, Ruled, Faithful, Silent, Separate, Checked, Quiet, Cut,
        LostMembers, DroppedMembers, TopicParts, CutMembers, Exempt, UnsetMembers, UncheckedMembers, UpdateTarget,
        MembersOf, Initially, Optional, Plain, Message, Nonzero, OptionalScalar, Required, Unread,
        Unwritten, Appended, PayerUnlessSet, Chunks, FirstChunk, Rule, ++, Each, Exclusive, Setter

\* The table of every class is.
LEMMA AllComplete ==
  ASSUME NEW k \in Kinds
  PROVE  Complete(k, Table[k].members, Table[k].setters, Table[k].body)
  <1>1. CASE k = "AccountCreate"
    BY <1>1, AccountCreateComplete DEF Table, Class
  <1>2. CASE k = "AccountUpdate"
    BY <1>2, AccountUpdateComplete DEF Table, Class
  <1>3. CASE k = "AccountDelete"
    BY <1>3, AccountDeleteComplete DEF Table, Class
  <1>4. CASE k = "AccountAllowanceApprove"
    BY <1>4, AccountAllowanceApproveComplete DEF Table, Class
  <1>5. CASE k = "AccountAllowanceDelete"
    BY <1>5, AccountAllowanceDeleteComplete DEF Table, Class
  <1>6. CASE k = "Transfer"
    BY <1>6, TransferComplete DEF Table, Class
  <1>7. CASE k = "ContractCreate"
    BY <1>7, ContractCreateComplete DEF Table, Class
  <1>8. CASE k = "ContractUpdate"
    BY <1>8, ContractUpdateComplete DEF Table, Class
  <1>9. CASE k = "ContractDelete"
    BY <1>9, ContractDeleteComplete DEF Table, Class
  <1>10. CASE k = "ContractExecute"
    BY <1>10, ContractExecuteComplete DEF Table, Class
  <1>11. CASE k = "Ethereum"
    BY <1>11, EthereumComplete DEF Table, Class
  <1>12. CASE k = "HookStore"
    BY <1>12, HookStoreComplete DEF Table, Class
  <1>13. CASE k = "FileCreate"
    BY <1>13, FileCreateComplete DEF Table, Class
  <1>14. CASE k = "FileUpdate"
    BY <1>14, FileUpdateComplete DEF Table, Class
  <1>15. CASE k = "FileAppend"
    BY <1>15, FileAppendComplete DEF Table, Class
  <1>16. CASE k = "FileDelete"
    BY <1>16, FileDeleteComplete DEF Table, Class
  <1>17. CASE k = "SystemDelete"
    BY <1>17, SystemDeleteComplete DEF Table, Class
  <1>18. CASE k = "SystemUndelete"
    BY <1>18, SystemUndeleteComplete DEF Table, Class
  <1>19. CASE k = "Freeze"
    BY <1>19, FreezeComplete DEF Table, Class
  <1>20. CASE k = "Prng"
    BY <1>20, PrngComplete DEF Table, Class
  <1>21. CASE k = "NodeCreate"
    BY <1>21, NodeCreateComplete DEF Table, Class
  <1>22. CASE k = "NodeUpdate"
    BY <1>22, NodeUpdateComplete DEF Table, Class
  <1>23. CASE k = "NodeDelete"
    BY <1>23, NodeDeleteComplete DEF Table, Class
  <1>24. CASE k = "RegisteredNodeCreate"
    BY <1>24, RegisteredNodeCreateComplete DEF Table, Class
  <1>25. CASE k = "RegisteredNodeUpdate"
    BY <1>25, RegisteredNodeUpdateComplete DEF Table, Class
  <1>26. CASE k = "RegisteredNodeDelete"
    BY <1>26, RegisteredNodeDeleteComplete DEF Table, Class
  <1>27. CASE k = "ScheduleCreate"
    BY <1>27, ScheduleCreateComplete DEF Table, Class
  <1>28. CASE k = "ScheduleDelete"
    BY <1>28, ScheduleDeleteComplete DEF Table, Class
  <1>29. CASE k = "ScheduleSign"
    BY <1>29, ScheduleSignComplete DEF Table, Class
  <1>30. CASE k = "Batch"
    BY <1>30, BatchComplete DEF Table, Class
  <1>31. CASE k = "TokenAirdrop"
    BY <1>31, TokenAirdropComplete DEF Table, Class
  <1>32. CASE k = "TokenAssociate"
    BY <1>32, TokenAssociateComplete DEF Table, Class
  <1>33. CASE k = "TokenBurn"
    BY <1>33, TokenBurnComplete DEF Table, Class
  <1>34. CASE k = "TokenCancelAirdrop"
    BY <1>34, TokenCancelAirdropComplete DEF Table, Class
  <1>35. CASE k = "TokenClaimAirdrop"
    BY <1>35, TokenClaimAirdropComplete DEF Table, Class
  <1>36. CASE k = "TokenCreate"
    BY <1>36, TokenCreateComplete DEF Table, Class
  <1>37. CASE k = "TokenDelete"
    BY <1>37, TokenDeleteComplete DEF Table, Class
  <1>38. CASE k = "TokenDissociate"
    BY <1>38, TokenDissociateComplete DEF Table, Class
  <1>39. CASE k = "TokenFeeScheduleUpdate"
    BY <1>39, TokenFeeScheduleUpdateComplete DEF Table, Class
  <1>40. CASE k = "TokenFreeze"
    BY <1>40, TokenFreezeComplete DEF Table, Class
  <1>41. CASE k = "TokenGrantKyc"
    BY <1>41, TokenGrantKycComplete DEF Table, Class
  <1>42. CASE k = "TokenMint"
    BY <1>42, TokenMintComplete DEF Table, Class
  <1>43. CASE k = "TokenPause"
    BY <1>43, TokenPauseComplete DEF Table, Class
  <1>44. CASE k = "TokenReject"
    BY <1>44, TokenRejectComplete DEF Table, Class
  <1>45. CASE k = "TokenRevokeKyc"
    BY <1>45, TokenRevokeKycComplete DEF Table, Class
  <1>46. CASE k = "TokenUnfreeze"
    BY <1>46, TokenUnfreezeComplete DEF Table, Class
  <1>47. CASE k = "TokenUnpause"
    BY <1>47, TokenUnpauseComplete DEF Table, Class
  <1>48. CASE k = "TokenUpdateNfts"
    BY <1>48, TokenUpdateNftsComplete DEF Table, Class
  <1>49. CASE k = "TokenUpdate"
    BY <1>49, TokenUpdateComplete DEF Table, Class
  <1>50. CASE k = "TokenWipe"
    BY <1>50, TokenWipeComplete DEF Table, Class
  <1>51. CASE k = "TopicCreate"
    BY <1>51, TopicCreateComplete DEF Table, Class
  <1>52. CASE k = "TopicUpdate"
    BY <1>52, TopicUpdateComplete DEF Table, Class
  <1>53. CASE k = "TopicDelete"
    BY <1>53, TopicDeleteComplete DEF Table, Class
  <1>54. CASE k = "TopicMessageSubmit"
    BY <1>54, TopicMessageSubmitComplete DEF Table, Class
  <1>55. k \in {"AccountCreate", "AccountUpdate", "AccountDelete", "AccountAllowanceApprove",
           "AccountAllowanceDelete", "Transfer", "ContractCreate", "ContractUpdate",
           "ContractDelete", "ContractExecute", "Ethereum", "HookStore", "FileCreate",
           "FileUpdate", "FileAppend", "FileDelete", "SystemDelete", "SystemUndelete",
           "Freeze", "Prng", "NodeCreate", "NodeUpdate", "NodeDelete",
           "RegisteredNodeCreate", "RegisteredNodeUpdate", "RegisteredNodeDelete",
           "ScheduleCreate", "ScheduleDelete", "ScheduleSign", "Batch", "TokenAirdrop",
           "TokenAssociate", "TokenBurn", "TokenCancelAirdrop", "TokenClaimAirdrop",
           "TokenCreate", "TokenDelete", "TokenDissociate", "TokenFeeScheduleUpdate",
           "TokenFreeze", "TokenGrantKyc", "TokenMint", "TokenPause", "TokenReject",
           "TokenRevokeKyc", "TokenUnfreeze", "TokenUnpause", "TokenUpdateNfts",
           "TokenUpdate", "TokenWipe", "TopicCreate", "TopicUpdate", "TopicDelete",
           "TopicMessageSubmit"}
    BY DEF Kinds, Table
  <1>56. QED
    BY <1>1, <1>2, <1>3, <1>4, <1>5, <1>6, <1>7, <1>8, <1>9, <1>10, <1>11, <1>12,
       <1>13, <1>14, <1>15, <1>16, <1>17, <1>18, <1>19, <1>20, <1>21, <1>22, <1>23,
       <1>24, <1>25, <1>26, <1>27, <1>28, <1>29, <1>30, <1>31, <1>32, <1>33, <1>34,
       <1>35, <1>36, <1>37, <1>38, <1>39, <1>40, <1>41, <1>42, <1>43, <1>44, <1>45,
       <1>46, <1>47, <1>48, <1>49, <1>50, <1>51, <1>52, <1>53, <1>54, <1>55

-----------------------------------------------------------------------------
(***************************************************************************)
(* One member on the wire and back.                                        *)
(***************************************************************************)
\* What a rule puts into a field, and what it takes out of it.
Put(rule, x) == IF x \in rule.unsent THEN "none" ELSE OnWire(x)
Sent(rule, x, w) == w = Put(rule, x) \/ (rule.payer /\ Put(rule, x) = "none" /\ w = "value")
Got(rule, start, w) == IF w \in rule.unread THEN start ELSE IF w = "none" THEN "zero" ELSE w

\* What a member may hold after setters that set or reset the members of t: an
\* ID may be of another ledger, and nothing is left of it only if it was reset.
MayHold(m, s, t, f, x) ==
  /\ x \in Values
  /\ f \notin t => x = Initially(m)[f]
  /\ f \in t => x \in {"zero", "value", "bad"} \/ (x = "absent" /\ f \in m.absent /\ \E u \in s : f \in u.clears)
  /\ x = "bad" => f \in m.ids

\* A transaction of which the setters have set or reset the members of t.
Possible(k, t, fl) ==
  LET m == MembersTable(k)
  IN  /\ DOMAIN fl = MembersOf(m) /\ t \subseteq MembersOf(m)
      /\ \A f \in MembersOf(m) : MayHold(m, Table[k].setters, t, f, fl[f])
      /\ \A p \in Body(k).oneofs : "absent" \in {fl[p[1]], fl[p[2]]}

\* w is the body of the transaction fl, and fl is what is read of the body w, but
\* for the members of E.
BodyOf(k, fl, w) ==
  \A f \in MembersOf(MembersTable(k)) :
    <<k, f>> \in Exempt \/ Sent(Body(k).rules[f], fl[f], w[f])
ReadOf(k, w, fl, E) ==
  /\ DOMAIN fl = MembersOf(MembersTable(k))
  /\ \A f \in MembersOf(MembersTable(k)) :
       \/ <<k, f>> \in E
       \/ fl[f] = Got(Body(k).rules[f], Initially(MembersTable(k))[f], w[f])

\* What the constructor makes of a member.
LEMMA InitiallyIs ==
  ASSUME NEW m
  PROVE  /\ DOMAIN Initially(m) = MembersOf(m)
         /\ \A f \in MembersOf(m) :
              Initially(m)[f] = IF f \in m.absent THEN "absent" ELSE IF f \in m.zero THEN "zero" ELSE "preset"
  BY DEF Initially

\* What was set is read as it was set.
LEMMA ReadAsSet ==
  ASSUME NEW m, NEW s, NEW t, NEW f \in t, t \subseteq MembersOf(m), NEW rule, NEW x, NEW w,
         Faithful(m, s, f, rule), MayHold(m, s, t, f, x), Sent(rule, x, w)
  PROVE  Got(rule, Initially(m)[f], w) = OnWire(x)
  <1> DEFINE start == Initially(m)[f]
  <1>1. x \in {"zero", "value", "bad"} \/ (x = "absent" /\ f \in m.absent /\ \E u \in s : f \in u.clears)
    BY DEF MayHold
  <1>2. start = IF f \in m.absent THEN "absent" ELSE IF f \in m.zero THEN "zero" ELSE "preset"
    BY InitiallyIs
  <1> HIDE DEF start
  <1>3. w = Put(rule, x)
    BY <1>1 DEF Faithful, Sent, Put, OnWire
  <1>4. QED
    BY <1>1, <1>2, <1>3 DEF Faithful, Got, Put, OnWire, start

\* What is read is written as it was written.
LEMMA WrittenAsRead ==
  ASSUME NEW m, NEW s, NEW f \in MembersOf(m), NEW rule, NEW x \in Values, NEW w,
         Faithful(m, s, f, rule) \/ Silent(rule), Sent(rule, x, w)
  PROVE  Put(rule, Got(rule, Initially(m)[f], w)) = w
  <1> DEFINE start == Initially(m)[f]
  <1>1. start = IF f \in m.absent THEN "absent" ELSE IF f \in m.zero THEN "zero" ELSE "preset"
    BY InitiallyIs
  <1> HIDE DEF start
  <1>2. CASE Silent(rule)
    BY <1>2 DEF Silent, Got, Put, Sent, Values, start
  <1>3. CASE Faithful(m, s, f, rule) /\ w = Put(rule, x)
    BY <1>1, <1>3 DEF Faithful, Got, Put, OnWire, Values, start
  <1>4. CASE Faithful(m, s, f, rule) /\ w # Put(rule, x)
    <2>1. rule.unsent = {"absent"} /\ rule.unread = {"none"} /\ w = "value"
      BY <1>4 DEF Faithful, Sent
    <2>2. QED
      BY <2>1 DEF Got, Put, OnWire
  <1>5. QED
    BY <1>2, <1>3, <1>4

-----------------------------------------------------------------------------
(***************************************************************************)
(* All members.                                                            *)
(***************************************************************************)
\* What AllComplete says, by parts.
LEMMA TableFacts ==
  ASSUME NEW k \in Kinds
  PROVE  /\ Ruled(k, MembersTable(k), Table[k].setters, Body(k))
         /\ Separate(k, MembersTable(k), Table[k].setters, Body(k))
         /\ Checked(k, MembersTable(k), Body(k)) /\ Quiet(k, MembersTable(k), Body(k))
         /\ Cut(k, MembersTable(k), Body(k))
         /\ \A t \in Table[k].setters : t.assigns \cup t.clears \subseteq MembersOf(MembersTable(k))
  BY AllComplete DEF Complete, MembersTable, Body

\* A new transaction.
LEMMA NewIsPossible ==
  ASSUME NEW k \in Kinds
  PROVE  Possible(k, {}, Initially(MembersTable(k)))
  <1> DEFINE m == MembersTable(k)
             fl == Initially(m)
  <1>1. Separate(k, m, Table[k].setters, Body(k))
    BY TableFacts
  <1>2. /\ DOMAIN fl = MembersOf(m)
        /\ \A f \in MembersOf(m) : fl[f] \in {"absent", "zero", "preset"}
        /\ \A f \in m.absent : fl[f] = "absent"
    BY InitiallyIs DEF MembersOf
  <1> HIDE DEF m, fl
  <1>3. \A f \in MembersOf(m) : MayHold(m, Table[k].setters, {}, f, fl[f])
    BY <1>2 DEF MayHold, Values, fl
  <1>4. \A p \in Body(k).oneofs : "absent" \in {fl[p[1]], fl[p[2]]}
    BY <1>1, <1>2 DEF Separate
  <1>5. QED
    BY <1>2, <1>3, <1>4 DEF Possible, m, fl

\* A setter of a transaction.
LEMMA EditedIsPossible ==
  ASSUME NEW k \in Kinds, NEW t, NEW fl, Possible(k, t, fl),
         NEW s \in Table[k].setters, NEW v \in {"zero", "value", "bad"}
  PROVE  Possible(k, t \cup s.assigns \cup s.clears, Assigned(MembersTable(k), fl, s, v))
  <1> DEFINE m == MembersTable(k)
             S == Table[k].setters
             u == t \cup s.assigns \cup s.clears
             new == Assigned(m, fl, s, v)
  <1>1. /\ Separate(k, m, S, Body(k)) /\ s.assigns \cup s.clears \subseteq MembersOf(m)
        /\ s \in S
    BY TableFacts
  <1>2. /\ DOMAIN fl = MembersOf(m) /\ t \subseteq MembersOf(m)
        /\ \A f \in MembersOf(m) : MayHold(m, S, t, f, fl[f])
        /\ \A p \in Body(k).oneofs : "absent" \in {fl[p[1]], fl[p[2]]}
    BY DEF Possible
  <1> HIDE DEF m, S
  <1>3. /\ DOMAIN new = MembersOf(m)
        /\ \A f \in MembersOf(m) :
             new[f] = IF f \in s.assigns THEN Given(m, f, v)
                      ELSE IF f \in s.clears THEN IF f \in m.absent THEN "absent" ELSE "zero"
                      ELSE fl[f]
    BY <1>2 DEF Assigned
  <1> HIDE DEF new
  <1>4. ASSUME NEW f \in MembersOf(m)
        PROVE  MayHold(m, S, u, f, new[f])
    <2>1. CASE f \in s.assigns
      BY <1>3, <2>1 DEF MayHold, Given, Values
    <2>2. CASE f \notin s.assigns /\ f \in s.clears
      BY <1>1, <1>3, <2>2 DEF MayHold, Values
    <2>3. CASE f \notin s.assigns /\ f \notin s.clears
      BY <1>2, <1>3, <2>3 DEF MayHold
    <2>4. QED
      BY <2>1, <2>2, <2>3
  <1>5. ASSUME NEW p \in Body(k).oneofs
        PROVE  "absent" \in {new[p[1]], new[p[2]]}
    <2>1. /\ p[1] \in m.absent /\ p[2] \in m.absent
          /\ p[1] \in s.assigns => p[2] \in s.clears \ s.assigns
          /\ p[2] \in s.assigns => p[1] \in s.clears \ s.assigns
      BY <1>1 DEF Separate
    <2>2. p[1] \in MembersOf(m) /\ p[2] \in MembersOf(m)
      BY <2>1 DEF MembersOf
    <2>3. "absent" \in {fl[p[1]], fl[p[2]]}
      BY <1>2
    <2>4. QED
      BY <1>3, <2>1, <2>2, <2>3
  <1>6. QED
    BY <1>1, <1>2, <1>3, <1>4, <1>5 DEF Possible, m, S, new

\* Of members that leave one of each oneof absent, each is written by its rule.
LEMMA WrittenIsPut ==
  ASSUME NEW k \in Kinds, NEW fl, DOMAIN fl = MembersOf(MembersTable(k)),
         \A p \in Body(k).oneofs : "absent" \in {fl[p[1]], fl[p[2]]}
  PROVE  \A f \in MembersOf(MembersTable(k)) : Written(Body(k), fl)[f] = Put(Body(k).rules[f], fl[f])
  <1> DEFINE b == Body(k)
             m == MembersTable(k)
  <1>1. Ruled(k, m, Table[k].setters, b) /\ Separate(k, m, Table[k].setters, b)
    BY TableFacts
  <1> HIDE DEF b, m
  <1> SUFFICES ASSUME NEW f \in MembersOf(m)
               PROVE  Written(b, fl)[f] = Put(b.rules[f], fl[f])
    BY DEF b, m
  <1>2. f \in DOMAIN b.rules
    BY <1>1 DEF Ruled
  <1>3. ASSUME NEW g \in DOMAIN fl, <<g, f>> \in b.oneofs, fl[g] \notin b.rules[g].unsent
        PROVE  fl[f] \in b.rules[f].unsent
    <2>1. /\ "absent" \in b.rules[g].unsent /\ "absent" \in b.rules[f].unsent
      BY <1>1, <1>3 DEF Separate
    <2>2. "absent" \in {fl[g], fl[f]}
      BY <1>3 DEF b
    <2>3. QED
      BY <1>3, <2>1, <2>2
  <1>4. QED
    BY <1>2, <1>3 DEF Written, Put

\* Nothing that is built into a body is built twice, but for Exempt.
LEMMA IntoIsWritten ==
  ASSUME NEW k \in Kinds, NEW fl, NEW src
  PROVE  /\ DOMAIN WrittenInto(Body(k), fl, src) = MembersOf(MembersTable(k))
         /\ \A f \in MembersOf(MembersTable(k)) :
              <<k, f>> \in Exempt \/ WrittenInto(Body(k), fl, src)[f] = Written(Body(k), fl)[f]
  <1> DEFINE b == Body(k)
             m == MembersTable(k)
             w == Written(b, fl)
  <1>1. Ruled(k, m, Table[k].setters, b)
    BY TableFacts
  <1>2. DOMAIN w = DOMAIN b.rules
    BY DEF Written
  <1> HIDE DEF b, m, w
  <1>3. DOMAIN b.rules = MembersOf(m)
    BY <1>1 DEF Ruled
  <1>4. ASSUME NEW f \in MembersOf(m)
        PROVE  <<k, f>> \in Exempt \/ ~b.rules[f].appended
    BY <1>1 DEF Ruled, Faithful, Silent
  <1>5. WrittenInto(b, fl, src) = [f \in DOMAIN w |->
                                     IF b.rules[f].appended /\ src[f] # "none"
                                       THEN IF w[f] = "none" THEN src[f] ELSE "twice"
                                       ELSE w[f]]
    BY DEF WrittenInto, w
  <1>6. QED
    BY <1>2, <1>3, <1>4, <1>5 DEF b, m, w

\* Where an ID is in the body, its payer may fill a field that is left out.
LEMMA UpdatedIsWritten ==
  ASSUME NEW k \in Kinds, NEW fl, NEW src, NEW identified \in BOOLEAN
  PROVE  \A f \in MembersOf(MembersTable(k)) :
           \/ <<k, f>> \in Exempt
           \/ Updated(k, fl, src, identified)[f] = Written(Body(k), fl)[f]
           \/ /\ Body(k).rules[f].payer /\ Written(Body(k), fl)[f] = "none"
              /\ Updated(k, fl, src, identified)[f] = "value"
  <1> DEFINE into == WrittenInto(Body(k), fl, src)
  <1>1. Updated(k, fl, src, identified) = IF identified THEN WithPayer(Body(k), into) ELSE into
    BY DEF Updated
  <1>2. /\ DOMAIN into = MembersOf(MembersTable(k))
        /\ \A f \in MembersOf(MembersTable(k)) : <<k, f>> \in Exempt \/ into[f] = Written(Body(k), fl)[f]
    BY IntoIsWritten
  <1> HIDE DEF into
  <1>3. QED
    BY <1>1, <1>2 DEF WithPayer

\* The body of a transaction.
LEMMA UpdatedIsBody ==
  ASSUME NEW k \in Kinds, NEW fl, NEW src, NEW identified \in BOOLEAN,
         DOMAIN fl = MembersOf(MembersTable(k)),
         \A p \in Body(k).oneofs : "absent" \in {fl[p[1]], fl[p[2]]}
  PROVE  BodyOf(k, fl, Updated(k, fl, src, identified))
  <1> SUFFICES ASSUME NEW f \in MembersOf(MembersTable(k)), <<k, f>> \notin Exempt
               PROVE  Sent(Body(k).rules[f], fl[f], Updated(k, fl, src, identified)[f])
    BY DEF BodyOf
  <1>1. Written(Body(k), fl)[f] = Put(Body(k).rules[f], fl[f])
    BY WrittenIsPut
  <1>2. QED
    BY <1>1, UpdatedIsWritten DEF Sent

\* What is left out of what is read: of several chunks, all but the first.
Unseen(way) == IF way = "chunks" THEN Exempt \cup CutMembers ELSE Exempt

\* The way it is read matters to the parts of a message and of an append alone.
LEMMA ReadIsGot ==
  ASSUME NEW k \in Kinds, NEW w, NEW way \in Ways
  PROVE  ReadOf(k, w, ReadBack(MembersTable(k), Body(k), w, way), Unseen(way))
  <1> DEFINE b == Body(k)
             m == MembersTable(k)
             fl == ReadBack(m, b, w, way)
  <1>1. Ruled(k, m, Table[k].setters, b) /\ Cut(k, m, b)
    BY TableFacts
  <1> HIDE DEF b, m
  <1>2. DOMAIN fl = MembersOf(m)
    BY <1>1 DEF ReadBack, Ruled
  <1>3. ASSUME NEW f \in MembersOf(m), <<k, f>> \notin Unseen(way)
        PROVE  fl[f] = Got(b.rules[f], Initially(m)[f], w[f])
    <2>1. /\ b.rules[f].chunks # "joined" /\ f \in DOMAIN b.rules
          /\ b.rules[f].chunks = "first" => way # "chunks"
      BY <1>1, <1>3 DEF Ruled, Faithful, Silent, Cut, Unseen
    <2>2. QED
      BY <2>1 DEF ReadBack, Got
  <1>4. QED
    BY <1>2, <1>3 DEF ReadOf, b, m

\* What somebody else reads shows what was set, has one member of each oneof at
\* most, and is written as it was written before.
LEMMA Reread ==
  ASSUME NEW k \in Kinds, NEW t, NEW made_, NEW w, NEW fl, NEW way \in Ways,
         Possible(k, t, made_), BodyOf(k, made_, w), ReadOf(k, w, fl, Unseen(way))
  PROVE  /\ \A f \in t : <<k, f>> \in LostMembers \cup Unseen(way) \/ fl[f] = OnWire(made_[f])
         /\ \A p \in Body(k).oneofs : "absent" \in {fl[p[1]], fl[p[2]]}
         /\ \A f \in MembersOf(MembersTable(k)) :
              <<k, f>> \in Unseen(way) \/ Put(Body(k).rules[f], fl[f]) = w[f]
  <1> DEFINE b == Body(k)
             m == MembersTable(k)
             S == Table[k].setters
             E == Unseen(way)
  <1>1. Ruled(k, m, S, b) /\ Separate(k, m, S, b)
    BY TableFacts
  <1>2. /\ t \subseteq MembersOf(m)
        /\ \A f \in MembersOf(m) : MayHold(m, S, t, f, made_[f])
        /\ \A p \in b.oneofs : "absent" \in {made_[p[1]], made_[p[2]]}
        /\ \A f \in MembersOf(m) : <<k, f>> \in Exempt \/ Sent(b.rules[f], made_[f], w[f])
        /\ \A f \in MembersOf(m) : <<k, f>> \in E \/ fl[f] = Got(b.rules[f], Initially(m)[f], w[f])
    BY DEF Possible, BodyOf, ReadOf
  <1>3. Exempt \subseteq LostMembers /\ Exempt \subseteq E /\ E \subseteq LostMembers \cup CutMembers
    BY DEF LostMembers, Unseen
  <1> HIDE DEF b, m, S, E
  <1>4. ASSUME NEW f \in t, <<k, f>> \notin LostMembers \cup E
        PROVE  fl[f] = OnWire(made_[f])
    <2>1. Faithful(m, S, f, b.rules[f]) /\ <<k, f>> \notin Exempt /\ f \in MembersOf(m)
      BY <1>1, <1>2, <1>3, <1>4 DEF Ruled
    <2>2. QED
      BY <1>2, <1>4, <2>1, ReadAsSet
  <1>5. ASSUME NEW p \in b.oneofs
        PROVE  "absent" \in {fl[p[1]], fl[p[2]]}
    <2>1. ASSUME NEW g \in {p[1], p[2]}, made_[g] = "absent"
          PROVE  fl[g] = "absent"
      <3>1. /\ g \in m.absent /\ <<k, g>> \notin LostMembers \cup CutMembers /\ ~b.rules[g].payer
            /\ "absent" \in b.rules[g].unsent /\ b.rules[g].unread = {"none"}
        BY <1>1, <2>1 DEF Separate
      <3>2. g \in MembersOf(m) /\ Initially(m)[g] = "absent"
        BY <3>1, InitiallyIs DEF MembersOf
      <3>3. w[g] = "none"
        BY <1>2, <1>3, <2>1, <3>1, <3>2 DEF Put, Sent
      <3>4. QED
        BY <1>2, <1>3, <3>1, <3>2, <3>3 DEF Got
    <2>2. QED
      BY <1>2, <2>1
  <1>6. ASSUME NEW f \in MembersOf(m), <<k, f>> \notin E
        PROVE  Put(b.rules[f], fl[f]) = w[f]
    <2>1. (Faithful(m, S, f, b.rules[f]) \/ Silent(b.rules[f])) /\ <<k, f>> \notin Exempt
      BY <1>1, <1>3, <1>6 DEF Ruled
    <2>2. made_[f] \in Values
      BY <1>2 DEF MayHold
    <2>3. QED
      BY <1>2, <1>6, <2>1, <2>2, WrittenAsRead
  <1>7. QED
    BY <1>4, <1>5, <1>6 DEF b, m, E

-----------------------------------------------------------------------------
(***************************************************************************)
(* What is read, and what goes out in a schedule.                          *)
(***************************************************************************)
\* Kinds a schedule takes, sends and reads as what they are.
Scheduled == ScheduledKinds \ UnscheduledKinds

\* Before it is read, a frozen transaction is what its members say; after that,
\* the members are what its first body says, and what goes out is that body.
Followed ==
  /\ kind \in Kinds /\ made.kind = kind
  /\ phase = "made" => Possible(kind, touched, fields) /\ (frozen => BodyOf(kind, fields, source))
  /\ phase \in {"restored", "wrapped", "submitted", "inspected"} =>
       /\ Possible(kind, touched, made.fields)
       /\ BodyOf(kind, made.fields, made.body)
       /\ \E way \in Ways : /\ phase # "restored" => way = "body"
                            /\ ReadOf(kind, made.body, fields, Unseen(way))
  /\ phase = "wrapped" => source = made.body
  /\ phase = "submitted" =>
       \A f \in MembersOf(MembersTable(kind)) : <<kind, f>> \in DroppedMembers \/ source[f] = made.body[f]
  /\ phase = "refused" => kind \notin Scheduled

\* The lists of the code agree on these.
LEMMA ScheduledFacts ==
  /\ \A k \in Kinds : FromBytes[k] = k
  /\ \A k \in Scheduled : k \in DOMAIN FromBody /\ FromBody[k] = k /\ k \in ToSchedulable
  /\ \A k \in Scheduled : k \in DOMAIN FromSchedulable /\ FromSchedulable[k] = k
  <1>1. \A k \in Kinds : FromBytes[k] = k
    BY DEF FromBytes
  <1>2. Scheduled \subseteq ToSchedulable
    BY DEF Scheduled, ScheduledKinds, UnscheduledKinds, ToSchedulable
  <1>3. /\ Scheduled \subseteq ScheduledKinds
        /\ \A k \in Scheduled : k \notin {"AccountDelete", "ScheduleDelete", "TokenUnfreeze"}
        /\ \A k \in Scheduled : k \notin {"TokenAirdrop", "TokenCancelAirdrop", "TokenClaimAirdrop"}
        /\ \A k \in Scheduled : k # "TokenUpdate"
    BY DEF Scheduled, ScheduledKinds, UnscheduledKinds
  <1>4. ScheduledKinds \subseteq Kinds
    BY DEF ScheduledKinds, Kinds, Table
  <1>5. \A k \in Scheduled : k \in DOMAIN FromBody /\ FromBody[k] = k
    BY <1>3, <1>4 DEF FromBody
  <1>6. \A k \in Scheduled : k \in DOMAIN FromSchedulable /\ FromSchedulable[k] = k
    BY <1>3 DEF FromSchedulable
  <1>7. QED
    BY <1>1, <1>2, <1>5, <1>6

\* A new transaction.
LEMMA InitFollowed == Init => Followed
  <1> SUFFICES ASSUME Init PROVE Followed
    OBVIOUS
  <1>1. kind \in Kinds /\ made.kind = kind /\ phase = "made" /\ frozen = FALSE
        /\ touched = {} /\ fields = Initially(MembersTable(kind))
    BY DEF Init
  <1>2. QED
    BY <1>1, NewIsPossible DEF Followed

\* What does not touch the members of a transaction that is not read.
LEMMA EditFollowed ==
  ASSUME Followed, NEW s \in Table[kind].setters, NEW v \in {"zero", "value", "bad"}, Edit(s, v)
  PROVE  Followed'
  <1>1. /\ phase = "made" /\ phase' = "made" /\ ~frozen /\ UNCHANGED <<kind, frozen, made>>
        /\ fields' = Assigned(MembersTable(kind), fields, s, v)
        /\ touched' = touched \cup s.assigns \cup s.clears
    BY DEF Edit
  <1>2. Possible(kind, touched', fields')
    BY <1>1, EditedIsPossible DEF Followed
  <1>3. QED
    BY <1>1, <1>2 DEF Followed

\* freezeWith and regenerateSignedTransactions build the body again.
LEMMA BuildFollowed ==
  ASSUME Followed, Freeze \/ Regenerate
  PROVE  Followed'
  <1>1. /\ phase \in {"made", "restored"} /\ UNCHANGED <<kind, fields, phase, made, touched>>
        /\ source' = Updated(kind, fields, source, TRUE)
    BY DEF Freeze, Regenerate
  <1>2. CASE phase = "made"
    <2>1. BodyOf(kind, fields, source')
      BY <1>1, <1>2, UpdatedIsBody DEF Followed, Possible
    <2>2. QED
      BY <1>1, <1>2, <2>1 DEF Followed
  <1>3. CASE phase = "restored"
    BY <1>1, <1>3 DEF Followed
  <1>4. QED
    BY <1>1, <1>2, <1>3

\* A transaction is read from its bytes, or as the content of a schedule.
LEMMA ReadFollowed ==
  ASSUME Followed, phase = "made", NEW src, NEW way \in Ways, NEW identified \in BOOLEAN,
         (src = source /\ frozen) \/ src = Updated(kind, fields, source, identified),
         UNCHANGED <<kind, touched>>, source' = src,
         made' = [kind |-> kind, fields |-> fields, body |-> src],
         \/ /\ phase' = "restored" \/ (phase' = "wrapped" /\ way = "body")
            /\ fields' = ReadBack(MembersTable(kind), Body(kind), src, way)
         \/ phase' = "refused" /\ kind \notin Scheduled
  PROVE  Followed'
  <1>1. Possible(kind, touched, fields) /\ kind \in Kinds
    BY DEF Followed
  <1>2. BodyOf(kind, fields, src)
    BY <1>1, UpdatedIsBody DEF Followed, Possible
  <1>3. /\ made'.kind = kind' /\ made'.fields = fields /\ made'.body = src
        /\ kind' \in Kinds
    BY <1>1
  <1>4. CASE phase' = "refused" /\ kind \notin Scheduled
    BY <1>3, <1>4 DEF Followed
  <1>5. CASE /\ phase' = "restored" \/ (phase' = "wrapped" /\ way = "body")
             /\ fields' = ReadBack(MembersTable(kind), Body(kind), src, way)
    <2>1. ReadOf(kind, src, fields', Unseen(way))
      BY <1>1, <1>5, ReadIsGot
    <2>2. QED
      BY <1>1, <1>2, <1>3, <1>5, <2>1 DEF Followed
  <1>6. QED
    BY <1>4, <1>5

\* toBytes and fromBytes, and schedule.
LEMMA RestoreFollowed ==
  ASSUME Followed, NEW way \in Ways, NEW identified \in BOOLEAN,
         Restore(way, identified) \/ Schedule(identified)
  PROVE  Followed'
  <1>1. CASE Restore(way, identified)
    <2> DEFINE src == IF frozen THEN source ELSE Updated(kind, fields, source, identified)
    <2>1. FromBytes[kind] = kind
      BY ScheduledFacts DEF Followed
    <2>2. /\ phase = "made" /\ UNCHANGED <<kind, touched>> /\ source' = src
          /\ made' = [kind |-> kind, fields |-> fields, body |-> src]
          /\ fields' = ReadBack(MembersTable(kind), Body(kind), src, way) /\ phase' = "restored"
      BY <1>1, <2>1 DEF Restore
    <2>3. (src = source /\ frozen) \/ src = Updated(kind, fields, source, identified)
      OBVIOUS
    <2> HIDE DEF src
    <2>4. QED
      BY <2>2, <2>3, ReadFollowed
  <1>2. CASE Schedule(identified)
    <2> DEFINE src == Updated(kind, fields, source, identified)
    <2>1. /\ phase = "made" /\ UNCHANGED <<kind, touched>> /\ source' = src
          /\ made' = [kind |-> kind, fields |-> fields, body |-> src]
          /\ \/ fields' = ReadBack(MembersTable(kind), Body(kind), src, "body") /\ phase' = "wrapped"
             \/ phase' = "refused" /\ ~(kind \in DOMAIN FromBody /\ FromBody[kind] = kind)
      BY <1>2 DEF Schedule
    <2>2. phase' = "refused" => kind \notin Scheduled
      BY <2>1, ScheduledFacts
    <2>3. src = Updated(kind, fields, source, identified) /\ "body" \in Ways
      BY DEF Ways
    <2> HIDE DEF src
    <2>4. QED
      BY <2>1, <2>2, <2>3, ReadFollowed
  <1>3. QED
    BY <1>1, <1>2

\* ScheduleCreateTransaction::build.
LEMMA SubmitFollowed ==
  ASSUME Followed, Submit
  PROVE  Followed'
  <1> DEFINE m == MembersTable(kind)
  <1>1. /\ phase = "wrapped" /\ UNCHANGED <<kind, fields, made, touched>>
        /\ source' = Rewritten(kind, fields, source)
        /\ phase' = IF kind \in ToSchedulable THEN "submitted" ELSE "refused"
    BY DEF Submit
  <1>2. /\ kind \in Kinds /\ source = made.body /\ Possible(kind, touched, made.fields)
        /\ BodyOf(kind, made.fields, made.body) /\ ReadOf(kind, made.body, fields, Exempt)
    BY <1>1 DEF Followed, Unseen
  <1>3. ASSUME NEW f \in MembersOf(m), <<kind, f>> \notin DroppedMembers
        PROVE  source'[f] = made.body[f]
    <2>1. CASE kind = "TopicMessageSubmit"
      BY <1>1, <1>2, <2>1 DEF Rewritten
    <2>2. CASE kind # "TopicMessageSubmit"
      <3>1. <<kind, f>> \notin Exempt
        BY <1>3, <2>2 DEF Exempt, TopicParts
      <3>2. /\ \A p \in Body(kind).oneofs : "absent" \in {fields[p[1]], fields[p[2]]}
            /\ Put(Body(kind).rules[f], fields[f]) = made.body[f] /\ DOMAIN fields = MembersOf(m)
        BY <1>2, <3>1, Reread, Unseen("body") = Exempt, "body" \in Ways DEF ReadOf, Unseen, Ways
      <3>3. Updated(kind, fields, source, FALSE)[f] = Put(Body(kind).rules[f], fields[f])
        <4>1. Written(Body(kind), fields)[f] = Put(Body(kind).rules[f], fields[f])
          BY <1>2, <3>2, WrittenIsPut
        <4>2. Updated(kind, fields, source, FALSE)[f] = Written(Body(kind), fields)[f]
          BY <1>2, <3>1, IntoIsWritten DEF Updated
        <4>3. QED
          BY <4>1, <4>2
      <3>4. QED
        BY <1>1, <2>2, <3>2, <3>3 DEF Rewritten
    <2>3. QED
      BY <2>1, <2>2
  <1>4. phase' = "refused" => kind \notin Scheduled
    BY <1>1, ScheduledFacts
  <1>5. kind' \in Kinds /\ made'.kind = kind' /\ phase' \in {"submitted", "refused"}
    BY <1>1 DEF Followed
  <1>6. QED
    BY <1>1, <1>2, <1>3, <1>4, <1>5 DEF Followed

\* ScheduleInfo::fromProtobuf.
LEMMA InspectFollowed ==
  ASSUME Followed, Inspect
  PROVE  Followed'
  <1> DEFINE m == MembersTable(kind)
  <1>1. /\ phase = "submitted" /\ UNCHANGED <<kind, made, touched>>
        /\ \/ fields' = ReadBack(m, Body(kind), source, "body") /\ phase' = "inspected"
           \/ phase' = "refused" /\ ~(kind \in DOMAIN FromSchedulable /\ FromSchedulable[kind] = kind)
    BY DEF Inspect
  <1>2. /\ kind \in Kinds /\ made.kind = kind
        /\ Possible(kind, touched, made.fields) /\ BodyOf(kind, made.fields, made.body)
        /\ \A f \in MembersOf(m) : <<kind, f>> \in DroppedMembers \/ source[f] = made.body[f]
    BY <1>1 DEF Followed
  <1>3. CASE phase' = "refused"
    BY <1>1, <1>2, <1>3, ScheduledFacts DEF Followed
  <1>4. CASE fields' = ReadBack(m, Body(kind), source, "body") /\ phase' = "inspected"
    <2>1. ReadOf(kind, source, fields', Unseen("body")) /\ "body" \in Ways
      BY <1>2, <1>4, ReadIsGot DEF Ways
    <2>2. ReadOf(kind, made.body, fields', Unseen("body"))
      BY <1>2, <2>1 DEF ReadOf, Exempt, Unseen
    <2>3. QED
      BY <1>1, <1>2, <1>4, <2>1, <2>2 DEF Followed
  <1>5. QED
    BY <1>1, <1>3, <1>4

\* Every step.
LEMMA NextFollowed ==
  ASSUME Followed, [Next]_vars
  PROVE  Followed'
  <1>1. ASSUME NEW s \in Table[kind].setters, NEW v \in {"zero", "value", "bad"}, Edit(s, v)
        PROVE  Followed'
    BY <1>1, EditFollowed
  <1>2. CASE Freeze \/ Regenerate
    BY <1>2, BuildFollowed
  <1>3. ASSUME NEW way \in Ways, NEW identified \in BOOLEAN,
               Restore(way, identified) \/ Schedule(identified)
        PROVE  Followed'
    BY <1>3, RestoreFollowed
  <1>4. CASE Submit
    BY <1>4, SubmitFollowed
  <1>5. CASE Inspect
    BY <1>5, InspectFollowed
  <1>6. CASE Execute
    <2>1. phase' \in {"rejected", "executed"} /\ UNCHANGED <<kind, made>>
      BY <1>6 DEF Execute
    <2>2. QED
      BY <2>1 DEF Followed
  <1>7. CASE BuildThrows \/ Done \/ UNCHANGED vars
    <2>1. UNCHANGED <<kind, fields, source, frozen, phase, made, touched>>
      BY <1>7 DEF BuildThrows, Done, vars
    <2>2. QED
      BY <2>1 DEF Followed
  <1>8. QED
    BY <1>1, <1>2, <1>3, <1>4, <1>5, <1>6, <1>7, "body" \in Ways DEF Next, Ways

\* Whoever reads a transaction from its bytes sees what its user set, and what is
\* built of it is the body that was read, after any number of setters, freezings
\* and regenerations before and after, but for the members of LostMembers and for
\* the contents of an append, of which only a first chunk may be read
\* (Transaction::toBytes, fromBytes, and build and initFromSourceTransactionBody
\* of each class).
THEOREM RestoredWhole ==
  ASSUME LostMembers \cup CutMembers \subseteq Known.lost
  PROVE  Spec => []RestoredAsMade
  <1>1. ASSUME Followed, phase = "restored"
        PROVE  /\ Same(fields, made.fields, Known.lost)
               /\ \A f \in DOMAIN fields :
                    <<made.kind, f>> \in Known.lost \/ Written(Body(kind), fields)[f] = made.body[f]
    <2>0. PICK way \in Ways : ReadOf(kind, made.body, fields, Unseen(way))
      BY <1>1 DEF Followed
    <2>1. /\ kind \in Kinds /\ made.kind = kind /\ Possible(kind, touched, made.fields)
          /\ BodyOf(kind, made.fields, made.body)
      BY <1>1 DEF Followed
    <2>2. /\ \A f \in touched : <<kind, f>> \in LostMembers \cup Unseen(way) \/ fields[f] = OnWire(made.fields[f])
          /\ \A p \in Body(kind).oneofs : "absent" \in {fields[p[1]], fields[p[2]]}
          /\ \A f \in MembersOf(MembersTable(kind)) :
               <<kind, f>> \in Unseen(way) \/ Put(Body(kind).rules[f], fields[f]) = made.body[f]
      BY <2>0, <2>1, Reread
    <2>3. DOMAIN fields = MembersOf(MembersTable(kind))
      BY <2>0 DEF ReadOf
    <2>4. \A f \in DOMAIN fields : Written(Body(kind), fields)[f] = Put(Body(kind).rules[f], fields[f])
      BY <2>1, <2>2, <2>3, WrittenIsPut
    <2>5. QED
      BY <2>1, <2>2, <2>3, <2>4 DEF Same, LostMembers, Unseen
  <1>2. Followed => RestoredAsMade
    BY <1>1 DEF RestoredAsMade
  <1>3. QED
    BY <1>2, InitFollowed, NextFollowed, PTL DEF Spec

\* A transaction goes out in a schedule with the body it has alone, and is read
\* from the schedule's info as it was made, after any number of setters, but for
\* the kinds and members that are known (ScheduleCreateTransaction::build,
\* WrappedTransaction, ScheduleInfo::fromProtobuf).
THEOREM ScheduledWhole ==
  ASSUME LostMembers \subseteq Known.lost \ Known.cut, DroppedMembers \subseteq Known.dropped,
         UnscheduledKinds \subseteq Known.unscheduled
  PROVE  Spec => []ScheduledAsMade
  <1>1. ASSUME Followed, made.kind \notin Known.unscheduled
        PROVE  phase = "refused" => made.kind \notin ScheduledKinds
    BY <1>1 DEF Followed, Scheduled
  <1>2. ASSUME Followed, phase = "submitted"
        PROVE  \A f \in DOMAIN fields : <<made.kind, f>> \in Known.dropped \/ source[f] = made.body[f]
    BY <1>2 DEF Followed, ReadOf
  <1>3. ASSUME Followed, phase = "inspected"
        PROVE  Same(fields, made.fields, Known.lost \ Known.cut)
    <2>1. /\ kind \in Kinds /\ made.kind = kind /\ Possible(kind, touched, made.fields)
          /\ BodyOf(kind, made.fields, made.body) /\ ReadOf(kind, made.body, fields, Unseen("body"))
      BY <1>3 DEF Followed
    <2>2. "body" \in Ways /\ LostMembers \cup Unseen("body") = LostMembers
      BY DEF Ways, Unseen, LostMembers
    <2>3. \A f \in touched : <<kind, f>> \in LostMembers \/ fields[f] = OnWire(made.fields[f])
      BY <2>1, <2>2, Reread
    <2>4. QED
      BY <2>1, <2>3 DEF Same
  <1>4. Followed => ScheduledAsMade
    BY <1>1, <1>2, <1>3 DEF ScheduledAsMade
  <1>5. QED
    BY <1>4, InitFollowed, NextFollowed, PTL DEF Spec

-----------------------------------------------------------------------------
(***************************************************************************)
(* What goes out that the user did not ask for.                            *)
(***************************************************************************)
\* What the members fl and the body w hold of it: a member that its user left
\* alone is not in an update, and nothing but an ID is of another ledger.
Clean(k, t, fl, w) ==
  LET m == MembersTable(k)
      r == Body(k).rules
  IN  /\ DOMAIN fl = MembersOf(m) /\ DOMAIN w = MembersOf(m)
      /\ \A f \in MembersOf(m) : w[f] # "bad" /\ (fl[f] = "bad" => f \in m.ids)
      /\ k \in DOMAIN UpdateTarget =>
           \A f \in MembersOf(m) \ (t \cup {UpdateTarget[k]}) :
             <<k, f>> \in UnsetMembers \/ (fl[f] \in r[f].unsent /\ w[f] = "none")

\* No ID of another ledger has gone out but by an omission of validateChecksums.
Cleanly ==
  /\ kind \in Kinds /\ Clean(kind, touched, fields, source)
  /\ \A f \in sent : <<kind, f>> \in UncheckedMembers

\* A new transaction.
LEMMA InitCleanly == Init => Cleanly
  <1> SUFFICES ASSUME Init PROVE Cleanly
    OBVIOUS
  <1> DEFINE m == MembersTable(kind)
             b == Body(kind)
  <1>1. /\ kind \in Kinds /\ touched = {} /\ sent = {}
        /\ fields = Initially(m) /\ source = Blank(b)
    BY DEF Init
  <1>2. Quiet(kind, m, b) /\ DOMAIN b.rules = MembersOf(m)
    BY <1>1, TableFacts DEF Ruled
  <1> HIDE DEF m, b
  <1>3. DOMAIN fields = MembersOf(m) /\ \A f \in MembersOf(m) : fields[f] # "bad"
    BY <1>1, InitiallyIs
  <1>4. DOMAIN source = MembersOf(m) /\ \A f \in MembersOf(m) : source[f] = "none"
    BY <1>1, <1>2 DEF Blank
  <1>5. QED
    BY <1>1, <1>2, <1>3, <1>4 DEF Cleanly, Clean, Quiet, m, b

\* What a setter does not touch stays as it was, and a member that is not an ID
\* has no checksum.
LEMMA EditedIsClean ==
  ASSUME NEW k \in Kinds, NEW t, NEW fl, NEW w, Clean(k, t, fl, w),
         NEW s \in Table[k].setters, NEW v \in {"zero", "value", "bad"}
  PROVE  Clean(k, t \cup s.assigns \cup s.clears, Assigned(MembersTable(k), fl, s, v), w)
  <1> DEFINE m == MembersTable(k)
             new == Assigned(m, fl, s, v)
  <1>1. /\ DOMAIN fl = MembersOf(m)
        /\ \A f \in MembersOf(m) : fl[f] = "bad" => f \in m.ids
    BY DEF Clean
  <1> HIDE DEF m
  <1>2. /\ DOMAIN new = MembersOf(m)
        /\ \A f \in MembersOf(m) :
             new[f] = IF f \in s.assigns THEN Given(m, f, v)
                      ELSE IF f \in s.clears THEN IF f \in m.absent THEN "absent" ELSE "zero"
                      ELSE fl[f]
    BY <1>1 DEF Assigned
  <1> HIDE DEF new
  <1>3. \A f \in MembersOf(m) : new[f] = "bad" => f \in m.ids
    BY <1>1, <1>2 DEF Given
  <1>4. \A f \in MembersOf(m) \ (s.assigns \cup s.clears) : new[f] = fl[f]
    BY <1>2
  <1>5. QED
    BY <1>2, <1>3, <1>4 DEF Clean, m, new

\* Building the body again adds no field to it that was left out.
LEMMA UpdatedIsClean ==
  ASSUME NEW k \in Kinds, NEW t, NEW fl, NEW w, Clean(k, t, fl, w)
  PROVE  \A identified \in BOOLEAN : Clean(k, t, fl, Updated(k, fl, w, identified))
  <1> TAKE identified \in BOOLEAN
  <1> DEFINE b == Body(k)
             m == MembersTable(k)
             r == Body(k).rules
             once == Written(b, fl)
             into == WrittenInto(b, fl, w)
             new == Updated(k, fl, w, identified)
  <1>1. DOMAIN r = MembersOf(m) /\ Quiet(k, m, b)
    BY TableFacts DEF Ruled
  <1>2. \A f \in MembersOf(m) : w[f] # "bad"
    BY DEF Clean
  <1>3. /\ DOMAIN once = MembersOf(m)
        /\ \A f \in MembersOf(m) :
             /\ once[f] # "bad"
             /\ fl[f] \in r[f].unsent => once[f] = "none"
    BY <1>1 DEF Written, OnWire
  <1>4. into = [f \in DOMAIN once |-> IF r[f].appended /\ w[f] # "none"
                                        THEN IF once[f] = "none" THEN w[f] ELSE "twice"
                                        ELSE once[f]]
    BY DEF WrittenInto
  <1>7. new = IF identified THEN WithPayer(b, into) ELSE into
    BY DEF Updated
  <1>8. WithPayer(b, into) =
          [f \in DOMAIN into |-> IF r[f].payer /\ into[f] = "none" THEN "value" ELSE into[f]]
    BY DEF WithPayer
  <1> HIDE DEF b, m, r, once, into, new
  <1>9. /\ DOMAIN into = MembersOf(m)
        /\ \A f \in MembersOf(m) :
             /\ into[f] # "bad"
             /\ fl[f] \in r[f].unsent /\ w[f] = "none" => into[f] = "none"
    BY <1>2, <1>3, <1>4
  <1>5. /\ DOMAIN new = MembersOf(m)
        /\ \A f \in MembersOf(m) :
             /\ new[f] # "bad"
             /\ fl[f] \in r[f].unsent /\ w[f] = "none" /\ ~r[f].payer => new[f] = "none"
    BY <1>7, <1>8, <1>9
  <1>6. QED
    BY <1>1, <1>5 DEF Clean, Quiet, b, m, r, new

\* A field that is not in the body is read as the constructor leaves it, or as
\* zero, and neither is sent.
LEMMA ReadIsClean ==
  ASSUME NEW k \in Kinds, NEW t, NEW fl, NEW w, Clean(k, t, fl, w), NEW way
  PROVE  Clean(k, t, ReadBack(MembersTable(k), Body(k), w, way), w)
  <1> DEFINE b == Body(k)
             m == MembersTable(k)
             r == Body(k).rules
             new == ReadBack(m, b, w, way)
  <1>1. Quiet(k, m, b) /\ DOMAIN r = MembersOf(m)
    BY TableFacts DEF Ruled
  <1>2. \A f \in MembersOf(m) : w[f] # "bad" /\ Initially(m)[f] # "bad"
    BY InitiallyIs DEF Clean
  <1>3. new = [f \in DOMAIN r |->
                 IF w[f] \in r[f].unread THEN Initially(m)[f]
                 ELSE IF w[f] = "none" \/ (r[f].chunks = "joined" /\ way = "body") THEN "zero"
                 ELSE IF w[f] = "value" /\ r[f].chunks = "first" /\ way = "chunks" THEN "part"
                 ELSE w[f]]
    BY DEF ReadBack
  <1> HIDE DEF b, m, r, new
  <1>4. DOMAIN new = MembersOf(m) /\ \A f \in MembersOf(m) : new[f] # "bad"
    BY <1>1, <1>2, <1>3
  <1>5. ASSUME k \in DOMAIN UpdateTarget, NEW f \in MembersOf(m) \ {UpdateTarget[k]},
               <<k, f>> \notin UnsetMembers, w[f] = "none"
        PROVE  new[f] \in r[f].unsent
    <2>1. /\ Initially(m)[f] \in r[f].unsent
          /\ "none" \notin r[f].unread => "zero" \in r[f].unsent
      BY <1>1, <1>5 DEF Quiet, b, r
    <2>2. new[f] = IF "none" \in r[f].unread THEN Initially(m)[f] ELSE "zero"
      BY <1>1, <1>3, <1>5
    <2>3. QED
      BY <2>1, <2>2
  <1>6. QED
    BY <1>4, <1>5 DEF Clean, b, m, r, new

\* Every step.
LEMMA NextCleanly ==
  ASSUME Cleanly, [Next]_vars
  PROVE  Cleanly'
  <1> DEFINE m == MembersTable(kind)
  <1>1. kind \in Kinds /\ Clean(kind, touched, fields, source)
    BY DEF Cleanly
  <1>2. ASSUME NEW s \in Table[kind].setters, NEW v \in {"zero", "value", "bad"}, Edit(s, v)
        PROVE  Cleanly'
    <2>1. /\ UNCHANGED <<kind, source, sent>> /\ fields' = Assigned(m, fields, s, v)
          /\ touched' = touched \cup s.assigns \cup s.clears
      BY <1>2 DEF Edit
    <2>2. Clean(kind, touched', fields', source)
      BY <1>1, <2>1, EditedIsClean
    <2>3. QED
      BY <2>1, <2>2 DEF Cleanly
  <1>3. CASE Freeze \/ Regenerate
    <2>1. UNCHANGED <<kind, fields, touched, sent>> /\ source' = Updated(kind, fields, source, TRUE)
      BY <1>3 DEF Freeze, Regenerate
    <2>2. Clean(kind, touched, fields, source')
      BY <1>1, <2>1, UpdatedIsClean
    <2>3. QED
      BY <2>1, <2>2 DEF Cleanly
  <1>4. ASSUME NEW way \in Ways, NEW identified \in BOOLEAN,
               Restore(way, identified) \/ Schedule(identified)
        PROVE  Cleanly'
    <2>1. /\ UNCHANGED <<kind, touched, sent>>
          /\ source' \in {source, Updated(kind, fields, source, identified)}
          /\ \/ UNCHANGED fields
             \/ \E how \in Ways : fields' = ReadBack(m, Body(kind), source', how)
             \/ FromBytes[kind] # kind
      <3>1. CASE Restore(way, identified)
        <4> DEFINE src == IF frozen THEN source ELSE Updated(kind, fields, source, identified)
        <4>1. /\ source' = src /\ UNCHANGED <<kind, touched, sent>>
              /\ FromBytes[kind] = kind => fields' = ReadBack(m, Body(kind), src, way)
          BY <3>1 DEF Restore
        <4>2. src \in {source, Updated(kind, fields, source, identified)}
          OBVIOUS
        <4> HIDE DEF src
        <4>3. QED
          BY <4>1, <4>2
      <3>2. CASE Schedule(identified)
        BY <3>2, "body" \in Ways DEF Schedule, Ways
      <3>3. QED
        BY <1>4, <3>1, <3>2
    <2>2. Clean(kind, touched, fields, source')
      BY <1>1, <2>1, UpdatedIsClean
    <2>3. FromBytes[kind] = kind
      BY <1>1, ScheduledFacts
    <2>4. Clean(kind, touched, fields', source')
      BY <1>1, <2>1, <2>2, <2>3, ReadIsClean
    <2>5. QED
      BY <2>1, <2>4 DEF Cleanly
  <1>5. CASE Submit
    <2>1. UNCHANGED <<kind, fields, touched, sent>> /\ source' \in {source, Updated(kind, fields, source, FALSE)}
      BY <1>5 DEF Submit, Rewritten
    <2>2. Clean(kind, touched, fields, source')
      BY <1>1, <2>1, UpdatedIsClean
    <2>3. QED
      BY <2>1, <2>2 DEF Cleanly
  <1>6. CASE Inspect
    <2>1. /\ UNCHANGED <<kind, source, touched, sent>>
          /\ UNCHANGED fields \/ fields' = ReadBack(m, Body(kind), source, "body")
      BY <1>6 DEF Inspect
    <2>2. Clean(kind, touched, fields', source)
      BY <1>1, <2>1, ReadIsClean
    <2>3. QED
      BY <2>1, <2>2 DEF Cleanly
  <1>7. CASE Execute
    <2>1. UNCHANGED <<kind, fields, source, touched>>
      BY <1>7 DEF Execute
    <2>2. \A f \in sent' : <<kind, f>> \in UncheckedMembers
      <3>1. CASE \E f \in Body(kind).checked : fields[f] = "bad"
        BY <1>7, <3>1 DEF Execute, Cleanly
      <3>2. CASE ~\E f \in Body(kind).checked : fields[f] = "bad"
        <4>1. sent' = {f \in DOMAIN fields : fields[f] = "bad"}
          BY <1>7, <3>2 DEF Execute
        <4>2. \A f \in sent' : f \in m.ids /\ f \notin Body(kind).checked
          BY <1>1, <3>2, <4>1 DEF Clean
        <4>3. Checked(kind, m, Body(kind))
          BY <1>1, TableFacts
        <4>4. QED
          BY <4>2, <4>3 DEF Checked
      <3>3. QED
        BY <3>1, <3>2
    <2>3. QED
      BY <2>1, <2>2 DEF Cleanly
  <1>8. CASE BuildThrows \/ Done \/ UNCHANGED vars
    <2>1. UNCHANGED <<kind, fields, source, touched, sent>>
      BY <1>8 DEF BuildThrows, Done, vars
    <2>2. QED
      BY <2>1 DEF Cleanly
  <1>9. QED
    BY <1>2, <1>3, <1>4, <1>5, <1>6, <1>7, <1>8, "body" \in Ways DEF Next, Ways

\* An update carries no field that its user has not set, after any number of
\* setters and regenerations and whoever reads and sends it, but for the members
\* of UnsetMembers (build and initFromSourceTransactionBody of the update classes).
THEOREM OnlyWhatIsSet ==
  ASSUME UnsetMembers \subseteq Known.unset
  PROVE  Spec => []UnsetIsNotSent
  <1>1. Cleanly => UnsetIsNotSent
    BY DEF Cleanly, Clean, UnsetIsNotSent
  <1>2. QED
    BY <1>1, InitCleanly, NextCleanly, PTL DEF Spec

\* Whatever has been set, and read again, a client that validates checksums sends
\* no ID of another ledger, but in the members of UncheckedMembers (onExecute and
\* validateChecksums of each class).
THEOREM OwnLedgerOnly ==
  ASSUME UncheckedMembers \subseteq Known.unchecked
  PROVE  Spec => []NoBadIdSent
  <1>1. Cleanly => NoBadIdSent
    BY DEF Cleanly, NoBadIdSent
  <1>2. QED
    BY <1>1, InitCleanly, NextCleanly, PTL DEF Spec
=============================================================================
