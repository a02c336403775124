-------------------- MODULE FileTransactions --------------------
(*****************************************************************************)
(* The transactions about files, the system and random numbers. For each     *)
(* class: its members and the value its constructor leaves in them; its      *)
(* setters, each guarded by requireNotFrozen; and its body: how build and    *)
(* initFromSourceTransactionBody treat each member, and the IDs that         *)
(* validateChecksums looks at.                                               *)
(*****************************************************************************)
EXTENDS ProtobufFields

FileCreateMembers ==
  [absent |-> {},
   zero   |-> {"keys", "contents", "fileMemo"},
   preset |-> {"expirationTime"},
   ids    |-> {}]

FileCreateSetters ==
  Each({"expirationTime", "keys", "contents", "fileMemo"})

FileCreateBody ==
  [rules   |-> Message({"expirationTime", "keys"})
               ++ Plain({"contents", "fileMemo"}),
   oneofs  |-> {},
   checked |-> {}]

-----------------------------------------------------------------------------

FileUpdateMembers ==
  [absent |-> {"expirationTime", "keys", "contents", "fileMemo"},
   zero   |-> {"fileId"},
   preset |-> {},
   ids    |-> {"fileId"}]

FileUpdateSetters ==
  Each({"fileId", "expirationTime", "keys", "contents", "fileMemo"})

\* Mutant: build writes the memo whether or not it was set.
FileUpdateBodyMemo ==
  [rules   |-> Optional({"expirationTime", "keys"}) ++ Message({"fileId", "fileMemo"})
               ++ OptionalScalar({"contents"}),
   oneofs  |-> {}, checked |-> {"fileId"}]

FileUpdateBody ==
  [rules   |-> Optional({"expirationTime", "keys", "fileMemo"})
               ++ Message({"fileId"})
               ++ OptionalScalar({"contents"}),
   oneofs  |-> {},
   checked |-> {"fileId"}]

-----------------------------------------------------------------------------

(* Each chunk of the contents has a body of its own; only the first is read. *)
FileAppendMembers ==
  [absent |-> {}, zero |-> {"fileId", "contents"}, preset |-> {}, ids |-> {"fileId"}]

FileAppendSetters ==
  Each({"fileId", "contents"})

FileAppendBody ==
  [rules   |-> Message({"fileId"})
               ++ FirstChunk({"contents"}),
   oneofs  |-> {},
   checked |-> {"fileId"}]

-----------------------------------------------------------------------------

FileDeleteMembers ==
  [absent |-> {}, zero |-> {"fileId"}, preset |-> {}, ids |-> {"fileId"}]

FileDeleteSetters ==
  Each({"fileId"})

FileDeleteBody ==
  [rules   |-> Message({"fileId"}),
   oneofs  |-> {},
   checked |-> {"fileId"}]

-----------------------------------------------------------------------------

SystemDeleteMembers ==
  [absent |-> {"fileId", "contractId"},
   zero   |-> {"expirationTime"},
   preset |-> {},
   ids    |-> {"fileId", "contractId"}]

SystemDeleteSetters ==
  Each({"expirationTime"})
  \cup Exclusive("contractId", "fileId")

SystemDeleteBody ==
  [rules   |-> Optional({"fileId", "contractId"})
               ++ Message({"expirationTime"}),
   oneofs  |-> {<<"fileId", "contractId">>},
   checked |-> {"fileId", "contractId"}]

-----------------------------------------------------------------------------

SystemUndeleteMembers ==
  [absent |-> {"fileId", "contractId"},
   zero   |-> {},
   preset |-> {},
   ids    |-> {"fileId", "contractId"}]

SystemUndeleteSetters ==
  Exclusive("contractId", "fileId")

SystemUndeleteBody ==
  [rules   |-> Optional({"fileId", "contractId"}),
   oneofs  |-> {<<"fileId", "contractId">>},
   checked |-> {"fileId", "contractId"}]

-----------------------------------------------------------------------------

FreezeMembers ==
  [absent |-> {"fileId", "startTime"},
   zero   |-> {"fileHash", "freezeType"},
   preset |-> {},
   ids    |-> {"fileId"}]

FreezeSetters ==
  Each({"fileId", "fileHash", "startTime", "freezeType"})

FreezeBody ==
  [rules   |-> Optional({"fileId", "startTime"})
               ++ Plain({"fileHash", "freezeType"}),
   oneofs  |-> {},
   checked |-> {"fileId"}]

-----------------------------------------------------------------------------

PrngMembers ==
  [absent |-> {}, zero |-> {"range"}, preset |-> {}, ids |-> {}]

PrngSetters ==
  Each({"range"})

PrngBody ==
  [rules   |-> Plain({"range"}),
   oneofs  |-> {},
   checked |-> {}]

=============================================================================
