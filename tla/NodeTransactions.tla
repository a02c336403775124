-------------------- MODULE NodeTransactions --------------------
(*****************************************************************************)
(* The transactions about consensus nodes and registered nodes. For each     *)
(* class: its members and the value its constructor leaves in them; its      *)
(* setters, each guarded by requireNotFrozen; and its body: how build and    *)
(* initFromSourceTransactionBody treat each member, and the IDs that         *)
(* validateChecksums looks at.                                               *)
(*****************************************************************************)
EXTENDS ProtobufFields

NodeCreateMembers ==
  [absent |-> {"description", "grpcCertificateHash", "adminKey", "grpcWebProxyEndpoint"},
   zero   |-> {"accountId", "gossipEndpoints", "serviceEndpoints", "gossipCaCertificate",
               "declineReward", "associatedRegisteredNodes"},
   preset |-> {},
   ids    |-> {"accountId"}]

NodeCreateSetters ==
  Each({"accountId", "description", "gossipEndpoints", "serviceEndpoints", "gossipCaCertificate",
        "grpcCertificateHash", "adminKey", "declineReward", "grpcWebProxyEndpoint",
        "associatedRegisteredNodes"})
  \cup {Setter({}, {"associatedRegisteredNodes"})}

NodeCreateBody ==
  [rules   |-> Optional({"adminKey", "grpcWebProxyEndpoint"})
               ++ Plain({"accountId", "gossipEndpoints", "serviceEndpoints", "gossipCaCertificate",
                         "declineReward", "associatedRegisteredNodes"})
               ++ OptionalScalar({"description", "grpcCertificateHash"}),
   oneofs  |-> {},
   checked |-> {"accountId"}]

-----------------------------------------------------------------------------

(* nodeId is absent until mNodeIdSet; declineReward is written whether or    *)
(* not it was set, and deleteGrpcWebProxyEndpoint leaves nothing to write.   *)
NodeUpdateMembers ==
  [absent |-> {"description", "grpcCertificateHash", "adminKey", "grpcWebProxyEndpoint",
               "associatedRegisteredNodes", "nodeId"},
   zero   |-> {"accountId", "gossipEndpoints", "serviceEndpoints", "gossipCaCertificate",
               "declineReward"},
   preset |-> {},
   ids    |-> {"accountId"}]

NodeUpdateSetters ==
  Each({"accountId", "description", "gossipEndpoints", "serviceEndpoints", "gossipCaCertificate",
        "grpcCertificateHash", "adminKey", "declineReward", "grpcWebProxyEndpoint",
        "associatedRegisteredNodes", "nodeId"})
  \cup {Setter({}, {"grpcWebProxyEndpoint"})}

NodeUpdateBody ==
  [rules   |-> Optional({"description", "grpcCertificateHash", "adminKey", "grpcWebProxyEndpoint",
                        "associatedRegisteredNodes"})
               ++ Message({"declineReward"})
               ++ Plain({"accountId", "gossipEndpoints", "serviceEndpoints", "gossipCaCertificate"})
               ++ Required({"nodeId"}),
   oneofs  |-> {},
   checked |-> {"accountId"}]

-----------------------------------------------------------------------------

NodeDeleteMembers ==
  [absent |-> {}, zero |-> {"nodeId"}, preset |-> {}, ids |-> {}]

NodeDeleteSetters ==
  Each({"nodeId"})

NodeDeleteBody ==
  [rules   |-> Plain({"nodeId"}),
   oneofs  |-> {},
   checked |-> {}]

-----------------------------------------------------------------------------

RegisteredNodeCreateMembers ==
  [absent |-> {"adminKey"},
   zero   |-> {"description", "serviceEndpoints"},
   preset |-> {},
   ids    |-> {}]

RegisteredNodeCreateSetters ==
  Each({"adminKey", "description", "serviceEndpoints"})
  \cup {Setter({}, {"serviceEndpoints"})}

RegisteredNodeCreateBody ==
  [rules   |-> Optional({"adminKey"})
               ++ Plain({"description", "serviceEndpoints"}),
   oneofs  |-> {},
   checked |-> {}]

-----------------------------------------------------------------------------

RegisteredNodeUpdateMembers ==
  [absent |-> {"adminKey", "description"},
   zero   |-> {"registeredNodeId", "serviceEndpoints"},
   preset |-> {},
   ids    |-> {}]

RegisteredNodeUpdateSetters ==
  Each({"registeredNodeId", "adminKey", "description", "serviceEndpoints"})
  \cup {Setter({}, {"description"}), Setter({}, {"serviceEndpoints"})}

RegisteredNodeUpdateBody ==
  [rules   |-> Optional({"adminKey", "description"})
               ++ Plain({"registeredNodeId", "serviceEndpoints"}),
   oneofs  |-> {},
   checked |-> {}]

-----------------------------------------------------------------------------

RegisteredNodeDeleteMembers ==
  [absent |-> {}, zero |-> {"registeredNodeId"}, preset |-> {}, ids |-> {}]

RegisteredNodeDeleteSetters ==
  Each({"registeredNodeId"})

RegisteredNodeDeleteBody ==
  [rules   |-> Plain({"registeredNodeId"}),
   oneofs  |-> {},
   checked |-> {}]

=============================================================================
