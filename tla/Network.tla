------------------------------- MODULE Network -------------------------------
(***************************************************************************)
(* The nodes of a client's network (src/impl/BaseNetwork.cc, Network.cc):  *)
(* the table from accounts to nodes, the set of healthy nodes, and the     *)
(* four things threads do to them: look an account up (getNodeProxies),    *)
(* pick nodes for a request (getNodeAccountIdsForExecute), rename nodes    *)
(* from an address book (Client::setNetworkFromAddressBookInternal), and   *)
(* change the ports (setTransportSecurity).                                *)
(*                                                                         *)
(* An operation holds the network's mutex (holder) until it returns.  It   *)
(* also locks each node it looks at, and an execution holds the mutex of a *)
(* node for as long as an RPC takes (busy), so every loop over mNodes is a *)
(* step per node that waits for the node.  Meanwhile executions that hold  *)
(* nodes they looked up before penalise them, and time passes.             *)
(*                                                                         *)
(* Times are relative to now, as in BaseNode.                              *)
(***************************************************************************)
EXTENDS BaseNode, FiniteSets

CONSTANTS
  Threads, NoThread,
  Nodes, Accounts,
  Operations,        \* which of "lookup", "pick", "update", "tls" happen
  AddressBooks,      \* a book: [names : subset of Nodes -> Accounts,
                     \*          ports : the same nodes -> SUBSET Ports]
  MaxReadmit,        \* mMaxNodeReadmitTime
  MaxNodeAttempts,   \* mMaxNodeAttempts, 0: nodes are never removed
  MaxAttempts,       \* what requests ask for, a set of numbers
  MaxUses            \* bound: RPCs started on a node after one look-up

Ports == {"plain", "tls"}

ASSUME NetworkAssumption ==
  /\ NoThread \notin Threads /\ IsFiniteSet(Nodes)
  /\ Operations \subseteq {"lookup", "pick", "update", "tls"}
  /\ \A book \in AddressBooks :
       /\ DOMAIN book.names \subseteq Nodes
       /\ DOMAIN book.ports = DOMAIN book.names
       /\ \A n \in DOMAIN book.names :
            book.names[n] \in Accounts /\ book.ports[n] \subseteq Ports
  /\ MaxReadmit \in Nat /\ MaxNodeAttempts \in Nat
  /\ MaxAttempts \subseteq Nat /\ MaxUses \in Nat

VARIABLES
  node,               \* [Nodes -> NodeState]
  busy,               \* nodes whose mutex an RPC holds
  uses,               \* [Nodes -> 0 .. MaxUses]: RPCs executions may yet start
  failed,             \* nodes an execution is about to penalise
  port,               \* [Nodes -> Ports]: the port of mAddress
  mAccountId,         \* [Nodes -> Accounts]
  mNodes,
  mNetwork,           \* [Accounts -> SUBSET Nodes]
  mHealthyNodes,
  earliestIn,         \* mEarliestReadmitTime - now
  mTransportSecurity, \* "plain" for DISABLE, "tls" for REQUIRE
  holder,             \* who holds mMutex
  thread              \* the locals of the operation of each thread

nodeVars  == <<node, busy, uses, failed>>
tableVars == <<mAccountId, mNodes, mNetwork>>
readmitVars == <<mHealthyNodes, earliestIn>>
portVars  == <<port, mTransportSecurity>>
vars == <<nodeVars, tableVars, readmitVars, portVars, holder, thread>>

Nothing == [a \in Accounts |-> {}]

\* The locals of an operation.  readmitNodes compares readmit times with the
\* one now it started with: due holds the nodes whose readmit time is not later,
\* next is nextEarliestReadmitTime; target is the port to match or the policy to
\* set; found is what the last look-up returned.
Idle ==
  [ op |-> "none", pc |-> "idle", todo |-> {}, due |-> {}, next |-> 0,
    key |-> NoThread, count |-> 0, chosen |-> {}, book |-> NoThread,
    target |-> "plain", newNetworkMap |-> Nothing, found |-> {} ]

Under(names) == [a \in Accounts |-> {n \in Nodes : names[n] = a}]

\* setNetwork: all nodes are readmitted at once, or, when the clock still shows
\* the time mEarliestReadmitTime was set at, none is.
Init ==
  /\ busy = {} /\ uses = [n \in Nodes |-> 0] /\ failed = {}
  /\ mAccountId \in [Nodes -> Accounts]
  /\ mNodes = Nodes /\ mNetwork = Under(mAccountId)
  /\ port \in [Nodes -> Ports]
  /\ mTransportSecurity = "tls"
  /\ holder = NoThread /\ thread = [t \in Threads |-> Idle]
  /\ \/ /\ node = [n \in Nodes |-> [NewNode EXCEPT !.readmitIn = -1]]
        /\ mHealthyNodes = Nodes /\ earliestIn = MaxReadmit
     \/ /\ node = [n \in Nodes |-> NewNode]
        /\ mHealthyNodes = {} /\ earliestIn = 0

-----------------------------------------------------------------------------
Move(t, new) == thread' = [thread EXCEPT ![t] = new]
Free(n)      == n \notin busy

\* The client's own mutex: updates and policy changes exclude each other.
ClientIdle == \A t \in Threads : thread[t].op \notin {"update", "tls"}

Enter(t, op) ==
  /\ op \in Operations
  /\ thread[t].pc = "idle" /\ holder = NoThread
  /\ holder' = t

Leave(t, new) == holder' = NoThread /\ Move(t, new)

-----------------------------------------------------------------------------
(***************************************************************************)
(* readmitNodes.                                                           *)
(***************************************************************************)
\* getNumberOfMostHealthyNodes calls readmitNodes before every choice, and only
\* while nodes are missing; getNodeProxies calls it once.
Enough(k) == k.op = "pick" /\ Cardinality(k.chosen) >= k.count

PastReadmitTime == {n \in mNodes : node[n].readmitIn <= 0}

\* Where the caller goes on.
AfterReadmit(k) == [k EXCEPT !.pc = "choose", !.todo = {}, !.due = {}]

Readmit(t) ==
  LET k == thread[t]
  IN /\ k.pc = "readmit" /\ ~Enough(k)
     /\ \/ earliestIn >= 0 /\ Move(t, AfterReadmit(k))
        \/ /\ earliestIn < 0
           /\ Move(t, [k EXCEPT !.pc = "earliest", !.todo = mNodes,
                                !.next = MaxReadmit, !.due = PastReadmitTime])
     /\ UNCHANGED <<nodeVars, tableVars, readmitVars, portVars, holder>>

\* The first loop: the earliest readmit time still to come.
Earliest(t) ==
  LET k == thread[t]
  IN /\ k.pc = "earliest"
     /\ \/ \E n \in k.todo :
             /\ Free(n)
             /\ Move(t, [k EXCEPT !.todo = @ \ {n},
                  !.next = IF n \notin k.due /\ node[n].readmitIn < @
                           THEN node[n].readmitIn ELSE @])
             /\ UNCHANGED earliestIn
        \/ /\ k.todo = {}
           /\ earliestIn' = k.next
           /\ Move(t, [k EXCEPT !.pc = "admit", !.next = 0, !.todo = mNodes])
     /\ UNCHANGED <<nodeVars, tableVars, mHealthyNodes, portVars, holder>>

\* Mutant: at the time of the alarm every node is admitted.
AdmitAll(t) ==
  LET k == thread[t]
  IN /\ k.pc = "admit"
     /\ Move(t, AfterReadmit(k)) /\ mHealthyNodes' = mNodes
     /\ UNCHANGED <<nodeVars, tableVars, earliestIn, portVars, holder>>

\* The second loop: nodes past their readmit time are healthy again.
Admit(t) ==
  LET k == thread[t]
  IN /\ k.pc = "admit"
     /\ \/ \E n \in k.todo \cap mHealthyNodes :
             Move(t, [k EXCEPT !.todo = @ \ {n}]) /\ UNCHANGED mHealthyNodes
        \/ \E n \in k.todo \ mHealthyNodes :
             /\ Free(n)
             /\ Move(t, [k EXCEPT !.todo = @ \ {n}])
             /\ mHealthyNodes' = mHealthyNodes \cup ({n} \cap k.due)
        \/ k.todo = {} /\ Move(t, AfterReadmit(k)) /\ UNCHANGED mHealthyNodes
     /\ UNCHANGED <<nodeVars, tableVars, earliestIn, portVars, holder>>

-----------------------------------------------------------------------------
(***************************************************************************)
(* getNodeProxies.                                                         *)
(***************************************************************************)
LookupBegin(t) ==
  /\ Enter(t, "lookup")
  /\ \E id \in Accounts :
       Move(t, [Idle EXCEPT !.op = "lookup", !.pc = "readmit", !.key = id])
  /\ UNCHANGED <<nodeVars, tableVars, readmitVars, portVars>>

\* The caller may now use the nodes for one request.
LookupEnd(t) ==
  LET k == thread[t]
  IN /\ k.pc = "choose" /\ k.op = "lookup"
     /\ Leave(t, [Idle EXCEPT !.found = mNetwork[k.key]])
     /\ uses' = [n \in Nodes |-> IF n \in mNetwork[k.key] THEN MaxUses ELSE uses[n]]
     /\ UNCHANGED <<node, busy, failed, tableVars, readmitVars, portVars>>

-----------------------------------------------------------------------------
(***************************************************************************)
(* getNodeAccountIdsForExecute and getNumberOfMostHealthyNodes.            *)
(***************************************************************************)
SmallerOf(a, b) == IF a < b THEN a ELSE b

PickBegin(t) ==
  /\ Enter(t, "pick")
  /\ \E max \in MaxAttempts :
       Move(t, [Idle EXCEPT !.op = "pick", !.count = SmallerOf(max, Cardinality(mNodes)),
                  !.todo = IF MaxNodeAttempts > 0 THEN mNodes ELSE {},
                  !.pc = IF MaxNodeAttempts > 0 THEN "worn" ELSE "readmit"])
  /\ UNCHANGED <<nodeVars, tableVars, readmitVars, portVars>>

WornOut(n) == node[n].mBadGrpcStatusCount >= MaxNodeAttempts

\* Mutant: the table is forgotten.
RemoveFromNodes(t) ==
  LET k == thread[t]
  IN /\ k.pc = "worn" /\ \E n \in k.todo :
          /\ Free(n) /\ WornOut(n)
          /\ node' = [node EXCEPT ![n] = closeChannel(@)]
          /\ mNodes' = mNodes \ {n}
          /\ mHealthyNodes' = mHealthyNodes \ {n}
          /\ Move(t, [k EXCEPT !.todo = @ \ {n}])
     /\ UNCHANGED <<busy, uses, failed, mAccountId, mNetwork, earliestIn, portVars,
                    holder>>

\* The loop that removes nodes.  removeNodeFromNetwork gets a reference to the
\* element of mNodes it erases, so the erase from mHealthyNodes reads freed
\* memory and may miss the node; the iterator of the loop is invalid too: the
\* program may crash, stop looking or go on.
RemoveWornOut(t) ==
  LET k == thread[t]
  IN /\ k.pc = "worn" /\ \E n \in k.todo :
          /\ Free(n) /\ WornOut(n)
          /\ node' = [node EXCEPT ![n] = closeChannel(@)]
          /\ mNodes' = mNodes \ {n}
          /\ mNetwork' = [mNetwork EXCEPT ![mAccountId[n]] = @ \ {n}]
          /\ mHealthyNodes' \in {mHealthyNodes, mHealthyNodes \ {n}}
          /\ \E rest \in {k.todo \ {n}, {}} : \E p \in {"worn", "crashed"} :
               Move(t, [k EXCEPT !.todo = rest, !.pc = p])
     /\ UNCHANGED <<busy, uses, failed, mAccountId, earliestIn, portVars, holder>>

KeepNode(t) ==
  LET k == thread[t]
  IN /\ k.pc = "worn"
     /\ \/ \E n \in k.todo :
             Free(n) /\ ~WornOut(n) /\ Move(t, [k EXCEPT !.todo = @ \ {n}])
        \/ k.todo = {} /\ Move(t, [k EXCEPT !.pc = "readmit"])
     /\ UNCHANGED <<nodeVars, tableVars, readmitVars, portVars, holder>>

\* One turn of the loop after readmitNodes: a random healthy node, which may
\* have been chosen before.
Choose(t, n) ==
  LET k == thread[t]
  IN /\ k.pc = "choose" /\ k.op = "pick" /\ n \in mHealthyNodes
     /\ Move(t, [k EXCEPT !.chosen = @ \cup {n}, !.pc = "readmit"])
     /\ UNCHANGED <<nodeVars, tableVars, readmitVars, portVars, holder>>

\* No healthy node: sleep until the earliest readmit time, holding the mutex.
AwaitReadmission(t) ==
  LET k == thread[t]
  IN /\ k.pc = "choose" /\ k.op = "pick" /\ mHealthyNodes = {}
     /\ earliestIn <= 0
     /\ Move(t, [k EXCEPT !.pc = "readmit"])
     /\ UNCHANGED <<nodeVars, tableVars, readmitVars, portVars, holder>>

\* The account of every chosen node is read under the node's mutex.
PickEnd(t) ==
  LET k == thread[t]
  IN /\ k.pc = "readmit" /\ Enough(k)
     /\ \A n \in k.chosen : Free(n)
     /\ Leave(t, Idle)
     /\ UNCHANGED <<nodeVars, tableVars, readmitVars, portVars>>

-----------------------------------------------------------------------------
(***************************************************************************)
(* setNetworkFromAddressBookInternal and updateNodeAccountIds.             *)
(***************************************************************************)
Other(p) == IF p = "tls" THEN "plain" ELSE "tls"

\* The book's entries for nodes that are reachable under port p.
Listed(book, p) == {n \in DOMAIN book.names : p \in book.ports[n]}

\* The port that goes with the policy is tried first.
UpdateBegin(t) ==
  /\ ClientIdle
  /\ Enter(t, "update")
  /\ \E book \in AddressBooks :
       Move(t, [Idle EXCEPT !.op = "update", !.pc = "rename", !.book = book,
                            !.target = mTransportSecurity, !.todo = mNodes])
  /\ UNCHANGED <<nodeVars, tableVars, readmitVars, portVars>>

\* The name of a node after the update: nodes are matched by address and port.
NewName(k, n) ==
  IF n \in Listed(k.book, k.target) /\ port[n] = k.target
  THEN k.book.names[n] ELSE mAccountId[n]

\* Mutant: the network map is changed node by node.
RenameInPlace(t) ==
  LET k == thread[t]
  IN /\ k.pc = "rename" /\ \E n \in k.todo :
          /\ Free(n)
          /\ mAccountId' = [mAccountId EXCEPT ![n] = NewName(k, n)]
          /\ mNetwork' = Under(mAccountId')
          /\ Move(t, [k EXCEPT !.todo = @ \ {n},
                               !.newNetworkMap[NewName(k, n)] = @ \cup {n}])
     /\ UNCHANGED <<nodeVars, mNodes, readmitVars, portVars, holder>>

Rename(t) ==
  LET k == thread[t]
  IN /\ k.pc = "rename" /\ \E n \in k.todo :
          /\ Free(n)
          /\ mAccountId' = [mAccountId EXCEPT ![n] = NewName(k, n)]
          /\ Move(t, [k EXCEPT !.todo = @ \ {n},
                               !.newNetworkMap[NewName(k, n)] = @ \cup {n}])
     /\ UNCHANGED <<nodeVars, mNodes, mNetwork, readmitVars, portVars, holder>>

\* Mutant: the port that was not tried last is always tried next.
RenameEndRetrying(t) ==
  LET k == thread[t]
  IN /\ k.pc = "rename" /\ k.todo = {}
     /\ mNetwork' = k.newNetworkMap
     /\ \/ /\ Listed(k.book, k.target) = {}
           /\ Leave(t, [k EXCEPT !.pc = "renameAgain", !.target = Other(@),
                                 !.newNetworkMap = Nothing])
        \/ /\ Listed(k.book, k.target) # {}
           /\ Leave(t, Idle)
     /\ UNCHANGED <<nodeVars, mAccountId, mNodes, readmitVars, portVars>>

\* setNetworkInternal.  A book without any endpoint at the first port is tried
\* at the other one; the network's mutex is free in between.
RenameEnd(t) ==
  LET k == thread[t]
  IN /\ k.pc = "rename" /\ k.todo = {}
     /\ mNetwork' = k.newNetworkMap
     /\ \/ /\ k.target = mTransportSecurity /\ Listed(k.book, k.target) = {}
           /\ Leave(t, [k EXCEPT !.pc = "renameAgain", !.target = Other(@),
                                 !.newNetworkMap = Nothing])
        \/ /\ ~(k.target = mTransportSecurity /\ Listed(k.book, k.target) = {})
           /\ Leave(t, Idle)
     /\ UNCHANGED <<nodeVars, mAccountId, mNodes, readmitVars, portVars>>

RenameAgain(t) ==
  /\ thread[t].pc = "renameAgain" /\ holder = NoThread
  /\ holder' = t
  /\ Move(t, [thread[t] EXCEPT !.pc = "rename", !.todo = mNodes])
  /\ UNCHANGED <<nodeVars, tableVars, readmitVars, portVars>>

-----------------------------------------------------------------------------
(***************************************************************************)
(* setTransportSecurity: nothing to do when the policy is set already.     *)
(***************************************************************************)
\* Mutant: only the healthy nodes change.
SecureBeginHealthy(t) ==
  /\ ClientIdle
  /\ Enter(t, "tls")
  /\ \E p \in Ports :
       Move(t, [Idle EXCEPT !.op = "tls", !.pc = "secure", !.target = p,
                  !.todo = IF p = mTransportSecurity THEN {} ELSE mHealthyNodes])
  /\ UNCHANGED <<nodeVars, tableVars, readmitVars, portVars>>

SecureBegin(t) ==
  /\ ClientIdle
  /\ Enter(t, "tls")
  /\ \E p \in Ports :
       Move(t, [Idle EXCEPT !.op = "tls", !.pc = "secure", !.target = p,
                  !.todo = IF p = mTransportSecurity THEN {} ELSE mNodes])
  /\ UNCHANGED <<nodeVars, tableVars, readmitVars, portVars>>

\* toSecure, toInsecure: the address changes, so the channel is closed.
Secure(t) ==
  LET k == thread[t]
  IN /\ k.pc = "secure" /\ \E n \in k.todo :
          /\ Free(n)
          /\ port' = [port EXCEPT ![n] = k.target]
          /\ node' = [node EXCEPT ![n] = closeChannel(@)]
          /\ Move(t, [k EXCEPT !.todo = @ \ {n}])
     /\ UNCHANGED <<busy, uses, failed, tableVars, readmitVars, mTransportSecurity, holder>>

SecureEnd(t) ==
  LET k == thread[t]
  IN /\ k.pc = "secure" /\ k.todo = {}
     /\ mTransportSecurity' = k.target
     /\ Leave(t, Idle)
     /\ UNCHANGED <<nodeVars, tableVars, readmitVars, port>>

-----------------------------------------------------------------------------
(***************************************************************************)
(* Executions that looked nodes up, and time.                              *)
(***************************************************************************)
StartRpc(n) ==
  /\ uses[n] > 0 /\ Free(n)
  /\ uses' = [uses EXCEPT ![n] = @ - 1]
  /\ busy' = busy \cup {n}
  /\ UNCHANGED <<node, failed, tableVars, readmitVars, portVars, holder, thread>>

EndRpc(n) ==
  /\ n \in busy
  /\ busy' = busy \ {n}
  /\ \E bad \in BOOLEAN :
       failed' = IF bad THEN failed \cup {n} ELSE failed
  /\ UNCHANGED <<node, uses, tableVars, readmitVars, portVars, holder, thread>>

\* BaseNode::increaseBackoff; the network does not hear of it.
Penalize(n) ==
  /\ n \in failed /\ Free(n)
  /\ failed' = failed \ {n}
  /\ node' = [node EXCEPT ![n] = increaseBackoff(@)]
  /\ thread' = [t \in Threads |-> [thread[t] EXCEPT !.due = @ \ {n}]]
  /\ UNCHANGED <<busy, uses, tableVars, readmitVars, portVars, holder>>

Tick ==
  /\ earliestIn >= 0 \/ \E n \in Nodes : ~isHealthy(node[n])
  /\ node' = [n \in Nodes |-> Elapse(node[n])]
  /\ earliestIn' = AtLeast(earliestIn - 1, -1)
  /\ thread' = [t \in Threads |->
       IF thread[t].pc = "earliest"
       THEN [thread[t] EXCEPT !.next = AtLeast(@ - 1, -1)]
       ELSE thread[t]]
  /\ UNCHANGED <<busy, uses, failed, tableVars, mHealthyNodes, portVars, holder>>

Step(t) ==
  \/ Readmit(t) \/ Earliest(t) \/ Admit(t) \/ LookupEnd(t)
  \/ RemoveWornOut(t) \/ KeepNode(t) \/ (\E n \in Nodes : Choose(t, n))
  \/ AwaitReadmission(t) \/ PickEnd(t)
  \/ Rename(t) \/ RenameEnd(t) \/ RenameAgain(t) \/ Secure(t) \/ SecureEnd(t)

Start(t) == LookupBegin(t) \/ PickBegin(t) \/ UpdateBegin(t) \/ SecureBegin(t)

Crashed == \E t \in Threads : thread[t].pc = "crashed"

Next ==
  /\ ~Crashed
  /\ \/ \E t \in Threads : Start(t) \/ Step(t)
     \/ \E n \in Nodes : StartRpc(n) \/ EndRpc(n) \/ Penalize(n)
     \/ Tick

Spec == Init /\ [][Next]_vars

\* Threads run, an RPC ends by its deadline, and an execution that got a bad
\* status penalises the node.  While an operation holds the network's mutex,
\* RPCs come only from executions that looked their nodes up before, each with
\* a last attempt, so the operation gets every node's mutex in the end (WF).
\* The network's own mutex is granted sooner or later to a thread that keeps
\* waiting (SF).
FairSpec ==
  /\ Spec /\ WF_vars(Tick)
  /\ \A n \in Nodes : WF_vars(EndRpc(n)) /\ WF_vars(Penalize(n))
  /\ \A t \in Threads : WF_vars(Step(t)) /\ SF_vars(RenameAgain(t))

-----------------------------------------------------------------------------
(***************************************************************************)
(* Properties.                                                             *)
(***************************************************************************)
\* Whoever gets the mutex finds every node exactly once in the table, under its
\* own account, whatever updates renamed or did not list it, and whichever
\* nodes were removed.
TableMatchesNodes ==
  holder = NoThread \/ thread[holder].pc \notin {"rename"} =>
    \A a \in Accounts : mNetwork[a] = {n \in mNodes : mAccountId[n] = a}

\* A policy that was really changed holds for all nodes of the network, also
\* while updates and look-ups come in between: once TLS was disabled, no node has
\* the TLS port unless a change back is under way.
DisabledMeansPlain ==
  mTransportSecurity = "plain" /\ ClientIdle => \A n \in mNodes : port[n] = "plain"

\* A node becomes healthy again only after its readmit time, although
\* readmitNodes reads the clock once and the readmit times one by one.
NotReadmittedEarly ==
  [][\A n \in Nodes : n \in mHealthyNodes' \ mHealthyNodes => node[n].readmitIn <= 0]_vars

\* Threads that look up, pick and rename at the same time see a table that
\* changes in one step.
Directory == INSTANCE NodeDirectory WITH
  names <- [n \in Nodes |-> CHOOSE a \in Accounts : n \in mNetwork[a]],
  found <- [t \in Threads |-> thread[t].found]

LooksLikeADirectory == Directory!Spec

\* A look-up, an update and a policy change end, in every order in which
\* threads want the client's mutex and the network's.
OperationsEnd ==
  \A t \in Threads : thread[t].op \in {"lookup", "update", "tls"} ~> thread[t].op = "none"

=============================================================================
