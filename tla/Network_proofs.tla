--------------------------- MODULE Network_proofs ---------------------------
(***************************************************************************)
(* The table, the ports and the healthy nodes of a network, for all        *)
(* threads, nodes, accounts, address books and limits; and that the        *)
(* network implements NodeDirectory.  Everything rests on who holds which  *)
(* mutex (Exclusive), and on what an operation that was interrupted half   *)
(* way has done so far (DueIsPast, PolicyHolds, Renaming).                 *)
(***************************************************************************)
EXTENDS Network, FiniteSetTheorems, TLAPS

-----------------------------------------------------------------------------
(***************************************************************************)
(* What the operations on a node preserve, for every backoff range.        *)
(***************************************************************************)
\* A node starts inside its ranges.
LEMMA NewNodeType == NewNode \in NodeState
  BY NodeAssumption, SMT DEF NewNode, NodeState

\* No operation takes a node out of its ranges: the backoff doubled or halved
\* stays between MinNodeBackoff and MaxNodeBackoff, and no readmit time is
\* further away than MaxNodeBackoff.
LEMMA NodeOperationsType ==
  ASSUME NEW n \in NodeState, NEW up \in BOOLEAN
  PROVE  /\ increaseBackoff(n) \in NodeState
         /\ decreaseBackoff(n) \in NodeState
         /\ getChannel(n) \in NodeState
         /\ WaitForConnected(n, up) \in NodeState
         /\ closeChannel(n) \in NodeState
         /\ Elapse(n) \in NodeState
  <1> USE NodeAssumption DEF NodeState, AtMost, AtLeast
  <1>1. increaseBackoff(n) \in NodeState
    <2> DEFINE bad == AtMost(n.mBadGrpcStatusCount + 1, MaxBadStatus)
               next == AtMost(2 * n.mCurrentBackoff, MaxNodeBackoff)
    <2>1. bad \in 0 .. MaxBadStatus
      BY SMT
    <2>2. n.mCurrentBackoff \in MinNodeBackoff .. MaxNodeBackoff
      BY SMT
    <2>3. next \in MinNodeBackoff .. MaxNodeBackoff
      BY <2>2, SMT
    <2>4. n.mCurrentBackoff \in -1 .. MaxNodeBackoff
      BY <2>2, SMT
    <2>5. increaseBackoff(n) = [n EXCEPT !.mBadGrpcStatusCount = bad,
                                         !.readmitIn = n.mCurrentBackoff,
                                         !.mCurrentBackoff = next]
      BY DEF increaseBackoff
    <2> HIDE DEF bad, next
    <2>6. QED
      BY <2>1, <2>3, <2>4, <2>5
  <1>2. decreaseBackoff(n) \in NodeState
    BY SMT DEF decreaseBackoff
  <1>3. getChannel(n) \in NodeState /\ closeChannel(n) \in NodeState
    BY DEF getChannel, closeChannel
  <1>4. WaitForConnected(n, up) \in NodeState
    BY SMT DEF WaitForConnected
  <1>5. Elapse(n) \in NodeState
    BY SMT DEF Elapse
  <1>6. QED
    BY <1>1, <1>2, <1>3, <1>4, <1>5

-----------------------------------------------------------------------------
(***************************************************************************)
(* The inductive invariant.                                                *)
(***************************************************************************)
Waiting  == {"idle", "renameAgain"}   \* where an operation is without the mutex
Updating == {"update", "tls"}         \* what has the mutex of the client

ThreadType ==
  [ op     : {"none", "lookup", "pick", "update", "tls"},
    pc     : {"idle", "readmit", "earliest", "admit", "choose", "worn", "crashed",
              "rename", "renameAgain", "secure"},
    todo   : SUBSET Nodes, due : SUBSET Nodes, next : -1 .. MaxReadmit,
    key    : Accounts \cup {NoThread}, count : Nat, chosen : SUBSET Nodes,
    book   : AddressBooks \cup {NoThread}, target : Ports,
    newNetworkMap : [Accounts -> SUBSET Nodes], found : SUBSET Nodes ]

TypeOK ==
  /\ node \in [Nodes -> NodeState] /\ busy \in SUBSET Nodes
  /\ uses \in [Nodes -> 0 .. MaxUses] /\ failed \in SUBSET Nodes
  /\ port \in [Nodes -> Ports] /\ mTransportSecurity \in Ports
  /\ mAccountId \in [Nodes -> Accounts] /\ mNodes \in SUBSET Nodes
  /\ mNetwork \in [Accounts -> SUBSET Nodes]
  /\ mHealthyNodes \in SUBSET Nodes /\ earliestIn \in -1 .. MaxReadmit
  /\ holder \in Threads \cup {NoThread} /\ thread \in [Threads -> ThreadType]

\* The steps of each operation; only a thread at rest remembers a look-up.
Phase(k) ==
  /\ k.pc = "idle" <=> k.op = "none"
  /\ k.pc \in {"rename", "renameAgain"} <=> k.op = "update"
  /\ k.pc = "secure" <=> k.op = "tls"
  /\ k.op = "lookup" => k.key \in Accounts
  /\ k.op = "update" => k.book \in AddressBooks
  /\ k.pc \in {"worn", "crashed"} => MaxNodeAttempts > 0
  /\ k.op # "none" => k.found = {}

\* One thread has the mutex of the network, and one that of the client.
Exclusive ==
  /\ \A t \in Threads : Phase(thread[t])
  /\ \A t \in Threads : holder = t <=> thread[t].pc \notin Waiting
  /\ \A t, u \in Threads :
       thread[t].op \in Updating /\ thread[u].op \in Updating => t = u

\* What readmitNodes is about to admit is past its readmit time.
DueIsPast == \A t \in Threads : \A n \in thread[t].due : node[n].readmitIn <= 0

\* The nodes that have the policy already.
PolicyHolds ==
  /\ mTransportSecurity = "plain" /\ (\A t \in Threads : thread[t].op # "tls") =>
       \A n \in mNodes : port[n] = "plain"
  /\ \A t \in Threads : thread[t].op = "tls" /\ thread[t].target = "plain" =>
       \A n \in mNodes \ thread[t].todo : port[n] = "plain"

\* The account under which a node is found.
Names == [n \in Nodes |-> CHOOSE a \in Accounts : n \in mNetwork[a]]

Named == /\ \A n \in mNodes : Names[n] \in Accounts
         /\ \A a \in Accounts : mNetwork[a] = {n \in mNodes : Names[n] = a}

\* What a node n with port p and a name is called once operation k is through.
Renamed(k, n, p, name) ==
  IF n \in Listed(k.book, k.target) /\ p = k.target THEN k.book.names[n] ELSE name

\* The table shows the old names until all the new ones are known.
Renaming ==
  /\ \A t \in Threads : thread[t].pc = "rename" =>
       /\ thread[t].todo \subseteq mNodes
       /\ \A a \in Accounts : thread[t].newNetworkMap[a] =
            {n \in mNodes : n \notin thread[t].todo /\ mAccountId[n] = a}
       /\ \A n \in mNodes : mAccountId[n] = IF n \in thread[t].todo THEN Names[n]
                                            ELSE Renamed(thread[t], n, port[n], Names[n])
  /\ \A t \in Threads : thread[t].pc = "renameAgain" => thread[t].newNetworkMap = Nothing
  /\ (\A t \in Threads : thread[t].pc # "rename") => \A n \in mNodes : mAccountId[n] = Names[n]

IInv == TypeOK /\ Exclusive /\ DueIsPast /\ PolicyHolds /\ Named /\ Renaming

-----------------------------------------------------------------------------
(***************************************************************************)
(* Types.                                                                  *)
(***************************************************************************)
\* A thread that does nothing.
LEMMA IdleType == Idle \in ThreadType /\ Phase(Idle) /\ Nothing \in [Accounts -> SUBSET Nodes]
<1>1. Nothing \in [Accounts -> SUBSET Nodes]  BY DEF Nothing
<1>2. 0 \in -1 .. MaxReadmit /\ MaxReadmit \in -1 .. MaxReadmit
  BY NetworkAssumption
<1>3. Idle \in ThreadType  BY <1>1, <1>2 DEF Idle, ThreadType, Ports
<1>4. Phase(Idle)  BY DEF Idle, Phase
<1> QED  BY <1>1, <1>3, <1>4

\* The thread t may act, and becomes new: the discipline of the two mutexes
\* stays, if it takes or leaves that of the network as its place says.
LEMMA ControlStays ==
  ASSUME IInv, NEW t \in Threads, NEW new \in ThreadType, Phase(new),
         Move(t, new), holder \in {t, NoThread},
         holder' = IF new.pc \in Waiting THEN NoThread ELSE t,
         new.op \in Updating => ClientIdle \/ thread[t].op \in Updating
  PROVE  /\ thread' \in [Threads -> ThreadType] /\ thread'[t] = new
         /\ \A u \in Threads \ {t} : thread'[u] = thread[u]
         /\ holder' \in Threads \cup {NoThread}
         /\ Exclusive'
<1>1. thread \in [Threads -> ThreadType] /\ t # NoThread
  BY NetworkAssumption DEF IInv, TypeOK
<1>2. thread' = [thread EXCEPT ![t] = new]  BY DEF Move
<1>3. thread' \in [Threads -> ThreadType]  BY <1>1, <1>2
<1>4. thread'[t] = new  BY <1>1, <1>2
<1>5. \A u \in Threads \ {t} : thread'[u] = thread[u]  BY <1>1, <1>2
<1>6. holder' \in {t, NoThread}  OBVIOUS
<1>7. \A u \in Threads : Phase(thread'[u])
  BY <1>4, <1>5 DEF IInv, Exclusive
<1>8. ASSUME NEW u \in Threads  PROVE holder' = u <=> thread'[u].pc \notin Waiting
  <2>1. CASE u = t
    <3>1. holder' = t <=> new.pc \notin Waiting  BY <1>1
    <3> QED  BY <2>1, <3>1, <1>4
  <2>2. CASE u # t
    <3>1. u # NoThread  BY NetworkAssumption
    <3>2. holder # u /\ holder' # u  BY <2>2, <3>1, <1>6
    <3>3. thread[u].pc \in Waiting  BY <3>2 DEF IInv, Exclusive
    <3> QED  BY <2>2, <3>2, <3>3, <1>5
  <2> QED  BY <2>1, <2>2
<1>9. ASSUME NEW u \in Threads, NEW v \in Threads,
             thread'[u].op \in Updating, thread'[v].op \in Updating
      PROVE  u = v
  <2>1. CASE thread[t].op \in Updating
    <3>1. thread[u].op \in Updating /\ thread[v].op \in Updating
      BY <1>5, <1>9, <2>1
    <3> QED  BY <3>1 DEF IInv, Exclusive
  <2>2. CASE thread[t].op \notin Updating
    <3>1. CASE new.op \in Updating
      <4>1. \A w \in Threads : thread[w].op \notin Updating
        BY <2>2, <3>1 DEF ClientIdle, Updating
      <4>2. u = t /\ v = t  BY <1>5, <1>9, <4>1
      <4> QED  BY <4>2
    <3>2. CASE new.op \notin Updating
      <4>1. u # t /\ v # t  BY <1>4, <1>9, <3>2
      <4>2. thread[u].op \in Updating /\ thread[v].op \in Updating
        BY <1>5, <1>9, <4>1
      <4> QED  BY <4>2 DEF IInv, Exclusive
    <3> QED  BY <3>1, <3>2
  <2> QED  BY <2>1, <2>2
<1>10. Exclusive'  BY <1>7, <1>8, <1>9 DEF Exclusive
<1> QED  BY <1>3, <1>4, <1>5, <1>6, <1>10

\* While one thread acts with the mutex of the network, no other renames.
LEMMA OthersWait ==
  ASSUME IInv, NEW t \in Threads, holder \in {t, NoThread}
  PROVE  \A u \in Threads \ {t} : thread[u].pc \in Waiting
<1> TAKE u \in Threads \ {t}
<1>1. holder # u  BY NetworkAssumption
<1> QED  BY <1>1 DEF IInv, Exclusive

\* A step of t that changes no name, no port and no readmit time, and in which
\* t is not renaming or changing ports, leaves what operations have done.
LEMMA DataStays ==
  ASSUME IInv, NEW t \in Threads, NEW new \in ThreadType, Phase(new),
         thread'[t] = new, \A u \in Threads \ {t} : thread'[u] = thread[u],
         UNCHANGED <<node, port, mTransportSecurity, tableVars>>,
         thread[t].op \notin Updating, new.op \notin Updating,
         \A n \in new.due : node[n].readmitIn <= 0
  PROVE  DueIsPast' /\ PolicyHolds' /\ Named' /\ Renaming'
<1>1. DueIsPast'
  <2> SUFFICES ASSUME NEW u \in Threads, NEW n \in thread'[u].due
               PROVE  node'[n].readmitIn <= 0
    BY DEF DueIsPast
  <2>1. CASE u = t  BY <2>1
  <2>2. CASE u # t  BY <2>2 DEF IInv, DueIsPast
  <2> QED  BY <2>1, <2>2
<1>2. \A u \in Threads : thread'[u].op = "tls" <=> thread[u].op = "tls"
  BY DEF Updating
<1>3. \A u \in Threads : thread'[u].op = "tls" => thread'[u] = thread[u]
  BY DEF Updating
<1>4. mNodes' = mNodes /\ mNetwork' = mNetwork /\ mAccountId' = mAccountId
  BY DEF tableVars
<1>5. PolicyHolds'
  BY <1>2, <1>3, <1>4 DEF IInv, PolicyHolds
<1>6. Names' = Names  BY <1>4 DEF Names
<1>7. Named'  BY <1>4, <1>6 DEF IInv, Named
<1>8. \A u \in Threads : thread'[u].pc \in {"rename", "renameAgain"} <=>
                         thread[u].pc \in {"rename", "renameAgain"}
  <2> TAKE u \in Threads
  <2>1. CASE u = t
    BY <2>1 DEF IInv, Exclusive, Phase, Updating
  <2>2. CASE u # t  BY <2>2
  <2> QED  BY <2>1, <2>2
<1>9. \A u \in Threads : thread'[u].pc \in {"rename", "renameAgain"} => thread'[u] = thread[u]
  <2> TAKE u \in Threads
  <2>1. CASE u = t
    BY <2>1 DEF Phase, Updating
  <2>2. CASE u # t  BY <2>2
  <2> QED  BY <2>1, <2>2
<1>10. Renaming'
  <2>1. ASSUME NEW u \in Threads, thread'[u].pc = "rename"
        PROVE  thread'[u] = thread[u] /\ thread[u].pc = "rename"
    BY <2>1, <1>9
  <2>2. ASSUME NEW u \in Threads, thread'[u].pc = "renameAgain"
        PROVE  thread'[u] = thread[u]
    BY <2>2, <1>9
  <2>3. (\A u \in Threads : thread'[u].pc # "rename") => \A u \in Threads : thread[u].pc # "rename"
    BY <1>8, <1>9
  <2>4. ASSUME NEW u \in Threads, thread'[u].pc = "rename"
        PROVE  /\ thread'[u].todo \subseteq mNodes'
               /\ \A a \in Accounts : thread'[u].newNetworkMap[a] =
                    {n \in mNodes' : n \notin thread'[u].todo /\ mAccountId'[n] = a}
               /\ \A n \in mNodes' : mAccountId'[n] = IF n \in thread'[u].todo THEN Names'[n]
                            ELSE Renamed(thread'[u], n, port'[n], Names'[n])
    <3>1. thread'[u] = thread[u] /\ thread[u].pc = "rename"  BY <2>1, <2>4
    <3> QED  BY <1>4, <1>6, <3>1 DEF IInv, Renaming
  <2> QED  BY <1>4, <1>6, <2>2, <2>3, <2>4 DEF IInv, Renaming, Nothing
<1> QED  BY <1>1, <1>5, <1>7, <1>10

-----------------------------------------------------------------------------
(***************************************************************************)
(* readmitNodes, getNodeProxies and getNodeAccountIdsForExecute.           *)
(***************************************************************************)
\* A step of a thread that looks up or picks.
LEMMA Looks ==
  ASSUME IInv, NEW t \in Threads, NEW new \in ThreadType, Phase(new),
         Move(t, new), holder \in {t, NoThread},
         holder' = IF new.pc \in Waiting THEN NoThread ELSE t,
         thread[t].op \notin Updating, new.op \notin Updating,
         \A n \in new.due : node[n].readmitIn <= 0,
         UNCHANGED <<node, busy, failed, tableVars, portVars>>,
         uses' \in [Nodes -> 0 .. MaxUses],
         mHealthyNodes' \in SUBSET Nodes, earliestIn' \in -1 .. MaxReadmit
  PROVE  IInv'
<1>1. /\ thread' \in [Threads -> ThreadType] /\ thread'[t] = new
      /\ \A u \in Threads \ {t} : thread'[u] = thread[u]
      /\ holder' \in Threads \cup {NoThread}
      /\ Exclusive'
  BY ControlStays
<1>2. UNCHANGED <<node, port, mTransportSecurity, tableVars>>  BY DEF portVars
<1>3. DueIsPast' /\ PolicyHolds' /\ Named' /\ Renaming'
  BY <1>1, <1>2, DataStays
<1>4. TypeOK'  BY <1>1 DEF IInv, TypeOK, tableVars, portVars
<1> QED  BY <1>1, <1>3, <1>4 DEF IInv

\* Where a thread has the mutex to look up or to pick.
Looking == {"readmit", "earliest", "admit", "choose", "worn"}

LEMMA InLooking ==
  ASSUME IInv, NEW t \in Threads, thread[t].pc \in Looking
  PROVE  /\ thread[t] \in ThreadType /\ thread[t].op \in {"lookup", "pick"}
         /\ holder = t /\ thread[t].op \notin Updating
         /\ \A n \in thread[t].due : node[n].readmitIn <= 0
         /\ Phase(thread[t])
<1>1. thread[t] \in ThreadType /\ Phase(thread[t])
  BY DEF IInv, TypeOK, Exclusive
<1>2. thread[t].op \in {"lookup", "pick"}
  BY <1>1 DEF Phase, ThreadType, Looking
<1>3. thread[t].pc \notin Waiting  BY DEF Looking, Waiting
<1>4. holder = t  BY <1>3 DEF IInv, Exclusive
<1>5. \A n \in thread[t].due : node[n].readmitIn <= 0  BY DEF IInv, DueIsPast
<1> QED  BY <1>1, <1>2, <1>4, <1>5 DEF Updating

\* The same operation at another of these places is in a phase of its own.
LEMMA StaysLooking ==
  ASSUME NEW k \in ThreadType, Phase(k), k.op \in {"lookup", "pick"},
         NEW new \in ThreadType, new.op = k.op, new.key = k.key, new.found = k.found,
         new.pc \in Looking \/ new.pc = "crashed",
         new.pc \in {"worn", "crashed"} => k.pc \in {"worn", "crashed"}
  PROVE  Phase(new) /\ new.pc \notin Waiting /\ new.op \notin Updating
  BY DEF Phase, Looking, Waiting, Updating

LEMMA AfterReadmitType ==
  ASSUME NEW k \in ThreadType, Phase(k), k.op \in {"lookup", "pick"}
  PROVE  /\ AfterReadmit(k) \in ThreadType /\ Phase(AfterReadmit(k))
         /\ AfterReadmit(k).pc \notin Waiting /\ AfterReadmit(k).op \notin Updating
         /\ AfterReadmit(k).due = {}
<1> DEFINE new == AfterReadmit(k)
<1>1. /\ new \in ThreadType /\ new.op = k.op /\ new.key = k.key /\ new.found = k.found
      /\ new.pc = "choose" /\ new.due = {}
  BY DEF AfterReadmit, ThreadType
<1> HIDE DEF new
<1>2. Phase(new) /\ new.pc \notin Waiting /\ new.op \notin Updating
  BY <1>1, StaysLooking DEF Looking
<1> QED  BY <1>1, <1>2 DEF new

LEMMA ReadmitX ==
  ASSUME IInv, NEW t \in Threads, Readmit(t)
  PROVE  IInv'
<1> DEFINE k == thread[t]
           new == [k EXCEPT !.pc = "earliest", !.todo = mNodes,
                            !.next = MaxReadmit, !.due = PastReadmitTime]
<1>1. /\ k.pc = "readmit"
      /\ Move(t, AfterReadmit(k)) \/ Move(t, new)
      /\ UNCHANGED <<nodeVars, tableVars, readmitVars, portVars, holder>>
  BY DEF Readmit
<1>2. /\ k \in ThreadType /\ k.op \in {"lookup", "pick"}
      /\ holder = t /\ k.op \notin Updating /\ Phase(k)
  BY <1>1, InLooking DEF Looking
<1>3. /\ mNodes \in SUBSET Nodes /\ MaxReadmit \in -1 .. MaxReadmit
      /\ PastReadmitTime \in SUBSET Nodes
      /\ \A n \in PastReadmitTime : node[n].readmitIn <= 0
  BY NetworkAssumption DEF IInv, TypeOK, PastReadmitTime
<1>4. /\ UNCHANGED <<node, busy, failed, tableVars, portVars>>
      /\ uses' \in [Nodes -> 0 .. MaxUses]
      /\ mHealthyNodes' \in SUBSET Nodes /\ earliestIn' \in -1 .. MaxReadmit
  BY <1>1 DEF IInv, TypeOK, nodeVars, readmitVars
<1>5. holder' = t  BY <1>1, <1>2
<1>6. CASE Move(t, AfterReadmit(k))
  BY <1>2, <1>4, <1>5, <1>6, AfterReadmitType, Looks
<1>7. CASE Move(t, new)
  <2>1. /\ new \in ThreadType /\ new.op = k.op /\ new.key = k.key /\ new.found = k.found
        /\ new.pc = "earliest" /\ new.due = PastReadmitTime
    BY <1>2, <1>3 DEF ThreadType
  <2> HIDE DEF new, k
  <2>2. Phase(new) /\ new.pc \notin Waiting /\ new.op \notin Updating
    BY <1>2, <2>1, StaysLooking DEF Looking
  <2> QED  BY <1>2, <1>3, <1>4, <1>5, <1>7, <2>1, <2>2, Looks DEF k
<1> QED  BY <1>1, <1>6, <1>7

LEMMA EarliestX ==
  ASSUME IInv, NEW t \in Threads, Earliest(t)
  PROVE  IInv'
<1> DEFINE k == thread[t]
           One(n) == [k EXCEPT !.todo = @ \ {n},
                        !.next = IF n \notin k.due /\ node[n].readmitIn < @
                                 THEN node[n].readmitIn ELSE @]
           done == [k EXCEPT !.pc = "admit", !.next = 0, !.todo = mNodes]
<1>1. /\ k.pc = "earliest"
      /\ \/ \E n \in k.todo : Move(t, One(n)) /\ UNCHANGED earliestIn
         \/ earliestIn' = k.next /\ Move(t, done)
      /\ UNCHANGED <<nodeVars, tableVars, mHealthyNodes, portVars, holder>>
  BY DEF Earliest
<1>2. /\ k \in ThreadType /\ k.op \in {"lookup", "pick"}
      /\ holder = t /\ k.op \notin Updating /\ Phase(k)
      /\ \A n \in k.due : node[n].readmitIn <= 0
  BY <1>1, InLooking DEF Looking
<1>3. /\ mNodes \in SUBSET Nodes /\ 0 \in -1 .. MaxReadmit /\ MaxReadmit \in Nat
      /\ earliestIn \in -1 .. MaxReadmit /\ k.next \in -1 .. MaxReadmit
      /\ \A n \in Nodes : node[n].readmitIn \in Int /\ -1 <= node[n].readmitIn
  BY <1>2, NetworkAssumption, NodeAssumption DEF IInv, TypeOK, NodeState, ThreadType
<1>4. /\ UNCHANGED <<node, busy, failed, tableVars, portVars>>
      /\ uses' \in [Nodes -> 0 .. MaxUses]
      /\ mHealthyNodes' \in SUBSET Nodes
  BY <1>1 DEF IInv, TypeOK, nodeVars
<1>5. holder' = t  BY <1>1, <1>2
<1>6. ASSUME NEW n \in k.todo, Move(t, One(n)), UNCHANGED earliestIn
      PROVE  IInv'
  <2> DEFINE next == IF n \notin k.due /\ node[n].readmitIn < k.next
                     THEN node[n].readmitIn ELSE k.next
             new == [k EXCEPT !.todo = k.todo \ {n}, !.next = next]
  <2>1. n \in Nodes  BY <1>2 DEF ThreadType
  <2>2. next \in -1 .. MaxReadmit  BY <1>3, <2>1
  <2>3. Move(t, new)  BY <1>6
  <2> HIDE DEF next
  <2>4. /\ new \in ThreadType /\ new.op = k.op /\ new.key = k.key /\ new.found = k.found
        /\ new.pc = k.pc /\ new.due = k.due
    BY <1>2, <2>2 DEF ThreadType
  <2> HIDE DEF new, k
  <2>5. Phase(new) /\ new.pc \notin Waiting /\ new.op \notin Updating
    BY <1>1, <1>2, <2>4, StaysLooking DEF Looking
  <2> QED  BY <1>2, <1>3, <1>4, <1>5, <1>6, <2>3, <2>4, <2>5, Looks DEF k
<1>7. ASSUME earliestIn' = k.next, Move(t, done)
      PROVE  IInv'
  <2>1. /\ done \in ThreadType /\ done.op = k.op /\ done.key = k.key /\ done.found = k.found
        /\ done.pc = "admit" /\ done.due = k.due
    BY <1>2, <1>3 DEF ThreadType
  <2> HIDE DEF done, k
  <2>2. Phase(done) /\ done.pc \notin Waiting /\ done.op \notin Updating
    BY <1>2, <2>1, StaysLooking DEF Looking
  <2> QED  BY <1>2, <1>3, <1>4, <1>5, <1>7, <2>1, <2>2, Looks DEF k
<1> QED  BY <1>1, <1>6, <1>7

LEMMA AdmitX ==
  ASSUME IInv, NEW t \in Threads, Admit(t)
  PROVE  IInv' /\ \A n \in mHealthyNodes' \ mHealthyNodes : node[n].readmitIn <= 0
<1> DEFINE k == thread[t]
           One(n) == [k EXCEPT !.todo = @ \ {n}]
<1>1. /\ k.pc = "admit"
      /\ UNCHANGED <<nodeVars, tableVars, earliestIn, portVars, holder>>
      /\ \/ \E n \in k.todo \cap mHealthyNodes :
              Move(t, One(n)) /\ UNCHANGED mHealthyNodes
         \/ \E n \in k.todo \ mHealthyNodes :
              Move(t, One(n)) /\ mHealthyNodes' = mHealthyNodes \cup ({n} \cap k.due)
         \/ Move(t, AfterReadmit(k)) /\ UNCHANGED mHealthyNodes
  BY DEF Admit
<1>2. /\ k \in ThreadType /\ k.op \in {"lookup", "pick"}
      /\ holder = t /\ k.op \notin Updating /\ Phase(k)
      /\ \A n \in k.due : node[n].readmitIn <= 0
  BY <1>1, InLooking DEF Looking
<1>3. mHealthyNodes \in SUBSET Nodes /\ k.todo \in SUBSET Nodes /\ k.due \in SUBSET Nodes
  BY <1>2 DEF IInv, TypeOK, ThreadType
<1>4. mHealthyNodes' \in SUBSET Nodes /\ mHealthyNodes' \ mHealthyNodes \subseteq k.due
  BY <1>1, <1>3
<1>5. /\ UNCHANGED <<node, busy, failed, tableVars, portVars>>
      /\ uses' \in [Nodes -> 0 .. MaxUses]
      /\ earliestIn' \in -1 .. MaxReadmit
  BY <1>1 DEF IInv, TypeOK, nodeVars
<1>6. holder' = t  BY <1>1, <1>2
<1>7. ASSUME NEW n \in k.todo, Move(t, One(n))
      PROVE  IInv'
  <2> DEFINE new == One(n)
  <2>1. /\ new \in ThreadType /\ new.op = k.op /\ new.key = k.key /\ new.found = k.found
        /\ new.pc = k.pc /\ new.due = k.due
    BY <1>2 DEF ThreadType
  <2>2. Move(t, new)  BY <1>7
  <2> HIDE DEF new, k
  <2>3. Phase(new) /\ new.pc \notin Waiting /\ new.op \notin Updating
    BY <1>1, <1>2, <2>1, StaysLooking DEF Looking
  <2> QED  BY <1>2, <1>4, <1>5, <1>6, <2>1, <2>2, <2>3, Looks DEF k
<1>8. CASE Move(t, AfterReadmit(k))
  BY <1>2, <1>4, <1>5, <1>6, <1>8, AfterReadmitType, Looks
<1> QED  BY <1>1, <1>2, <1>4, <1>7, <1>8

LEMMA LookupBeginX ==
  ASSUME IInv, NEW t \in Threads, LookupBegin(t)
  PROVE  IInv'
<1>1. /\ thread[t].pc = "idle" /\ holder = NoThread /\ holder' = t
      /\ UNCHANGED <<nodeVars, tableVars, readmitVars, portVars>>
  BY DEF LookupBegin, Enter
<1>2. PICK id \in Accounts :
        Move(t, [Idle EXCEPT !.op = "lookup", !.pc = "readmit", !.key = id])
  BY DEF LookupBegin
<1> DEFINE new == [Idle EXCEPT !.op = "lookup", !.pc = "readmit", !.key = id]
<1>3. thread[t].op = "none"
  BY <1>1 DEF IInv, Exclusive, Phase
<1>4. /\ new \in ThreadType /\ new.op = "lookup" /\ new.pc = "readmit" /\ new.key = id
      /\ new.due = {} /\ new.found = {}
  BY IdleType DEF ThreadType, Idle
<1>5. /\ UNCHANGED <<node, busy, failed, tableVars, portVars>>
      /\ uses' \in [Nodes -> 0 .. MaxUses]
      /\ mHealthyNodes' \in SUBSET Nodes /\ earliestIn' \in -1 .. MaxReadmit
  BY <1>1 DEF IInv, TypeOK, nodeVars, readmitVars
<1>6. Move(t, new)  BY <1>2
<1> HIDE DEF new
<1>7. Phase(new) /\ new.pc \notin Waiting /\ new.op \notin Updating
  BY <1>4 DEF Phase, Waiting, Updating
<1> QED  BY <1>1, <1>3, <1>4, <1>5, <1>6, <1>7, Looks DEF Updating

LEMMA LookupEndX ==
  ASSUME IInv, NEW t \in Threads, LookupEnd(t)
  PROVE  IInv'
<1> DEFINE k == thread[t]
           new == [Idle EXCEPT !.found = mNetwork[k.key]]
<1>1. /\ k.pc = "choose" /\ k.op = "lookup" /\ holder' = NoThread /\ Move(t, new)
      /\ uses' = [n \in Nodes |-> IF n \in mNetwork[k.key] THEN MaxUses ELSE uses[n]]
      /\ UNCHANGED <<node, busy, failed, tableVars, readmitVars, portVars>>
  BY DEF LookupEnd, Leave
<1>2. holder = t /\ Phase(k) /\ k.op \notin Updating  BY <1>1, InLooking DEF Looking
<1>3. k.key \in Accounts  BY <1>1, <1>2 DEF Phase
<1>4. mNetwork[k.key] \in SUBSET Nodes  BY <1>3 DEF IInv, TypeOK
<1>5. new \in ThreadType /\ new.op = "none" /\ new.pc = "idle" /\ new.due = {}
  BY <1>4, IdleType DEF ThreadType, Idle
<1>6. /\ mHealthyNodes' \in SUBSET Nodes /\ earliestIn' \in -1 .. MaxReadmit
      /\ uses' \in [Nodes -> 0 .. MaxUses]
  BY <1>1, NetworkAssumption DEF IInv, TypeOK, readmitVars
<1> HIDE DEF new, k
<1>7. Phase(new) /\ new.pc \in Waiting /\ new.op \notin Updating
  BY <1>5 DEF Phase, Waiting, Updating
<1> QED  BY <1>1, <1>2, <1>5, <1>6, <1>7, Looks DEF k

LEMMA PickBeginX ==
  ASSUME IInv, NEW t \in Threads, PickBegin(t)
  PROVE  IInv'
<1>1. /\ thread[t].pc = "idle" /\ holder = NoThread /\ holder' = t
      /\ UNCHANGED <<nodeVars, tableVars, readmitVars, portVars>>
  BY DEF PickBegin, Enter
<1>2. PICK max \in MaxAttempts :
        Move(t, [Idle EXCEPT !.op = "pick", !.count = SmallerOf(max, Cardinality(mNodes)),
                   !.todo = IF MaxNodeAttempts > 0 THEN mNodes ELSE {},
                   !.pc = IF MaxNodeAttempts > 0 THEN "worn" ELSE "readmit"])
  BY DEF PickBegin
<1> DEFINE count == SmallerOf(max, Cardinality(mNodes))
           todo == IF MaxNodeAttempts > 0 THEN mNodes ELSE {}
           place == IF MaxNodeAttempts > 0 THEN "worn" ELSE "readmit"
           new == [Idle EXCEPT !.op = "pick", !.count = count, !.todo = todo, !.pc = place]
<1>3. thread[t].op = "none"
  BY <1>1 DEF IInv, Exclusive, Phase
<1>4. count \in Nat
  <2>1. mNodes \subseteq Nodes  BY DEF IInv, TypeOK
  <2>2. Cardinality(mNodes) \in Nat
    BY <2>1, NetworkAssumption, FS_Subset, FS_CardinalityType
  <2>3. max \in Nat  BY NetworkAssumption
  <2> QED  BY <2>2, <2>3 DEF SmallerOf
<1>5. /\ todo \in SUBSET Nodes /\ place \in {"worn", "readmit"}
      /\ place = "worn" => MaxNodeAttempts > 0
  BY DEF IInv, TypeOK
<1>6. Move(t, new)  BY <1>2
<1> HIDE DEF count, todo, place
<1>7. /\ new \in ThreadType /\ new.op = "pick" /\ new.pc = place
      /\ new.due = {} /\ new.found = {}
  BY <1>4, <1>5, IdleType DEF ThreadType, Idle
<1>8. /\ UNCHANGED <<node, busy, failed, tableVars, portVars>>
      /\ uses' \in [Nodes -> 0 .. MaxUses]
      /\ mHealthyNodes' \in SUBSET Nodes /\ earliestIn' \in -1 .. MaxReadmit
  BY <1>1 DEF IInv, TypeOK, nodeVars, readmitVars
<1> HIDE DEF new
<1>9. Phase(new) /\ new.pc \notin Waiting /\ new.op \notin Updating
  BY <1>5, <1>7 DEF Phase, Waiting, Updating
<1> QED  BY <1>1, <1>3, <1>6, <1>7, <1>8, <1>9, Looks DEF Updating

\* A step that only moves a picking thread.
LEMMA PicksOn ==
  ASSUME IInv, NEW t \in Threads, thread[t].pc \in Looking,
         NEW new \in ThreadType, Move(t, new), new.op = thread[t].op,
         new.key = thread[t].key, new.found = thread[t].found, new.due = thread[t].due,
         new.pc \in Looking, new.pc = "worn" => thread[t].pc = "worn",
         UNCHANGED <<nodeVars, tableVars, readmitVars, portVars, holder>>
  PROVE  IInv'
<1>1. /\ thread[t] \in ThreadType /\ thread[t].op \in {"lookup", "pick"}
      /\ holder = t /\ thread[t].op \notin Updating
      /\ \A n \in thread[t].due : node[n].readmitIn <= 0
      /\ Phase(thread[t])
  BY InLooking
<1>2. Phase(new) /\ new.pc \notin Waiting /\ new.op \notin Updating
  BY <1>1, StaysLooking DEF Looking
<1>3. /\ UNCHANGED <<node, busy, failed, tableVars, portVars>>
      /\ uses' \in [Nodes -> 0 .. MaxUses]
      /\ mHealthyNodes' \in SUBSET Nodes /\ earliestIn' \in -1 .. MaxReadmit
  BY DEF IInv, TypeOK, nodeVars, readmitVars
<1> QED  BY <1>1, <1>2, <1>3, Looks

LEMMA KeepNodeX ==
  ASSUME IInv, NEW t \in Threads, KeepNode(t)
  PROVE  IInv'
<1> DEFINE k == thread[t]
<1>1. /\ k.pc = "worn" /\ UNCHANGED <<nodeVars, tableVars, readmitVars, portVars, holder>>
      /\ \/ \E n \in k.todo : Move(t, [k EXCEPT !.todo = @ \ {n}])
         \/ Move(t, [k EXCEPT !.pc = "readmit"])
  BY DEF KeepNode
<1>2. k \in ThreadType  BY DEF IInv, TypeOK
<1>3. \E todo \in SUBSET Nodes, p \in {k.pc, "readmit"} :
        Move(t, [k EXCEPT !.todo = todo, !.pc = p])
  <2>1. ASSUME NEW n \in k.todo, Move(t, [k EXCEPT !.todo = @ \ {n}])
        PROVE  Move(t, [k EXCEPT !.todo = k.todo \ {n}, !.pc = k.pc]) /\ k.todo \ {n} \in SUBSET Nodes
    BY <1>2, <2>1 DEF ThreadType
  <2>2. ASSUME Move(t, [k EXCEPT !.pc = "readmit"])
        PROVE  Move(t, [k EXCEPT !.todo = k.todo, !.pc = "readmit"]) /\ k.todo \in SUBSET Nodes
    BY <1>2, <2>2 DEF ThreadType
  <2> HIDE DEF k
  <2> QED  BY <1>1, <2>1, <2>2
<1>4. PICK todo \in SUBSET Nodes, p \in {k.pc, "readmit"} :
        Move(t, [k EXCEPT !.todo = todo, !.pc = p])
  BY <1>3
<1> DEFINE new == [k EXCEPT !.todo = todo, !.pc = p]
<1>5. /\ new \in ThreadType /\ new.op = k.op /\ new.key = k.key
      /\ new.found = k.found /\ new.due = k.due /\ new.pc = p
  BY <1>1, <1>2 DEF ThreadType
<1>6. Move(t, new)  BY <1>4
<1> HIDE DEF new
<1> QED  BY <1>1, <1>4, <1>5, <1>6, PicksOn DEF Looking

LEMMA ChooseX ==
  ASSUME IInv, NEW t \in Threads, NEW n \in Nodes, Choose(t, n)
  PROVE  IInv'
<1> DEFINE k == thread[t]
           new == [k EXCEPT !.chosen = @ \cup {n}, !.pc = "readmit"]
<1>1. /\ k.pc = "choose" /\ Move(t, new)
      /\ UNCHANGED <<nodeVars, tableVars, readmitVars, portVars, holder>>
  BY DEF Choose
<1>2. k \in ThreadType  BY DEF IInv, TypeOK
<1>3. /\ new \in ThreadType /\ new.op = k.op /\ new.key = k.key
      /\ new.found = k.found /\ new.due = k.due /\ new.pc = "readmit"
  BY <1>2 DEF ThreadType
<1> HIDE DEF new
<1> QED  BY <1>1, <1>3, PicksOn DEF Looking

LEMMA AwaitReadmissionX ==
  ASSUME IInv, NEW t \in Threads, AwaitReadmission(t)
  PROVE  IInv'
<1> DEFINE k == thread[t]
           new == [k EXCEPT !.pc = "readmit"]
<1>1. /\ k.pc = "choose" /\ Move(t, new)
      /\ UNCHANGED <<nodeVars, tableVars, readmitVars, portVars, holder>>
  BY DEF AwaitReadmission
<1>2. k \in ThreadType  BY DEF IInv, TypeOK
<1>3. /\ new \in ThreadType /\ new.op = k.op /\ new.key = k.key
      /\ new.found = k.found /\ new.due = k.due /\ new.pc = "readmit"
  BY <1>2 DEF ThreadType
<1> HIDE DEF new
<1> QED  BY <1>1, <1>3, PicksOn DEF Looking

LEMMA PickEndX ==
  ASSUME IInv, NEW t \in Threads, PickEnd(t)
  PROVE  IInv'
<1>1. /\ thread[t].pc = "readmit" /\ holder' = NoThread /\ Move(t, Idle)
      /\ UNCHANGED <<nodeVars, tableVars, readmitVars, portVars>>
  BY DEF PickEnd, Leave
<1>2. holder = t /\ thread[t].op \notin Updating  BY <1>1, InLooking DEF Looking
<1>3. /\ UNCHANGED <<node, busy, failed, tableVars, portVars>>
      /\ uses' \in [Nodes -> 0 .. MaxUses]
      /\ mHealthyNodes' \in SUBSET Nodes /\ earliestIn' \in -1 .. MaxReadmit
  BY <1>1 DEF IInv, TypeOK, nodeVars, readmitVars
<1>4. Idle.pc \in Waiting /\ Idle.op \notin Updating /\ Idle.due = {}
  BY DEF Idle, Waiting, Updating
<1>5. holder' = IF Idle.pc \in Waiting THEN NoThread ELSE t  BY <1>1, <1>4
<1> HIDE DEF Idle
<1> QED  BY <1>1, <1>2, <1>3, <1>4, <1>5, IdleType, Looks

\* What the accounts of the nodes are found under, once the table is known.
LEMMA NamedBy ==
  ASSUME NEW f, mNodes' \in SUBSET Nodes, \A n \in mNodes' : f[n] \in Accounts,
         \A a \in Accounts : mNetwork'[a] = {n \in mNodes' : f[n] = a}
  PROVE  Named' /\ \A n \in mNodes' : Names'[n] = f[n]
<1>1. ASSUME NEW n \in mNodes'  PROVE Names'[n] = f[n]
  <2>1. \A a \in Accounts : n \in mNetwork'[a] <=> a = f[n]  BY <1>1
  <2>2. (CHOOSE a \in Accounts : n \in mNetwork'[a]) = f[n]  BY <1>1, <2>1
  <2>3. Names' = [m \in Nodes |-> CHOOSE a \in Accounts : m \in mNetwork'[a]]
    BY DEF Names
  <2> QED  BY <1>1, <2>2, <2>3
<1>2. \A a \in Accounts : mNetwork'[a] = {n \in mNodes' : Names'[n] = a}  BY <1>1
<1> QED  BY <1>1, <1>2 DEF Named

\* While one thread has the mutex to look up or to pick, every node is found
\* under its account.
LEMMA Settled ==
  ASSUME IInv, NEW t \in Threads, holder \in {t, NoThread}, thread[t].pc # "rename"
  PROVE  /\ \A u \in Threads : thread[u].pc # "rename"
         /\ \A n \in mNodes : mAccountId[n] = Names[n]
<1>1. \A u \in Threads \ {t} : thread[u].pc \in Waiting  BY OthersWait
<1>2. \A u \in Threads : thread[u].pc # "rename"  BY <1>1 DEF Waiting
<1> QED  BY <1>2 DEF IInv, Renaming

LEMMA RemoveWornOutX ==
  ASSUME IInv, NEW t \in Threads, RemoveWornOut(t)
  PROVE  IInv' /\ mHealthyNodes' \subseteq mHealthyNodes
<1> DEFINE k == thread[t]
<1>1. PICK n \in k.todo :
        /\ node' = [node EXCEPT ![n] = closeChannel(@)]
        /\ mNodes' = mNodes \ {n}
        /\ mNetwork' = [mNetwork EXCEPT ![mAccountId[n]] = @ \ {n}]
        /\ mHealthyNodes' \in {mHealthyNodes, mHealthyNodes \ {n}}
        /\ \E rest \in {k.todo \ {n}, {}} : \E p \in {"worn", "crashed"} :
             Move(t, [k EXCEPT !.todo = rest, !.pc = p])
  BY DEF RemoveWornOut
<1>2. /\ k.pc = "worn"
      /\ UNCHANGED <<busy, uses, failed, mAccountId, earliestIn, portVars, holder>>
  BY DEF RemoveWornOut
<1>3. PICK rest \in {k.todo \ {n}, {}} : \E p \in {"worn", "crashed"} :
        Move(t, [k EXCEPT !.todo = rest, !.pc = p])
  BY <1>1
<1>4. PICK p \in {"worn", "crashed"} : Move(t, [k EXCEPT !.todo = rest, !.pc = p])
  BY <1>3
<1> DEFINE new == [k EXCEPT !.todo = rest, !.pc = p]
<1>5. /\ k \in ThreadType /\ k.op \in {"lookup", "pick"}
      /\ holder = t /\ k.op \notin Updating /\ Phase(k)
      /\ \A m \in k.due : node[m].readmitIn <= 0
  BY <1>2, InLooking DEF Looking
<1>6. n \in Nodes /\ rest \in SUBSET Nodes  BY <1>5 DEF ThreadType
<1>7. /\ new \in ThreadType /\ new.op = k.op /\ new.key = k.key /\ new.found = k.found
      /\ new.pc = p /\ new.due = k.due
  BY <1>5, <1>6 DEF ThreadType
<1>8. Move(t, new)  BY <1>4
<1> HIDE DEF new
<1>9. Phase(new) /\ new.pc \notin Waiting /\ new.op \notin Updating
  BY <1>2, <1>5, <1>7, StaysLooking DEF Looking
<1>10. /\ thread' \in [Threads -> ThreadType] /\ thread'[t] = new
       /\ \A u \in Threads \ {t} : thread'[u] = thread[u]
       /\ holder' \in Threads \cup {NoThread}
       /\ Exclusive'
  BY <1>2, <1>5, <1>7, <1>8, <1>9, ControlStays
<1>11. /\ node' \in [Nodes -> NodeState]
       /\ \A m \in Nodes : node'[m].readmitIn = node[m].readmitIn
  <2>1. node \in [Nodes -> NodeState]  BY DEF IInv, TypeOK
  <2>2. node[n] \in NodeState  BY <1>6, <2>1
  <2>3. closeChannel(node[n]) \in NodeState  BY <2>2, NodeOperationsType
  <2>4. closeChannel(node[n]).readmitIn = node[n].readmitIn
    BY <2>2 DEF closeChannel, NodeState
  <2> QED  BY <1>1, <2>1, <2>3, <2>4
<1>12. mNodes' \in SUBSET Nodes /\ mNodes' \subseteq mNodes /\ mHealthyNodes' \in SUBSET Nodes
       /\ mHealthyNodes' \subseteq mHealthyNodes
  BY <1>1 DEF IInv, TypeOK
<1>13. /\ \A u \in Threads : thread[u].pc # "rename"
       /\ \A m \in mNodes : mAccountId[m] = Names[m]
  BY <1>2, <1>5, Settled
<1>14. \A a \in Accounts : mNetwork'[a] = {m \in mNodes' : Names[m] = a}
  <2>1. mAccountId[n] \in Accounts /\ mNetwork \in [Accounts -> SUBSET Nodes]
    BY <1>6 DEF IInv, TypeOK
  <2> SUFFICES ASSUME NEW a \in Accounts
               PROVE  mNetwork'[a] = {m \in mNodes' : Names[m] = a}
    OBVIOUS
  <2>2. mNetwork[a] = {m \in mNodes : Names[m] = a}  BY DEF IInv, Named
  <2>3. CASE a = mAccountId[n]
    <3>1. mNetwork'[a] = mNetwork[a] \ {n}  BY <1>1, <2>1, <2>3
    <3> QED  BY <1>1, <2>2, <3>1
  <2>4. CASE a # mAccountId[n]
    <3>1. mNetwork'[a] = mNetwork[a]  BY <1>1, <2>1, <2>4
    <3>2. n \notin mNetwork[a]  BY <1>13, <2>2, <2>4
    <3> QED  BY <1>1, <2>2, <3>1, <3>2
  <2> QED  BY <2>3, <2>4
<1>15. mNetwork' \in [Accounts -> SUBSET Nodes]
  BY <1>1, <1>6 DEF IInv, TypeOK
<1>16. Named' /\ \A m \in mNodes' : Names'[m] = Names[m]
  <2>1. \A m \in mNodes' : Names[m] \in Accounts  BY <1>12 DEF IInv, Named
  <2> QED  BY <2>1, <1>12, <1>14, NamedBy
<1>17. TypeOK'
  BY <1>2, <1>10, <1>11, <1>12, <1>15 DEF IInv, TypeOK, portVars
<1>18. DueIsPast'
  <2> SUFFICES ASSUME NEW u \in Threads, NEW m \in thread'[u].due
               PROVE  node'[m].readmitIn <= 0
    BY DEF DueIsPast
  <2>1. m \in thread[u].due  BY <1>7, <1>10
  <2>2. thread[u] \in ThreadType  BY DEF IInv, TypeOK
  <2>3. m \in Nodes  BY <2>1, <2>2 DEF ThreadType
  <2> QED  BY <1>11, <2>1, <2>3 DEF IInv, DueIsPast
<1>19. PolicyHolds'
  <2>1. \A u \in Threads : thread'[u].op = "tls" <=> thread[u].op = "tls"
    BY <1>5, <1>7, <1>10 DEF Updating
  <2>2. \A u \in Threads : thread'[u].op = "tls" => thread'[u] = thread[u]
    BY <1>5, <1>7, <1>10 DEF Updating
  <2> QED  BY <1>2, <1>12, <2>1, <2>2 DEF IInv, PolicyHolds, portVars
<1>20. Renaming'
  <2>1. \A u \in Threads : thread'[u].pc # "rename"
    BY <1>7, <1>10, <1>13
  <2>2. \A u \in Threads : thread'[u].pc = "renameAgain" => thread'[u].newNetworkMap = Nothing
    BY <1>7, <1>10 DEF IInv, Renaming
  <2>3. \A m \in mNodes' : mAccountId'[m] = Names'[m]  BY <1>2, <1>12, <1>13, <1>16
  <2>4. Nothing' = Nothing  BY DEF Nothing
  <2> QED  BY <2>1, <2>2, <2>3, <2>4 DEF Renaming
<1> QED  BY <1>10, <1>12, <1>16, <1>17, <1>18, <1>19, <1>20 DEF IInv

-----------------------------------------------------------------------------
(***************************************************************************)
(* setNetworkFromAddressBookInternal and updateNodeAccountIds.             *)
(***************************************************************************)
\* What a step of an update leaves alone.
LEMMA Updates ==
  ASSUME IInv, NEW t \in Threads, NEW new \in ThreadType, Phase(new),
         Move(t, new), holder \in {t, NoThread},
         holder' = IF new.pc \in Waiting THEN NoThread ELSE t,
         ClientIdle \/ thread[t].op \in Updating,
         new.due \subseteq thread[t].due, thread[t].op # "tls", new.op # "tls",
         UNCHANGED <<nodeVars, mNodes, readmitVars, portVars>>,
         mAccountId' \in [Nodes -> Accounts], mNetwork' \in [Accounts -> SUBSET Nodes]
  PROVE  /\ TypeOK' /\ Exclusive' /\ DueIsPast' /\ PolicyHolds'
         /\ thread'[t] = new /\ \A u \in Threads \ {t} : thread'[u] = thread[u]
         /\ \A u \in Threads \ {t} : thread[u].pc \in Waiting
<1>1. /\ thread' \in [Threads -> ThreadType] /\ thread'[t] = new
      /\ \A u \in Threads \ {t} : thread'[u] = thread[u]
      /\ holder' \in Threads \cup {NoThread}
      /\ Exclusive'
  BY ControlStays
<1>2. TypeOK'  BY <1>1 DEF IInv, TypeOK, nodeVars, readmitVars, portVars
<1>3. DueIsPast'
  <2> SUFFICES ASSUME NEW u \in Threads, NEW n \in thread'[u].due
               PROVE  node'[n].readmitIn <= 0
    BY DEF DueIsPast
  <2>1. n \in thread[u].due  BY <1>1
  <2>2. node' = node  BY DEF nodeVars
  <2> QED  BY <2>1, <2>2 DEF IInv, DueIsPast
<1>4. PolicyHolds'
  <2>1. \A u \in Threads : thread'[u].op = "tls" <=> thread[u].op = "tls"  BY <1>1
  <2>2. \A u \in Threads : thread'[u].op = "tls" => thread'[u] = thread[u]  BY <1>1
  <2> QED  BY <2>1, <2>2 DEF IInv, PolicyHolds, portVars
<1>5. \A u \in Threads \ {t} : thread[u].pc \in Waiting  BY OthersWait
<1> QED  BY <1>1, <1>2, <1>3, <1>4, <1>5

\* The renaming is at its start.
LEMMA RenamingBegins ==
  ASSUME IInv, NEW t \in Threads, thread'[t].pc = "rename", thread[t].pc # "rename",
         holder \in {t, NoThread}, \A u \in Threads \ {t} : thread'[u] = thread[u],
         thread'[t].todo = mNodes, thread'[t].newNetworkMap = Nothing,
         UNCHANGED tableVars
  PROVE  Named' /\ Renaming'
<1>1. /\ \A u \in Threads : thread[u].pc # "rename"
      /\ \A n \in mNodes : mAccountId[n] = Names[n]
  BY Settled
<1>2. mNodes' = mNodes /\ mNetwork' = mNetwork /\ mAccountId' = mAccountId
  BY DEF tableVars
<1>3. Names' = Names  BY <1>2 DEF Names
<1>4. Named'  BY <1>2, <1>3 DEF IInv, Named
<1>5. \A u \in Threads : thread'[u].pc = "rename" => u = t  BY <1>1
<1>6. \A a \in Accounts : thread'[t].newNetworkMap[a] =
         {n \in mNodes' : n \notin thread'[t].todo /\ mAccountId'[n] = a}
  BY <1>2 DEF Nothing
<1>7. \A n \in mNodes' : n \in thread'[t].todo /\ mAccountId'[n] = Names'[n]
  BY <1>1, <1>2, <1>3
<1>8. \A u \in Threads : thread'[u].pc = "renameAgain" => thread'[u].newNetworkMap = Nothing
  BY DEF IInv, Renaming
<1>9. Nothing' = Nothing  BY DEF Nothing
<1>10. thread'[t].todo \subseteq mNodes'  BY <1>2
<1>11. Renaming'  BY <1>5, <1>6, <1>7, <1>8, <1>9, <1>10 DEF Renaming
<1> QED  BY <1>4, <1>11

LEMMA UpdateBeginX ==
  ASSUME IInv, NEW t \in Threads, UpdateBegin(t)
  PROVE  IInv'
<1>1. /\ thread[t].pc = "idle" /\ holder = NoThread /\ holder' = t /\ ClientIdle
      /\ UNCHANGED <<nodeVars, tableVars, readmitVars, portVars>>
  BY DEF UpdateBegin, Enter
<1>2. PICK book \in AddressBooks :
        Move(t, [Idle EXCEPT !.op = "update", !.pc = "rename", !.book = book,
                             !.target = mTransportSecurity, !.todo = mNodes])
  BY DEF UpdateBegin
<1> DEFINE new == [Idle EXCEPT !.op = "update", !.pc = "rename", !.book = book,
                             !.target = mTransportSecurity, !.todo = mNodes]
<1>3. thread[t].op = "none"  BY <1>1 DEF IInv, Exclusive, Phase
<1>4. mTransportSecurity \in Ports /\ mNodes \in SUBSET Nodes  BY DEF IInv, TypeOK
<1>5. /\ new \in ThreadType /\ new.op = "update" /\ new.pc = "rename" /\ new.book = book
      /\ new.due = {} /\ new.found = {} /\ new.todo = mNodes
      /\ new.newNetworkMap = Nothing
  BY <1>4, IdleType DEF ThreadType, Idle
<1>6. Move(t, new)  BY <1>2
<1> HIDE DEF new
<1>7. Phase(new) /\ new.pc \notin Waiting
  BY <1>5 DEF Phase, Waiting
<1>8. mNodes' = mNodes /\ mNetwork' \in [Accounts -> SUBSET Nodes] /\ mAccountId' \in [Nodes -> Accounts]
  BY <1>1 DEF tableVars, IInv, TypeOK
<1>9. new.op # "tls" /\ thread[t].op # "tls"  BY <1>3, <1>5
<1>10. /\ TypeOK' /\ Exclusive' /\ DueIsPast' /\ PolicyHolds'
       /\ thread'[t] = new /\ \A u \in Threads \ {t} : thread'[u] = thread[u]
  BY <1>1, <1>5, <1>6, <1>7, <1>8, <1>9, Updates
<1>11. Named' /\ Renaming'  BY <1>1, <1>5, <1>10, RenamingBegins
<1> QED  BY <1>10, <1>11 DEF IInv

LEMMA RenameAgainX ==
  ASSUME IInv, NEW t \in Threads, RenameAgain(t)
  PROVE  IInv'
<1> DEFINE k == thread[t]
           new == [k EXCEPT !.pc = "rename", !.todo = mNodes]
<1>1. /\ k.pc = "renameAgain" /\ holder = NoThread /\ holder' = t /\ Move(t, new)
      /\ UNCHANGED <<nodeVars, tableVars, readmitVars, portVars>>
  BY DEF RenameAgain
<1>2. k \in ThreadType /\ Phase(k) /\ k.op = "update" /\ k.newNetworkMap = Nothing
  BY <1>1 DEF IInv, TypeOK, Exclusive, Phase, Renaming
<1>3. mNodes \in SUBSET Nodes  BY DEF IInv, TypeOK
<1>4. /\ new \in ThreadType /\ new.op = "update" /\ new.pc = "rename" /\ new.book = k.book
      /\ new.due = k.due /\ new.found = k.found /\ new.todo = mNodes
      /\ new.newNetworkMap = Nothing
  BY <1>2, <1>3 DEF ThreadType
<1> HIDE DEF new
<1>5. Phase(new) /\ new.pc \notin Waiting
  BY <1>2, <1>4 DEF Phase, Waiting
<1>6. mNodes' = mNodes /\ mNetwork' \in [Accounts -> SUBSET Nodes] /\ mAccountId' \in [Nodes -> Accounts]
  BY <1>1 DEF tableVars, IInv, TypeOK
<1>7. new.op # "tls" /\ thread[t].op # "tls" /\ thread[t].op \in Updating
  BY <1>2, <1>4 DEF Updating
<1>8. /\ TypeOK' /\ Exclusive' /\ DueIsPast' /\ PolicyHolds'
      /\ thread'[t] = new /\ \A u \in Threads \ {t} : thread'[u] = thread[u]
  BY <1>1, <1>4, <1>5, <1>6, <1>7, Updates
<1>9. Named' /\ Renaming'  BY <1>1, <1>4, <1>8, RenamingBegins
<1> QED  BY <1>8, <1>9 DEF IInv

LEMMA RenameX ==
  ASSUME IInv, NEW t \in Threads, Rename(t)
  PROVE  IInv' /\ Names' = Names /\ thread'[t].found = thread[t].found
<1> DEFINE k == thread[t]
<1>1. k.pc = "rename" /\ UNCHANGED <<nodeVars, mNodes, mNetwork, readmitVars, portVars, holder>>
  BY DEF Rename
<1>2. PICK n \in k.todo :
        /\ mAccountId' = [mAccountId EXCEPT ![n] = NewName(k, n)]
        /\ Move(t, [k EXCEPT !.todo = @ \ {n},
                             !.newNetworkMap[NewName(k, n)] = @ \cup {n}])
  BY DEF Rename
<1>3. k \in ThreadType /\ Phase(k) /\ k.op = "update" /\ k.book \in AddressBooks
  BY <1>1 DEF IInv, TypeOK, Exclusive, Phase
<1>4. /\ k.todo \subseteq mNodes
      /\ \A a \in Accounts : k.newNetworkMap[a] =
           {m \in mNodes : m \notin k.todo /\ mAccountId[m] = a}
      /\ \A m \in mNodes : mAccountId[m] =
           IF m \in k.todo THEN Names[m] ELSE Renamed(k, m, port[m], Names[m])
  BY <1>1 DEF IInv, Renaming
<1>5. holder = t
  BY <1>1 DEF IInv, Exclusive, Waiting
<1> DEFINE name == NewName(k, n)
           map == [k.newNetworkMap EXCEPT ![name] = @ \cup {n}]
           new == [k EXCEPT !.todo = k.todo \ {n}, !.newNetworkMap = map]
<1>6. Move(t, new)  BY <1>2
<1>7. n \in Nodes /\ k.newNetworkMap \in [Accounts -> SUBSET Nodes]  BY <1>3 DEF ThreadType
<1>8. name \in Accounts
  <2>1. k.book.names[n] \in Accounts \/ n \notin Listed(k.book, k.target)
    BY <1>3, NetworkAssumption DEF Listed
  <2>2. mAccountId[n] \in Accounts  BY <1>7 DEF IInv, TypeOK
  <2> QED  BY <2>1, <2>2 DEF NewName
<1>9. name = Renamed(k, n, port[n], mAccountId[n])  BY DEF NewName, Renamed
<1>10. mAccountId' = [mAccountId EXCEPT ![n] = name]  BY <1>2
<1> HIDE DEF name
<1>11. map \in [Accounts -> SUBSET Nodes]  BY <1>7, <1>8
<1>12. \A a \in Accounts : map[a] = IF a = name THEN k.newNetworkMap[a] \cup {n}
                                    ELSE k.newNetworkMap[a]
  BY <1>7, <1>8
<1> HIDE DEF map
<1>13. /\ new \in ThreadType /\ new.op = "update" /\ new.pc = "rename" /\ new.book = k.book
       /\ new.due = k.due /\ new.found = k.found /\ new.todo = k.todo \ {n}
       /\ new.newNetworkMap = map /\ new.target = k.target
  BY <1>1, <1>3, <1>11 DEF ThreadType
<1> HIDE DEF new
<1>14. Phase(new) /\ new.pc \notin Waiting /\ new.op # "tls"
  BY <1>3, <1>13 DEF Phase, Waiting
<1>15. mNetwork' \in [Accounts -> SUBSET Nodes] /\ mAccountId' \in [Nodes -> Accounts]
  BY <1>1, <1>8, <1>10 DEF IInv, TypeOK
<1>16. thread[t].op # "tls" /\ thread[t].op \in Updating  BY <1>3 DEF Updating
<1>17. holder' = IF new.pc \in Waiting THEN NoThread ELSE t  BY <1>1, <1>5, <1>14
<1>18. /\ TypeOK' /\ Exclusive' /\ DueIsPast' /\ PolicyHolds'
       /\ thread'[t] = new /\ \A u \in Threads \ {t} : thread'[u] = thread[u]
       /\ \A u \in Threads \ {t} : thread[u].pc \in Waiting
  BY <1>1, <1>5, <1>6, <1>13, <1>14, <1>15, <1>16, <1>17, Updates
<1>19. Names' = Names  BY <1>1 DEF Names
<1>20. Named'  BY <1>1, <1>19 DEF IInv, Named
<1>21. /\ \A m \in Nodes \ {n} : mAccountId'[m] = mAccountId[m]
       /\ mAccountId'[n] = name
  BY <1>7, <1>10 DEF IInv, TypeOK
<1>22. mNodes \subseteq Nodes /\ port' = port /\ mNodes' = mNodes
  BY <1>1 DEF IInv, TypeOK, portVars
<1>23. ASSUME NEW a \in Accounts
       PROVE  new.newNetworkMap[a] = {m \in mNodes' : m \notin new.todo /\ mAccountId'[m] = a}
  <2>1. k.newNetworkMap[a] = {m \in mNodes : m \notin k.todo /\ mAccountId[m] = a}
    BY <1>4
  <2>2. n \in mNodes
    BY <1>4
  <2>3. new.newNetworkMap[a] = IF a = name THEN k.newNetworkMap[a] \cup {n}
                               ELSE k.newNetworkMap[a]
    BY <1>12, <1>13
  <2> HIDE DEF k
  <2> QED  BY <2>1, <2>2, <2>3, <1>2, <1>13, <1>21, <1>22
<1>24. ASSUME NEW m \in mNodes'
       PROVE  mAccountId'[m] = IF m \in new.todo THEN Names'[m]
                               ELSE Renamed(new, m, port'[m], Names'[m])
  <2>1. Renamed(new, m, port'[m], Names'[m]) = Renamed(k, m, port[m], Names[m])
    BY <1>13, <1>19, <1>22 DEF Renamed
  <2>2. mAccountId[m] = IF m \in k.todo THEN Names[m] ELSE Renamed(k, m, port[m], Names[m])
    BY <1>4, <1>22
  <2>3. CASE m = n
    <3>1. mAccountId[n] = Names[n]  BY <1>2, <2>2, <2>3
    <3> QED  BY <2>1, <2>3, <3>1, <1>9, <1>13, <1>21
  <2>4. CASE m # n
    <3> HIDE DEF k
    <3> QED  BY <2>1, <2>2, <2>4, <1>13, <1>19, <1>21, <1>22
  <2> QED  BY <2>3, <2>4
<1>25. Renaming'
  <2>1. \A u \in Threads : thread'[u].pc = "rename" => u = t
    BY <1>18 DEF Waiting
  <2>2. \A u \in Threads : thread'[u].pc = "renameAgain" => thread'[u].newNetworkMap = Nothing
    BY <1>13, <1>18 DEF IInv, Renaming
  <2>3. Nothing' = Nothing  BY DEF Nothing
  <2>4. thread'[t].pc = "rename"  BY <1>13, <1>18
  <2>5. new.todo \subseteq mNodes'  BY <1>4, <1>13, <1>22
  <2> QED  BY <1>18, <1>23, <1>24, <2>1, <2>2, <2>3, <2>4, <2>5 DEF Renaming
<1> QED  BY <1>13, <1>18, <1>19, <1>20, <1>25 DEF IInv

\* setNetworkInternal: all nodes have their new names at once.
LEMMA RenameEndX ==
  ASSUME IInv, NEW t \in Threads, RenameEnd(t)
  PROVE  /\ IInv' /\ thread[t].book \in AddressBooks /\ thread[t].target \in Ports
         /\ thread'[t].found = {} /\ thread[t].found = {}
         /\ \A n \in mNodes : Names'[n] = Renamed(thread[t], n, port[n], Names[n])
<1> DEFINE k == thread[t]
           again == [k EXCEPT !.pc = "renameAgain", !.target = Other(@),
                              !.newNetworkMap = Nothing]
<1>1. /\ k.pc = "rename" /\ k.todo = {} /\ mNetwork' = k.newNetworkMap
      /\ holder' = NoThread /\ (Move(t, again) \/ Move(t, Idle))
      /\ UNCHANGED <<nodeVars, mAccountId, mNodes, readmitVars, portVars>>
  BY DEF RenameEnd, Leave
<1>2. /\ k \in ThreadType /\ Phase(k) /\ k.op = "update" /\ k.book \in AddressBooks
      /\ k.found = {}
  BY <1>1 DEF IInv, TypeOK, Exclusive, Phase
<1>3. /\ \A a \in Accounts : k.newNetworkMap[a] =
           {m \in mNodes : m \notin k.todo /\ mAccountId[m] = a}
      /\ \A m \in mNodes : mAccountId[m] =
           IF m \in k.todo THEN Names[m] ELSE Renamed(k, m, port[m], Names[m])
  BY <1>1 DEF IInv, Renaming
<1>4. holder = t  BY <1>1 DEF IInv, Exclusive, Waiting
<1>5. k.target \in Ports /\ k.newNetworkMap \in [Accounts -> SUBSET Nodes]
  BY <1>2 DEF ThreadType
<1>6. PICK new \in {again, Idle} : Move(t, new)  BY <1>1
<1>7. /\ new \in ThreadType /\ new.pc \in Waiting /\ new.op # "tls" /\ new.found = {}
      /\ new.due \subseteq k.due /\ Phase(new)
      /\ new.pc = "renameAgain" => new.newNetworkMap = Nothing
  <2>1. CASE new = again
    <3>1. Other(k.target) \in Ports  BY DEF Other, Ports
    <3>2. /\ again \in ThreadType /\ again.op = "update" /\ again.pc = "renameAgain"
          /\ again.book = k.book /\ again.due = k.due /\ again.found = {}
          /\ again.newNetworkMap = Nothing
      BY <1>2, <3>1, IdleType DEF ThreadType
    <3> HIDE DEF again
    <3> QED  BY <1>2, <2>1, <3>2 DEF Waiting, Phase
  <2>2. CASE new = Idle
    <3>1. Idle.pc = "idle" /\ Idle.op = "none" /\ Idle.found = {} /\ Idle.due = {}
      BY DEF Idle
    <3> QED  BY <2>2, <3>1, IdleType DEF Waiting
  <2> QED  BY <2>1, <2>2
<1> HIDE DEF k, again
<1>8. mAccountId' \in [Nodes -> Accounts] /\ mNetwork' \in [Accounts -> SUBSET Nodes]
  BY <1>1, <1>5 DEF IInv, TypeOK
<1>9. thread[t].op # "tls" /\ thread[t].op \in Updating  BY <1>2 DEF Updating, k
<1>10. /\ TypeOK' /\ Exclusive' /\ DueIsPast' /\ PolicyHolds'
       /\ thread'[t] = new /\ \A u \in Threads \ {t} : thread'[u] = thread[u]
       /\ \A u \in Threads \ {t} : thread[u].pc \in Waiting
  BY <1>1, <1>4, <1>6, <1>7, <1>8, <1>9, Updates DEF k
<1>11. mNodes' \in SUBSET Nodes /\ mNodes' = mNodes /\ mAccountId' = mAccountId
  BY <1>1 DEF IInv, TypeOK
<1>12. \A n \in mNodes' : mAccountId[n] \in Accounts  BY <1>11 DEF IInv, TypeOK
<1>13. \A a \in Accounts : mNetwork'[a] = {n \in mNodes' : mAccountId[n] = a}
  BY <1>1, <1>3, <1>11
<1>14. Named' /\ \A n \in mNodes' : Names'[n] = mAccountId[n]
  BY <1>11, <1>12, <1>13, NamedBy
<1>15. Renaming'
  <2>1. \A u \in Threads : thread'[u].pc # "rename"
    BY <1>7, <1>10 DEF Waiting
  <2>2. \A u \in Threads : thread'[u].pc = "renameAgain" => thread'[u].newNetworkMap = Nothing
    BY <1>7, <1>10 DEF IInv, Renaming
  <2>3. Nothing' = Nothing  BY DEF Nothing
  <2>4. \A n \in mNodes' : mAccountId'[n] = Names'[n]  BY <1>11, <1>14
  <2> QED  BY <2>1, <2>2, <2>3, <2>4 DEF Renaming
<1>16. \A n \in mNodes : Names'[n] = Renamed(k, n, port[n], Names[n])
  <2> TAKE n \in mNodes
  <2>1. mAccountId[n] = Renamed(k, n, port[n], Names[n])  BY <1>1, <1>3
  <2> QED  BY <1>11, <1>14, <2>1
<1>17. IInv'  BY <1>10, <1>14, <1>15 DEF IInv
<1> QED  BY <1>2, <1>5, <1>7, <1>10, <1>16, <1>17 DEF k

-----------------------------------------------------------------------------
(***************************************************************************)
(* setTransportSecurity.                                                   *)
(***************************************************************************)
\* What a change of the policy leaves alone.
LEMMA Secures ==
  ASSUME IInv, NEW t \in Threads, NEW new \in ThreadType, Phase(new),
         Move(t, new), holder \in {t, NoThread},
         holder' = IF new.pc \in Waiting THEN NoThread ELSE t,
         ClientIdle \/ thread[t].op \in Updating,
         thread[t].pc # "rename", new.pc \notin {"rename", "renameAgain"}, new.due \subseteq thread[t].due,
         UNCHANGED <<busy, uses, failed, tableVars, readmitVars>>,
         node' \in [Nodes -> NodeState],
         \A n \in Nodes : node'[n].readmitIn = node[n].readmitIn,
         port' \in [Nodes -> Ports], mTransportSecurity' \in Ports
  PROVE  /\ TypeOK' /\ Exclusive' /\ DueIsPast' /\ Named' /\ Renaming'
         /\ thread'[t] = new /\ \A u \in Threads \ {t} : thread'[u] = thread[u]
         /\ Names' = Names /\ mNodes' = mNodes
<1>1. /\ thread' \in [Threads -> ThreadType] /\ thread'[t] = new
      /\ \A u \in Threads \ {t} : thread'[u] = thread[u]
      /\ holder' \in Threads \cup {NoThread}
      /\ Exclusive'
  BY ControlStays
<1>2. TypeOK'  BY <1>1 DEF IInv, TypeOK, tableVars, readmitVars
<1>3. DueIsPast'
  <2> SUFFICES ASSUME NEW u \in Threads, NEW n \in thread'[u].due
               PROVE  node'[n].readmitIn <= 0
    BY DEF DueIsPast
  <2>1. n \in thread[u].due  BY <1>1
  <2>2. thread[u] \in ThreadType  BY DEF IInv, TypeOK
  <2>3. n \in Nodes  BY <2>1, <2>2 DEF ThreadType
  <2> QED  BY <2>1, <2>3 DEF IInv, DueIsPast
<1>4. mNodes' = mNodes /\ mNetwork' = mNetwork /\ mAccountId' = mAccountId
  BY DEF tableVars
<1>5. Names' = Names  BY <1>4 DEF Names
<1>6. Named'  BY <1>4, <1>5 DEF IInv, Named
<1>7. Renaming'
  <2>1. /\ \A u \in Threads : thread[u].pc # "rename"
        /\ \A n \in mNodes : mAccountId[n] = Names[n]
    BY Settled
  <2>2. \A u \in Threads : thread'[u].pc # "rename"  BY <1>1, <2>1
  <2>3. \A u \in Threads : thread'[u].pc = "renameAgain" => thread'[u].newNetworkMap = Nothing
    BY <1>1 DEF IInv, Renaming
  <2>4. Nothing' = Nothing  BY DEF Nothing
  <2> QED  BY <1>4, <1>5, <2>1, <2>2, <2>3, <2>4 DEF Renaming
<1> QED  BY <1>1, <1>2, <1>3, <1>4, <1>5, <1>6, <1>7

\* Only the thread that changes the policy does.
LEMMA OnePolicy ==
  ASSUME IInv, NEW t \in Threads, ClientIdle \/ thread[t].op \in Updating
  PROVE  \A u \in Threads \ {t} : thread[u].op # "tls"
<1>1. CASE ClientIdle  BY <1>1 DEF ClientIdle
<1>2. CASE thread[t].op \in Updating
  BY <1>2 DEF IInv, Exclusive, Updating
<1> QED  BY <1>1, <1>2

LEMMA SecureBeginX ==
  ASSUME IInv, NEW t \in Threads, SecureBegin(t)
  PROVE  IInv'
<1>1. /\ thread[t].pc = "idle" /\ holder = NoThread /\ holder' = t /\ ClientIdle
      /\ UNCHANGED <<nodeVars, tableVars, readmitVars, portVars>>
  BY DEF SecureBegin, Enter
<1>2. PICK p \in Ports :
        Move(t, [Idle EXCEPT !.op = "tls", !.pc = "secure", !.target = p,
                   !.todo = IF p = mTransportSecurity THEN {} ELSE mNodes])
  BY DEF SecureBegin
<1> DEFINE todo == IF p = mTransportSecurity THEN {} ELSE mNodes
           new == [Idle EXCEPT !.op = "tls", !.pc = "secure", !.target = p, !.todo = todo]
<1>3. todo \in SUBSET Nodes  BY DEF IInv, TypeOK
<1>4. Move(t, new)  BY <1>2
<1>5. thread[t].op = "none"  BY <1>1 DEF IInv, Exclusive, Phase
<1> HIDE DEF todo
<1>6. /\ new \in ThreadType /\ new.op = "tls" /\ new.pc = "secure" /\ new.target = p
      /\ new.due = {} /\ new.found = {} /\ new.todo = todo
  BY <1>3, IdleType DEF ThreadType, Idle
<1> HIDE DEF new
<1>7. Phase(new) /\ new.pc \notin Waiting  BY <1>6 DEF Phase, Waiting
<1>8. /\ node' \in [Nodes -> NodeState] /\ node' = node
      /\ port' \in [Nodes -> Ports] /\ mTransportSecurity' \in Ports
      /\ port' = port /\ mTransportSecurity' = mTransportSecurity
      /\ UNCHANGED <<busy, uses, failed, tableVars, readmitVars>>
  BY <1>1 DEF IInv, TypeOK, nodeVars, portVars
<1>9. /\ TypeOK' /\ Exclusive' /\ DueIsPast' /\ Named' /\ Renaming'
      /\ thread'[t] = new /\ \A u \in Threads \ {t} : thread'[u] = thread[u]
      /\ mNodes' = mNodes
  BY <1>1, <1>4, <1>6, <1>7, <1>8, Secures
<1>10. \A u \in Threads \ {t} : thread[u].op # "tls"  BY <1>1, OnePolicy
<1>11. PolicyHolds'
  <2>1. \A u \in Threads : thread[u].op # "tls"  BY <1>5, <1>10
  <2>2. mTransportSecurity = "plain" => \A n \in mNodes : port[n] = "plain"
    BY <2>1 DEF IInv, PolicyHolds
  <2>3. \A u \in Threads : thread'[u].op = "tls" => u = t  BY <1>9, <1>10
  <2>4. thread'[t].op = "tls"  BY <1>6, <1>9
  <2>5. p = "plain" => \A n \in mNodes \ todo : port[n] = "plain"
    BY <2>2 DEF todo
  <2> QED  BY <1>6, <1>8, <1>9, <2>3, <2>4, <2>5 DEF PolicyHolds
<1> QED  BY <1>9, <1>11 DEF IInv

LEMMA SecureX ==
  ASSUME IInv, NEW t \in Threads, Secure(t)
  PROVE  IInv' /\ Names' = Names /\ thread'[t].found = thread[t].found
<1> DEFINE k == thread[t]
<1>1. /\ k.pc = "secure"
      /\ UNCHANGED <<busy, uses, failed, tableVars, readmitVars, mTransportSecurity, holder>>
  BY DEF Secure
<1>2. PICK n \in k.todo :
        /\ port' = [port EXCEPT ![n] = k.target]
        /\ node' = [node EXCEPT ![n] = closeChannel(@)]
        /\ Move(t, [k EXCEPT !.todo = @ \ {n}])
  BY DEF Secure
<1>3. k \in ThreadType /\ Phase(k) /\ k.op = "tls"
  BY <1>1 DEF IInv, TypeOK, Exclusive, Phase
<1>4. n \in Nodes /\ k.target \in Ports  BY <1>3 DEF ThreadType
<1>5. holder = t  BY <1>1 DEF IInv, Exclusive, Waiting
<1> DEFINE new == [k EXCEPT !.todo = k.todo \ {n}]
<1>6. Move(t, new)  BY <1>2
<1>7. /\ new \in ThreadType /\ new.op = "tls" /\ new.pc = "secure" /\ new.target = k.target
      /\ new.due = k.due /\ new.found = k.found /\ new.todo = k.todo \ {n}
  BY <1>1, <1>3 DEF ThreadType
<1> HIDE DEF new
<1>8. Phase(new) /\ new.pc \notin Waiting  BY <1>3, <1>7 DEF Phase, Waiting
<1>9. /\ node' \in [Nodes -> NodeState]
      /\ \A m \in Nodes : node'[m].readmitIn = node[m].readmitIn
  <2>1. node \in [Nodes -> NodeState]  BY DEF IInv, TypeOK
  <2>2. node[n] \in NodeState  BY <1>4, <2>1
  <2>3. closeChannel(node[n]) \in NodeState  BY <2>2, NodeOperationsType
  <2>4. closeChannel(node[n]).readmitIn = node[n].readmitIn
    BY <2>2 DEF closeChannel, NodeState
  <2> QED  BY <1>2, <2>1, <2>3, <2>4
<1>10. /\ port \in [Nodes -> Ports] /\ port' \in [Nodes -> Ports]
       /\ mTransportSecurity' \in Ports /\ mNodes \subseteq Nodes
  BY <1>1, <1>2, <1>4 DEF IInv, TypeOK
<1>11. thread[t].op \in Updating  BY <1>3 DEF Updating
<1>12. UNCHANGED <<busy, uses, failed, tableVars, readmitVars>> /\ holder' = t
  BY <1>1, <1>5
<1>13. /\ TypeOK' /\ Exclusive' /\ DueIsPast' /\ Named' /\ Renaming'
       /\ thread'[t] = new /\ \A u \in Threads \ {t} : thread'[u] = thread[u]
       /\ Names' = Names /\ mNodes' = mNodes
  BY <1>1, <1>5, <1>6, <1>7, <1>8, <1>9, <1>10, <1>11, <1>12, Secures
<1>14. \A u \in Threads \ {t} : thread[u].op # "tls"  BY <1>11, OnePolicy
<1>15. PolicyHolds'
  <2>1. thread'[t].op = "tls" /\ \A u \in Threads : thread'[u].op = "tls" => u = t
    BY <1>7, <1>13, <1>14
  <2>2. ASSUME k.target = "plain", NEW m \in mNodes, m \notin new.todo
        PROVE  port'[m] = "plain"
    <3>1. CASE m = n  BY <1>2, <1>4, <1>10, <2>2, <3>1
    <3>2. CASE m # n
      <4>1. m \in mNodes \ k.todo  BY <1>7, <2>2, <3>2
      <4>2. port[m] = "plain"  BY <1>3, <2>2, <4>1 DEF IInv, PolicyHolds
      <4>3. m \in Nodes  BY <1>10
      <4> QED  BY <1>2, <1>10, <3>2, <4>2, <4>3
    <3> QED  BY <3>1, <3>2
  <2> QED  BY <1>7, <1>13, <2>1, <2>2 DEF PolicyHolds
<1> QED  BY <1>7, <1>13, <1>15 DEF IInv

LEMMA SecureEndX ==
  ASSUME IInv, NEW t \in Threads, SecureEnd(t)
  PROVE  IInv'
<1> DEFINE k == thread[t]
<1>1. /\ k.pc = "secure" /\ k.todo = {} /\ mTransportSecurity' = k.target
      /\ holder' = NoThread /\ Move(t, Idle)
      /\ UNCHANGED <<nodeVars, tableVars, readmitVars, port>>
  BY DEF SecureEnd, Leave
<1>2. k \in ThreadType /\ Phase(k) /\ k.op = "tls"
  BY <1>1 DEF IInv, TypeOK, Exclusive, Phase
<1>3. k.target \in Ports  BY <1>2 DEF ThreadType
<1>4. holder = t  BY <1>1 DEF IInv, Exclusive, Waiting
<1>5. Idle.pc = "idle" /\ Idle.op = "none" /\ Idle.due = {}  BY DEF Idle
<1>6. thread[t].op \in Updating  BY <1>2 DEF Updating
<1>7. holder' = IF Idle.pc \in Waiting THEN NoThread ELSE t  BY <1>1, <1>5 DEF Waiting
<1>8. /\ node' \in [Nodes -> NodeState] /\ node' = node
      /\ port' \in [Nodes -> Ports] /\ port' = port /\ mTransportSecurity' \in Ports
      /\ UNCHANGED <<busy, uses, failed, tableVars, readmitVars>>
  BY <1>1, <1>3 DEF IInv, TypeOK, nodeVars
<1>9. /\ TypeOK' /\ Exclusive' /\ DueIsPast' /\ Named' /\ Renaming'
      /\ thread'[t] = Idle /\ \A u \in Threads \ {t} : thread'[u] = thread[u]
      /\ mNodes' = mNodes
  BY <1>1, <1>4, <1>5, <1>6, <1>7, <1>8, IdleType, Secures
<1>10. \A u \in Threads \ {t} : thread[u].op # "tls"  BY <1>6, OnePolicy
<1>11. PolicyHolds'
  <2>1. \A u \in Threads : thread'[u].op # "tls"  BY <1>5, <1>9, <1>10
  <2>2. k.target = "plain" => \A n \in mNodes : port[n] = "plain"
    BY <1>1, <1>2 DEF IInv, PolicyHolds
  <2> QED  BY <1>1, <1>8, <1>9, <2>1, <2>2 DEF PolicyHolds
<1> QED  BY <1>9, <1>11 DEF IInv

-----------------------------------------------------------------------------
(***************************************************************************)
(* Executions that looked nodes up, and time.                              *)
(***************************************************************************)
\* What happens around the operations changes no more of them than the nodes
\* that they wait for.
LEMMA Around ==
  ASSUME IInv, thread' \in [Threads -> ThreadType],
         \A u \in Threads :
           /\ thread'[u].op = thread[u].op /\ thread'[u].pc = thread[u].pc
           /\ thread'[u].todo = thread[u].todo /\ thread'[u].key = thread[u].key
           /\ thread'[u].book = thread[u].book /\ thread'[u].target = thread[u].target
           /\ thread'[u].newNetworkMap = thread[u].newNetworkMap
           /\ thread'[u].found = thread[u].found
           /\ \A n \in thread'[u].due : node'[n].readmitIn <= 0,
         node' \in [Nodes -> NodeState], busy' \in SUBSET Nodes,
         uses' \in [Nodes -> 0 .. MaxUses], failed' \in SUBSET Nodes,
         earliestIn' \in -1 .. MaxReadmit,
         UNCHANGED <<tableVars, mHealthyNodes, portVars, holder>>
  PROVE  IInv'
<1>1. /\ mNodes' = mNodes /\ mNetwork' = mNetwork /\ mAccountId' = mAccountId
      /\ port' = port /\ mTransportSecurity' = mTransportSecurity /\ holder' = holder
  BY DEF tableVars, portVars
<1>2. TypeOK'  BY <1>1 DEF IInv, TypeOK
<1>3. Exclusive'
  <2>1. \A u \in Threads : Phase(thread'[u])  BY DEF IInv, Exclusive, Phase
  <2> QED  BY <1>1, <2>1 DEF IInv, Exclusive
<1>4. DueIsPast'  BY DEF DueIsPast
<1>5. PolicyHolds'  BY <1>1 DEF IInv, PolicyHolds
<1>6. Names' = Names  BY <1>1 DEF Names
<1>7. Named'  BY <1>1, <1>6 DEF IInv, Named
<1>8. Renaming'
  <2>1. ASSUME NEW u \in Threads, thread'[u].pc = "rename"
        PROVE  /\ thread'[u].todo \subseteq mNodes'
               /\ \A a \in Accounts : thread'[u].newNetworkMap[a] =
                    {n \in mNodes' : n \notin thread'[u].todo /\ mAccountId'[n] = a}
    BY <1>1, <2>1 DEF IInv, Renaming
  <2>2. ASSUME NEW u \in Threads, thread'[u].pc = "rename", NEW n \in mNodes'
        PROVE  mAccountId'[n] = IF n \in thread'[u].todo THEN Names'[n]
                                ELSE Renamed(thread'[u], n, port'[n], Names'[n])
    <3>1. Renamed(thread'[u], n, port'[n], Names'[n]) = Renamed(thread[u], n, port[n], Names[n])
      BY <1>1, <1>6 DEF Renamed
    <3> QED  BY <1>1, <1>6, <2>2, <3>1 DEF IInv, Renaming
  <2>3. \A u \in Threads : thread'[u].pc = "renameAgain" => thread'[u].newNetworkMap = Nothing
    BY DEF IInv, Renaming
  <2>4. Nothing' = Nothing  BY DEF Nothing
  <2>5. (\A u \in Threads : thread'[u].pc # "rename") => \A n \in mNodes' : mAccountId'[n] = Names'[n]
    BY <1>1, <1>6 DEF IInv, Renaming
  <2> QED  BY <2>1, <2>2, <2>3, <2>4, <2>5 DEF Renaming
<1> QED  BY <1>2, <1>3, <1>4, <1>5, <1>7, <1>8 DEF IInv

LEMMA RpcX ==
  ASSUME IInv, NEW n \in Nodes, StartRpc(n) \/ EndRpc(n)
  PROVE  IInv'
<1>1. /\ node' = node /\ thread' = thread /\ earliestIn' = earliestIn
      /\ UNCHANGED <<tableVars, mHealthyNodes, portVars, holder>>
  BY DEF StartRpc, EndRpc, readmitVars
<1>2. /\ busy' \in SUBSET Nodes /\ failed' \in SUBSET Nodes
      /\ uses' \in [Nodes -> 0 .. MaxUses]
  <2>1. MaxUses \in Nat  BY NetworkAssumption
  <2>2. CASE StartRpc(n)
    <3>1. uses[n] - 1 \in 0 .. MaxUses  BY <2>1, <2>2 DEF StartRpc, IInv, TypeOK
    <3> QED  BY <2>2, <3>1 DEF StartRpc, IInv, TypeOK
  <2>3. CASE EndRpc(n)
    <3>1. failed' = failed \cup {n} \/ failed' = failed  BY <2>3 DEF EndRpc
    <3> QED  BY <2>3, <3>1 DEF EndRpc, IInv, TypeOK
  <2> QED  BY <2>2, <2>3
<1>3. /\ thread' \in [Threads -> ThreadType] /\ node' \in [Nodes -> NodeState]
      /\ earliestIn' \in -1 .. MaxReadmit
  BY <1>1 DEF IInv, TypeOK
<1>4. \A u \in Threads : \A m \in thread'[u].due : node'[m].readmitIn <= 0
  BY <1>1 DEF IInv, DueIsPast
<1> QED  BY <1>1, <1>2, <1>3, <1>4, Around

LEMMA PenalizeX ==
  ASSUME IInv, NEW n \in Nodes, Penalize(n)
  PROVE  IInv' /\ \A u \in Threads : thread'[u].found = thread[u].found
<1>1. /\ failed' = failed \ {n} /\ node' = [node EXCEPT ![n] = increaseBackoff(@)]
      /\ thread' = [u \in Threads |-> [thread[u] EXCEPT !.due = @ \ {n}]]
      /\ UNCHANGED <<busy, uses, tableVars, readmitVars, portVars, holder>>
  BY DEF Penalize
<1>2. /\ thread \in [Threads -> ThreadType] /\ node \in [Nodes -> NodeState]
      /\ busy' \in SUBSET Nodes /\ failed' \in SUBSET Nodes
      /\ uses' \in [Nodes -> 0 .. MaxUses] /\ earliestIn' \in -1 .. MaxReadmit
  BY <1>1 DEF IInv, TypeOK, readmitVars
<1>3. node' \in [Nodes -> NodeState]
  <2>1. increaseBackoff(node[n]) \in NodeState  BY <1>2, NodeOperationsType
  <2> QED  BY <1>1, <1>2, <2>1
<1>4. ASSUME NEW u \in Threads
      PROVE  /\ thread'[u] \in ThreadType
             /\ thread'[u].op = thread[u].op /\ thread'[u].pc = thread[u].pc
             /\ thread'[u].todo = thread[u].todo /\ thread'[u].key = thread[u].key
             /\ thread'[u].book = thread[u].book /\ thread'[u].target = thread[u].target
             /\ thread'[u].newNetworkMap = thread[u].newNetworkMap
             /\ thread'[u].found = thread[u].found
             /\ thread'[u].due = thread[u].due \ {n}
  <2> DEFINE k == thread[u]
  <2>1. k \in ThreadType /\ thread'[u] = [k EXCEPT !.due = k.due \ {n}]  BY <1>1, <1>2
  <2> HIDE DEF k
  <2> QED  BY <2>1 DEF ThreadType, k
<1>5. thread' \in [Threads -> ThreadType]  BY <1>1, <1>4
<1>6. ASSUME NEW u \in Threads, NEW m \in thread'[u].due
      PROVE  node'[m].readmitIn <= 0
  <2>1. m \in thread[u].due /\ m # n  BY <1>4, <1>6
  <2>2. m \in Nodes  BY <1>2, <2>1 DEF ThreadType
  <2>3. node'[m] = node[m]  BY <1>1, <1>2, <2>1, <2>2
  <2> QED  BY <2>1, <2>3 DEF IInv, DueIsPast
<1>7. UNCHANGED <<tableVars, mHealthyNodes, portVars, holder>>  BY <1>1 DEF readmitVars
<1> QED  BY <1>2, <1>3, <1>4, <1>5, <1>6, <1>7, Around

LEMMA TickX ==
  ASSUME IInv, Tick
  PROVE  IInv' /\ \A u \in Threads : thread'[u].found = thread[u].found
<1>1. /\ node' = [n \in Nodes |-> Elapse(node[n])]
      /\ earliestIn' = AtLeast(earliestIn - 1, -1)
      /\ thread' = [u \in Threads |->
           IF thread[u].pc = "earliest"
           THEN [thread[u] EXCEPT !.next = AtLeast(@ - 1, -1)]
           ELSE thread[u]]
      /\ UNCHANGED <<busy, uses, failed, tableVars, mHealthyNodes, portVars, holder>>
  BY DEF Tick
<1>2. /\ thread \in [Threads -> ThreadType] /\ node \in [Nodes -> NodeState]
      /\ busy' \in SUBSET Nodes /\ failed' \in SUBSET Nodes
      /\ uses' \in [Nodes -> 0 .. MaxUses] /\ earliestIn \in -1 .. MaxReadmit
  BY <1>1 DEF IInv, TypeOK
<1>3. \A x \in -1 .. MaxReadmit : AtLeast(x - 1, -1) \in -1 .. MaxReadmit
  BY NetworkAssumption DEF AtLeast
<1>4. earliestIn' \in -1 .. MaxReadmit  BY <1>1, <1>2, <1>3
<1>5. node' \in [Nodes -> NodeState]  BY <1>1, <1>2, NodeOperationsType
<1>6. ASSUME NEW u \in Threads
      PROVE  /\ thread'[u] \in ThreadType
             /\ thread'[u].op = thread[u].op /\ thread'[u].pc = thread[u].pc
             /\ thread'[u].todo = thread[u].todo /\ thread'[u].key = thread[u].key
             /\ thread'[u].book = thread[u].book /\ thread'[u].target = thread[u].target
             /\ thread'[u].newNetworkMap = thread[u].newNetworkMap
             /\ thread'[u].found = thread[u].found
             /\ thread'[u].due = thread[u].due
  <2> DEFINE k == thread[u]
             next == AtLeast(k.next - 1, -1)
  <2>1. k \in ThreadType /\ thread'[u] \in {k, [k EXCEPT !.next = next]}  BY <1>1, <1>2
  <2>2. k.next \in -1 .. MaxReadmit  BY <2>1 DEF ThreadType
  <2>3. next \in -1 .. MaxReadmit  BY <1>3, <2>2
  <2> HIDE DEF k, next
  <2> QED  BY <2>1, <2>3 DEF ThreadType, k
<1>7. thread' \in [Threads -> ThreadType]  BY <1>1, <1>6
<1>8. ASSUME NEW u \in Threads, NEW m \in thread'[u].due
      PROVE  node'[m].readmitIn <= 0
  <2>1. m \in thread[u].due  BY <1>6, <1>8
  <2>2. m \in Nodes  BY <1>2, <2>1 DEF ThreadType
  <2>3. node[m].readmitIn <= 0  BY <2>1 DEF IInv, DueIsPast
  <2>4. node[m] \in NodeState /\ node'[m] = Elapse(node[m])  BY <1>1, <1>2, <2>2
  <2>5. node[m].readmitIn \in Int  BY <2>4, NodeAssumption DEF NodeState
  <2>6. node'[m].readmitIn = AtLeast(node[m].readmitIn - 1, -1)
    BY <2>4 DEF Elapse, NodeState
  <2> QED  BY <2>3, <2>5, <2>6 DEF AtLeast
<1> QED  BY <1>1, <1>2, <1>4, <1>5, <1>6, <1>7, <1>8, Around

-----------------------------------------------------------------------------
(***************************************************************************)
(* The theorems.                                                           *)
(***************************************************************************)
LEMMA InitIInv ==
  ASSUME Init
  PROVE  IInv
<1>1. /\ mNodes = Nodes /\ mNetwork = Under(mAccountId) /\ mAccountId \in [Nodes -> Accounts]
      /\ port \in [Nodes -> Ports] /\ mTransportSecurity = "tls"
      /\ holder = NoThread /\ thread = [t \in Threads |-> Idle]
      /\ busy = {} /\ failed = {} /\ uses = [n \in Nodes |-> 0]
  BY DEF Init
<1>2. \A t \in Threads : thread[t] = Idle  BY <1>1
<1>3. Idle.pc = "idle" /\ Idle.op = "none" /\ Idle.due = {}  BY DEF Idle
<1>4. TypeOK
  <2>1. NewNode \in NodeState /\ [NewNode EXCEPT !.readmitIn = -1] \in NodeState
    <3>1. -1 \in -1 .. MaxNodeBackoff  BY NodeAssumption
    <3> QED  BY <3>1, NewNodeType DEF NodeState
  <2>2. node \in [Nodes -> NodeState] /\ mHealthyNodes \in SUBSET Nodes
        /\ earliestIn \in -1 .. MaxReadmit
    BY <2>1, NetworkAssumption DEF Init
  <2>3. uses \in [Nodes -> 0 .. MaxUses]  BY <1>1, NetworkAssumption
  <2>4. thread \in [Threads -> ThreadType]  BY <1>1, IdleType
  <2>5. mNetwork \in [Accounts -> SUBSET Nodes]  BY <1>1 DEF Under
  <2> QED  BY <1>1, <2>2, <2>3, <2>4, <2>5 DEF TypeOK, Ports
<1>5. Exclusive
  <2>1. \A t \in Threads : holder # t /\ thread[t].pc \in Waiting
    BY <1>1, <1>2, <1>3, NetworkAssumption DEF Waiting
  <2>2. \A t \in Threads : thread[t].op \notin Updating  BY <1>2, <1>3 DEF Updating
  <2> QED  BY <1>2, <2>1, <2>2, IdleType DEF Exclusive
<1>6. DueIsPast  BY <1>2, <1>3 DEF DueIsPast
<1>7. PolicyHolds  BY <1>1, <1>2, <1>3 DEF PolicyHolds
<1>8. \A n \in Nodes : Names[n] = mAccountId[n]
  <2> TAKE n \in Nodes
  <2>1. \A a \in Accounts : n \in mNetwork[a] <=> a = mAccountId[n]
    BY <1>1 DEF Under
  <2>2. mAccountId[n] \in Accounts  BY <1>1
  <2>3. (CHOOSE a \in Accounts : n \in mNetwork[a]) = mAccountId[n]  BY <2>1, <2>2
  <2> QED  BY <2>3 DEF Names
<1>9. Named  BY <1>1, <1>8 DEF Named, Under
<1>10. Renaming  BY <1>1, <1>2, <1>3, <1>8 DEF Renaming
<1> QED  BY <1>4, <1>5, <1>6, <1>7, <1>9, <1>10 DEF IInv

LEMMA StartX ==
  ASSUME IInv, NEW t \in Threads, Start(t)
  PROVE  IInv'
<1>1. LookupBegin(t) \/ PickBegin(t) \/ UpdateBegin(t) \/ SecureBegin(t)  BY DEF Start
<1> QED  BY <1>1, LookupBeginX, PickBeginX, UpdateBeginX, SecureBeginX

LEMMA StepX ==
  ASSUME IInv, NEW t \in Threads, Step(t)
  PROVE  IInv'
<1>1. \/ Readmit(t) \/ Earliest(t) \/ Admit(t) \/ LookupEnd(t)
      \/ RemoveWornOut(t) \/ KeepNode(t) \/ (\E n \in Nodes : Choose(t, n))
      \/ AwaitReadmission(t) \/ PickEnd(t)
      \/ Rename(t) \/ RenameEnd(t) \/ RenameAgain(t) \/ Secure(t) \/ SecureEnd(t)
  BY DEF Step
<1> QED  BY <1>1, ReadmitX, EarliestX, AdmitX, LookupEndX, RemoveWornOutX, KeepNodeX,
            ChooseX, AwaitReadmissionX, PickEndX, RenameX, RenameEndX, RenameAgainX,
            SecureX, SecureEndX

LEMMA NextIInv ==
  ASSUME IInv, [Next]_vars
  PROVE  IInv'
<1>1. CASE \E t \in Threads : Start(t) \/ Step(t)  BY <1>1, StartX, StepX
<1>2. CASE \E n \in Nodes : StartRpc(n) \/ EndRpc(n)  BY <1>2, RpcX
<1>3. CASE \E n \in Nodes : Penalize(n)  BY <1>3, PenalizeX
<1>4. CASE Tick  BY <1>4, TickX
<1>5. CASE UNCHANGED vars
  <2>1. /\ thread' = thread /\ node' = node
        /\ UNCHANGED <<busy, uses, failed, earliestIn, tableVars, mHealthyNodes, portVars, holder>>
    BY <1>5 DEF vars, nodeVars, readmitVars
  <2>2. /\ thread' \in [Threads -> ThreadType] /\ node' \in [Nodes -> NodeState]
        /\ busy' \in SUBSET Nodes /\ uses' \in [Nodes -> 0 .. MaxUses]
        /\ failed' \in SUBSET Nodes /\ earliestIn' \in -1 .. MaxReadmit
    BY <2>1 DEF IInv, TypeOK
  <2>3. \A u \in Threads : \A m \in thread'[u].due : node'[m].readmitIn <= 0
    BY <2>1 DEF IInv, DueIsPast
  <2> QED  BY <2>1, <2>2, <2>3, Around
<1> QED  BY <1>1, <1>2, <1>3, <1>4, <1>5 DEF Next

\* Everything the theorems rest on holds always: with the types, who holds the
\* mutexes, and what an operation has done so far.
THEOREM Inductive == Spec => []IInv
<1>1. Init => IInv  BY InitIInv
<1>2. IInv /\ [Next]_vars => IInv'  BY NextIInv
<1> QED  BY <1>1, <1>2, PTL DEF Spec

\* Whoever gets the mutex finds every node exactly once in the table, under its
\* own account, for any address books, threads and removals (setNetworkInternal,
\* removeNodeFromNetwork).
THEOREM TableMatches == Spec => []TableMatchesNodes
<1>1. ASSUME IInv  PROVE TableMatchesNodes
  <2> SUFFICES ASSUME holder = NoThread \/ thread[holder].pc \notin {"rename"},
                      NEW a \in Accounts
               PROVE  mNetwork[a] = {n \in mNodes : mAccountId[n] = a}
    BY DEF TableMatchesNodes
  <2>1. \A t \in Threads : thread[t].pc # "rename"
    <3> SUFFICES ASSUME NEW t \in Threads, thread[t].pc = "rename"  PROVE FALSE
      OBVIOUS
    <3>1. holder = t  BY <1>1 DEF IInv, Exclusive, Waiting
    <3> QED  BY <3>1, NetworkAssumption
  <2>2. \A n \in mNodes : mAccountId[n] = Names[n]  BY <1>1, <2>1 DEF IInv, Renaming
  <2>3. mNetwork[a] = {n \in mNodes : Names[n] = a}  BY <1>1 DEF IInv, Named
  <2> QED  BY <2>2, <2>3
<1>2. IInv => TableMatchesNodes  BY <1>1
<1> QED  BY <1>2, Inductive, PTL

\* Once TLS was disabled no node of the network has the TLS port, for any nodes
\* and threads, unless a change back is under way (setTransportSecurity).
THEOREM PolicyKept == Spec => []DisabledMeansPlain
<1>1. ASSUME IInv  PROVE DisabledMeansPlain
  <2> SUFFICES ASSUME mTransportSecurity = "plain", ClientIdle
               PROVE  \A n \in mNodes : port[n] = "plain"
    BY DEF DisabledMeansPlain
  <2>1. \A t \in Threads : thread[t].op # "tls"  BY DEF ClientIdle
  <2> QED  BY <1>1, <2>1 DEF IInv, PolicyHolds
<1>2. IInv => DisabledMeansPlain  BY <1>1
<1> QED  BY <1>2, Inductive, PTL

\* Which steps make a node healthy.
LEMMA OnlyAdmitted ==
  ASSUME IInv, [Next]_vars, NEW n \in Nodes, n \in mHealthyNodes' \ mHealthyNodes
  PROVE  node[n].readmitIn <= 0
<1>1. PICK t \in Threads : Admit(t)
  <2>1. mHealthyNodes' # mHealthyNodes  OBVIOUS
  <2>2. ASSUME NEW t \in Threads, Start(t)  PROVE FALSE
    BY <2>1, <2>2 DEF Start, LookupBegin, PickBegin, UpdateBegin, SecureBegin, readmitVars
  <2>3. ASSUME NEW t \in Threads, Step(t)  PROVE Admit(t)
    <3>1. ~RemoveWornOut(t)  BY RemoveWornOutX
    <3>2. ~(Readmit(t) \/ Earliest(t) \/ LookupEnd(t))
      BY <2>1 DEF Readmit, Earliest, LookupEnd, readmitVars
    <3>3. ~(KeepNode(t) \/ (\E m \in Nodes : Choose(t, m)))
      BY <2>1 DEF KeepNode, Choose, readmitVars
    <3>4. ~(AwaitReadmission(t) \/ PickEnd(t))
      BY <2>1 DEF AwaitReadmission, PickEnd, readmitVars
    <3>5. ~(Rename(t) \/ RenameEnd(t) \/ RenameAgain(t))
      BY <2>1 DEF Rename, RenameEnd, RenameAgain, readmitVars
    <3>6. ~(Secure(t) \/ SecureEnd(t))
      BY <2>1 DEF Secure, SecureEnd, readmitVars
    <3> QED  BY <2>3, <3>1, <3>2, <3>3, <3>4, <3>5, <3>6 DEF Step
  <2>4. ASSUME NEW m \in Nodes, StartRpc(m) \/ EndRpc(m) \/ Penalize(m)  PROVE FALSE
    BY <2>1, <2>4 DEF StartRpc, EndRpc, Penalize, readmitVars
  <2>5. ~Tick /\ vars' # vars  BY <2>1 DEF Tick, vars, readmitVars
  <2> QED  BY <2>2, <2>3, <2>4, <2>5 DEF Next
<1> QED  BY <1>1, AdmitX

\* A node becomes healthy only after its readmit time, whatever executions and
\* the clock do while readmitNodes goes from node to node.
THEOREM ReadmittedInTime == Spec => NotReadmittedEarly
<1>1. ASSUME IInv, [Next]_vars
      PROVE  [\A n \in Nodes : n \in mHealthyNodes' \ mHealthyNodes => node[n].readmitIn <= 0]_vars
  BY <1>1, OnlyAdmitted
<1> QED  BY <1>1, Inductive, PTL DEF Spec, NotReadmittedEarly

-----------------------------------------------------------------------------
(***************************************************************************)
(* The network implements NodeDirectory, as long as no node is removed:    *)
(* mMaxNodeAttempts is 0 unless the user sets it.                          *)
(***************************************************************************)
Found == [t \in Threads |-> thread[t].found]

\* A step of the directory, or none.
DirectoryStep == Directory!Next \/ UNCHANGED <<Names, port, Found>>

\* What a thread's last look-up returned, when the thread moves on.
LEMMA FoundMoves ==
  ASSUME IInv, NEW t \in Threads, NEW new, Move(t, new)
  PROVE  /\ Found' = [Found EXCEPT ![t] = new.found]
         /\ new.found = thread[t].found => Found' = Found
<1>1. thread \in [Threads -> ThreadType]  BY DEF IInv, TypeOK
<1>2. \A u \in Threads : thread'[u] = IF u = t THEN new ELSE thread[u]
  BY <1>1 DEF Move
<1>3. Found' = [u \in Threads |-> thread'[u].found]  BY DEF Found
<1>4. Found' = [Found EXCEPT ![t] = new.found]  BY <1>2, <1>3 DEF Found
<1> QED  BY <1>2, <1>3, <1>4 DEF Found

\* Steps between two looks at the table are steps of nothing.
LEMMA QuietStep ==
  ASSUME IInv, NEW t \in Threads, NEW new, Move(t, new), new.found = thread[t].found,
         UNCHANGED <<mNetwork, port>>
  PROVE  DirectoryStep
<1>1. Names' = Names  BY DEF Names
<1>2. Found' = Found  BY FoundMoves
<1> QED  BY <1>1, <1>2 DEF DirectoryStep

\* A thread that starts or ends something else has forgotten its look-up.
LEMMA ForgetStep ==
  ASSUME IInv, NEW t \in Threads, NEW new, Move(t, new), new.found = {},
         UNCHANGED <<mNetwork, port>>
  PROVE  DirectoryStep
<1>1. Names' = Names  BY DEF Names
<1>2. Found' = [Found EXCEPT ![t] = {}]  BY FoundMoves
<1>3. Directory!Forget(t)  BY <1>1, <1>2 DEF Directory!Forget, Names, Found
<1> QED  BY <1>3 DEF DirectoryStep, Directory!Next

LEMMA StartStep ==
  ASSUME IInv, NEW t \in Threads, Start(t)
  PROVE  DirectoryStep
<1> USE DEF tableVars, portVars
<1>1. \A op, pc, todo, key, count, book, target :
        /\ [Idle EXCEPT !.op = op, !.pc = pc, !.key = key].found = {}
        /\ [Idle EXCEPT !.op = op, !.count = count, !.todo = todo, !.pc = pc].found = {}
        /\ [Idle EXCEPT !.op = op, !.pc = pc, !.book = book, !.target = target,
                        !.todo = todo].found = {}
        /\ [Idle EXCEPT !.op = op, !.pc = pc, !.target = target, !.todo = todo].found = {}
  BY DEF Idle
<1>2. \E new : Move(t, new) /\ new.found = {} /\ UNCHANGED <<mNetwork, port>>
  <2>1. CASE LookupBegin(t)  BY <1>1, <2>1 DEF LookupBegin
  <2>2. CASE PickBegin(t)  BY <1>1, <2>2 DEF PickBegin
  <2>3. CASE UpdateBegin(t)  BY <1>1, <2>3 DEF UpdateBegin
  <2>4. CASE SecureBegin(t)  BY <1>1, <2>4 DEF SecureBegin
  <2> QED  BY <2>1, <2>2, <2>3, <2>4 DEF Start
<1> QED  BY <1>2, ForgetStep

LEMMA LookupStep ==
  ASSUME IInv, mNodes = Nodes, NEW t \in Threads, LookupEnd(t)
  PROVE  DirectoryStep
<1> DEFINE k == thread[t]
           new == [Idle EXCEPT !.found = mNetwork[k.key]]
<1>1. /\ k.pc = "choose" /\ k.op = "lookup" /\ Move(t, new)
      /\ UNCHANGED <<tableVars, portVars>>
  BY DEF LookupEnd, Leave
<1>2. k.key \in Accounts  BY <1>1 DEF IInv, Exclusive, Phase
<1>3. new.found = mNetwork[k.key]  BY DEF Idle
<1> HIDE DEF new
<1>4. Found' = [Found EXCEPT ![t] = mNetwork[k.key]]  BY <1>1, <1>3, FoundMoves
<1>5. mNetwork[k.key] = {n \in Nodes : Names[n] = k.key}  BY <1>2 DEF IInv, Named
<1>6. Names' = Names /\ port' = port  BY <1>1 DEF Names, tableVars, portVars
<1>7. Directory!Lookup(t)
  BY <1>2, <1>4, <1>5, <1>6 DEF Directory!Lookup, Names, Found
<1> QED  BY <1>7 DEF DirectoryStep, Directory!Next

LEMMA RenameEndStep ==
  ASSUME IInv, mNodes = Nodes, NEW t \in Threads, RenameEnd(t)
  PROVE  DirectoryStep
<1> DEFINE k == thread[t]
<1>1. /\ k.book \in AddressBooks /\ k.target \in Ports
      /\ thread'[t].found = {} /\ k.found = {}
      /\ \A n \in Nodes : Names'[n] = Renamed(k, n, port[n], Names[n])
  BY RenameEndX
<1>2. port' = port  BY DEF RenameEnd, portVars
<1>3. Found' = Found
  <2>1. PICK new : Move(t, new)  BY DEF RenameEnd, Leave
  <2>2. thread'[t] = new
    <3>1. thread \in [Threads -> ThreadType]  BY DEF IInv, TypeOK
    <3> QED  BY <2>1, <3>1 DEF Move
  <2> QED  BY <1>1, <2>1, <2>2, FoundMoves
<1> HIDE DEF k
<1>4. Names' = [n \in Nodes |-> IF n \in Directory!Matched(k.book, k.target)
                                THEN k.book.names[n] ELSE Names[n]]
  <2>1. Names' = [n \in Nodes |-> Names'[n]]  BY DEF Names
  <2>2. \A n \in Nodes : Names'[n] = IF n \in Directory!Matched(k.book, k.target)
                                     THEN k.book.names[n] ELSE Names[n]
    BY <1>1 DEF Renamed, Listed, Directory!Matched
  <2> QED  BY <2>1, <2>2
<1>5. Directory!Rename
  BY <1>1, <1>2, <1>3, <1>4 DEF Directory!Rename, Names, Found
<1> QED  BY <1>5 DEF DirectoryStep, Directory!Next

LEMMA SecureStep ==
  ASSUME IInv, NEW t \in Threads, Secure(t)
  PROVE  DirectoryStep
<1> DEFINE k == thread[t]
<1>1. PICK n \in k.todo :
        port' = [port EXCEPT ![n] = k.target] /\ Move(t, [k EXCEPT !.todo = @ \ {n}])
  BY DEF Secure
<1>2. k \in ThreadType  BY DEF IInv, TypeOK
<1>3. n \in Nodes /\ k.target \in Ports  BY <1>2 DEF ThreadType
<1>4. [k EXCEPT !.todo = @ \ {n}].found = k.found  BY <1>2 DEF ThreadType
<1>5. Found' = Found  BY <1>1, <1>4, FoundMoves
<1>6. Names' = Names  BY DEF Secure, tableVars, Names
<1>7. Directory!ChangePort
  BY <1>1, <1>3, <1>5, <1>6 DEF Directory!ChangePort, Names, Found
<1> QED  BY <1>7 DEF DirectoryStep, Directory!Next

\* The steps of readmitNodes, of a choice of nodes, and of a renaming before
\* its end.
LEMMA SilentStep ==
  ASSUME IInv, NEW t \in Threads,
         \/ Readmit(t) \/ Earliest(t) \/ Admit(t) \/ KeepNode(t)
         \/ (\E n \in Nodes : Choose(t, n)) \/ AwaitReadmission(t)
         \/ Rename(t) \/ RenameAgain(t)
  PROVE  DirectoryStep
<1> USE DEF tableVars, portVars
<1> DEFINE k == thread[t]
<1>1. k \in ThreadType  BY DEF IInv, TypeOK
<1>2. AfterReadmit(k).found = k.found  BY <1>1 DEF AfterReadmit, ThreadType
<1>3. CASE Readmit(t)
  <2>1. [k EXCEPT !.pc = "earliest", !.todo = mNodes, !.next = MaxReadmit,
                  !.due = PastReadmitTime].found = k.found
    BY <1>1 DEF ThreadType
  <2> QED  BY <1>2, <1>3, <2>1, QuietStep DEF Readmit
<1>4. CASE Earliest(t)
  <2> DEFINE One(n) == [k EXCEPT !.todo = @ \ {n},
                         !.next = IF n \notin k.due /\ node[n].readmitIn < @
                                  THEN node[n].readmitIn ELSE @]
             done == [k EXCEPT !.pc = "admit", !.next = 0, !.todo = mNodes]
  <2>1. done.found = k.found /\ \A n : One(n).found = k.found  BY <1>1 DEF ThreadType
  <2>2. (\E n \in k.todo : Move(t, One(n))) \/ Move(t, done)  BY <1>4 DEF Earliest
  <2>3. UNCHANGED <<mNetwork, port>>  BY <1>4 DEF Earliest
  <2> HIDE DEF One, done
  <2> QED  BY <2>1, <2>2, <2>3, QuietStep
<1>5. CASE Admit(t)
  <2>1. \A n : [k EXCEPT !.todo = @ \ {n}].found = k.found  BY <1>1 DEF ThreadType
  <2>2. (\E n \in k.todo : Move(t, [k EXCEPT !.todo = @ \ {n}])) \/ Move(t, AfterReadmit(k))
    BY <1>5 DEF Admit
  <2>3. UNCHANGED <<mNetwork, port>>  BY <1>5 DEF Admit
  <2> QED  BY <1>2, <2>1, <2>2, <2>3, QuietStep
<1>6. CASE KeepNode(t)
  <2>1. /\ [k EXCEPT !.pc = "readmit"].found = k.found
        /\ \A n : [k EXCEPT !.todo = @ \ {n}].found = k.found
    BY <1>1 DEF ThreadType
  <2>2. \/ \E n \in k.todo : Move(t, [k EXCEPT !.todo = @ \ {n}])
        \/ Move(t, [k EXCEPT !.pc = "readmit"])
    BY <1>6 DEF KeepNode
  <2>3. UNCHANGED <<mNetwork, port>>  BY <1>6 DEF KeepNode
  <2> QED  BY <2>1, <2>2, <2>3, QuietStep
<1>7. CASE \E n \in Nodes : Choose(t, n)
  <2>1. PICK n \in Nodes : Choose(t, n)  BY <1>7
  <2>2. [k EXCEPT !.chosen = @ \cup {n}, !.pc = "readmit"].found = k.found
    BY <1>1 DEF ThreadType
  <2>3. Move(t, [k EXCEPT !.chosen = @ \cup {n}, !.pc = "readmit"]) /\ UNCHANGED <<mNetwork, port>>
    BY <2>1 DEF Choose
  <2> QED  BY <2>2, <2>3, QuietStep
<1>8. CASE AwaitReadmission(t)
  <2>1. [k EXCEPT !.pc = "readmit"].found = k.found  BY <1>1 DEF ThreadType
  <2> QED  BY <1>8, <2>1, QuietStep DEF AwaitReadmission
<1>9. CASE Rename(t)
  <2>1. PICK n \in k.todo : Move(t, [k EXCEPT !.todo = @ \ {n},
                                       !.newNetworkMap[NewName(k, n)] = @ \cup {n}])
    BY <1>9 DEF Rename
  <2>2. [k EXCEPT !.todo = @ \ {n},
                  !.newNetworkMap[NewName(k, n)] = @ \cup {n}].found = k.found
    BY <1>1 DEF ThreadType
  <2>3. UNCHANGED <<mNetwork, port>>  BY <1>9 DEF Rename
  <2> QED  BY <2>1, <2>2, <2>3, QuietStep
<1>10. CASE RenameAgain(t)
  <2>1. [k EXCEPT !.pc = "rename", !.todo = mNodes].found = k.found
    BY <1>1 DEF ThreadType
  <2> QED  BY <1>10, <2>1, QuietStep DEF RenameAgain
<1> QED  BY <1>3, <1>4, <1>5, <1>6, <1>7, <1>8, <1>9, <1>10

LEMMA StepStep ==
  ASSUME IInv, mNodes = Nodes, MaxNodeAttempts = 0, NEW t \in Threads, Step(t)
  PROVE  DirectoryStep /\ mNodes' = mNodes
<1>1. ~RemoveWornOut(t)
  <2> SUFFICES ASSUME RemoveWornOut(t)  PROVE FALSE  OBVIOUS
  <2>1. thread[t].pc = "worn"  BY DEF RemoveWornOut
  <2>2. MaxNodeAttempts > 0  BY <2>1 DEF IInv, Exclusive, Phase
  <2> QED  BY <2>2
<1>2. mNodes' = mNodes
  <2>1. CASE Readmit(t) \/ Earliest(t) \/ Admit(t) \/ LookupEnd(t) \/ KeepNode(t)
    BY <2>1 DEF Readmit, Earliest, Admit, LookupEnd, KeepNode, tableVars
  <2>2. CASE (\E n \in Nodes : Choose(t, n)) \/ AwaitReadmission(t) \/ PickEnd(t)
    BY <2>2 DEF Choose, AwaitReadmission, PickEnd, tableVars
  <2>3. CASE Rename(t) \/ RenameEnd(t) \/ RenameAgain(t) \/ Secure(t) \/ SecureEnd(t)
    BY <2>3 DEF Rename, RenameEnd, RenameAgain, Secure, SecureEnd, tableVars
  <2> QED  BY <1>1, <2>1, <2>2, <2>3 DEF Step
<1>3. Idle.found = {}  BY DEF Idle
<1>4. CASE PickEnd(t)
  BY <1>3, <1>4, ForgetStep DEF PickEnd, Leave, tableVars, portVars
<1>5. CASE SecureEnd(t)
  BY <1>3, <1>5, ForgetStep DEF SecureEnd, Leave, tableVars
<1>6. DirectoryStep
  BY <1>1, <1>4, <1>5, SilentStep, LookupStep, RenameEndStep, SecureStep DEF Step
<1> QED  BY <1>2, <1>6

LEMMA NextStep ==
  ASSUME IInv, mNodes = Nodes, MaxNodeAttempts = 0, [Next]_vars
  PROVE  DirectoryStep /\ mNodes' = Nodes
<1>1. ASSUME NEW t \in Threads, Start(t) \/ Step(t)
      PROVE  DirectoryStep /\ mNodes' = Nodes
  <2>1. Start(t) => mNodes' = mNodes
    BY DEF Start, LookupBegin, PickBegin, UpdateBegin, SecureBegin, tableVars
  <2> QED  BY <1>1, <2>1, StartStep, StepStep
<1>2. ASSUME \A u \in Threads : thread'[u].found = thread[u].found,
             UNCHANGED tableVars, UNCHANGED portVars
      PROVE  DirectoryStep /\ mNodes' = Nodes
  <2>1. Found' = Found  BY <1>2 DEF Found
  <2>2. Names' = Names  BY <1>2 DEF Names, tableVars
  <2> QED  BY <1>2, <2>1, <2>2 DEF DirectoryStep, tableVars, portVars
<1>3. ASSUME NEW n \in Nodes, StartRpc(n) \/ EndRpc(n)
      PROVE  DirectoryStep /\ mNodes' = Nodes
  BY <1>2, <1>3 DEF StartRpc, EndRpc
<1>4. ASSUME NEW n \in Nodes, Penalize(n)
      PROVE  DirectoryStep /\ mNodes' = Nodes
  BY <1>2, <1>4, PenalizeX DEF Penalize
<1>5. CASE Tick  BY <1>2, <1>5, TickX DEF Tick
<1>6. CASE UNCHANGED vars  BY <1>2, <1>6 DEF vars
<1> QED  BY <1>1, <1>3, <1>4, <1>5, <1>6 DEF Next

\* Threads that look up, pick, rename and change ports at the same time see a
\* table that changes in one step, for any threads, nodes and address books, if
\* no node is ever removed (getNodeProxies, updateNodeAccountIds).
THEOREM ImplementsDirectory ==
  ASSUME MaxNodeAttempts = 0
  PROVE  Spec => LooksLikeADirectory
<1> DEFINE NoneRemoved == mNodes = Nodes
<1>1. Init => NoneRemoved  BY DEF Init
<1>2. Init => Directory!Init
  <2> SUFFICES ASSUME Init  PROVE Directory!Init  OBVIOUS
  <2>1. mNetwork = Under(mAccountId) /\ mAccountId \in [Nodes -> Accounts]
        /\ port \in [Nodes -> Ports] /\ thread = [t \in Threads |-> Idle]
    BY DEF Init
  <2>2. \A n \in Nodes : Names[n] \in Accounts
    <3>1. IInv /\ mNodes = Nodes  BY InitIInv, <1>1
    <3> QED  BY <3>1 DEF IInv, Named
  <2>3. Names \in [Nodes -> Accounts]
    <3>1. Names = [n \in Nodes |-> Names[n]]  BY DEF Names
    <3> QED  BY <2>2, <3>1
  <2>4. Found = [t \in Threads |-> {}]  BY <2>1 DEF Found, Idle
  <2> QED  BY <2>1, <2>3, <2>4 DEF Directory!Init, Names, Found
<1>3. IInv /\ NoneRemoved /\ [Next]_vars => NoneRemoved'  BY NextStep
<1>4. IInv /\ NoneRemoved /\ [Next]_vars => DirectoryStep  BY NextStep
<1>5. DirectoryStep => [Directory!Next]_<<Names, port, Found>>
  BY DEF DirectoryStep
<1>6. Spec => []NoneRemoved
  <2> HIDE DEF NoneRemoved
  <2> QED  BY <1>1, <1>3, Inductive, PTL DEF Spec
<1>7. IInv /\ NoneRemoved /\ [Next]_vars =>
        [Directory!Next]_<<[n \in Nodes |-> CHOOSE a \in Accounts : n \in mNetwork[a]],
                           port, [t \in Threads |-> thread[t].found]>>
  BY <1>4, <1>5 DEF Names, Found
<1> HIDE DEF NoneRemoved
<1> QED  BY <1>2, <1>6, <1>7, Inductive, PTL DEF Spec, LooksLikeADirectory, Directory!Spec

=============================================================================
