----------------------------- MODULE Executable -----------------------------
(***************************************************************************)
(* Executable::execute (src/Executable.cc): the loop every query and every *)
(* transaction goes through.  Several threads run it at once, each on its  *)
(* own request (a call c), over nodes and a consensus network they share.  *)
(*                                                                         *)
(* call[c] holds the local variables and the mCurrent* members of one      *)
(* execution.  A step of a call is what execute() does between two moments *)
(* at which another thread can act: it sleeps, it waits for the mutex of a *)
(* node, or an RPC is on its way.  WaitForConnected and submitQuery /      *)
(* submitTransaction hold the node's mutex until they return, hence        *)
(* nodeLock; every other access to a node needs it free for an instant.    *)
(* Delays count down, as in BaseNode.                                      *)
(***************************************************************************)
EXTENDS BaseNode, Sequences, FiniteSets

CONSTANTS
  Calls,            \* the executions
  NoCall,           \* the holder of a mutex nobody holds
  Nodes,            \* the Node objects of the client's Network
  Accounts,         \* node account IDs
  NodeAccountIds,   \* [Calls -> Seq(Accounts)]: mNodeAccountIds
  InitialBooks,     \* the accounts the nodes may start with
  AddressBooks,     \* the address books the mirror node may serve
  Replies,          \* what an RPC may end with, a subset of AllReplies
  MaxAttempts,      \* mCurrentMaxAttempts
  MinBackoff,       \* mCurrentMinBackoff
  MaxBackoff,       \* mCurrentMaxBackoff
  MayClose          \* may Client::setTransportSecurity or close() be called

\* gRPC failures, and the statuses of a response: one for each way
\* determineStatus can go.  NOT_READY stands for what a derived class retries
\* (RECEIPT_NOT_FOUND, a regenerated TRANSACTION_EXPIRED), REJECTED for every
\* status that is a request error, PLATFORM_NOT_ACTIVE also for
\* PLATFORM_TRANSACTION_NOT_CREATED, UNAVAILABLE also for RESOURCE_EXHAUSTED
\* and INTERNAL, DEADLINE_EXCEEDED for every other gRPC code.
Statuses == {"OK", "BUSY", "PLATFORM_NOT_ACTIVE", "INVALID_NODE_ACCOUNT",
             "NOT_READY", "REJECTED"}
AllReplies == Statuses \cup {"UNAVAILABLE", "DEADLINE_EXCEEDED"}

MAX_ADDRESS_BOOK_UPDATES == 1

ASSUME ExecutableAssumption ==
  /\ NoCall \notin Calls
  /\ NodeAccountIds \in [Calls -> Seq(Accounts)]
  /\ InitialBooks \subseteq [Nodes -> Accounts]
  /\ \A book \in AddressBooks :
        DOMAIN book \subseteq Nodes /\ \A n \in DOMAIN book : book[n] \in Accounts
  /\ Replies \subseteq AllReplies /\ "DEADLINE_EXCEEDED" \in Replies
  /\ MaxAttempts \in Nat
  /\ MinBackoff \in Nat /\ MaxBackoff \in Nat /\ MinBackoff <= MaxBackoff
  /\ MayClose \in BOOLEAN

VARIABLES
  node,        \* [Nodes -> NodeState]
  nodeLock,    \* [Nodes -> Calls \cup {NoCall}]: who is inside a blocking call
  account,     \* [Nodes -> Accounts]: Network::mNetwork, read backwards
  hasMirror,   \* is a mirror network configured
  call,        \* [Calls -> CallState]
  hist         \* history, read by the properties only

vars == <<node, nodeLock, account, hasMirror, call, hist>>

Pcs == {"idle", "fetch", "loop", "update", "refetch", "scan", "scanDelay",
        "selected", "delay", "nodeWait", "connect", "connecting", "submit", "rpc", "penalize",
        "answered", "invalid", "retryWait", "done"}

Outcomes == {"none", "success", "REJECTED", "INVALID_NODE_ACCOUNT",
             "MaxAttemptsExceeded", "IllegalState", "UpdateFailed", "Crashed"}

NoStatus == "none"
NoResponses == [n \in Nodes |-> NoStatus]

CallState ==
  [ pc             : Pcs,
    attempt        : Nat,
    nodes          : Seq(Nodes),
    cursor         : Nat \ {0},        \* loop index of a fetch or of a scan
    candidate      : Nat,              \* candidateNodeIndex, 0 when unset
    candidateDelay : -1 .. MaxNodeBackoff,
    nodeIndex      : Nat,
    nodeResponses  : [Nodes -> Statuses \cup {NoStatus}],
    needsAddressBookUpdate : BOOLEAN,
    addressBookUpdateCount : Nat,
    mCurrentBackoff : 0 .. MaxBackoff,
    sleep          : Int,              \* what is left of a sleep_for
    reply          : AllReplies,
    outcome        : Outcomes ]

\* submissions: RPCs started; updates: address book queries started;
\* considered: the indices of nodes submitted to, found unreachable or met
\* unhealthy since the look-up; overtaken: whether another execution has
\* penalised the chosen node since this one last asked for its penalty.
History ==
  [ submissions : Nat, updates : Nat, considered : SUBSET Nat, overtaken : BOOLEAN ]

IdleCall ==
  [ pc |-> "idle", attempt |-> 0, nodes |-> <<>>, cursor |-> 1,
    candidate |-> 0, candidateDelay |-> 0, nodeIndex |-> 0,
    nodeResponses |-> NoResponses, needsAddressBookUpdate |-> FALSE,
    addressBookUpdateCount |-> 0, mCurrentBackoff |-> MinBackoff, sleep |-> 0,
    reply |-> "OK", outcome |-> "none" ]

NoHistory ==
  [submissions |-> 0, updates |-> 0, considered |-> {}, overtaken |-> FALSE]

Init ==
  /\ node = [n \in Nodes |-> NewNode]
  /\ nodeLock = [n \in Nodes |-> NoCall]
  /\ account \in InitialBooks
  /\ hasMirror \in BOOLEAN
  /\ call = [c \in Calls |-> IdleCall]
  /\ hist = [c \in Calls |-> NoHistory]

-----------------------------------------------------------------------------
(***************************************************************************)
(* Helpers.                                                                *)
(***************************************************************************)
Move(c, new)   == call' = [call EXCEPT ![c] = new]
Record(c, new) == hist' = [hist EXCEPT ![c] = new]
Free(n)        == nodeLock[n] = NoCall
Chosen(k)      == k.nodes[k.nodeIndex]
Proxies(id)    == {n \in Nodes : account[n] = id}        \* mNetwork[id]

\* Mutant: an attempt that is not counted.
NextAttemptUncounted(k) == [k EXCEPT !.pc = "loop"]

\* The locals of the iteration go out of scope.
NextAttempt(k) ==
  [k EXCEPT !.pc = "loop", !.attempt = @ + 1, !.nodeIndex = 0, !.reply = "OK"]
Finish(k, how) == [k EXCEPT !.pc = "done", !.outcome = how]

Answered(k) == {n \in Nodes : k.nodeResponses[n] # NoStatus}

\* A response nobody filled in has precheck code 0, which is OK.
mapResponseStatus(reply) == IF reply \in Statuses THEN reply ELSE "OK"

determineStatus(status) ==
  CASE status \in {"PLATFORM_NOT_ACTIVE", "BUSY"} -> "SERVER_ERROR"
    [] status = "INVALID_NODE_ACCOUNT"            -> "RETRY_WITH_ANOTHER_NODE"
    [] status = "NOT_READY"                       -> "RETRY"
    [] status = "OK"                              -> "SUCCESS"
    [] OTHER                                      -> "REQUEST_ERROR"

AllBusy(k) ==
  /\ Cardinality(Answered(k)) = Len(k.nodes)
  /\ \A n \in Answered(k) : k.nodeResponses[n] = "BUSY"

-----------------------------------------------------------------------------
(***************************************************************************)
(* Before the loop.                                                        *)
(***************************************************************************)
\* setExecutionParameters and onExecute.
Begin(c) ==
  /\ call[c].pc = "idle"
  /\ Move(c, [call[c] EXCEPT !.pc = "fetch", !.mCurrentBackoff = MinBackoff])
  /\ UNCHANGED <<node, nodeLock, account, hasMirror, hist>>

\* One iteration of getNodesFromNodeAccountIds: a random proxy of the account,
\* or nothing when the network knows no node under it.
FetchProxy(c) ==
  LET k  == call[c]
      id == NodeAccountIds[c][k.cursor]
  IN /\ k.pc \in {"fetch", "refetch"}
     /\ k.cursor <= Len(NodeAccountIds[c])
     /\ \/ \E n \in Proxies(id) :
             Move(c, [k EXCEPT !.cursor = @ + 1, !.nodes = Append(@, n)])
        \/ Proxies(id) = {} /\ Move(c, [k EXCEPT !.cursor = @ + 1])
     /\ UNCHANGED <<node, nodeLock, account, hasMirror, hist>>

FetchDone(c) ==
  LET k == call[c]
  IN /\ k.pc = "fetch"
     /\ k.cursor > Len(NodeAccountIds[c])
     /\ \/ k.nodes = <<>> /\ Move(c, Finish(k, "IllegalState"))
        \/ k.nodes # <<>> /\ Move(c, [k EXCEPT !.pc = "loop"])
     /\ UNCHANGED <<node, nodeLock, account, hasMirror, hist>>

-----------------------------------------------------------------------------
(***************************************************************************)
(* The head of an iteration: the address book, then the attempt budget.    *)
(***************************************************************************)
UpdateDue(k) ==
  k.needsAddressBookUpdate /\ k.addressBookUpdateCount < MAX_ADDRESS_BOOK_UPDATES

\* Mutant: the update is not counted.
UpdateOverUncounted(k) == [k EXCEPT !.pc = "loop", !.needsAddressBookUpdate = FALSE]

UpdateOver(k) == [k EXCEPT !.pc = "loop", !.needsAddressBookUpdate = FALSE,
                           !.addressBookUpdateCount = @ + 1]

UpdateSkipped(c) ==
  /\ call[c].pc = "loop" /\ UpdateDue(call[c]) /\ ~hasMirror
  /\ Move(c, UpdateOver(call[c]))
  /\ UNCHANGED <<node, nodeLock, account, hasMirror, hist>>

\* Client::updateAddressBook queries a mirror node without any lock ...
UpdateBegin(c) ==
  /\ call[c].pc = "loop" /\ UpdateDue(call[c]) /\ hasMirror
  /\ Move(c, [call[c] EXCEPT !.pc = "update"])
  /\ Record(c, [hist[c] EXCEPT !.updates = @ + 1])
  /\ UNCHANGED <<node, nodeLock, account, hasMirror>>

\* ... Network::updateNodeAccountIds then renames, in place, the nodes the
\* book has; it holds the network's mutex, which getNodeProxies needs.
updateNodeAccountIds(book) ==
  account' = [n \in Nodes |-> IF n \in DOMAIN book THEN book[n] ELSE account[n]]

UpdateEnd(c) ==
  /\ call[c].pc = "update"
  /\ \E book \in AddressBooks : updateNodeAccountIds(book)
  /\ Move(c, [call[c] EXCEPT !.pc = "refetch", !.cursor = 1, !.nodes = <<>>])
  /\ Record(c, [hist[c] EXCEPT !.considered = {}])
  /\ UNCHANGED <<node, nodeLock, hasMirror>>

\* The query, or the update, throws: so does execute.
UpdateFails(c) ==
  /\ call[c].pc = "update"
  /\ Move(c, Finish(call[c], "UpdateFailed"))
  /\ UNCHANGED <<node, nodeLock, account, hasMirror, hist>>

\* Mutant: the responses of the old nodes stay.
RefetchDoneKeeping(c) ==
  LET k == call[c]
  IN /\ k.pc = "refetch"
     /\ k.cursor > Len(NodeAccountIds[c])
     /\ k.nodes # <<>>
     /\ Move(c, UpdateOver(k))
     /\ UNCHANGED <<node, nodeLock, account, hasMirror, hist>>

RefetchDone(c) ==
  LET k == call[c]
  IN /\ k.pc = "refetch"
     /\ k.cursor > Len(NodeAccountIds[c])
     /\ \/ k.nodes = <<>> /\ Move(c, Finish(k, "INVALID_NODE_ACCOUNT"))
        \/ /\ k.nodes # <<>>
           /\ Move(c, [UpdateOver(k) EXCEPT !.nodeResponses = NoResponses])
     /\ UNCHANGED <<node, nodeLock, account, hasMirror, hist>>

AttemptsExhausted(c) ==
  /\ call[c].pc = "loop" /\ ~UpdateDue(call[c])
  /\ call[c].attempt >= MaxAttempts
  /\ Move(c, Finish(call[c], "MaxAttemptsExceeded"))
  /\ UNCHANGED <<node, nodeLock, account, hasMirror, hist>>

-----------------------------------------------------------------------------
(***************************************************************************)
(* getNodeIndexForExecute: the first healthy node at or after the index    *)
(* attempt % size, else the one with the smallest remaining delay.         *)
(***************************************************************************)
\* Mutant: every search starts at the first node.
firstIndexZero(k) == 1

firstIndex(k) == (k.attempt % Len(k.nodes)) + 1

ScanBegin(c) ==
  LET k == call[c]
  IN /\ k.pc = "loop" /\ ~UpdateDue(k) /\ k.attempt < MaxAttempts
     /\ Move(c, [k EXCEPT !.pc = "scan", !.cursor = firstIndex(k)])
     /\ UNCHANGED <<node, nodeLock, account, hasMirror, hist>>

\* The locals of the scan go out of scope.
Selected(k, i) == [k EXCEPT !.pc = "selected", !.nodeIndex = i, !.cursor = 1,
                            !.candidate = 0, !.candidateDelay = 0]

ScanHealthy(c) ==
  LET k == call[c]
      n == k.nodes[k.cursor]
  IN /\ k.pc = "scan" /\ Free(n) /\ isHealthy(node[n])
     /\ Move(c, Selected(k, k.cursor))
     /\ UNCHANGED <<node, nodeLock, account, hasMirror, hist>>

\* An unhealthy node: its delay is asked for under the mutex taken again.
ScanUnhealthy(c) ==
  LET k == call[c]
      n == k.nodes[k.cursor]
  IN /\ k.pc = "scan" /\ Free(n) /\ ~isHealthy(node[n])
     /\ Move(c, [k EXCEPT !.pc = "scanDelay"])
     /\ Record(c, [hist[c] EXCEPT !.considered = @ \cup {k.cursor}])
     /\ UNCHANGED <<node, nodeLock, account, hasMirror>>

\* The candidates there may be after the node at the cursor: the one with the
\* smaller delay, either if both are past by then.
Candidates(k, delay) ==
  {r \in {k, [k EXCEPT !.candidate = k.cursor, !.candidateDelay = delay]} :
     /\ r = k => k.candidate # 0 /\ k.candidateDelay <= delay
     /\ r # k => k.candidate = 0 \/ delay < k.candidateDelay \/ {delay, k.candidateDelay} = {-1}}

ScanDelay(c) ==
  LET k == call[c]
      n == k.nodes[k.cursor]
  IN /\ k.pc = "scanDelay" /\ Free(n)
     /\ \E r \in Candidates(k, getRemainingTimeForBackoff(node[n])) :
          \/ /\ k.cursor < Len(k.nodes)
             /\ Move(c, [r EXCEPT !.pc = "scan", !.cursor = @ + 1])
          \/ /\ k.cursor = Len(k.nodes)
             /\ Move(c, Selected(r, r.candidate))
     /\ UNCHANGED <<node, nodeLock, account, hasMirror, hist>>

-----------------------------------------------------------------------------
(***************************************************************************)
(* One attempt at the chosen node.                                         *)
(***************************************************************************)
\* Mutant: the node is not waited for.
CheckHealthNoWait(c) ==
  LET k == call[c]
  IN /\ k.pc = "selected" /\ Free(Chosen(k))
     /\ Move(c, [k EXCEPT !.pc = "connect"])
     /\ UNCHANGED <<node, nodeLock, account, hasMirror, hist>>

\* isHealthy is asked again.
CheckHealth(c) ==
  LET k == call[c]
      n == Chosen(k)
  IN /\ k.pc = "selected" /\ Free(n)
     /\ Move(c, [k EXCEPT !.pc = IF isHealthy(node[n]) THEN "connect" ELSE "delay"])
     /\ UNCHANGED <<node, nodeLock, account, hasMirror, hist>>

\* Mutant: the delay is cut to every second unit.
TakeDelayTruncated(c) ==
  LET k == call[c]
      n == Chosen(k)
  IN /\ k.pc = "delay" /\ Free(n)
     /\ Move(c, [k EXCEPT !.pc = "nodeWait",
                          !.sleep = 2 * (getRemainingTimeForBackoff(node[n]) \div 2)])
     /\ UNCHANGED <<node, nodeLock, account, hasMirror, hist>>

\* An unhealthy node is waited for, for the delay asked for after that.
TakeDelay(c) ==
  LET k == call[c]
      n == Chosen(k)
  IN /\ k.pc = "delay" /\ Free(n)
     /\ Move(c, [k EXCEPT !.pc = "nodeWait", !.sleep = getRemainingTimeForBackoff(node[n])])
     /\ UNCHANGED <<node, nodeLock, account, hasMirror, hist>>

NodeWaitOver(c) ==
  /\ call[c].pc = "nodeWait" /\ call[c].sleep <= 0
  /\ Move(c, [call[c] EXCEPT !.pc = "connect"])
  /\ UNCHANGED <<node, nodeLock, account, hasMirror, hist>>

\* channelFailedToConnect
Connect(c) ==
  LET k == call[c]
      n == Chosen(k)
  IN /\ k.pc = "connect" /\ Free(n)
     /\ \/ /\ ~needsConnection(node[n])
           /\ Move(c, [k EXCEPT !.pc = "submit"])
           /\ UNCHANGED <<node, nodeLock>>
        \/ /\ needsConnection(node[n])
           /\ Move(c, [k EXCEPT !.pc = "connecting"])
           /\ node' = [node EXCEPT ![n] = getChannel(@)]
           /\ nodeLock' = [nodeLock EXCEPT ![n] = c]
     /\ UNCHANGED <<account, hasMirror, hist>>

ConnectEnd(c) ==
  LET k == call[c]
      n == Chosen(k)
  IN /\ k.pc = "connecting"
     /\ \E up \in BOOLEAN :
          /\ node' = [node EXCEPT ![n] = WaitForConnected(@, up)]
          /\ Move(c, [k EXCEPT !.pc = IF up THEN "submit" ELSE "penalize"])
          /\ Record(c, IF up THEN hist[c]
                       ELSE [hist[c] EXCEPT !.considered = @ \cup {k.nodeIndex},
                                            !.overtaken = FALSE])
     /\ nodeLock' = [nodeLock EXCEPT ![n] = NoCall]
     /\ UNCHANGED <<account, hasMirror>>

\* makeRequest, then submitRequest: the stubs of a closed channel are null.
Submit(c) ==
  LET k == call[c]
      n == Chosen(k)
  IN /\ k.pc = "submit" /\ Free(n)
     /\ \/ /\ node[n].mChannel
           /\ Move(c, [k EXCEPT !.pc = "rpc"])
           /\ nodeLock' = [nodeLock EXCEPT ![n] = c]
           /\ Record(c, [hist[c] EXCEPT !.submissions = @ + 1,
                                        !.considered = @ \cup {k.nodeIndex},
                                        !.overtaken = FALSE])
        \/ /\ ~node[n].mChannel
           /\ Move(c, Finish(k, "Crashed"))
           /\ UNCHANGED <<nodeLock, hist>>
     /\ UNCHANGED <<node, account, hasMirror>>

\* The RPC ends by its deadline at the latest.  The request timeout does
\* nothing but bring that deadline forward, so its passing is one of the
\* reasons for DEADLINE_EXCEEDED and needs no state of its own.
Reply(c) ==
  LET k == call[c]
      n == Chosen(k)
  IN /\ k.pc = "rpc"
     /\ \E r \in Replies :
          /\ Move(c, [k EXCEPT !.reply = r,
               !.pc = IF r = "UNAVAILABLE" THEN "penalize" ELSE "answered"])
     /\ nodeLock' = [nodeLock EXCEPT ![n] = NoCall]
     /\ UNCHANGED <<node, account, hasMirror, hist>>

\* Executions that have asked for the penalty of their node, and not got to it.
Approaching == {"nodeWait", "connect", "connecting", "submit"}

\* Node n is penalised: who is on the way to it did not ask for this.
Overtaken(n) ==
  hist' = [d \in Calls |->
             IF call[d].pc \in Approaching /\ Chosen(call[d]) = n
             THEN [hist[d] EXCEPT !.overtaken = TRUE] ELSE hist[d]]

\* No connection or a bad gRPC status: increaseBackoff; continue.
Penalize(c) ==
  LET k == call[c]
      n == Chosen(k)
  IN /\ k.pc = "penalize" /\ Free(n)
     /\ node' = [node EXCEPT ![n] = increaseBackoff(@)]
     /\ Move(c, NextAttempt(k)) /\ Overtaken(n)
     /\ UNCHANGED <<nodeLock, account, hasMirror>>

-----------------------------------------------------------------------------
(***************************************************************************)
(* A response arrived: decreaseBackoff, note the status and decide.        *)
(***************************************************************************)
\* The cases of the switch, given k with the status noted in nodeResponses.
Decision(k, status) ==
  CASE determineStatus(status) = "SERVER_ERROR" /\ ~AllBusy(k) ->
         NextAttempt(k)
    [] determineStatus(status) = "SERVER_ERROR" /\ AllBusy(k) ->
         [k EXCEPT !.pc = "invalid", !.nodeResponses = NoResponses]
    [] determineStatus(status) = "RETRY_WITH_ANOTHER_NODE" ->
         [k EXCEPT !.pc = "invalid"]
    [] determineStatus(status) = "RETRY" ->
         [k EXCEPT !.pc = "retryWait", !.sleep = k.mCurrentBackoff]
    [] determineStatus(status) = "REQUEST_ERROR" -> Finish(k, "REJECTED")
    [] OTHER -> Finish(k, "success")

HandleResponse(c) ==
  LET k == call[c]
      n == Chosen(k)
      status == mapResponseStatus(k.reply)
  IN /\ k.pc = "answered" /\ Free(n)
     /\ node' = [node EXCEPT ![n] = decreaseBackoff(@)]
     /\ Move(c, Decision([k EXCEPT !.nodeResponses[n] = status], status))
     /\ UNCHANGED <<nodeLock, account, hasMirror, hist>>

\* Mutant: the other nodes are not asked.
AllTriedEarly(k) == k.addressBookUpdateCount >= MAX_ADDRESS_BOOK_UPDATES

\* Case RETRY_WITH_ANOTHER_NODE, which an all-BUSY SERVER_ERROR falls into.
AllTried(k) ==
  /\ Cardinality(Answered(k)) >= Len(k.nodes)
  /\ k.addressBookUpdateCount >= MAX_ADDRESS_BOOK_UPDATES

RetryWithAnotherNode(c) ==
  LET k == call[c]
      n == Chosen(k)
  IN /\ k.pc = "invalid" /\ Free(n)
     /\ node' = [node EXCEPT ![n] = increaseBackoff(@)]
     /\ \/ AllTried(k) /\ Move(c, Finish(k, "INVALID_NODE_ACCOUNT"))
        \/ /\ ~AllTried(k)
           /\ Move(c, [NextAttempt(k) EXCEPT !.needsAddressBookUpdate = TRUE])
     /\ Overtaken(n)
     /\ UNCHANGED <<nodeLock, account, hasMirror>>

\* Case RETRY, after its sleep.
RetryWaitOver(c) ==
  /\ call[c].pc = "retryWait" /\ call[c].sleep <= 0
  /\ Move(c, [NextAttempt(call[c]) EXCEPT
                !.mCurrentBackoff = AtMost(2 * @, MaxBackoff)])
  /\ UNCHANGED <<node, nodeLock, account, hasMirror, hist>>

-----------------------------------------------------------------------------
(***************************************************************************)
(* The environment: time, the client's own update thread and the channels. *)
(***************************************************************************)
Asleep(c) == call[c].sleep > 0

Tick ==
  /\ (\E n \in Nodes : ~isHealthy(node[n])) \/ (\E c \in Calls : Asleep(c))
  /\ node' = [n \in Nodes |-> Elapse(node[n])]
  /\ call' = [c \in Calls |-> [call[c] EXCEPT !.sleep = AtLeast(@ - 1, 0)]]
  /\ UNCHANGED <<nodeLock, account, hasMirror, hist>>

\* Client::scheduleNetworkUpdate, in its own thread.
BackgroundUpdate ==
  /\ hasMirror
  /\ \E book \in AddressBooks : updateNodeAccountIds(book)
  /\ UNCHANGED <<node, nodeLock, hasMirror, call, hist>>

\* Mutant: the channel is closed without the node's mutex.
CloseChannelUnlocked(n) ==
  /\ MayClose
  /\ node' = [node EXCEPT ![n] = closeChannel(@)]
  /\ UNCHANGED <<nodeLock, account, hasMirror, call, hist>>

\* Client::setTransportSecurity closes the channel of every node.
CloseChannel(n) ==
  /\ MayClose /\ Free(n)
  /\ node' = [node EXCEPT ![n] = closeChannel(@)]
  /\ UNCHANGED <<nodeLock, account, hasMirror, call, hist>>

Terminated ==
  /\ \A c \in Calls : call[c].pc = "done"
  /\ UNCHANGED vars

Step(c) ==
  \/ Begin(c) \/ FetchProxy(c) \/ FetchDone(c)
  \/ UpdateSkipped(c) \/ UpdateBegin(c) \/ UpdateEnd(c) \/ UpdateFails(c)
  \/ RefetchDone(c) \/ AttemptsExhausted(c)
  \/ ScanBegin(c) \/ ScanHealthy(c) \/ ScanUnhealthy(c) \/ ScanDelay(c)
  \/ CheckHealth(c) \/ TakeDelay(c) \/ NodeWaitOver(c)
  \/ Connect(c) \/ ConnectEnd(c) \/ Submit(c) \/ Reply(c) \/ Penalize(c)
  \/ HandleResponse(c) \/ RetryWithAnotherNode(c) \/ RetryWaitOver(c)

Next ==
  \/ \E c \in Calls : Step(c)
  \/ Tick
  \/ BackgroundUpdate
  \/ \E n \in Nodes : CloseChannel(n)
  \/ Terminated

Spec == Init /\ [][Next]_vars

\* Threads are scheduled, RPCs and connections end by their deadline, the
\* mirror node answers or fails, and time passes.
FairSpec == Spec /\ WF_vars(Tick) /\ \A c \in Calls : WF_vars(Step(c))

-----------------------------------------------------------------------------
(***************************************************************************)
(* Properties.                                                             *)
(***************************************************************************)
TypeOK ==
  /\ node \in [Nodes -> NodeState]
  /\ nodeLock \in [Nodes -> Calls \cup {NoCall}]
  /\ account \in [Nodes -> Accounts]
  /\ hasMirror \in BOOLEAN
  /\ call \in [Calls -> CallState]
  /\ hist \in [Calls -> History]

\* One execution starts at most MaxAttempts RPCs and queries the address book
\* at most once ("Only update once per transaction", Executable.cc:141),
\* whatever mixture of connection failures, bad statuses, look-ups and waits
\* its attempts go through.
Budget ==
  \A c \in Calls : /\ hist[c].submissions <= MaxAttempts
                   /\ hist[c].updates <= MAX_ADDRESS_BOOK_UPDATES

\* The responses that decide "all nodes are BUSY" and "all nodes were tried"
\* come from nodes the execution still uses: a look-up after an address book
\* update forgets those of the nodes before it.
ResponsesAreCurrent ==
  \A c \in Calls :
    LET k == call[c]
    IN k.pc # "refetch" /\ k.nodes # <<>> =>
         \A n \in Answered(k) : \E i \in 1 .. Len(k.nodes) : k.nodes[i] = n

\* INVALID_NODE_ACCOUNT reaches the caller only after the address book was
\* asked for (when there is a mirror network to ask), and only when no node is
\* left under the requested accounts or every node in use has answered.
InvalidNodeAccountEarned ==
  \A c \in Calls :
    LET k == call[c]
    IN k.outcome = "INVALID_NODE_ACCOUNT" =>
         /\ hasMirror => hist[c].updates = 1
         /\ \A i \in 1 .. Len(k.nodes) : k.nodes[i] \in Answered(k)

\* After as many attempts as there are nodes, no node was passed over: each
\* was submitted to, could not be connected to, or was unhealthy when its turn
\* came, although healthy nodes before it may have failed every time.
NoNodeOverlooked ==
  \A c \in Calls :
    LET k == call[c]
    IN k.pc = "loop" /\ hist[c].updates = 0 =>
         \A i \in 1 .. Len(k.nodes) : i <= k.attempt => i \in hist[c].considered

\* Alone on its nodes, an execution never turns to a node before the node's
\* readmit time: it has slept long enough even when every choice was bad.
PenaltyServed ==
  \A c \in Calls :
    Calls = {c} /\ call[c].pc \in {"connect", "connecting", "submit"} =>
      getRemainingTimeForBackoff(node[Chosen(call[c])]) <= 0

\* Among others, an execution turns to a node before the node's readmit time
\* only if another execution has penalised it after this one asked: neither
\* what the search saw of the node nor the time between the two questions at
\* Executable.cc:193 and 195 lets a request out early.
EarlyOnlyIfOvertaken ==
  \A c \in Calls :
    call[c].pc \in {"connect", "connecting", "submit"} /\ ~hist[c].overtaken =>
      getRemainingTimeForBackoff(node[Chosen(call[c])]) <= 0

\* Requests take turns on a node: whoever waits for a connection or for a
\* response alone holds the node, and the channel is not closed under it by
\* setTransportSecurity, whatever other executions and closers want.
NodeSerialises ==
  \A c \in Calls :
    call[c].pc \in {"connecting", "rpc"} =>
      /\ nodeLock[Chosen(call[c])] = c
      /\ node[Chosen(call[c])].mChannel

\* Every execution ends: nodes that fail, nodes other executions keep busy and
\* nodes that are renamed can only use up its attempts.
EveryCallEnds == \A c \in Calls : <>(call[c].pc = "done")

-----------------------------------------------------------------------------
(***************************************************************************)
(* What a comment of the code says and the code does not do: it is refuted *)
(* (README, "Findings").                                                   *)
(***************************************************************************)
\* Executable.h:52 "@return The SdkResponseType object sent from the Hiero
\* network that contains the result of the request".
SuccessWasSent ==
  \A c \in Calls : call[c].outcome = "success" => call[c].reply = "OK"

=============================================================================
