# A verification project for the Hiero C++ SDK

TLA+ models of the Hiero C++ SDK: how a request is executed on a network that
fails, how the network of nodes is kept and refreshed, how a topic subscription
streams, how transactions are frozen, signed, chunked, turned into bytes and
scheduled, how queries are paid, and what every class keeps of the data it
sends and receives. TLC checks the models on small instances, TLAPS proves the
safety properties of all of them for every value of the constants.

Paths are relative to the repository; `main/` stands for `src/sdk/main/`.
`PROJECT.json` maps every definition to the lines it stands for, lists each
hazard of the code at its line, and says of each component what is left out.

## 1. The system

The SDK is a client library: a user's thread builds a request (a transaction or
a query), and `Executable::execute` sends it to consensus nodes until one
answers. Threads share a `Client`; the client owns a `Network` of `Node`
objects, a `MirrorNetwork`, and a thread that refreshes the network.

| Component | State it keeps | Operations | Interacts with |
| --- | --- | --- | --- |
| Node (`main/src/impl/BaseNode.cc`, `Node.cc`) | readmit time, current backoff, count of failures, channel, stubs, "is connected", its own mutex | `increaseBackoff`, `decreaseBackoff`, `isHealthy`, `channelFailedToConnect`, `submitQuery`/`submitTransaction`, `close`, `toSecure`/`toInsecure` | called by executions, by the network; blocks on gRPC with its mutex held |
| Execution (`Executable.cc`) | attempt, nodes, statuses per node, current backoff, "address book needed" | `execute` | network (look-up), nodes, client (address book update), the derived transaction or query (`onExecute`, `makeRequest`, `determineStatus`) |
| Network (`impl/BaseNetwork.cc`, `impl/Network.cc`) | nodes, table from accounts to nodes, healthy nodes, earliest readmit time, TLS policy, a mutex | `getNodeProxies`, `getNodeAccountIdsForExecute`, `updateNodeAccountIds`, `setTransportSecurity`, `setNetwork`, `close` | locks nodes while it holds its own mutex |
| Mirror network (`impl/MirrorNetwork.cc`) | a set of mirror nodes | `getNextMirrorNode` | address book query, subscriptions |
| Client (`Client.cc`) | network, mirror network, operator, defaults, subscriptions, the update thread with its condition variable, a mutex | setters, `close`, `setNetworkUpdatePeriod`, move, `updateAddressBook` | everything |
| Topic subscription (`TopicMessageQuery.cc`, `SubscriptionHandle.cc`) | contexts, completion queues, the query to resume with, chunks, attempt, backoff; the handle of the user | `subscribe`, `unsubscribe` | mirror nodes, the user's callbacks, `Client::close` |
| Transaction (`Transaction.cc`) | ID, source body, signed and built transactions per node, signatories | setters, freeze, sign, add and remove signatures, hash, bytes, schedule, batchify, regenerate | execution, ledger |
| Chunked transaction (`ChunkedTransaction.cc`) | data, sizes, entries per chunk and node, current chunk | `executeAll`, `execute`, bytes | several executions, receipts |
| Concrete transactions (54 classes, `WrappedTransaction.cc`, `ScheduleCreateTransaction.cc`, `ScheduleInfo.cc`) | their members | setters, `build`, `initFromSourceTransactionBody`, `validateChecksums` | the four routes through which a body is read and written |
| Query (`Query.cc` and 15 classes) | members, cost, "get cost" flag, payment | setters, `getCost`, `execute` | a nested execution, the ledger of payments |
| Transaction ID (`TransactionId.cc`) | the last timestamp, atomic | `generate` | all threads |
| Network objects (71 classes: IDs, infos, receipts, records, fees, hooks, keys) | their members | `fromProtobuf`, `toProtobuf`, `toBytes`, `fromBytes` | what queries return |
| Address book query (`AddressBookQuery.cc`) | attempts | `execute` | mirror network, update thread |

What is left (cryptography, encodings, flows, the HTTP gateway, status tables,
logging, the conformance server in `src/tck`) is listed in section 7 with the
reason.

### What makes each component correct

* **Execution**: it ends; it keeps to its budget of attempts and of address
  book updates; it does not send a request before the penalty of the node is
  served; it passes no node over; it judges only by answers of nodes it uses; it
  sends each node the request meant for it; what it returns as a success was
  sent by the network.
* **Node**: one request at a time, no channel closed under a request, backoff
  inside its bounds.
* **Network**: the table and the nodes agree whenever the mutex is free; a
  look-up never sees half a renaming; no node is healthy before its time; a
  choice of nodes returns; a policy that was set holds.
* **Subscription**: no message lost or out of order over retries; one handler
  called, once, at the end; it ends when told to, or when attempts are used up.
* **Client**: cancelled means no update after; no update before its time; a move
  keeps what is due; a book is not mixed of two attempts; whoever cancels, and
  so joins the update thread, gets back.
* **Transaction**: what is sent is what the transaction shows, signed by exactly
  its signatories; a success answers for a request the ledger executed; one call
  executes the transaction under one ID, unless an answer was lost.
* **Chunked transaction**: all chunks, once, in order, under one initial ID.
* **Concrete transactions**: whoever reads a transaction (from bytes, from a
  schedule, from a schedule's info) sees what its user made; an update names only
  what was set; no ID of another ledger leaves a client that validates checksums.
* **Query**: pays what this call was told, to the node it asks, within the limit;
  an answer was paid for; the node is asked for what was set.
* **Network objects**: everything the network sent shows, and survives bytes.

### Where it is hard

Interleavings at the mutexes of nodes and network (held during RPCs), state read
under one lock and used under another, answers that never came, retries after
work already done (the transaction already executed, the chunk already taken,
the query already paid), requests built lazily and kept over edits, a flag an
exception leaves set, and several hundred pairs of functions that must agree
member by member. The `hazards` of `PROJECT.json` list each at its line with the
properties that would catch it, or with the reason none does.

## 2. The modules

| Module | What it models | Instance |
| --- | --- | --- |
| `BaseNode` | a node, as operators on a record: one operator per critical section | |
| `Executable` | `execute()` in several threads over shared nodes | `MCExecutable` |
| `Network` | look-up, choice, renaming, TLS policy, with executions that hold and penalise nodes | `MCNetwork` |
| `NodeDirectory` | abstract: a table of accounts that changes in one step | |
| `TopicSubscription` | one subscription: its thread, queue, mirror node and user | `MCTopicSubscription` |
| `Client` | the update thread of several clients, and the user who sets, closes and moves them | `MCClient` |
| `Transaction` | a transaction object, its user, its execution, and the ledger | `MCTransaction` |
| `ChunkedTransaction` | a message in chunks: `executeAll()`, receipts, expiry, the network | `MCChunkedTransaction` |
| `OrderedAppend` | abstract: pieces appended in order, each once, success only for the whole | |
| `Query` | a query of any class: prices, payments, answers, retries | `MCQuery` |
| `QueryTables` | the 15 query classes, as tables | |
| `ProtobufFields` | how a member travels in a protobuf message: the vocabulary of all tables | |
| `Account`-, `Contract`-, `File`-, `Node`-, `Schedule`-, `Token`-, `TopicTransactions` | the 54 transaction classes, as tables | |
| `TransactionBodies` | one transaction of any class on its way from setter to node, bytes, schedule and info | `MCTransactionBodies` |
| `EntityIds`, `Account`-, `Contract`-, `Network`-, `TokenMessages` | the 71 classes the network sends, as tables | |
| `NetworkObjects` | one such object: received, shown, turned into bytes, read back | `MCNetworkObjects` |
| `Executable_proofs`, `Network_proofs`, `TopicSubscription_proofs`, `Client_proofs`, `Transaction_proofs`, `ChunkedTransaction_proofs`, `Query_proofs` (with `NetworkObjects`), `TransactionBodies_proofs` | theorems | |

`Executable` and `Network` both EXTEND `BaseNode`. `Executable` uses the network
as an atomic table of accounts; `Network` shows (`LooksLikeADirectory`) that its
detailed, lock by lock version implements such a table, `NodeDirectory`, with
`names[n]` the account under which the table has node `n` and `found[t]` the
result of the last look-up of thread `t`. `Client` leaves to `Network` what an
update does to the nodes. `Transaction`, `ChunkedTransaction` and `Query` leave
to `Executable` which node an attempt goes to and how long it waits: in them any
node of the request may come next. `ChunkedTransaction` leaves edits and single
signatures to `Transaction`, and implements `OrderedAppend` for files.
`TransactionBodies` keeps the members `Transaction` lumps together as `content`.

### Time

The code compares time points with "now" only, so every model keeps the
difference. A tick takes one off all of them, and whatever is past is -1
(`BaseNode!Elapse`). Time needs no bound, and nodes, executions and
`readmitNodes` all age with the same tick. In `TopicSubscription` no property
depends on how long a wait is, and only the backoff itself is kept.

### BaseNode

`readmitIn` is `mReadmitTime - now`; `mIsConnected` and `mChannel` are kept
apart because `closeChannel` resets only the second. `mBadGrpcStatusCount`
saturates at `MaxBadStatus` (only `Network` reads it, as "at least
`mMaxNodeAttempts`", so `MaxBadStatus = MaxNodeAttempts` loses nothing).

### Executable

`call[c]` holds the locals of one `execute()`. A step is what the code does
between two points at which another thread can act: a sleep, a wait for the
mutex of a node, an RPC. The labels:

| pc | code |
| --- | --- |
| `fetch`, `refetch` | `getNodesFromNodeAccountIds`, account by account: each look-up takes the network's mutex |
| `loop` | head of the `for` loop: address book, then budget |
| `update` | `AddressBookQuery` is on its way |
| `scan` | `getNodeIndexForExecute`, one node per step: each is locked on its own |
| `selected`, `nodeWait` | health asked again; sleep |
| `connect`, `connecting` | `channelFailedToConnect`, waiting with the mutex held |
| `submit`, `rpc` | `submitRequest`, waiting with the mutex held |
| `penalize`, `answered`, `invalid`, `retryWait` | what the answer leads to |

Each of the ways `determineStatus` can go is one reply (`Statuses`); gRPC codes
are the retried ones (`UNAVAILABLE`) and all others (`DEADLINE_EXCEEDED`). The
request timeout only brings the deadline of an RPC forward, so it is one of the
reasons for `DEADLINE_EXCEEDED`. A request that finds a closed channel
dereferences a null stub: outcome `Crashed`. `BackgroundUpdate` is the client's
update thread, `CloseChannel` is `setTransportSecurity`.

### Network

`thread[t]` is an operation in progress, `holder` the network's mutex. Every loop
over `mNodes` that locks a node is one step per node, in any order (the set is
unordered). `StartRpc`, `EndRpc` and `Penalize` are executions that looked the
nodes up before. `readmitNodes` takes `now` once: `due` holds the nodes whose
readmit time is not later than it, and a node that is penalised meanwhile leaves
`due`. Removing a worn-out node is undefined behaviour in the code (a reference
to the erased element and its iterator are used again); `RemoveWornOut` allows
what can come of it: the node stays in `mHealthyNodes` or not, the loop goes on
or stops, the program crashes.

### TopicSubscription

The topic is a sequence; a position stands for a consensus timestamp. `op` is the
one operation under way, `event` what the completion queue holds for it. The
mirror node serves `stream`, ends it when limit or end time is reached, and may
fail it at any moment. gRPC writes the response of a read when its event is
taken from the queue, hence `arriving`.

### Client

`impl[c]` is the state of a client and of its update thread; `call` is the one
call the application is in, `cancel` the flag `mCancelUpdate`. The mutex of the
client is held for one step only, so a critical section is an action, except in
`setOperator`: with a checksum on a known network it locks, to read the ledger
ID, the mutex it holds (`call.op = "stuck"`), and every step of the thread that
needs the mutex asks `Unlocked`.

| thread | code (`Client.cc`, `scheduleNetworkUpdate`) |
| --- | --- |
| `waiting` | `wait_until` the time of the next update, or the flag |
| `woken` | the mutex is had, the networks are looked at |
| `querying` | `AddressBookQuery::execute`, without the mutex: `Read`, `Retry`, `Finish`, `Fails` |
| `answered` | the mutex is taken again, the flag looked at, the network renamed |
| `ended`, `joined`, `none` | returned; joined by a move; no thread |

`close`, `setNetworkUpdatePeriod` and `moveClient` begin with `Cancel` (the flag)
and `Join`, which is enabled only when the thread has ended. A moved client
restarts the thread with the time that is left, also as its period, as the code
does. `due` in the history `updated` is when the update should have come.

### Transaction

`tx` holds the members of a `Transaction`: `source`, `signed` and `built` are
`mSourceTransactionBody`, `mSignedTransactions` and `mTransactions`, `signers` and
`externals` the keys of `mSignatories` with and without a signer function. A
body is its ID, batch key and `content`, two values that stand for every other
field; a signature map is a bag of keys. An action is a public method with all it
calls: `freezeWith` generates an ID, regenerates and builds; `removeSignature`
drops what `Stale` names and unbuilds; `Reload` is `toBytes` then `fromBytes`.

`execute()` is `onExecute`, then per attempt `makeRequest`, which builds lazily
and keeps the index, and one of `Answered`, `Busy`, `AnswerLost`. The ledger
executes an ID once (`Judgement`); a request whose RPC failed may not have
arrived, have arrived, or arrive later (`delayed`). `Expire` ends the valid
duration of an ID at any time a request could meet it. The policy of the client
for new IDs is read when the answer comes, and may be any by then.

### ChunkedTransaction

A message is a sequence of bytes, an ID a number, the ID of a chunk the first ID
plus its index (the code adds nanoseconds). `entries` is chunk by chunk, node by
node, `makeRequest` the index into it. `executing` is `executeAll()`: after an
exception `current` stays, as `mCurrentChunk` does, and the next call goes on
there. A file waits for `ReceiptFound` before the next chunk, a topic message
does not. `Regenerated` derives new IDs for all chunks, sent ones too.
`Consensus` reaches pending chunks in any order and may fail them. The action
`Reload` reads the transaction back from its bytes with what that loses; `restored`
remembers it, for properties that are only claimed of the others.

### Query and QueryTables

`query` holds the members of `Query`, `fields` those of the class. `getCost` and
`Execute` enter a frame: `cost` (getCost), `quote` (getCost inside onExecute) or
`answer`; both kinds of cost query set `getCost` first, and only a success resets
it. `Send` builds the request and the payment, `Answer` is the node's precheck,
the network's taking the payment, `saveCostFromHeader` and `determineStatus`.
`Lost` loses the request or the answer, `TimedOut` ends the call, `PriceChanges`
moves the price between any two steps of a call.

### The tables: ProtobufFields and the modules that extend it

What each class does with a member is four things: what its constructor leaves
in it (`absent`, `zero`, `preset`), what its setters assign and clear, when
`build` or `toProtobuf` leaves it out, and when `initFrom...` or `fromProtobuf`
leaves it as it was. A *rule* of `ProtobufFields` is the last two: `Optional` is
`if (m.has_value()) set` with `if (has) read`, `Plain` a proto3 scalar, `Message`
a field set always, `Unread`, `Unwritten` and `Dropped` the one-sided ones,
`Appended` a list added to a body kept from one build to the next, `Dereferenced`
a pointer that is dereferenced, set or not. A value is reduced to what such code
can tell apart: nothing, the empty value of its type, the nonzero default, a
value, or an ID whose checksum belongs to another ledger. For each class the
table gives its members, setters and body (or message), with its oneofs and the
IDs `validateChecksums` looks at. Amounts, and how transfers are added up, are
not told apart.

`TransactionBodies` drives the tables of the transactions: `Edit`, `Freeze`,
`Regenerate`, `Restore` (bytes and back), `Schedule`, `Submit`
(`ScheduleCreateTransaction::build`), `Inspect` (`ScheduleInfo`), `Execute` (the
checksums). `FromBytes`, `FromBody`, `ToSchedulable` and `FromSchedulable` are
the chains of conditions of `Transaction.cc` and `WrappedTransaction.cc`, as
functions from the class that is written to the class that is read.
`NetworkObjects` drives the tables of the messages: the network sends a few
fields, `Receive`, `ToBytes`, `FromBytes`.

## 3. What is checked

All runs end within five minutes on two workers.

| Run | Instance | Properties |
| --- | --- | --- |
| `executable_one` | 1 execution, 3 nodes (own accounts, or two proxies of one), 3 attempts, every reply, 5 address books | `TypeOK`, `Budget`, `InvalidNodeAccountEarned`, `NoNodeOverlooked`, `PenaltyServed` |
| `executable_two` | 2 executions, 2 nodes, 2 attempts, renames and closing threads, fair | `NodeSerialises`, `ResponsesAreCurrent`, `RequestMatchesNode`, `EveryCallEnds` |
| `network_directory` | 2 threads, 2 nodes, 5 address books, TLS changes, fair | `DisabledMeansPlain`, `LooksLikeADirectory`, `OperationsEnd` |
| `network_worn` | picks with removal and look-ups against RPCs and penalties | `TableMatchesNodes`, `NotReadmittedEarly` |
| `topic_stream` | 3 responses (2 chunks around a single), limit none or 2, 2 retries, fair | `TypeOK`, `NoGap`, `InOrder`, `OutcomeIsFinal`, `SubscriptionEnds`, `CancelledEnds` |
| `client_life` | 2 clients, delays 1, 2 and 3, time up to 4, 3 calls, 2 attempts of a query, fair | `SoundUpdates`, `NoUpdateOnceCancelled`, `DueKept`, `CallsReturn` |
| `transaction_ledger` | 2 nodes, one key and the operator, 2 IDs, one execution of 3 attempts | `SignedBySignatories`, `SentAsShown`, `ResponseOfRequest`, `TwiceOnlyIfLost` |
| `chunked_append` | file and topic, empty or 3 bytes, sizes 1 and 2, limits 3 and 2, 2 nodes, 2 calls of 2 attempts, 2 IDs | `ChunksInStep`, `TopicMessageWhole`, `TwiceOnlyIfExpired`, `AppendsInOrder` |
| `bodies_all` | 54 classes, 3 calls of setters, 1 regeneration | `RestoredAsMade`, `ScheduledAsMade`, `UnsetIsNotSent`, `NoBadIdSent` |
| `objects_all` | 71 classes, up to 3 fields sent | `KeptAsSent` |
| `query_payment` | 15 classes, 2 nodes, prices 1 and 2, 2 setters, 2 calls of 2 attempts | `PaysWhatItWasQuoted`, `AnswersArePaid`, `AsksWhatWasSet` |
| `executable_success` | 1 execution, 2 nodes | `SuccessWasSent`, refuted: section 5 |

**Bounds, and why they are enough.**

* `MaxAttempts = 3` with 3 nodes: the index wraps, every node can be tried, the
  update can come first, in the middle or last. Three nodes are the fewest with
  a node on either side of the chosen one.
* `MaxBackoff = 1`, `MaxNodeBackoff = 2` with both minima 1: a backoff that is
  doubled once and one that is capped. `executable_two` has one unit for both:
  its question is the order of threads, not the length of waits.
* Address books: nothing new, one node renamed, two swapped, one left out of the
  book, none left under the requested accounts; in `network_directory` with both
  endpoints, one or none.
* `executable_two` uses the three replies that lead to the three kinds of next
  step (answer, penalty, update); `executable_one` uses all of them.
* `MaxUses = 1` in `network_worn`: after a look-up an execution may hold and
  penalise each node once more; look-ups are unbounded, so penalties are too.
  Picks and look-ups run with one thread because an operation holds the network's
  mutex from its first step to its last; what runs at the same time are the RPCs.
  `network_directory` has `MaxUses = 0`: a node held by an RPC delays a rename
  and changes no account.
* The topic has a chunked message around a single one, so that a retry can fall
  before, between and after chunks.
* `client_life`: the initial delay, the default period and the period a user sets
  differ, and four units let a first and a second update happen; three calls are
  enough for set, move and close. `Addresses = 1` with two attempts tells a mixed
  book from a whole one.
* `transaction_ledger`: three attempts let an answer be lost, the ID expire and
  the new ID be executed; with two nodes the requests differ. The second ID does
  not expire. `MaxExecutions = 1`: what a second call finds is in
  `chunked_append`.
* `chunked_append`: three bytes are three chunks of one, or two of two, of which
  the last is short; two calls let the second resume what the first left.
* `bodies_all`: three setters reach every pair of members of a oneof, and reset
  one of them; a second regeneration would do what the first does.
  `objects_all`: no conversion tests more than three fields together.
* `query_payment`: price 2 is over the default limit of 1 and within the others.
* `CHECK_DEADLOCK FALSE` in `network_worn`: a crash is one of the outcomes of the
  undefined behaviour there, and stops everything.
* Symmetry only in `query_payment`, which checks no temporal property and where
  nothing tells the nodes apart.

**Fairness.** Threads are scheduled (WF of each step); an RPC and a connection
end by their deadline (`DEADLINE_EXCEEDED` is always possible, and
`WaitForConnected` has a timeout); time passes (WF of `Tick`). Strong fairness
is assumed at one place of `Network` only: a thread that keeps waiting for the
network's mutex gets it (`RenameAgain`). In `TopicSubscription` the mirror
node sends what it has and ends a stream that is at its end; nothing makes a
stream fail, so no property relies on failures. An unlimited subscription
without end time need not end, hence `bounded` in `SubscriptionEnds`. In
`Client` the rest of a call that has begun and the steps of an update thread are
weakly fair; a step of `querying` ends at last because every stream ends and a
mirror node can be reached: `AddressBookQuery` looks for a connected one without
end otherwise (section 5). The user need not call anything.

**Known divergences.** Three runs check a property of every class "but for" the
classes and members where the code is at fault. The exceptions are data, the
definition `KnownDivergences` of the MC module, each of which section 5 explains.
With `Known <- NothingKnown` in the cfg, TLC shows each of them; with
`KnownDivergences` the runs say that there are no others.

**What the runs show.** `EveryCallEnds` holds although other executions penalise
the same nodes for ever: only attempts can be used up. `PenaltyServed` holds for
an execution alone on its nodes, and fails with a second one, which may penalise
the node while the first sleeps: that is why it is restricted. `NoNodeOverlooked`
is the strongest form of "retry goes to other nodes" that holds: the search does
not wrap, so it is about indices up to the attempt. `RequestMatchesNode` needs
every requested account to be known, see section 5. `DisabledMeansPlain` is the
half of the TLS policy that holds. `CancelledEnds` is the part of unsubscribing
that holds: when the open stream was reached. `CallsReturn` excepts
`setOperator`, which locks its own mutex. `TwiceOnlyIfLost` says how a
transaction comes to be executed twice by one call: an answer is lost, the ID
expires, a new ID is made; an ID the user set and a policy against new IDs
exclude it. `AppendsInOrder` holds over lost answers, failed receipts and a
second call, and is void once an ID has expired or the transaction has been
through bytes: both lose or repeat data (section 5). `AnswersArePaid` names the
one way to an answer without payment, a cost query that threw before.

## 4. What is proved

All from the named assumptions on the constants alone, with tlapm 1.4.5; nothing
is omitted.

`Executable_proofs`, for any executions, nodes, accounts, address books, budget
and backoffs, from `ExecutableAssumption` and `NodeAssumption`:

* `TypeCorrect`: `Spec => []TypeOK`;
* `BudgetKept`: `Spec => []Budget`: at most `MaxAttempts` RPCs and one address
  book query;
* `ResponsesCurrent`, `InvalidEarned`, `NobodyOverlooked`, `RequestsMatch`,
  `RequestsSerialised`, `PenaltiesServed`: the six other safety properties its
  runs check.

The first two follow from one inductive invariant `IInv`. `Budget` alone is not
inductive: whether an RPC may be started depends on how far the attempt has
come. `Counted` says so: before `rpc` an execution has started at most `attempt`
RPCs, after it at most one more, and whoever is at a node is still inside the
budget. In the same way `addressBookUpdateCount` counts an update only when it
is over, so an update under way is told from one that is counted. `TypeOK` is
not inductive either: that `nodes[nodeIndex]` is a node needs `Located`, every
index an execution is about to use lies inside its nodes, also after a look-up
that found fewer. The proof is one lemma per action; `Frame` reduces a step of
one call to the record it builds, and the lemmas before it give the types and
the fields kept by each such record. `NodeOperationsType`, here and in
`Network_proofs`, says that every operation of a node preserves its type,
backoff bounds included.

What an execution knows of its nodes is a second invariant, `LInv`, on top of
`IInv`. `Asked` says what the counter of updates tells of the queries and of the
answers when an execution gives up; `Current` that responses are of nodes in
use, except during the second look-up, whose nodes replace them; `InOrder` that
a look-up that has skipped nobody has node *i* under account *i*; `Visited` that
the scan has looked at all before its index. `RequestsSerialised` needs only who
holds which mutex. `PenaltiesServed` is not inductive over the sleep: `Served`
compares the time still to sleep with the penalty of the chosen node from the
moment the delay is read, and both lose one with a tick.

`Network_proofs`, for any threads, nodes, accounts, address books, limits and
backoffs, from `NetworkAssumption` and `NodeAssumption`:

* `TableMatches`: `Spec => []TableMatchesNodes`;
* `PolicyKept`: `Spec => []DisabledMeansPlain`;
* `ReadmittedInTime`: `Spec => NotReadmittedEarly`;
* `ImplementsDirectory`: `Spec => LooksLikeADirectory` if `MaxNodeAttempts = 0`,
  the default (`Defaults.h:35`): the step from the lock by lock version to a
  table that changes at once.

The table is wrong in the middle of an update, and right for whoever gets the
mutex. `Exclusive` says which operation may be where while the mutex is held,
`Renaming` what the table under construction holds of the nodes renamed so far,
`Named` that the table in use is the one the names give. `DueIsPast` is what
`readmitNodes` carries from its one look at the clock to the lock of each node:
the nodes in `due` stay past their time, because a node that is penalised leaves
it. `PolicyHolds` says for which nodes a change of the policy is still to come.
In the refinement a look-up maps to its abstract step when it ends, an update
when it puts its table in place, a port change node by node; an operation that
begins forgets the last look-up of its thread, and all else stutters. With a limit on
attempts the names of removed nodes remain in the mapping: that case is not
claimed (`network_directory` has no limit either, `network_worn` checks the
table).

`Transaction_proofs`, for any keys, nodes, IDs, attempts and executions, from
`TransactionAssumption` and `NotBuiltAssumption`:

* `ShownIsSent`: `Spec => []SentAsShown`;
* `SignersAndNoOthers`: `Spec => [](SignersSigned /\ OnlySignatories)`;
* `SignatoriesSigned`: `Spec => []SignedBySignatories` if the picked nodes have
  different accounts (`DistinctNodes`); otherwise the code loses a signature
  from outside, section 5;
* `ResponseAnswers`: `Spec => []ResponseOfRequest`;
* `NeverTwiceUnlessLost`: `Spec => []TwiceOnlyIfLost`.

The inductive invariant is `Whole /\ Vouching /\ Calling /\ FirstCall /\
ResponseOfRequest`. `Whole` is what every method must leave behind: each entry of
`signed` and each one already built holds the source body, its node is that of
the list, its signatures are of signatories, and what is built carries those of
all signers. It is needed because requests are built lazily: whether a request is
right is decided by edits long before. `Vouching` follows a signature from
outside to the entries for which it was made. `Calling` relates a call to its
object, and `FirstCall` the ledger to the requests of the call: before an answer
is lost every ID but the present one was refused. `NotBuiltAssumption` says that
the mark of an entry not built is no signed transaction.

`ChunkedTransaction_proofs`, for any messages shorter than the gap between two
IDs, sizes, limits, nodes, attempts and calls, from `ChunkedAssumption`:

* `ChunksKeepStep`: `Spec => []ChunksInStep`;
* `MessageWhole`: `Spec => []TopicMessageWhole`;
* `NeverTwice`: `Spec => []TwiceOnlyIfExpired`;
* `ImplementsAppend`: `Spec => AppendsInOrder`, the refinement of `OrderedAppend`.

None of the properties mentions how the entries lie in their sequence, and all
depend on it: `makeRequest` computes an index, and what is there was put in by
whatever froze, regenerated or restored the transaction. `LaidOut` says that the
entry for chunk *c* and node *i* is at *c * nodes + i* and holds that chunk;
`Numbered` is what is left of it when bytes have lost the data: the ID is right.
`Chunks` says that until an ID expires the network has nothing but chunks of
this message as the object would make them now, so two entries with one number
have one ID, and `Apart` that the network has an ID once; `NeverTwice` is both.
`History` adds that nothing was sent of a transaction that can still be edited.
`Appending` is the order of a file: while chunk *k* is due the ledger has the
chunks before it and perhaps that one, and nothing else is on its way. In the
refinement consensus on a chunk is the append, the end of `executeAll()` the
report, an exception or a new call the restart, and the step that expires an ID
or goes through bytes makes the promise void. `FlattenSeq` of the
community modules is recursive: `AllNumbers`, `TablesAgree` and `TableExists`
give it the equations (`FlattenAppend`) from which `FlattenPieces` derives, by
the least number for which it fails, that the chunks in order are the data.

`TopicSubscription_proofs`, for any topic, limits, number of attempts and maximum
of the backoff, from `TopicAssumption`:

* `TypeCorrect`: `Spec => []TypeOK`;
* `NoGapKept`: `Spec => []NoGap`, no retry loses a response;
* `InOrderKept`: `Spec => []InOrder`, onNext sees the topic in order;
* `OutcomeFinal`: `Spec => OutcomeIsFinal`, one handler, once, and nothing after it.

`NoGap` is not inductive. A response is handed on when its event is taken from
the queue, and the query is adjusted then; between the two the mirror node is
ahead of the query by the one response under way. `InStep` says so, and
`Progress` makes `NoGap` exact: what was handed on is 1 up to the response in the
buffer, and the next stream starts one later. `InOrder` follows from the same:
the new element holds the highest position handed on so far. That the code
handles the buffer again when the first event of a retry comes is the case
`r = response` of `DeliverHands`; it repeats a message and breaks neither property.
`Over` is what `OutcomeIsFinal` needs: once a handler was called no operation is
under way that could bring another event. `AttemptLeft` and `Stage` carry the
bound of the attempts and the stage of the call through the retry.

`Client_proofs`, for any clients, periods, delays, addresses and attempts, from
`ClientAssumption`:

* `UpdatesSound`: `Spec => []SoundUpdates`;
* `NothingOnceCancelled`: `Spec => NoUpdateOnceCancelled`;
* `MoveKeepsDue`: `Spec => DueKept`.

That an update comes in its time is decided when the thread begins to wait and
seen when it has been answered: `InTime` carries it, the deadline of a waiting
thread is not before what is due, and a thread past its wait is past the deadline.
`OfOneAttempt` says that the book holds no more than was read in this attempt,
and `Wanted` that the period a user set is kept from the moment the first update
can no longer replace it (`made`) until a move. `MoveKeepsDue` uses of it only
the types; `NothingOnceCancelled` that the flag is looked at under the mutex in
the step that updates.

`Query_proofs`, for any nodes, prices, limits and number of attempts, from
`QueryAssumption`:

* `PaymentAsQuoted`: `Spec => []PaysWhatItWasQuoted`;
* `AnswersPaid`: `Spec => []AnswersArePaid`;
* `AsksAll`: `Spec => []AsksWhatWasSet` if `Known` has the two flags that
  `TransactionRecordQuery` does not send and the sender that `ContractCallQuery`
  does not check (section 5).

The first two are not inductive: a payment is made in one frame from the cost stored in
another. `CostFlag` relates the "get cost" flag to the frame and to a cost query
that threw, `Quoted` says that in the frame of an answer that is paid for the
stored cost is what this call was told and within the limit, and `Current` that
the request under way is the one this query would build, its payment included.

`AsksAll` has an invariant of its own, `Asked`: a bad checksum is in an ID only,
of a oneof one member is absent, a query that is inside a call has no bad ID
among those its class checks, and the request under way is what the members say
now. That these give the property is a fact about the tables, `Complete`, proved
class by class in `ClassesComplete`: every member has a rule, every ID is
checked, what holds a value goes on the wire, and each setter of a oneof resets
the other member.

`AnswersKept` is about `NetworkObjects`, which `Query_proofs` reaches through
`Objects == INSTANCE NetworkObjects WITH ...`, with variables of its own:

* `AnswersKept`: `Objects!Spec => []Objects!KeptAsSent`, for any number of fields
  sent at once, if `Losses`, which stands for `Known`, has the members named in
  section 5; they are those of `MCNetworkObjects`.

`Whole` is the fact about a class: each member has one of six kinds of rule, under
which it shows what was sent and is written as it shows (`Returned`), or is named
as never read (`Unseen`) or never written (`Unkept`); the member of a oneof
that is written first is not written unless it was sent; an alternative of a key
or a fee is kept. It is proved for each of the 71 classes, `KeptInBytes` draws
from it what a round trip leaves, for any message of the network (`Sendable`), and
`ObjectsKept` is the invariant that says how far the object has come. A made-up
receipt (`MadeUp`: a record without a transaction ID gets one) is the one case
outside the tables.

`TransactionBodies_proofs`, for all 54 classes and any number of edits and
regenerations:

* `RestoredWhole`: `Spec => []RestoredAsMade`;
* `ScheduledWhole`: `Spec => []ScheduledAsMade`;
* `OnlyWhatIsSet`: `Spec => []UnsetIsNotSent`;
* `OwnLedgerOnly`: `Spec => []NoBadIdSent`.

Each assumes that `Known` has the members (and classes) for which the code breaks
the promise, written out at the head of the module and listed in section 5; they
are exactly those of `MCTransactionBodies`. The facts about a class are
`Complete`: every member has a rule under which it keeps what it holds (`Ruled`,
`Faithful`), the setters of a oneof reset each other (`Separate`), every ID is
checked (`Checked`), and an update sends no member as the constructor, or a body
without it, leaves it (`Quiet`). They are proved class by class and joined in
`AllComplete`. The properties are not inductive: what is read back depends on
what the members held when the body was written, and that on all the setters
before. `Possible` says what a member may hold after the setters called so far:
what the constructor made of it until one names it, nothing after that only if
one resets it, an ID of another ledger only where there are IDs, and of a oneof
one member at most.
`Followed` relates the object, the body it was made of and what was read since,
for bytes and schedules; `Cleanly` what may go out that nobody set, or with an ID
of another ledger, along every path, also on a body that was read, whose members
the classes may show differently from those they were made of.

The tables are joined with `++`, defined in `ProtobufFields` from DOMAIN and
function application, for the provers do not know the operators of the module TLC.
The class lemmas of the last two modules stand between `USE DEF` and `HIDE DEF` of
the vocabulary they all expand.

Only model-checked: liveness (`EveryCallEnds`, `OperationsEnd`,
`SubscriptionEnds`, `CancelledEnds`, `CallsReturn`), because it rests on fairness,
that is on ENABLED, which is out of the prover's reach; and `LooksLikeADirectory`
with a limit on node attempts, which is not claimed.

## 5. Findings

One is refuted by a run (`expect: violation`) against lines of the repository:
`executable_success`, `Executable.cc:229`: after `DEADLINE_EXCEEDED` and other
gRPC errors the empty response, precheck code 0, is taken for OK and returned as
a success.

The others were met while modelling. They are in the models, as the code has
them, unless the text says "outside".

**Execution and nodes**

* `Executable.cc:580`: the search for a node starts at `attempt % size` and stops
  at the end; it sleeps for an unhealthy node while an earlier one is healthy,
  against lines 191 and 579.
* `Executable.cc:272`: an all-BUSY answer falls through to
  `RETRY_WITH_ANOTHER_NODE`, the comment at 260 says `RETRY`. It may end as
  `INVALID_NODE_ACCOUNT` although no node said so.
* `Executable.cc:283`: "they all returned INVALID_NODE_ACCOUNT" is not what line
  285 tests: it counts answers of any status.
* `Executable.cc:548`: accounts unknown to the network are skipped, so that
  `makeRequest(nodeIndex)` (214) builds the request for another account than the
  node's, against `Executable.h:335`.
* `BaseNode.cc:161`: after `closeChannel`, `mIsConnected` stays true and the
  stubs are null, against `BaseNode.h:247`; the next request to the node crashes
  (`Crashed`), for instance after `setTransportSecurity`.
* Outside: `Executable.cc:341`: `executeAsync` captures its timeout by reference;
  `Executable.cc:365`: a callback that throws is called a second time.

**Network**

* `BaseNetwork.cc:98`: nothing takes a penalised node out of `mHealthyNodes`; a
  node in its backoff is chosen before a healthy one, against `BaseNetwork.h:182`.
* `BaseNetwork.cc:223`: the number of nodes asked for is fixed before worn-out
  nodes are removed; the choice then waits for ever for more nodes than there
  are, with the mutex held.
* `BaseNetwork.cc:215`: undefined behaviour when a node is removed.
* `Network.cc:201`: `setTransportSecurity(true)` on a new network does nothing.
* Outside: `Network.cc:237` ignores `setMaxNodesPerRequest` (`Network.h:109`,
  `Client.h:675`); `Network.cc:121` matches nodes by address and port where
  `Network.h:74` says by IP address, so that with the default policy REQUIRE
  (`BaseNetwork.h:284`) and plain nodes the first update renames nothing unless
  the book has no TLS port at all; `BaseNetwork.h:88`: `mMinNodeReadmitTime` is
  never used, and backoffs set on the client never reach existing nodes.

**Topic subscription**

* `TopicMessageQuery.cc:119`: the creation of a call is processed as a response;
  after a retry a chunk is counted twice, and its message is not delivered whole.
* `TopicMessageQuery.cc:76`: an unsubscribe before the thread has started, or
  between two calls, is lost (`SubscriptionHandle.h:19`), and the function refers
  to a local of a thread that may have returned (`UnsubscribeLate`).
* `TopicMessageQuery.cc:139`: the limit also counts the phantom response, and a
  limit that reaches 0 means "no limit" to a retry.

**Client**

* `Client.cc:535`, `552`: `setOperator` with an ID that has a checksum locks, by
  way of `EntityIdHelper.cc:231` and `Client.h:234`, the mutex it holds.
* `Client.cc:1219`: one failed address book query ends the update thread for
  good, against the comment at 1159; after `close()` nothing starts it again.
* `Client.cc:1283`: a moved client takes the remaining time as its period from
  then on; if it is negative the thread asks without a pause.
* `AddressBookQuery.cc:60`: an error that is not retried, in the middle of the
  stream, returns the addresses read so far as the whole book; line 38 looks for
  a connected mirror node without end.
* Outside: `setOperator` leaves key and signer of the former operator;
  `fromConfig` reads `jsonNetwork["networkName"]`; a move drops the subscriptions
  of the client moved to; `untrackSubscription` runs without the lock;
  `Client.cc:1087`: `getMaxNodesPerTransaction` returns the node attempts;
  `Client.h:370` "Replace the network" renames nodes only.

**Transaction**

* `Transaction.cc:181`: an ID the user has set may be replaced after a restore
  from bytes, which forgets that it was set.
* `Transaction.cc:699`: after a removal a signature made here may be in the map
  twice.
* `Transaction.cc:622`: a frozen transaction that was batchified counts as one
  with a single node, and `addSignature` puts the signature into the first of its
  signed transactions only. If two nodes with one account were picked, the request
  to the second goes without it once the transaction was read back from its
  bytes. The nodes of the run have different accounts, and `SignatoriesSigned`
  assumes it.
* Outside: `Transaction.cc:1423-1455` compares the bytes of signatures with a
  public key, so that `getSignatures` is always empty.

**Chunked transaction**

* A restored `FileAppendTransaction` has the data of its first chunk only
  (`FileAppendTransaction.cc:105`), and the chunk size of the base class, 1024 for
  2048 (`ChunkedTransaction.h:93`); one that is not signed loses the other chunks
  when it is frozen. A restored `TopicMessageSubmitTransaction` without nodes has
  no message.
* An empty message: `executeAll` sends nothing and succeeds.
* A receipt that failed leaves `mCurrentChunk`; the next call sends the same ID
  and gets DUPLICATE_TRANSACTION until the ID expires, when the chunk is appended
  again. A later chunk that meets TRANSACTION_EXPIRED regenerates the whole
  message under a new first ID.
* Outside: a chunked transaction that was batchified and restored does not
  return from its initialisation; `execute()` after an exception returns the
  response of a later chunk, and throws for an empty message; `getAllSignatures`
  (235) misses the last chunk; `FileAppendTransaction.h:33` has 4096 for 2048.

**Concrete transactions** (`MCTransactionBodies!KnownDivergences`)

* `unscheduled`: `WrappedTransaction.cc:253` and `1201` test
  `has_cryptodeleteallowance` a second time, which hides `AccountDelete`; 346
  makes a `ScheduleCreateTransaction` of a scheduled delete, 436 a freeze of an
  unfreeze. `fromProtobuf(TransactionBody)` has no branch for the three airdrop
  transactions and for `TokenUpdate`, so that `schedule()` throws for them;
  `toSchedulableProtobuf` has none for `TokenReject`, `TokenUpdateNfts` and the
  registered nodes.
* `lost`, `dropped`: `TransferTransaction` does not read hook calls of token
  transfers; `TopicUpdateTransaction` drops fee collectors (294-299);
  `TopicMessageSubmitTransaction.cc:101` appends the custom fee limits to a body
  that may hold them already, against the comment at `WrappedTransaction.cc:1159`,
  and reads no message from a schedule.
* `unset`: `NodeUpdateTransaction.cc:277` writes `decline_reward` always, against
  `NodeUpdateTransaction.h:36`.
* `unchecked`: `validateChecksums` is empty in `TokenAirdropTransaction.cc:150`,
  in the two transactions of pending airdrops (49) and in the batch (54), and
  leaves out the contracts of hooks, topic fee collectors and the payers of fee
  limits.
* Outside: `NodeUpdateTransaction.h:219` `deleteGrpcWebProxyEndpoint` sends
  nothing; `TransferTransaction.cc:396` and `TokenAirdropTransaction.cc:278` take
  two NFTs with one serial number for the same.

**Network objects** (`MCNetworkObjects!KnownDivergences`)

* `crashing`: `TokenInfo::toProtobuf` (133-200) dereferences keys that need not
  be there: the info of a token without a KYC key cannot be turned into bytes.
* `unwritten`: `AccountBalance` (34) drops tokens; `TransactionReceipt` token ID,
  next exchange rate, transaction ID, duplicates and children;
  `TransactionRecord` (297) pending airdrops, duplicates and children;
  `TopicInfo` (129) fee collectors; the two token transfers their token.
* `unread`: `DelegateContractId.cc:44` the EVM address; `Key.cc:14` throws for a
  delegatable contract; `BlockNodeServiceEndpoint` all but the first API.

**Query** (`MCQuery!KnownDivergences`)

* `unsent`: `TransactionRecordQuery` drops `includeChildren` and
  `includeDuplicates`. `unchecked`: `ContractCallQuery.cc:64` the sender.
* `setQueryPayment` is never read, against `Query.h` "The Client will submit
  exactly this amount".
* `Query.cc:83`: a cost query that throws leaves the query a cost query; the next
  `execute` returns an empty answer (`spoilt`).
* `getCost` of a `TransactionReceiptQuery` is always retried and never succeeds.
* Each attempt pays anew; with a payment ID set by the user the second attempt is
  a DUPLICATE_TRANSACTION. A client without an operator fails with
  `bad_optional_access`.

## 6. What a next step could be

The compare-and-swap loop of `TransactionId::generate` with a proof that IDs are
unique; subscriptions in `Client`, with the unlocked vector.

## 7. Not modelled

* **Cryptography** (keys, mnemonics, signatures) and **encodings** (ABI, RLP,
  ASN.1, hexadecimal): pure functions of bytes, whose correctness is that of
  arithmetic TLC cannot enumerate. In the models a signature is the key that
  made it, over the body it is kept with.
* **Flows**: sequences of executions without state of their own.
* **HTTP queries** of the mirror node: one blocking request, and parsing.
* **Mirror network**: of its base class it uses the set of nodes; the one call of
  its own returns any of them.
* **Status codes, exceptions, logging**: tables and wrappers.
* **TCK server** (`src/tck`): test equipment that calls the SDK.
* Inside modelled parts: amounts and their sums in transfers, parsing and
  formatting of IDs, JSON configuration, certificate checks, `setNetwork` on a
  network in use, listeners, and asynchronous overloads. `PROJECT.json` says so
  component by component.
