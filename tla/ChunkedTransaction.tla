-------------------------- MODULE ChunkedTransaction --------------------------
(***************************************************************************)
(* A message sent in chunks (src/ChunkedTransaction.cc): the contents of a *)
(* FileAppendTransaction, which waits for the receipt of each chunk before *)
(* it sends the next, or a TopicMessageSubmitTransaction, which does not.  *)
(* A message is a sequence of bytes; the sizes stand for 1024 and 2048.    *)
(* Each chunk has an ID of its own, one tick after the one before, so an   *)
(* ID is a number; two generated IDs are Gap ticks apart.  Edits, signers  *)
(* and signatures are module Transaction; an execution, module Executable, *)
(* is here what it does to the chunks.                                     *)
(***************************************************************************)
EXTENDS Integers, Sequences, SequencesExt

CONSTANTS
  Kinds,         \* the kinds of transaction: "file", "topic"
  Messages,      \* the messages: sequences of bytes
  Nodes,         \* the node accounts of the network, ascending
  NoNode,        \* no node account
  DefaultSize,   \* ChunkedTransaction::DEFAULT_CHUNK_SIZE
  FileSize,      \* the chunk size of a new FileAppendTransaction
  Sizes,         \* chunk sizes a user sets
  DefaultMax,    \* DEFAULT_MAX_CHUNKS
  Limits,        \* maximum numbers of chunks a user sets
  MaxAttempts,   \* attempts of the execution of a chunk
  MaxCalls,      \* bound on the calls of executeAll()
  MaxIds         \* bound on the IDs generated

Gap == 10
NoId == 0
Bytes == 0 .. 255

ASSUME ChunkedAssumption ==
  /\ Kinds \subseteq {"file", "topic"}
  /\ DefaultSize \in Nat \ {0} /\ FileSize \in Nat \ {0} /\ Sizes \subseteq Nat \ {0}
  /\ DefaultMax \in Nat /\ Limits \subseteq Nat
  /\ \A m \in Messages : m \in Seq(Bytes) /\ Len(m) < Gap
  /\ Nodes \in Seq(ToSet(Nodes)) /\ Len(Nodes) > 0 /\ NoNode \notin ToSet(Nodes)

VARIABLES
  tx,         \* the transaction object
  lastId,     \* the last ID generated
  pc,         \* "idle", or where executeAll() is
  attempt,
  request,
  responses,  \* what executeAll() has collected: the IDs of the responses
  outcome,    \* how the last executeAll() ended
  calls,
  pending,    \* chunks a node has accepted and the network has not reached
  ledger,     \* chunks executed, in consensus order
  failed,     \* chunks that failed at consensus
  expiry,     \* the IDs up to here are expired
  unheard,    \* history: chunks nobody had when execute() returned a response
  restored    \* history: the message, and the way of the transaction through
              \* bytes: "no", "whole" for a topic message that lost nothing, "other"

callVars == <<pc, attempt, request, responses, outcome, calls>>
netVars  == <<pending, ledger, failed, expiry>>
histVars == <<unheard, restored>>
vars == <<tx, lastId, callVars, netVars, histVars>>

NoEntry == [id |-> NoId, first |-> NoId, number |-> 0, total |-> 0,
            data |-> <<>>, node |-> NoNode]

New(kind, data) ==
  [ kind |-> kind, data |-> data,
    chunkSize |-> IF kind = "file" THEN FileSize ELSE DefaultSize,
    maxChunks |-> DefaultMax, current |-> 0, id |-> NoId, manual |-> FALSE,
    nodes |-> <<>>, entries |-> <<>>, frozen |-> FALSE, signed |-> FALSE ]

\* A transaction made from bytes starts from the sizes of the base class.
Blank(kind) == [New(kind, <<>>) EXCEPT !.chunkSize = DefaultSize]

Init ==
  /\ \E kind \in Kinds, m \in Messages : tx = New(kind, m)
  /\ lastId = NoId /\ pc = "idle" /\ attempt = 0 /\ request = NoEntry
  /\ responses = <<>> /\ outcome = "none" /\ calls = 0
  /\ pending = {} /\ ledger = <<>> /\ failed = {} /\ expiry = NoId
  /\ unheard = {}
  /\ restored = [way |-> "no", message |-> tx.data]

-----------------------------------------------------------------------------
Min2(a, b) == IF a < b THEN a ELSE b

getNumberOfChunksRequired(t) == (Len(t.data) + t.chunkSize - 1) \div t.chunkSize

getDataForChunk(t, chunk) ==
  SubSeq(t.data, chunk * t.chunkSize + 1, Min2((chunk + 1) * t.chunkSize, Len(t.data)))

\* Mutant: each chunk names its own ID as the first.
addToChunkOwnFirst(t, chunk) ==
  [ id |-> t.id + chunk, first |-> t.id + chunk, number |-> chunk + 1,
    total |-> getNumberOfChunksRequired(t), data |-> getDataForChunk(t, chunk),
    node |-> NoNode ]

addToChunk(t, chunk) ==
  [ id |-> t.id + chunk, first |-> t.id, number |-> chunk + 1,
    total |-> getNumberOfChunksRequired(t), data |-> getDataForChunk(t, chunk),
    node |-> NoNode ]

addSignedTransactionForEachNode(t, entry) ==
  [i \in DOMAIN t.nodes |-> [entry EXCEPT !.node = t.nodes[i]]]

\* Without an ID there are no chunks yet: the whole data for each node.
regenerateSignedTransactions(t) ==
  [t EXCEPT !.entries =
     IF t.id = NoId THEN addSignedTransactionForEachNode(t, [NoEntry EXCEPT !.data = t.data])
     ELSE FlattenSeq([c \in 1 .. getNumberOfChunksRequired(t) |->
                        addSignedTransactionForEachNode(t, addToChunk(t, c - 1))])]

\* freezeWith a client.
Frozen(t) ==
  IF t.frozen THEN t
  ELSE regenerateSignedTransactions(
         [t EXCEPT !.id = IF @ = NoId THEN lastId + Gap ELSE @,
                   !.nodes = IF @ = <<>> THEN Nodes ELSE @,
                   !.frozen = TRUE])

GenerateIf(needed) ==
  IF needed THEN lastId' = lastId + Gap /\ lastId < Gap * MaxIds ELSE UNCHANGED lastId

\* The entry for the current chunk and node i.
makeRequest(t, i) == t.current * Len(t.nodes) + i

-----------------------------------------------------------------------------
(***************************************************************************)
(* The user.                                                               *)
(***************************************************************************)
NotExecuting == pc = "idle" /\ calls < MaxCalls

Edit == NotExecuting /\ ~tx.frozen /\ UNCHANGED <<lastId, callVars, netVars, unheard>>

\* setContents or setMessage, of the whole message anew.
setData ==
  /\ NotExecuting /\ ~tx.frozen /\ ledger = <<>> /\ pending = {} /\ failed = {}
  /\ \E m \in Messages :
       tx' = [tx EXCEPT !.data = m] /\ restored' = [restored EXCEPT !.message = m]
  /\ outcome' = "none"
  /\ UNCHANGED <<lastId, pc, attempt, request, responses, calls, netVars, unheard>>

setChunkSize ==
  /\ Edit /\ \E s \in Sizes : tx' = [tx EXCEPT !.chunkSize = s]
  /\ UNCHANGED restored

setMaxChunks ==
  /\ Edit /\ \E n \in Limits : tx' = [tx EXCEPT !.maxChunks = n]
  /\ UNCHANGED restored

setNodeAccountIds ==
  /\ Edit /\ tx' = [tx EXCEPT !.nodes = Nodes]
  /\ UNCHANGED restored

setTransactionId ==
  /\ NotExecuting /\ ~tx.frozen /\ lastId < Gap * MaxIds
  /\ lastId' = lastId + Gap
  /\ tx' = [tx EXCEPT !.id = lastId', !.manual = TRUE]
  /\ UNCHANGED <<callVars, netVars, histVars>>

freeze ==
  /\ NotExecuting /\ ~tx.frozen
  /\ tx' = Frozen(tx) /\ GenerateIf(tx.id = NoId)
  /\ UNCHANGED <<callVars, netVars, histVars>>

sign ==
  /\ NotExecuting /\ tx.frozen
  /\ tx' = [tx EXCEPT !.signed = TRUE]
  /\ UNCHANGED <<lastId, callVars, netVars, histVars>>

\* The constructors that fromBytes calls.  A file takes its contents from the
\* body of the first chunk, a topic message from every chunk it has objects of.
FromSource(t) ==
  [Blank(t.kind) EXCEPT !.id = t.id, !.data = IF t.kind = "file" THEN t.data ELSE <<>>]

FromEntries(t) ==
  [Blank(t.kind) EXCEPT
     !.id = t.entries[1].id, !.nodes = t.nodes, !.entries = t.entries,
     !.frozen = t.signed, !.signed = t.signed,
     !.data = IF t.kind = "file" THEN t.entries[1].data
              ELSE FlattenSeq([c \in 1 .. (Len(t.entries) \div Len(t.nodes)) |->
                                 t.entries[(c - 1) * Len(t.nodes) + 1].data])]

\* What toBytes writes has a transaction for each node, if there are any.
Written(t) == IF t.nodes = <<>> \/ t.frozen THEN t ELSE regenerateSignedTransactions(t)

\* The user goes on with the transaction that is read back from its bytes.
Reload ==
  /\ NotExecuting
  /\ LET t == Written(tx)
     IN /\ t.nodes # <<>> => t.entries # <<>>
        /\ tx' = IF t.nodes = <<>> THEN FromSource(t) ELSE FromEntries(t)
        /\ restored' = [restored EXCEPT !.way =
             IF t.kind = "file" \/ t.nodes = <<>> \/ t.chunkSize # DefaultSize \/ @ = "other"
             THEN "other" ELSE "whole"]
  /\ UNCHANGED <<lastId, callVars, netVars, unheard>>

User ==
  \/ setData \/ setChunkSize \/ setMaxChunks \/ setNodeAccountIds
  \/ setTransactionId \/ freeze \/ sign \/ Reload

-----------------------------------------------------------------------------
(***************************************************************************)
(* executeAll().                                                           *)
(***************************************************************************)
\* An exception leaves mCurrentChunk where it is; the responses are lost.
Throw ==
  /\ pc' = "idle" /\ outcome' = "exception" /\ request' = NoEntry
  /\ attempt' = 0 /\ responses' = <<>> /\ UNCHANGED calls

Done ==
  /\ pc' = "idle" /\ outcome' = "done" /\ request' = NoEntry /\ attempt' = 0
  /\ tx' = [tx EXCEPT !.current = 0]

executeAll ==
  /\ NotExecuting /\ getNumberOfChunksRequired(tx) <= tx.maxChunks
  /\ calls' = calls + 1 /\ responses' = <<>>
  /\ \/ /\ tx.current < getNumberOfChunksRequired(tx)
        /\ pc' = "chunk" /\ outcome' = "none" /\ UNCHANGED <<tx, attempt, request>>
     \/ tx.current >= getNumberOfChunksRequired(tx) /\ Done
  /\ UNCHANGED <<lastId, netVars, histVars>>

tooManyChunks ==
  /\ NotExecuting /\ getNumberOfChunksRequired(tx) > tx.maxChunks
  /\ calls' = calls + 1 /\ outcome' = "tooMany"
  /\ UNCHANGED <<tx, lastId, pc, attempt, request, responses, netVars, histVars>>

\* Executable::execute for one chunk; the operator signs.
onExecute ==
  /\ pc = "chunk"
  /\ tx' = [Frozen(tx) EXCEPT !.signed = TRUE] /\ GenerateIf(~tx.frozen /\ tx.id = NoId)
  /\ pc' = "attempt" /\ attempt' = 1
  /\ UNCHANGED <<request, responses, outcome, calls, netVars, histVars>>

\* A restored transaction may have fewer chunks than executeAll() thinks.
NoSuchEntry ==
  /\ pc = "attempt" /\ attempt <= MaxAttempts
  /\ \E i \in DOMAIN tx.nodes : makeRequest(tx, i) > Len(tx.entries)
  /\ Throw
  /\ UNCHANGED <<tx, lastId, netVars, histVars>>

Send ==
  /\ pc = "attempt" /\ attempt <= MaxAttempts
  /\ \E i \in DOMAIN tx.nodes :
       /\ makeRequest(tx, i) <= Len(tx.entries)
       /\ request' = tx.entries[makeRequest(tx, i)]
  /\ pc' = "waiting"
  /\ UNCHANGED <<tx, lastId, attempt, responses, outcome, calls, netVars, histVars>>

OutOfAttempts ==
  /\ pc = "attempt" /\ attempt > MaxAttempts
  /\ Throw
  /\ UNCHANGED <<tx, lastId, netVars, histVars>>

Again ==
  /\ pc' = "attempt" /\ attempt' = attempt + 1 /\ request' = NoEntry
  /\ UNCHANGED <<responses, outcome, calls>>

\* What the network keeps of a chunk: not the node that took it.
Record(e) == [e EXCEPT !.node = NoNode]

Taken == pending \cup ToSet(ledger) \cup failed

Fresh(e) == e.id > expiry /\ \A known \in Taken : known.id # e.id

\* The ID the response names.
getCurrentTransactionId(t) == t.id + t.current

\* Mutant: a file does not wait for the receipts of its chunks.
ShouldGetReceiptNever(t) == FALSE

ShouldGetReceipt(t) == t.kind = "file"

\* The chunk is over: the next one, or the end.
NextChunk ==
  IF tx.current + 1 < getNumberOfChunksRequired(tx)
  THEN /\ tx' = [tx EXCEPT !.current = @ + 1]
       /\ pc' = "chunk" /\ request' = NoEntry /\ UNCHANGED <<attempt, outcome>>
  ELSE Done

\* execute() returns a response: the current chunk is taken for accepted.
Respond ==
  /\ responses' = Append(responses, getCurrentTransactionId(tx))
  /\ IF ShouldGetReceipt(tx)
     THEN pc' = "receipt" /\ UNCHANGED <<tx, attempt, request, outcome>>
     ELSE NextChunk
  /\ UNCHANGED <<lastId, calls, ledger, failed, expiry, restored>>

Accepted ==
  /\ pc = "waiting" /\ Fresh(request)
  /\ pending' = pending \cup {Record(request)}
  /\ Respond /\ UNCHANGED unheard

\* Mutant: a refused chunk is passed over.
RefusedSkips ==
  /\ pc = "waiting" /\ ~Fresh(request)
  /\ NextChunk
  /\ UNCHANGED <<lastId, responses, calls, netVars, histVars>>

\* DUPLICATE_TRANSACTION, or TRANSACTION_EXPIRED without a new ID.
Refused ==
  /\ pc = "waiting" /\ ~Fresh(request)
  /\ Throw
  /\ UNCHANGED <<tx, lastId, netVars, histVars>>

\* Mutant: a duplicate gets new IDs too.
RegeneratedAny ==
  /\ pc = "waiting" /\ ~Fresh(request) /\ ~tx.manual
  /\ GenerateIf(TRUE)
  /\ tx' = regenerateSignedTransactions([tx EXCEPT !.id = lastId'])
  /\ Again
  /\ UNCHANGED <<netVars, histVars>>

\* TRANSACTION_EXPIRED: all chunks get new IDs, those already sent too.
Regenerated ==
  /\ pc = "waiting" /\ request.id <= expiry /\ ~tx.manual
  /\ GenerateIf(TRUE)
  /\ tx' = regenerateSignedTransactions([tx EXCEPT !.id = lastId'])
  /\ Again
  /\ UNCHANGED <<netVars, histVars>>

\* The RPC fails: the node may have the chunk or not.
Fails ==
  /\ pc = "waiting"
  /\ \/ UNCHANGED pending
     \/ Fresh(request) /\ pending' = pending \cup {Record(request)}

\* After UNAVAILABLE, RESOURCE_EXHAUSTED or INTERNAL, as after a node that is
\* busy, another attempt is made.
AnswerLost ==
  /\ Fails /\ Again
  /\ UNCHANGED <<tx, lastId, ledger, failed, expiry, histVars>>

\* After any other failure, DEADLINE_EXCEEDED among them, the response nobody
\* filled in is returned as an acceptance.
Unanswered == Fails /\ Respond /\ unheard' = unheard \cup ({Record(request)} \ Taken')

\* getReceipt of the response just collected.
ReceiptFound ==
  /\ pc = "receipt" /\ Record(request) \in ToSet(ledger)
  /\ NextChunk
  /\ UNCHANGED <<lastId, responses, calls, netVars, histVars>>

\* The receipt says the chunk failed, or no receipt is found in time.
NoReceipt ==
  /\ pc = "receipt"
  /\ Throw
  /\ UNCHANGED <<tx, lastId, netVars, histVars>>

executing ==
  \/ onExecute \/ NoSuchEntry \/ Send \/ OutOfAttempts \/ Accepted \/ Refused
  \/ Regenerated \/ AnswerLost \/ Unanswered \/ ReceiptFound \/ NoReceipt

-----------------------------------------------------------------------------
(***************************************************************************)
(* The network.                                                            *)
(***************************************************************************)
Consensus ==
  /\ \E e \in pending :
       /\ pending' = pending \ {e}
       /\ \/ ledger' = Append(ledger, e) /\ UNCHANGED failed
          \/ failed' = failed \cup {e} /\ UNCHANGED ledger
  /\ UNCHANGED <<tx, lastId, callVars, expiry, histVars>>

\* All IDs of a generation expire, while an answer is awaited.
Expire ==
  /\ pc = "waiting" /\ lastId < Gap * MaxIds /\ expiry < lastId
  /\ expiry' = lastId + Gap - 1
  /\ UNCHANGED <<tx, lastId, callVars, pending, ledger, failed, histVars>>

\* Nothing is left to do.
Rest == pc = "idle" /\ calls = MaxCalls /\ pending = {} /\ UNCHANGED vars

Next ==
  \/ User \/ executeAll \/ tooManyChunks \/ executing \/ Consensus \/ Expire \/ Rest

Spec == Init /\ [][Next]_vars

-----------------------------------------------------------------------------
\* Undisturbed: not through bytes, and no ID has expired.
Plain == restored.way = "no" /\ expiry = NoId

File == FlattenSeq([i \in DOMAIN ledger |-> ledger[i].data])

\* Chunks the execution has seen taken, or has believed taken without an answer;
\* and those executeAll() may go past.
Seen == Taken \cup unheard
Passed == IF tx.kind = "topic" THEN Seen ELSE Taken

\* What is sent is the chunk that is due, whichever node takes it: its number,
\* its part of the data and its ID (ChunkedTransaction::makeRequest); also for
\* a topic message restored from its bytes.
RequestIsCurrentChunk ==
  pc = "waiting" /\ restored.way # "other" =>
    /\ request.number = tx.current + 1 /\ request.id = getCurrentTransactionId(tx)
    /\ request.data = getDataForChunk(tx, tx.current)

\* executeAll() has all chunks before the current one accepted, also when it goes
\* on after an exception, so none is missing when it ends
\* (ChunkedTransaction::executeAll keeps mCurrentChunk).  A topic message may go
\* past a chunk nobody took, if nobody answered for it; a file never does, because
\* it asks for the receipt (TransactionReceiptQuery.cc:86).
EarlierChunksAccepted ==
  restored.way # "other" => \A n \in 1 .. tx.current : \E e \in Passed : e.number = n

\* The responses name the chunks they answer, each once: IDs the network has
\* taken, or nobody answered for (Transaction::mapResponse,
\* ChunkedTransaction::getCurrentTransactionId).
ResponsesNameChunks ==
  \A i \in DOMAIN responses :
    /\ \E e \in Seen : e.id = responses[i]
    /\ \A j \in DOMAIN responses : responses[i] = responses[j] => i = j

\* The execution keeps in step: request, current chunk, what the network has
\* accepted, or seems to have, and the responses tell of the same chunks.
ChunksInStep == RequestIsCurrentChunk /\ EarlierChunksAccepted /\ ResponsesNameChunks

\* What a reader of the topic finds of the message with this first ID: how many
\* chunks, and the chunk with a number.
Found(first) == {i \in DOMAIN ledger : ledger[i].first = first}
Part(first, n) == CHOOSE e \in ToSet(ledger) : e.first = first /\ e.number = n

\* A topic message whose chunks have all been executed can be put together:
\* they name one first ID and their total, each number is there once, in any
\* order of consensus, and in the order of numbers they hold the message.  A chunk
\* that seemed accepted because nobody answered (Executable.cc:229) must have been
\* executed for it: executeAll() ends with success without it, and says nothing.
TopicMessageWhole ==
  /\ tx.kind = "topic" /\ outcome = "done" /\ pending = {} /\ failed = {}
  /\ restored.way # "other" /\ expiry = NoId /\ tx.data # <<>>
  /\ unheard \subseteq ToSet(ledger)
  => \E first \in {e.first : e \in ToSet(ledger)} :
       LET total == Cardinality(Found(first))
       IN /\ \A i \in Found(first) : ledger[i].total = total
          /\ {ledger[i].number : i \in Found(first)} = 1 .. total
          /\ FlattenSeq([n \in 1 .. total |-> Part(first, n).data]) = tx.data

\* A chunk is executed twice only if its ID has expired in between, however
\* often answers and receipts are lost and executeAll() is called again.
TwiceOnlyIfExpired ==
  expiry = NoId /\ restored.way = "no" =>
    \A i, j \in DOMAIN ledger : ledger[i].number = ledger[j].number => i = j

\* The contents of the file as a reader sees them.
Reader == INSTANCE OrderedAppend WITH
  message <- restored.message, file <- File,
  reported <- (outcome = "done"), void <- ~Plain \/ tx.kind # "file"

\* Sending a file in chunks is an ordered append: the pieces in order, each
\* once, and success only for the whole.
AppendsInOrder == Reader!Spec

=============================================================================
