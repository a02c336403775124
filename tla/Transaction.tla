----------------------------- MODULE Transaction -----------------------------
(***************************************************************************)
(* One transaction object (src/Transaction.cc), the user who edits,        *)
(* freezes, signs, serialises and executes it, and the ledger it is sent   *)
(* to.  A body is [id, content, batch]: content stands for every field     *)
(* with a setter that wants an unfrozen transaction.  A signature is made  *)
(* over the body it is kept with, so a bag of keys stands for a signature  *)
(* map.  Which node an attempt goes to, and how often execute() tries, is  *)
(* module Executable; here any of the nodes of the transaction may come.   *)
(* Maximum fees that come from the client are part of content.             *)
(***************************************************************************)
EXTENDS Integers, Sequences, FiniteSets

CONSTANTS
  Operator,      \* the key of the client's operator, who pays
  Keys,          \* the other keys that sign
  Nodes,         \* the node accounts of the network, in the order picked
  Dummy,         \* DUMMY_ACCOUNT_ID, 0.0.0
  NoNode,        \* a body without a node account
  NotBuilt,      \* an empty entry of mTransactions
  MaxId,         \* bound on the transaction IDs generated
  MaxAttempts,   \* attempts of an execution
  MaxExecutions  \* bound on the calls of execute()

AllKeys  == Keys \cup {Operator}
NoId     == 0
Ids      == 1 .. MaxId
Contents == {"first", "second"}
Policies == {"unset", "yes", "no"}

ASSUME TransactionAssumption ==
  /\ Operator \notin Keys
  /\ Nodes \in Seq({Nodes[i] : i \in DOMAIN Nodes}) /\ Nodes # <<>>
  /\ \A i \in DOMAIN Nodes : Nodes[i] \notin {Dummy, NoNode}
  /\ Dummy # NoNode
  /\ MaxId \in Nat \ {0} /\ MaxAttempts \in Nat \ {0} /\ MaxExecutions \in Nat

VARIABLES
  tx,            \* the transaction object
  lastId,        \* the last transaction ID generated
  pc,            \* "idle", "attempt" or "waiting" inside execute()
  attempt,
  executions,
  request,       \* the request of the attempt: [body, node, sigs]
  result,        \* what the last execute() ended with
  ledger,        \* the requests that were executed
  expired,       \* the IDs whose valid duration is over
  delayed,       \* requests given up by execute() that may still arrive
  lost,          \* history: an answer was missed
  vouched,       \* history: <<key, ID, node>> of signatures from outside
  chosen         \* history: the ID the user set, NoId before

userVars   == <<executions, chosen, vouched>>
callVars   == <<pc, attempt, request, result, lost>>
ledgerVars == <<ledger, expired, delayed>>
vars == <<tx, lastId, userVars, callVars, ledgerVars>>

Unsigned == [k \in AllKeys |-> 0]
Body     == [id : Ids \cup {NoId}, content : Contents, batch : BOOLEAN]
NoBody   == [id |-> NoId, content |-> "first", batch |-> FALSE]

\* An empty entry is no signed transaction.
ASSUME NotBuiltAssumption ==
  NotBuilt \notin [body : Body, node : {Nodes[i] : i \in DOMAIN Nodes} \cup {Dummy, NoNode},
                   sigs : [AllKeys -> Nat]]

NoRequest == [body |-> NoBody, node |-> NoNode, sigs |-> Unsigned]
NoResult  == [kind |-> "none", id |-> NoId, node |-> NoNode, sent |-> NoRequest,
              request |-> NoRequest]

NewTransaction ==
  [ id |-> NoId, manual |-> FALSE, policy |-> "unset", content |-> "first",
    batchKey |-> FALSE, source |-> NoBody, nodes |-> <<>>, signed |-> <<>>,
    built |-> <<>>, signers |-> {}, externals |-> {}, frozen |-> FALSE,
    index |-> 1 ]

Init ==
  /\ tx = NewTransaction /\ lastId = NoId
  /\ pc = "idle" /\ attempt = 0 /\ executions = 0
  /\ request = NoRequest /\ result = NoResult
  /\ ledger = {} /\ expired = {} /\ delayed = {}
  /\ lost = FALSE /\ vouched = {} /\ chosen = NoId

-----------------------------------------------------------------------------
(***************************************************************************)
(* What the methods do to a transaction t.                                 *)
(***************************************************************************)
Signatories(t) == t.signers \cup t.externals

\* All Transaction objects have to be built again.
Unbuild(t) == [t EXCEPT !.built = [i \in DOMAIN t.signed |-> NotBuilt]]

updateSourceTransactionBody(t) ==
  [t EXCEPT !.source = [ id      |-> IF t.id = NoId THEN @.id ELSE t.id,
                         content |-> t.content,
                         batch   |-> t.batchKey \/ @.batch ]]

addSignedTransactionForEachNode(t) ==
  [t EXCEPT !.signed = [i \in DOMAIN t.nodes |->
                          [body |-> t.source, node |-> t.nodes[i], sigs |-> Unsigned]]]

regenerateSignedTransactions(t) ==
  Unbuild(addSignedTransactionForEachNode(updateSourceTransactionBody(t)))

\* A signed transaction after every signer has added its signature: those
\* already there stay.
WithSignatures(t, i) ==
  [t.signed[i] EXCEPT !.sigs = [k \in AllKeys |->
                                  IF k \in t.signers THEN @[k] + 1 ELSE @[k]]]

\* buildTransaction for every index of I; what is built stays as it is.
buildTransaction(t, I) ==
  LET missing == {i \in I : t.built[i] = NotBuilt}
      New(old) == [i \in DOMAIN old |->
                     IF i \in missing THEN WithSignatures(t, i) ELSE old[i]]
  IN [t EXCEPT !.signed = New(@), !.built = New(@)]

buildAllTransactions(t) == buildTransaction(t, DOMAIN t.signed)

signInternal(t, k) ==
  IF k \in Signatories(t) THEN t
  ELSE Unbuild([t EXCEPT !.signers = @ \cup {k}])

\* Mutant: the signature itself stays.
StaleOnly(t, key) == AllKeys \ (t.externals \cup {key})

\* The signatures that leave with removeSignature: those of the key, and
\* those made here, which the next build makes again.
Stale(t, key) == AllKeys \ (t.externals \ {key})

Without(t, gone) ==
  LET Left(s) == [s EXCEPT !.sigs = [k \in AllKeys |-> IF k \in gone THEN 0 ELSE @[k]]]
  IN [t EXCEPT !.signed = [i \in DOMAIN t.signed |-> Left(t.signed[i])]]

\* freezeWith: an ID from the operator and nodes from the network if the user
\* set none.
FrozenWith(t, id, nodes) ==
  [regenerateSignedTransactions([t EXCEPT !.id = id, !.nodes = nodes])
     EXCEPT !.frozen = TRUE]

\* What toBytes writes, after it has changed the transaction to After(t).
AfterToBytes(t) ==
  IF t.nodes = <<>> THEN updateSourceTransactionBody(t)
  ELSE buildAllTransactions(IF t.frozen THEN t ELSE regenerateSignedTransactions(t))

Bytes(t) ==
  LET after == AfterToBytes(t)
  IN IF t.nodes = <<>>
     THEN <<[body |-> after.source, node |-> NoNode, sigs |-> Unsigned]>>
     ELSE after.built

\* The constructor that fromBytes calls.  No node, or the dummy one: only the
\* body is taken, with the whole transaction if it is part of a batch.
FromSource(list) ==
  LET body == list[1].body
  IN [NewTransaction EXCEPT
        !.id = body.id, !.content = body.content, !.batchKey = body.batch,
        !.source = body, !.built = IF body.batch THEN <<list[1]>> ELSE <<>>]

FromSigned(list) ==
  LET body  == list[1].body
      found == {k \in AllKeys : list[1].sigs[k] > 0}
  IN [NewTransaction EXCEPT
        !.id = body.id, !.content = body.content, !.batchKey = body.batch,
        !.source = body, !.nodes = [i \in DOMAIN list |-> list[i].node],
        !.signed = list, !.built = list,
        !.externals = found, !.frozen = found # {}]

fromBytes(list) ==
  IF list[1].node \in {NoNode, Dummy} THEN FromSource(list) ELSE FromSigned(list)

-----------------------------------------------------------------------------
(***************************************************************************)
(* The user.                                                               *)
(***************************************************************************)
\* Bound: what the user does after the last execution is not followed.
NotExecuting ==
  /\ pc = "idle" /\ executions < MaxExecutions
  /\ UNCHANGED <<callVars, ledgerVars, executions>>

\* Mutant: a frozen transaction can be edited.
requireNothing == TRUE

requireNotFrozen == ~tx.frozen

Generate == lastId < MaxId /\ lastId' = lastId + 1

setTransactionId ==
  /\ NotExecuting /\ requireNotFrozen /\ Generate
  /\ tx' = [tx EXCEPT !.id = lastId', !.manual = TRUE]
  /\ chosen' = lastId' /\ UNCHANGED vouched

setNodeAccountIds ==
  /\ NotExecuting /\ requireNotFrozen
  /\ \E i \in DOMAIN Nodes : tx' = [tx EXCEPT !.nodes = <<Nodes[i]>>]
  /\ UNCHANGED <<lastId, chosen, vouched>>

\* Every other setter, of this class and of the derived ones.
setField ==
  /\ NotExecuting /\ requireNotFrozen
  /\ \E c \in Contents : tx' = [tx EXCEPT !.content = c]
  /\ UNCHANGED <<lastId, chosen, vouched>>

setBatchKey ==
  /\ NotExecuting /\ requireNotFrozen
  /\ tx' = [tx EXCEPT !.batchKey = TRUE]
  /\ UNCHANGED <<lastId, chosen, vouched>>

setRegenerateTransactionIdPolicy ==
  /\ NotExecuting /\ requireNotFrozen
  /\ \E p \in {"yes", "no"} : tx' = [tx EXCEPT !.policy = p]
  /\ UNCHANGED <<lastId, chosen, vouched>>

NeedsId(t) == ~t.frozen /\ t.id = NoId

Frozen(t) ==
  IF t.frozen THEN t
  ELSE FrozenWith(t, IF t.id = NoId THEN lastId + 1 ELSE t.id,
                     IF t.nodes = <<>> THEN Nodes ELSE t.nodes)

GenerateIf(needed) == IF needed THEN Generate ELSE UNCHANGED lastId

\* Without a client both the ID and the nodes must have been set.
freezeWith ==
  /\ NotExecuting
  /\ \E client \in BOOLEAN :
       /\ client \/ tx.frozen \/ (tx.id # NoId /\ tx.nodes # <<>>)
       /\ tx' = Frozen(tx) /\ GenerateIf(NeedsId(tx))
  /\ UNCHANGED <<chosen, vouched>>

sign ==
  /\ NotExecuting /\ tx.frozen
  /\ \E k \in Keys : tx' = signInternal(tx, k)
  /\ UNCHANGED <<lastId, chosen, vouched>>

signWithOperator ==
  /\ NotExecuting
  /\ tx' = signInternal(Frozen(tx), Operator) /\ GenerateIf(NeedsId(tx))
  /\ UNCHANGED <<chosen, vouched>>

\* The signature, made elsewhere, is over the body that is sent to the node.
addSignature ==
  /\ NotExecuting /\ Len(tx.nodes) = 1 /\ tx.frozen
  /\ \E k \in AllKeys \ Signatories(tx) :
       /\ tx' = Unbuild([tx EXCEPT !.externals = @ \cup {k},
                                   !.signed[1].sigs[k] = @ + 1])
       /\ vouched' = vouched \cup {<<k, tx.signed[1].body.id, tx.signed[1].node>>}
  /\ UNCHANGED <<lastId, chosen>>

removeSignature ==
  /\ NotExecuting /\ tx.frozen
  /\ \E k \in Signatories(tx) :
       /\ tx' = Unbuild([Without(tx, Stale(tx, k)) EXCEPT !.signers = @ \ {k},
                                                          !.externals = @ \ {k}])
       /\ vouched' = {v \in vouched : v[1] # k}
  /\ UNCHANGED <<lastId, chosen>>

removeAllSignatures ==
  /\ NotExecuting /\ tx.frozen
  /\ tx' = Unbuild([Without(tx, AllKeys) EXCEPT !.signers = {}, !.externals = {}])
  /\ vouched' = {} /\ UNCHANGED <<lastId, chosen>>

getTransactionHash ==
  /\ NotExecuting /\ tx.frozen /\ tx.built # <<>>
  /\ tx' = buildTransaction(tx, {1})
  /\ UNCHANGED <<lastId, chosen, vouched>>

\* getSignatures only builds when there are signatories.
getTransactionHashPerNode ==
  /\ NotExecuting /\ tx.frozen
  /\ tx' = buildAllTransactions(tx)
  /\ UNCHANGED <<lastId, chosen, vouched>>

toBytes ==
  /\ NotExecuting
  /\ tx' = AfterToBytes(tx)
  /\ UNCHANGED <<lastId, chosen, vouched>>

\* The scheduled transaction takes a copy of the body.
schedule ==
  /\ NotExecuting /\ requireNotFrozen /\ tx.nodes = <<>>
  /\ tx' = updateSourceTransactionBody(tx)
  /\ UNCHANGED <<lastId, chosen, vouched>>

\* The user goes on with the transaction that is read back from the bytes.
Reload ==
  /\ NotExecuting
  /\ tx' = fromBytes(Bytes(tx))
  /\ vouched' = vouched \cup
       UNION {{<<k, r.body.id, r.node>> : k \in {key \in AllKeys : r.sigs[key] > 0}}
                : r \in {tx'.signed[i] : i \in DOMAIN tx'.signed}}
  /\ UNCHANGED <<lastId, chosen>>

\* The node becomes the dummy node even if the transaction is frozen.
\* Without an operator nothing freezes it, and an unfrozen transaction has
\* nothing to build.
batchify ==
  /\ NotExecuting
  /\ LET t == [tx EXCEPT !.batchKey = TRUE, !.nodes = <<Dummy>>]
         First(u) == IF u.built = <<>> THEN u ELSE buildTransaction(u, {1})
     IN \/ tx' = First(signInternal(Frozen(t), Operator)) /\ GenerateIf(NeedsId(t))
        \/ tx' = First(t) /\ UNCHANGED lastId
  /\ UNCHANGED <<chosen, vouched>>

User ==
  \/ setTransactionId \/ setNodeAccountIds \/ setField \/ setBatchKey
  \/ setRegenerateTransactionIdPolicy \/ freezeWith \/ sign \/ signWithOperator
  \/ addSignature \/ removeSignature \/ removeAllSignatures \/ getTransactionHash
  \/ getTransactionHashPerNode \/ toBytes \/ schedule \/ Reload \/ batchify

-----------------------------------------------------------------------------
(***************************************************************************)
(* execute().                                                              *)
(***************************************************************************)
\* onExecute: freeze, and sign with the operator, who pays every ID here.
onExecute ==
  /\ pc = "idle" /\ executions < MaxExecutions
  /\ executions' = executions + 1
  /\ tx' = signInternal(Frozen(tx), Operator) /\ GenerateIf(NeedsId(tx))
  /\ pc' = "attempt" /\ attempt' = 1 /\ request' = NoRequest /\ result' = NoResult
  /\ UNCHANGED <<chosen, vouched, lost, ledgerVars>>

\* The ends of a call that returns a response: a node took the request, or nobody
\* answered.  The caller cannot tell them apart.
Responses == {"success", "unanswered"}

\* The response has the hash of sent; request is history, what was submitted.
End(kind) ==
  /\ pc' = "idle" /\ request' = NoRequest
  /\ result' = IF kind \notin Responses THEN [NoResult EXCEPT !.kind = kind]
               ELSE [ kind |-> kind, id |-> tx.id,
                      node |-> tx.nodes[((tx.index - 1) % Len(tx.nodes)) + 1],
                      sent |-> tx.built[tx.index], request |-> request ]
  /\ UNCHANGED attempt

Again ==
  /\ pc' = "attempt" /\ attempt' = attempt + 1 /\ request' = NoRequest
  /\ UNCHANGED result

\* A node account the network does not know cannot be sent to.
NoNodeFound ==
  /\ pc = "attempt" /\ tx.nodes = <<Dummy>>
  /\ End("unknown node")
  /\ UNCHANGED <<tx, lastId, userVars, lost, ledgerVars>>

OutOfAttempts ==
  /\ pc = "attempt" /\ attempt > MaxAttempts /\ tx.nodes # <<Dummy>>
  /\ End("max attempts")
  /\ UNCHANGED <<tx, lastId, userVars, lost, ledgerVars>>

\* Mutant: the index of the request is not kept for the response.
makeRequestUntracked ==
  /\ pc = "attempt" /\ attempt <= MaxAttempts /\ tx.nodes # <<Dummy>>
  /\ \E i \in DOMAIN tx.nodes :
       tx' = buildTransaction(tx, {i}) /\ request' = tx'.built[i]
  /\ pc' = "waiting"
  /\ UNCHANGED <<lastId, userVars, attempt, result, lost, ledgerVars>>

makeRequest ==
  /\ pc = "attempt" /\ attempt <= MaxAttempts /\ tx.nodes # <<Dummy>>
  /\ \E i \in DOMAIN tx.nodes :
       /\ tx' = [buildTransaction(tx, {i}) EXCEPT !.index = i]
       /\ request' = tx'.built[i]
  /\ pc' = "waiting"
  /\ UNCHANGED <<lastId, userVars, attempt, result, lost, ledgerVars>>

\* What the network does with a request.
Executed(id) == \E r \in ledger : r.body.id = id

Judgement(r) ==
  CASE r.body.id \in expired -> "TRANSACTION_EXPIRED"
    [] r.body.id \notin expired /\ Executed(r.body.id) -> "DUPLICATE_TRANSACTION"
    [] OTHER -> IF r.sigs[Operator] = 0 THEN "INVALID_SIGNATURE" ELSE "OK"

Receive(r) == ledger' = IF Judgement(r) = "OK" THEN ledger \cup {r} ELSE ledger

\* Mutant: an ID the user has set is replaced too.
ShouldRegenerateAny(clientPolicy) ==
  IF tx.policy # "unset" THEN tx.policy = "yes" ELSE clientPolicy # "no"

\* The first policy that is set decides; an ID set by the user stays.  The
\* policy of the client is whatever its owner has set it to by now.
ShouldRegenerate(clientPolicy) ==
  /\ ~tx.manual
  /\ IF tx.policy # "unset" THEN tx.policy = "yes" ELSE clientPolicy # "no"

Regenerated ==
  /\ tx' = regenerateSignedTransactions([tx EXCEPT !.id = lastId + 1])
  /\ Generate /\ Again

\* The answer arrives; what it says decides how execute() goes on.
Answer(status) ==
  \/ /\ status = "OK"
     /\ End("success") /\ UNCHANGED <<tx, lastId>>
  \/ /\ status = "TRANSACTION_EXPIRED"
     /\ \E policy \in Policies :
          \/ ShouldRegenerate(policy) /\ Regenerated
          \/ ~ShouldRegenerate(policy) /\ End(status) /\ UNCHANGED <<tx, lastId>>
  \/ /\ status \notin {"OK", "TRANSACTION_EXPIRED"}
     /\ End(status) /\ UNCHANGED <<tx, lastId>>

Answered ==
  /\ pc = "waiting"
  /\ Receive(request) /\ Answer(Judgement(request))
  /\ UNCHANGED <<userVars, lost, expired, delayed>>

Busy ==
  /\ pc = "waiting"
  /\ Again
  /\ UNCHANGED <<tx, lastId, userVars, lost, ledgerVars>>

\* The RPC fails before, while or after the network takes the request.
Fails ==
  /\ pc = "waiting" /\ lost' = TRUE
  /\ \/ UNCHANGED <<ledger, delayed>>
     \/ Receive(request) /\ UNCHANGED delayed
     \/ delayed' = delayed \cup {request} /\ UNCHANGED ledger
  /\ UNCHANGED <<tx, lastId, userVars, expired>>

\* With UNAVAILABLE, RESOURCE_EXHAUSTED or INTERNAL another attempt is made.
AnswerLost == Fails /\ Again

\* With any other status, DEADLINE_EXCEEDED among them, the response that nobody
\* filled in has the precheck code OK, and execute() returns as if it were one.
Unanswered == Fails /\ End("unanswered")

ArrivesLate ==
  /\ \E r \in delayed : Receive(r) /\ delayed' = delayed \ {r}
  /\ UNCHANGED <<tx, lastId, userVars, callVars, expired>>

\* Bound: the last ID does not expire, so that a fresh one is left.  Only a
\* request that is judged meets it, so it happens while one is under way.
Expire ==
  /\ pc = "waiting" \/ delayed # {}
  /\ \E id \in 1 .. lastId : id < MaxId /\ expired' = expired \cup {id}
  /\ UNCHANGED <<tx, lastId, userVars, callVars, ledger, delayed>>

\* Nothing is left to do.
Rest == pc = "idle" /\ executions = MaxExecutions /\ UNCHANGED vars

Next ==
  \/ User \/ onExecute \/ NoNodeFound \/ OutOfAttempts \/ makeRequest
  \/ Answered \/ Busy \/ AnswerLost \/ Unanswered \/ ArrivesLate \/ Expire \/ Rest

Spec == Init /\ [][Next]_vars

-----------------------------------------------------------------------------
\* Whoever signs a transaction has signed what is sent: every request carries
\* a signature of every key with a signer, whatever was built, hashed,
\* serialised, signed, removed or regenerated in between
\* (Transaction::signInternal, buildTransaction).
SignersSigned ==
  pc = "waiting" => \A k \in tx.signers : request.sigs[k] > 0

\* A signature that was removed is never sent (Transaction::removeSignature).
OnlySignatories ==
  pc = "waiting" => \A k \in AllKeys : request.sigs[k] > 0 => k \in Signatories(tx)

\* A signature given from outside, by addSignature or in the bytes, goes with
\* every request that has the ID and the node it was made for.
ExternalsKept ==
  pc = "waiting" =>
    \A k \in tx.externals :
      <<k, request.body.id, request.node>> \in vouched => request.sigs[k] > 0

\* What is sent is signed by exactly the signatories: by all that sign here, by
\* nobody whose signature was removed, and as given from outside.
SignedBySignatories == SignersSigned /\ OnlySignatories /\ ExternalsKept

\* What the getters of the transaction show is what is sent.
SentAsShown ==
  pc = "waiting" =>
    request.body = [id |-> tx.id, content |-> tx.content, batch |-> tx.batchKey]

\* The response that execute() returns is about the request it submitted last: it
\* has its hash, its ID and its node (Transaction::mapResponse), whatever was built
\* for other nodes or regenerated before.  If a node answered, the ledger executed
\* that very request; if the RPC failed with a status that is not retried, the
\* response looks the same, and the ledger need not have it (Executable.cc:229).
ResponseOfRequest ==
  result.kind \in Responses =>
    /\ result.sent = result.request
    /\ result.id = result.request.body.id /\ result.node = result.request.node
    /\ result.kind = "success" => result.request \in ledger

\* One call of execute() executes the transaction under two IDs only if an
\* answer was lost, and never if the ID was set by the user or its policy
\* forbids a new one.
TwiceOnlyIfLost ==
  pc # "idle" /\ executions = 1 /\ Cardinality({r.body.id : r \in ledger}) > 1
    => lost /\ ~tx.manual /\ tx.policy # "no"

=============================================================================
