-------------------------------- MODULE Query --------------------------------
(***************************************************************************)
(* A query of any class that is sent to consensus nodes (src/Query.cc):    *)
(* what its user sets, the query for its cost, the payment, the answer and *)
(* the retries of both.  Which node an attempt goes to, and how long it    *)
(* waits, is module Executable; here any node of the query may come.       *)
(***************************************************************************)
EXTENDS QueryTables, Integers

CONSTANTS
  Nodes,         \* the node accounts of the query
  Prices,        \* what an answer may cost
  Limits,        \* arguments of setMaxQueryPayment
  ClientLimits,  \* the client's maximum, if it has one
  Unset,         \* an amount that is not set
  DefaultLimit,  \* DEFAULT_MAX_QUERY_PAYMENT
  NoNode,        \* no request is under way
  MaxAttempts,   \* attempts of an execution
  MaxSets,       \* bound on the setter calls
  MaxCalls,      \* bound on the calls of getCost and execute
  Known          \* the members that are known not to be sent, or to be unchecked

ASSUME QueryAssumption ==
  /\ Prices \cup Limits \cup {DefaultLimit} \subseteq Nat
  /\ ClientLimits \subseteq Nat \cup {Unset}
  /\ Unset \notin Nat /\ NoNode \notin Nodes
  /\ {MaxAttempts, MaxSets, MaxCalls} \subseteq Nat \ {0}

VARIABLES
  kind,      \* the class of the query
  client,    \* [validates, pays, limit]: the client
  fields,    \* what each member of the class holds
  query,     \* the members of Query: [payment, maxPayment, paymentId, getCost, cost]
  sets, calls,
  frame,     \* "idle", "cost": getCost, "quote": getCost inside onExecute, "answer"
  attempt,
  request,   \* the request that is under way: [to, body, type, payment]
  outcome,   \* how the last call ended
  lastId,    \* the last transaction ID generated
  price,     \* what the network takes for an answer
  ledger,    \* the payments the network took
  quoted,    \* history: what the last cost query of this call was told
  unheard,   \* history: the response this call last went on with came from nobody
  spoilt     \* history: the last cost query threw

userVars == <<kind, client, fields, sets>>
callVars == <<calls, frame, attempt, request, outcome, quoted, unheard, spoilt>>
netVars  == <<price, ledger>>
vars     == <<userVars, query, callVars, lastId, netVars>>

Class(m, s, r) == [members |-> m, setters |-> s, request |-> r]

Table ==
  [AccountBalance |-> Class(AccountBalanceQueryMembers, AccountBalanceQuerySetters, AccountBalanceQueryRequest),
   AccountInfo |-> Class(AccountInfoQueryMembers, AccountInfoQuerySetters, AccountInfoQueryRequest),
   AccountRecords |-> Class(AccountRecordsQueryMembers, AccountRecordsQuerySetters, AccountRecordsQueryRequest),
   ContractByteCode |-> Class(ContractByteCodeQueryMembers, ContractByteCodeQuerySetters, ContractByteCodeQueryRequest),
   ContractCall |-> Class(ContractCallQueryMembers, ContractCallQuerySetters, ContractCallQueryRequest),
   ContractInfo |-> Class(ContractInfoQueryMembers, ContractInfoQuerySetters, ContractInfoQueryRequest),
   FileContents |-> Class(FileContentsQueryMembers, FileContentsQuerySetters, FileContentsQueryRequest),
   FileInfo |-> Class(FileInfoQueryMembers, FileInfoQuerySetters, FileInfoQueryRequest),
   NetworkVersionInfo |-> Class(NetworkVersionInfoQueryMembers, NetworkVersionInfoQuerySetters, NetworkVersionInfoQueryRequest),
   ScheduleInfo |-> Class(ScheduleInfoQueryMembers, ScheduleInfoQuerySetters, ScheduleInfoQueryRequest),
   TokenInfo |-> Class(TokenInfoQueryMembers, TokenInfoQuerySetters, TokenInfoQueryRequest),
   TokenNftInfo |-> Class(TokenNftInfoQueryMembers, TokenNftInfoQuerySetters, TokenNftInfoQueryRequest),
   TopicInfo |-> Class(TopicInfoQueryMembers, TopicInfoQuerySetters, TopicInfoQueryRequest),
   TransactionReceipt |-> Class(TransactionReceiptQueryMembers, TransactionReceiptQuerySetters, TransactionReceiptQueryRequest),
   TransactionRecord |-> Class(TransactionRecordQueryMembers, TransactionRecordQuerySetters, TransactionRecordQueryRequest)]

Kinds    == DOMAIN Table
Request_ == Table[kind].request
isPaymentRequired == kind \notin {"AccountBalance", "TransactionReceipt"}

NoId      == 0
NoPayment == [id |-> NoId, to |-> NoNode, amount |-> 0]
NoRequest == [to |-> NoNode, body |-> <<>>, type |-> "none", payment |-> NoPayment]
Nothing   == [kind |-> "none", type |-> "none", paid |-> FALSE, unheard |-> FALSE]

Init ==
  /\ kind \in Kinds
  /\ client \in [validates : BOOLEAN, pays : BOOLEAN, limit : ClientLimits]
  /\ fields = Initially(Table[kind].members)
  /\ query = [payment |-> Unset, maxPayment |-> Unset, paymentId |-> NoId,
              getCost |-> FALSE, cost |-> 0]
  /\ sets = 0 /\ calls = 0 /\ frame = "idle" /\ attempt = 0
  /\ request = NoRequest /\ outcome = Nothing
  /\ lastId = NoId /\ price \in Prices /\ ledger = {}
  /\ quoted = Unset /\ unheard = FALSE /\ spoilt = FALSE

-----------------------------------------------------------------------------
(***************************************************************************)
(* The setters.                                                            *)
(***************************************************************************)
Setting == frame = "idle" /\ sets < MaxSets /\ sets' = sets + 1

Set(s, v) ==
  /\ Setting
  /\ fields' = Assigned(Table[kind].members, fields, s, v)
  /\ UNCHANGED <<kind, client, query, callVars, lastId, netVars>>

SetQuery(q) ==
  /\ Setting /\ query' = q
  /\ UNCHANGED <<kind, client, fields, callVars, netVars>>

\* The payment is stored, and no code reads it.
setQueryPayment(amount)    == SetQuery([query EXCEPT !.payment = amount]) /\ UNCHANGED lastId
setMaxQueryPayment(amount) == SetQuery([query EXCEPT !.maxPayment = amount]) /\ UNCHANGED lastId
setPaymentTransactionId ==
  SetQuery([query EXCEPT !.paymentId = lastId + 1]) /\ lastId' = lastId + 1

-----------------------------------------------------------------------------
(***************************************************************************)
(* getCost and execute.                                                    *)
(***************************************************************************)
Throws(cost) ==
  /\ frame' = "idle" /\ attempt' = 0
  /\ outcome' = [Nothing EXCEPT !.kind = "threw"]
  /\ spoilt' = (cost \/ spoilt)

Enter(f) == frame' = f /\ attempt' = 1 /\ UNCHANGED <<outcome, spoilt>>

\* validateChecksums throws for an ID of another ledger.
Misdirected ==
  client.validates /\ \E f \in Request_.checked : fields[f] = "bad"

Call ==
  /\ frame = "idle" /\ calls < MaxCalls
  /\ calls' = calls + 1 /\ quoted' = Unset /\ unheard' = FALSE
  /\ UNCHANGED <<userVars, request, lastId, netVars>>

getCost ==
  /\ Call
  /\ query' = [query EXCEPT !.getCost = TRUE]
  /\ IF Misdirected THEN Throws(TRUE) ELSE Enter("cost")

\* execute: onExecute asks for the cost of a query that is not free, unless
\* the query is a cost query already.
Execute ==
  /\ Call
  /\ \/ Misdirected /\ Throws(FALSE) /\ UNCHANGED query
     \/ /\ ~Misdirected /\ isPaymentRequired /\ ~query.getCost
        /\ query' = [query EXCEPT !.getCost = TRUE]
        /\ Enter("quote")
     \/ /\ ~Misdirected /\ (~isPaymentRequired \/ query.getCost)
        /\ UNCHANGED query
        /\ Enter("answer")

Limit ==
  IF query.maxPayment # Unset THEN query.maxPayment
  ELSE IF client.limit # Unset THEN client.limit ELSE DefaultLimit

-----------------------------------------------------------------------------
(***************************************************************************)
(* An attempt.                                                             *)
(***************************************************************************)
Asking == frame \in {"cost", "quote"}
Pays   == isPaymentRequired /\ ~query.getCost

PaymentTo(node) ==
  [id     |-> IF query.paymentId # NoId THEN query.paymentId ELSE lastId + 1,
   to     |-> node,
   amount |-> query.cost]

makeRequest(node) ==
  [to      |-> node,
   body    |-> Written(Request_, fields),
   type    |-> IF query.getCost THEN "COST_ANSWER" ELSE "ANSWER_ONLY",
   payment |-> IF Pays THEN PaymentTo(node) ELSE NoPayment]

\* A client without an operator has nobody who pays.
Send(node) ==
  /\ frame # "idle" /\ request = NoRequest
  /\ UNCHANGED <<userVars, query, calls, quoted, unheard, netVars>>
  /\ IF Pays /\ ~client.pays
       THEN Throws(FALSE) /\ UNCHANGED <<request, lastId>>
       ELSE /\ request' = makeRequest(node)
            /\ lastId' = IF Pays /\ query.paymentId = NoId THEN lastId + 1 ELSE lastId
            /\ UNCHANGED <<frame, attempt, outcome, spoilt>>

(* What the node says of a request, and what the network then takes.      *)
Precheck(r) ==
  IF ~isPaymentRequired \/ r.type = "COST_ANSWER" THEN "OK"
  ELSE IF r.payment.to # r.to \/ r.payment.amount < price THEN "INSUFFICIENT_TX_FEE"
  ELSE IF \E p \in ledger : p.id = r.payment.id THEN "DUPLICATE_TRANSACTION"
  ELSE "OK"

Taken(r) == IF Precheck(r) = "OK" /\ r.payment # NoPayment THEN {r.payment} ELSE {}

\* Mutant: the header of every answer sets the cost.
saveCostFromHeaderAlways(cost) == [query EXCEPT !.cost = cost]

saveCostFromHeader(cost) == IF query.getCost THEN [query EXCEPT !.cost = cost] ELSE query

\* The receipt in an answer; a cost answer has none.
determineStatus(status, found) ==
  IF status = "BUSY" THEN "SERVER_ERROR"
  ELSE IF status = "INVALID_NODE_ACCOUNT" THEN "RETRY_WITH_ANOTHER_NODE"
  ELSE IF status # "OK" THEN "REQUEST_ERROR"
  ELSE LET ready == CASE kind = "TransactionReceipt" -> found /\ request.type # "COST_ANSWER"
                      [] kind = "TransactionRecord" -> query.getCost \/ found
                      [] OTHER -> TRUE
       IN IF ready THEN "SUCCESS" ELSE "RETRY"

Retry ==
  IF attempt < MaxAttempts
    THEN attempt' = attempt + 1 /\ UNCHANGED <<frame, outcome, spoilt>>
    ELSE Throws(Asking)

\* Mutant: the query stays a cost query.
CostKnownKept(q) == q

\* getCost resets the query it has configured.
CostKnown(q) == [q EXCEPT !.getCost = FALSE]

\* told is the cost in the header, or Unset: the response came from nobody.
Succeeds(q, told) ==
  /\ unheard' = (told = Unset)
  /\ CASE frame = "cost" ->
            /\ query' = CostKnown(q) /\ quoted' = told /\ spoilt' = FALSE
            /\ frame' = "idle" /\ attempt' = 0
            /\ outcome' = [Nothing EXCEPT !.kind = "cost"]
       [] frame = "quote" ->
            /\ query' = CostKnown(q) /\ quoted' = told
            /\ IF q.cost > Limit
                 THEN Throws(FALSE)
                 ELSE frame' = "answer" /\ attempt' = 1 /\ spoilt' = FALSE /\ UNCHANGED outcome
       [] OTHER ->
            /\ query' = q /\ UNCHANGED <<quoted, spoilt>>
            /\ frame' = "idle" /\ attempt' = 0
            /\ outcome' = [kind |-> "answer", type |-> request.type,
                           paid |-> request.payment \in ledger', unheard |-> told = Unset]

\* What execute makes of a response.  After INVALID_NODE_ACCOUNT it goes on, or
\* throws: every node said so, or the address book cannot be read.
Handle(status, told, found) ==
  LET q == saveCostFromHeader(IF told = Unset THEN 0 ELSE told)
      what == determineStatus(status, found)
  IN  \/ what = "SUCCESS" /\ Succeeds(q, told)
      \/ /\ query' = q /\ UNCHANGED <<quoted, unheard>>
         /\ \/ what \in {"RETRY", "SERVER_ERROR", "RETRY_WITH_ANOTHER_NODE"} /\ Retry
            \/ what \in {"REQUEST_ERROR", "RETRY_WITH_ANOTHER_NODE"} /\ Throws(Asking)

\* The node answers.  Only the header of a cost answer tells the cost.
Answer(status, found) ==
  /\ request # NoRequest
  /\ status \in {"BUSY", "INVALID_NODE_ACCOUNT", Precheck(request)}
  /\ ledger' = ledger \cup (IF status = "OK" THEN Taken(request) ELSE {})
  /\ request' = NoRequest
  /\ UNCHANGED <<userVars, calls, lastId, price>>
  /\ Handle(status, IF status = "OK" /\ request.type = "COST_ANSWER" THEN price ELSE 0, found)

\* The RPC fails; the request may have arrived.
Fails ==
  /\ request # NoRequest
  /\ \E arrived \in BOOLEAN : ledger' = ledger \cup (IF arrived THEN Taken(request) ELSE {})
  /\ request' = NoRequest
  /\ UNCHANGED <<userVars, calls, lastId, price>>

\* With UNAVAILABLE, RESOURCE_EXHAUSTED or INTERNAL another attempt is made.
Lost ==
  /\ Fails /\ Retry
  /\ UNCHANGED <<query, quoted, unheard>>

\* With any other status, as when the deadline or the timeout of the call is
\* over, the response is looked at although nobody filled it in: its precheck
\* code is OK, its cost 0, and it has no receipt.
Unanswered == Fails /\ Handle("OK", Unset, FALSE)

\* The exchange rate, and with it the price, changes.
PriceChanges ==
  /\ frame # "idle" /\ price' \in Prices \ {price}
  /\ UNCHANGED <<userVars, query, callVars, lastId, ledger>>

Done == frame = "idle" /\ calls = MaxCalls /\ UNCHANGED vars

Next ==
  \/ \E s \in Table[kind].setters, v \in {"value", "bad"} : Set(s, v)
  \/ \E amount \in Limits : setQueryPayment(amount) \/ setMaxQueryPayment(amount)
  \/ setPaymentTransactionId
  \/ getCost \/ Execute
  \/ \E node \in Nodes : Send(node)
  \/ \E status \in {"OK", "BUSY", "INVALID_NODE_ACCOUNT", "INSUFFICIENT_TX_FEE",
                 "DUPLICATE_TRANSACTION"}, found \in BOOLEAN : Answer(status, found)
  \/ Lost \/ Unanswered \/ PriceChanges \/ Done

Spec == Init /\ [][Next]_vars

-----------------------------------------------------------------------------

(* A request offers exactly what this call's cost query was told, to the   *)
(* node it is sent to, and never more than the user, or else the client,   *)
(* allows: whatever cost earlier calls saw, whatever the retries were told *)
(* and however the price moves in between (Query.cc:266-300, 316-363).  If *)
(* the RPC of the cost query failed and was taken for an answer, nobody    *)
(* told a cost, and the request offers 0 (Executable.cc:229, Query.cc:205).*)
PaysWhatItWasQuoted ==
  request.payment # NoPayment =>
    /\ request.payment.amount = IF unheard THEN 0 ELSE quoted
    /\ request.payment.amount <= Limit
    /\ request.payment.to = request.to

(* What execute returns for a query that is not free was paid for, but in  *)
(* two cases: the last cost query threw, getCost then leaves the query a   *)
(* cost query, and execute returns the empty body of a cost answer         *)
(* (Query.cc:79-84); or the RPC failed, and what is returned is the empty  *)
(* response nobody filled in (Executable.cc:229, Query.cc:309).            *)
AnswersArePaid ==
  outcome.kind = "answer" /\ isPaymentRequired =>
    \/ outcome.paid
    \/ outcome.unheard
    \/ spoilt /\ outcome.type = "COST_ANSWER"

(* A node is asked for all that the user set, and no ID of another ledger  *)
(* is sent by a client that validates checksums, but for Known.            *)
AsksWhatWasSet ==
  request # NoRequest =>
    \A f \in DOMAIN fields :
      /\ fields[f] = "value" => request.body[f] = "value" \/ <<kind, f>> \in Known.unsent
      /\ fields[f] = "bad" => ~client.validates \/ <<kind, f>> \in Known.unchecked
=============================================================================
