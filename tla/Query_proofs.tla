---------------------------- MODULE Query_proofs ----------------------------
(***************************************************************************)
(* What a query pays, that its answers are paid for, and what it asks, for *)
(* all nodes, prices, limits, attempts and calls; and, of NetworkObjects,  *)
(* that the objects it is answered with keep what was sent, for any number *)
(* of fields.                                                              *)
(***************************************************************************)
EXTENDS Query, TLAPS

-----------------------------------------------------------------------------
(***************************************************************************)
(* The inductive invariant.                                                *)
(***************************************************************************)
Amount == Nat \cup {Unset}

\* The types of what the payment depends on.
Typed ==
  /\ query \in [payment : Amount, maxPayment : Amount, paymentId : Nat,
                getCost : BOOLEAN, cost : Nat]
  /\ client \in [validates : BOOLEAN, pays : BOOLEAN, limit : Amount]
  /\ frame \in {"idle", "cost", "quote", "answer"}
  /\ price \in Nat /\ lastId \in Nat /\ spoilt \in BOOLEAN /\ unheard \in BOOLEAN

\* A query is a cost query inside getCost, and outside of it only after a
\* getCost that threw.
CostFlag ==
  /\ Asking => query.getCost
  /\ frame = "quote" => isPaymentRequired /\ ~spoilt
  /\ ~Asking => (spoilt <=> query.getCost)

\* Whoever is about to pay has been quoted the cost, or 0 by nobody, and accepted it.
Quoted ==
  frame = "answer" /\ Pays =>
    query.cost = (IF unheard THEN 0 ELSE quoted) /\ query.cost <= Limit

\* The request under way is what makeRequest makes of the query now.
Current ==
  /\ request.payment # NoPayment =>
       /\ frame = "answer" /\ Pays
       /\ request.payment.amount = query.cost /\ request.payment.to = request.to
  /\ request # NoRequest =>
       /\ frame # "idle"
       /\ request.type = IF query.getCost THEN "COST_ANSWER" ELSE "ANSWER_ONLY"
       /\ Pays => request.payment # NoPayment

IInv == Typed /\ CostFlag /\ Quoted /\ Current /\ AnswersArePaid

-----------------------------------------------------------------------------
(***************************************************************************)
(* Each action preserves it.                                               *)
(***************************************************************************)
\* A price, a limit and an unset amount are amounts.
LEMMA Amounts ==
  /\ Unset \in Amount /\ 0 \in Nat /\ Prices \subseteq Nat
  /\ Limits \subseteq Amount /\ ClientLimits \subseteq Amount /\ DefaultLimit \in Nat
  BY QueryAssumption DEF Amount

\* What is allowed is a number.
LEMMA LimitIsNat ==
  ASSUME Typed
  PROVE  Limit \in Nat
  BY Amounts DEF Typed, Limit, Amount

\* A query starts with nothing quoted and nothing under way.
LEMMA InitIInv == Init => IInv
  <1> SUFFICES ASSUME Init PROVE IInv
    OBVIOUS
  <1>1. Typed
    BY Amounts DEF Init, Typed, NoId
  <1>2. CostFlag /\ Quoted /\ AnswersArePaid
    BY DEF Init, CostFlag, Quoted, AnswersArePaid, Asking, Nothing
  <1>3. Current
    BY DEF Init, Current, NoRequest
  <1>4. QED
    BY <1>1, <1>2, <1>3 DEF IInv

\* Nothing is under way between the calls.
LEMMA IdleHasNoRequest ==
  ASSUME Current, frame = "idle"
  PROVE  request = NoRequest /\ request.payment = NoPayment
  BY DEF Current, NoRequest

\* A step that sets no more than the query, between the calls.
LEMMA SettingKeeps ==
  ASSUME IInv, frame = "idle", query'.getCost = query.getCost,
         query' \in [payment : Amount, maxPayment : Amount, paymentId : Nat,
                     getCost : BOOLEAN, cost : Nat],
         lastId' \in Nat, UNCHANGED <<kind, client, callVars, netVars>>
  PROVE  IInv'
  <1>1. Typed'
    BY DEF IInv, Typed, callVars, netVars
  <1>2. CostFlag' /\ Quoted' /\ AnswersArePaid'
    BY DEF IInv, CostFlag, Quoted, AnswersArePaid, Asking, isPaymentRequired, callVars
  <1>3. Current'
    BY IdleHasNoRequest DEF IInv, Current, callVars, NoRequest, NoPayment
  <1>4. QED
    BY <1>1, <1>2, <1>3 DEF IInv

\* The setters are refused while a query is under way.
LEMMA SettersKeep ==
  ASSUME IInv,
         \/ \E s \in Table[kind].setters, v \in {"value", "bad"} : Set(s, v)
         \/ \E amount \in Limits : setQueryPayment(amount) \/ setMaxQueryPayment(amount)
         \/ setPaymentTransactionId
  PROVE  IInv'
  <1>1. CASE \E s \in Table[kind].setters, v \in {"value", "bad"} : Set(s, v)
    BY <1>1, SettingKeeps DEF Set, Setting, IInv, Typed
  <1>2. CASE \E amount \in Limits : setQueryPayment(amount) \/ setMaxQueryPayment(amount)
    BY <1>2, SettingKeeps, Amounts
       DEF setQueryPayment, setMaxQueryPayment, SetQuery, Setting, IInv, Typed
  <1>3. CASE setPaymentTransactionId
    BY <1>3, SettingKeeps DEF setPaymentTransactionId, SetQuery, Setting, IInv, Typed
  <1>4. QED
    BY <1>1, <1>2, <1>3

\* A call is entered with no request under way.
LEMMA CallsKeep ==
  ASSUME IInv, getCost \/ Execute
  PROVE  IInv'
  <1>1. frame = "idle" /\ request' = NoRequest /\ NoRequest.payment = NoPayment
        /\ UNCHANGED <<kind, client, lastId, price>>
    BY IdleHasNoRequest DEF IInv, getCost, Execute, Call, userVars, netVars, NoRequest
  <1>2. Typed'
    <2>1. unheard' \in BOOLEAN
      BY DEF getCost, Execute, Call
    <2>2. QED
      BY <1>1, <2>1 DEF IInv, Typed, getCost, Execute, Throws, Enter
  <1>3. CostFlag'
    <2>1. query.getCost \in BOOLEAN /\ spoilt \in BOOLEAN /\ (spoilt <=> query.getCost)
      BY <1>1 DEF IInv, Typed, CostFlag, Asking
    <2>2. CASE getCost
      <3>1. query'.getCost = TRUE
        BY <2>2 DEF getCost, IInv, Typed
      <3>2. \/ frame' = "idle" /\ spoilt' = TRUE
            \/ frame' = "cost"
        BY <2>2 DEF getCost, Throws, Enter
      <3>3. QED
        BY <3>1, <3>2 DEF CostFlag, Asking
    <2>3. CASE Execute
      <3>1. CASE frame' = "quote" /\ query'.getCost = TRUE /\ isPaymentRequired /\ ~spoilt'
        BY <1>1, <3>1 DEF CostFlag, Asking, isPaymentRequired
      <3>2. CASE frame' \in {"idle", "answer"} /\ query' = query /\ spoilt' = spoilt
        BY <2>1, <3>2 DEF CostFlag, Asking
      <3>3. \/ frame' = "quote" /\ query'.getCost = TRUE /\ isPaymentRequired /\ ~spoilt'
            \/ frame' \in {"idle", "answer"} /\ query' = query /\ spoilt' = spoilt
        BY <2>1, <2>3 DEF Execute, Throws, Enter, IInv, Typed
      <3>4. QED
        BY <3>1, <3>2, <3>3
    <2>4. QED
      BY <2>2, <2>3
  <1>4. Quoted'
    BY <1>1 DEF IInv, Typed, Quoted, Pays, isPaymentRequired, getCost, Execute, Throws, Enter
  <1>5. Current'
    BY <1>1 DEF Current
  <1>6. AnswersArePaid'
    BY <1>1 DEF IInv, AnswersArePaid, isPaymentRequired, getCost, Execute, Throws, Enter, Nothing
  <1>7. QED
    BY <1>2, <1>3, <1>4, <1>5, <1>6 DEF IInv

\* A request pays for what the query was quoted, or does not pay.
LEMMA SendKeeps ==
  ASSUME IInv, NEW node \in Nodes, Send(node)
  PROVE  IInv'
  <1>1. CASE Pays /\ ~client.pays
    <2>1. frame' = "idle" /\ outcome'.kind = "threw" /\ spoilt' = spoilt /\ ~query.getCost
          /\ request' = NoRequest /\ NoRequest.payment = NoPayment
          /\ UNCHANGED <<kind, client, query, quoted, unheard, price, lastId>>
      BY <1>1 DEF IInv, Typed, Send, Throws, userVars, netVars, Pays, NoRequest, Nothing
    <2>2. frame # "idle"
      BY DEF Send
    <2>3. Typed'
      BY <2>1 DEF IInv, Typed
    <2>4. CostFlag' /\ Quoted' /\ AnswersArePaid'
      BY <2>1, <2>2 DEF IInv, Typed, CostFlag, Quoted, AnswersArePaid, Asking, Pays
    <2>5. Current'
      BY <2>1 DEF Current
    <2>6. QED
      BY <2>3, <2>4, <2>5 DEF IInv
  <1>2. CASE ~(Pays /\ ~client.pays)
    <2>1. frame # "idle" /\ request' = makeRequest(node)
          /\ UNCHANGED <<kind, client, query, frame, outcome, spoilt, quoted, unheard, price>>
      BY <1>2 DEF Send, userVars, netVars
    <2>2. Typed'
      <3>1. lastId' \in Nat
        <4>1. lastId' = lastId \/ lastId' = lastId + 1
          BY <1>2 DEF Send, Pays
        <4>2. QED
          BY <4>1 DEF IInv, Typed
      <3>2. QED
        BY <2>1, <3>1 DEF IInv, Typed
    <2>3. CostFlag' /\ Quoted' /\ AnswersArePaid'
      BY <2>1 DEF IInv, CostFlag, Quoted, AnswersArePaid, Asking, Pays, Limit, isPaymentRequired
    <2>4. PaymentTo(node) # NoPayment /\ PaymentTo(node).to = node /\ PaymentTo(node).amount = query.cost
      BY QueryAssumption DEF PaymentTo, NoPayment
    <2>5. Pays => frame = "answer"
      BY <2>1 DEF IInv, Typed, CostFlag, Asking, Pays
    <2>6. request'.to = node
          /\ request'.type = (IF query.getCost THEN "COST_ANSWER" ELSE "ANSWER_ONLY")
          /\ request'.payment = (IF Pays THEN PaymentTo(node) ELSE NoPayment)
      BY <2>1 DEF makeRequest
    <2> HIDE DEF PaymentTo
    <2>7. Pays' <=> Pays
      BY <2>1 DEF Pays, isPaymentRequired
    <2>8. Current'
      BY <2>1, <2>4, <2>5, <2>6, <2>7 DEF Current
    <2>9. QED
      BY <2>2, <2>3, <2>8 DEF IInv
  <1>3. QED
    BY <1>1, <1>2

\* What a step that ends an attempt without an answer does: another attempt of
\* the same query, or an exception.
LEMMA RetryKeeps ==
  ASSUME IInv, frame # "idle", Retry \/ Throws(Asking), request' = NoRequest,
         query' \in [payment : Amount, maxPayment : Amount, paymentId : Nat,
                     getCost : BOOLEAN, cost : Nat],
         query'.getCost = query.getCost, query'.maxPayment = query.maxPayment,
         query.getCost \/ query' = query,
         UNCHANGED <<kind, client, quoted, unheard, price, lastId>>
  PROVE  IInv'
  <1>1. Typed'
    BY DEF IInv, Typed, Retry, Throws
  <1>2. CostFlag'
    BY DEF IInv, Typed, CostFlag, Asking, isPaymentRequired, Retry, Throws
  <1>3. Quoted'
    BY DEF IInv, Quoted, Pays, Limit, isPaymentRequired, Retry, Throws
  <1>4. Current'
    BY DEF Current, NoRequest
  <1>5. AnswersArePaid'
    BY DEF IInv, Typed, AnswersArePaid, isPaymentRequired, Retry, Throws, Nothing
  <1>6. QED
    BY <1>1, <1>2, <1>3, <1>4, <1>5 DEF IInv

\* The answer to a cost query ends it; getCost returns, or execute goes on to pay
\* what it was quoted, or 0 if nobody answered, if that is allowed.
LEMMA QuoteKeeps ==
  ASSUME IInv, Asking, request' = NoRequest, UNCHANGED <<kind, client, lastId, price>>,
         NEW told, NEW c \in Nat, c = (IF told = Unset THEN 0 ELSE told),
         Succeeds([query EXCEPT !.cost = c], told)
  PROVE  IInv'
  <1> DEFINE q == [query EXCEPT !.cost = c]
  <1>1. query' = [query EXCEPT !.cost = c, !.getCost = FALSE] /\ quoted' = told
        /\ unheard' = (told = Unset)
    BY DEF Succeeds, CostKnown, Asking, IInv, Typed
  <1>2. query' \in [payment : Amount, maxPayment : Amount, paymentId : Nat,
                    getCost : BOOLEAN, cost : Nat]
        /\ query'.getCost = FALSE /\ query'.cost = c /\ query'.maxPayment = query.maxPayment
    BY <1>1 DEF IInv, Typed
  <1>3. Limit' = Limit /\ Limit \in Nat
    BY <1>2, LimitIsNat DEF Limit, IInv
  <1>4. \/ frame' = "idle" /\ spoilt' = FALSE /\ outcome'.kind \in {"cost", "threw"}
        \/ frame' = "answer" /\ spoilt' = FALSE /\ ~spoilt /\ outcome' = outcome /\ ~(c > Limit)
    <2>1. CASE frame = "cost"
      BY <2>1 DEF Succeeds, Nothing
    <2>2. CASE frame = "quote"
      <3>1. ~spoilt /\ spoilt \in BOOLEAN /\ q.cost = c
        BY <2>2 DEF IInv, Typed, CostFlag
      <3>2. IF q.cost > Limit
              THEN Throws(FALSE)
              ELSE frame' = "answer" /\ attempt' = 1 /\ spoilt' = FALSE /\ UNCHANGED outcome
        BY <2>2 DEF Succeeds
      <3> HIDE DEF q
      <3>3. CASE c > Limit
        BY <3>1, <3>2, <3>3 DEF Throws, Nothing
      <3>4. CASE ~(c > Limit)
        BY <3>1, <3>2, <3>4
      <3>5. QED
        BY <3>3, <3>4
    <2>3. QED
      BY <2>1, <2>2 DEF Asking
  <1>5. Typed'
    <2>1. unheard' \in BOOLEAN
      BY <1>1
    <2>2. QED
      BY <1>2, <1>4, <2>1 DEF IInv, Typed
  <1>6. CostFlag'
    BY <1>2, <1>4 DEF CostFlag, Asking
  <1>7. Quoted'
    <2>1. frame' = "answer" => c <= Limit
      BY <1>3, <1>4
    <2>2. QED
      BY <1>1, <1>2, <1>3, <2>1 DEF Quoted
  <1>8. Current'
    BY DEF Current, NoRequest
  <1>9. AnswersArePaid'
    BY <1>4 DEF IInv, AnswersArePaid, isPaymentRequired
  <1>10. QED
    BY <1>5, <1>6, <1>7, <1>8, <1>9 DEF IInv

\* The answer that execute returns: the network has taken its payment.
LEMMA PaidKeeps ==
  ASSUME IInv, frame = "answer", request # NoRequest, request' = NoRequest,
         UNCHANGED <<kind, client, lastId, price>>,
         NEW q, q \in [payment : Amount, maxPayment : Amount, paymentId : Nat,
                       getCost : BOOLEAN, cost : Nat],
         NEW told, q.getCost = query.getCost, Succeeds(q, told),
         told # Unset /\ request.payment # NoPayment => request.payment \in ledger'
  PROVE  IInv'
  <1>1. query' = q /\ spoilt' = spoilt /\ frame' = "idle"
        /\ outcome' = [kind |-> "answer", type |-> request.type,
                       paid |-> request.payment \in ledger', unheard |-> told = Unset]
        /\ unheard' \in BOOLEAN
    BY DEF Succeeds
  <1>2. spoilt <=> query.getCost
    BY DEF IInv, CostFlag, Asking
  <1>3. Typed'
    BY <1>1 DEF IInv, Typed
  <1>4. CostFlag'
    BY <1>1, <1>2 DEF CostFlag, Asking
  <1>5. Quoted' /\ Current'
    BY <1>1 DEF Quoted, Current, NoRequest
  <1>6. AnswersArePaid'
    <2> SUFFICES ASSUME isPaymentRequired, told # Unset
                 PROVE  outcome'.paid \/ (spoilt' /\ outcome'.type = "COST_ANSWER")
      BY <1>1 DEF AnswersArePaid, isPaymentRequired
    <2>1. CASE query.getCost
      BY <1>1, <1>2, <2>1 DEF IInv, Current
    <2>2. CASE ~query.getCost
      BY <1>1, <2>2 DEF IInv, Current, Pays
    <2>3. QED
      BY <2>1, <2>2
  <1>7. QED
    BY <1>3, <1>4, <1>5, <1>6 DEF IInv

\* A response, or none, ends a cost query, ends the call, or leads to another attempt.
LEMMA HandleKeeps ==
  ASSUME IInv, request # NoRequest, request' = NoRequest, UNCHANGED <<kind, client, lastId, price>>,
         NEW status, NEW told, told \in Amount, NEW found, Handle(status, told, found),
         status = "OK" /\ told # Unset /\ request.payment # NoPayment => request.payment \in ledger'
  PROVE  IInv'
  <1> DEFINE c == IF told = Unset THEN 0 ELSE told
             q == saveCostFromHeader(c)
             what == determineStatus(status, found)
             Query_ == [payment : Amount, maxPayment : Amount, paymentId : Nat,
                        getCost : BOOLEAN, cost : Nat]
  <1>1. c \in Nat
    BY DEF Amount
  <1>2. frame # "idle"
    BY DEF IInv, Current
  <1>3. q \in Query_ /\ q.getCost = query.getCost /\ q.maxPayment = query.maxPayment
        /\ q = (IF query.getCost THEN [query EXCEPT !.cost = c] ELSE query)
    BY <1>1 DEF saveCostFromHeader, IInv, Typed
  <1>4. \/ what = "SUCCESS" /\ Succeeds(q, told)
        \/ query' = q /\ UNCHANGED <<quoted, unheard>> /\ (Retry \/ Throws(Asking))
    BY DEF Handle
  <1>5. what = "SUCCESS" => status = "OK"
    BY DEF determineStatus
  <1> HIDE DEF q, what
  <1>6. CASE what = "SUCCESS" /\ Succeeds(q, told)
    <2>1. CASE Asking
      <3>1. Succeeds([query EXCEPT !.cost = c], told)
        BY <1>3, <1>6, <2>1 DEF IInv, CostFlag
      <3> HIDE DEF c
      <3>2. QED
        BY <1>1, <2>1, <3>1, QuoteKeeps DEF c
    <2>2. CASE ~Asking
      <3>1. frame = "answer"
        BY <1>2, <2>2 DEF IInv, Typed, Asking
      <3>2. told # Unset /\ request.payment # NoPayment => request.payment \in ledger'
        BY <1>5, <1>6
      <3>3. QED
        BY <1>3, <1>6, <3>1, <3>2, PaidKeeps
    <2>3. QED
      BY <2>1, <2>2
  <1>7. CASE query' = q /\ UNCHANGED <<quoted, unheard>> /\ (Retry \/ Throws(Asking))
    BY <1>2, <1>3, <1>7, RetryKeeps
  <1>8. QED
    BY <1>4, <1>6, <1>7

\* What a node answers is handled after its payment was taken.
LEMMA AnswerKeeps ==
  ASSUME IInv, NEW status, NEW found, Answer(status, found)
  PROVE  IInv'
  <1> DEFINE told == IF status = "OK" /\ request.type = "COST_ANSWER" THEN price ELSE 0
  <1>1. request # NoRequest /\ request' = NoRequest /\ UNCHANGED <<kind, client, lastId, price>>
        /\ Handle(status, told, found)
    BY DEF Answer, userVars
  <1>2. told \in Amount
    BY DEF IInv, Typed, Amount
  <1>3. status = "OK" /\ request.payment # NoPayment => request.payment \in ledger'
    BY DEF Answer, Taken
  <1> HIDE DEF told
  <1>4. QED
    BY <1>1, <1>2, <1>3, HandleKeeps

\* A failed RPC leads to another attempt, or to a response that nobody filled in.
LEMMA FailureKeeps ==
  ASSUME IInv, Lost \/ Unanswered
  PROVE  IInv'
  <1>1. request # NoRequest /\ request' = NoRequest /\ UNCHANGED <<kind, client, lastId, price>>
    BY DEF Lost, Unanswered, Fails, userVars
  <1>2. CASE Lost
    BY <1>1, <1>2, RetryKeeps DEF Lost, IInv, Typed, Current
  <1>3. CASE Unanswered
    BY <1>1, <1>3, HandleKeeps, Amounts DEF Unanswered
  <1>4. QED
    BY <1>2, <1>3

\* One lemma for each kind of step, and none to disturb the rest.
LEMMA NextIInv == IInv /\ [Next]_vars => IInv'
  <1> SUFFICES ASSUME IInv, [Next]_vars PROVE IInv'
    OBVIOUS
  <1>1. ASSUME NEW node \in Nodes, Send(node) PROVE IInv'
    BY <1>1, SendKeeps
  <1>2. CASE PriceChanges
    <2>1. price' \in Nat /\ UNCHANGED <<kind, client, query, frame, request, outcome,
                                        lastId, quoted, unheard, spoilt>>
      BY <1>2, Amounts DEF PriceChanges, userVars, callVars
    <2>2. QED
      BY <2>1 DEF IInv, Typed, CostFlag, Quoted, Current, AnswersArePaid, Asking, Pays,
                  Limit, isPaymentRequired
  <1>3. CASE Done \/ UNCHANGED vars
    BY <1>3 DEF Done, vars, userVars, callVars, netVars, IInv, Typed, CostFlag, Quoted,
                Current, AnswersArePaid, Asking, Pays, Limit, isPaymentRequired
  <1>4. QED
    BY <1>1, <1>2, <1>3, SettersKeep, CallsKeep, AnswerKeeps, FailureKeeps DEF Next

\* It holds in every reachable state.
LEMMA Invariant == Spec => []IInv
  BY InitIInv, NextIInv, PTL DEF Spec

-----------------------------------------------------------------------------
(***************************************************************************)
(* The theorems.                                                           *)
(***************************************************************************)
\* A request pays exactly what this call's cost query was told, or 0 if its RPC
\* failed and was taken for an answer, within the limit of the user or the client
\* and to the node it goes to, whatever prices do and however often costs are
\* asked and requests are sent (Query::makeRequest, Executable.cc:229).
THEOREM PaymentAsQuoted == Spec => []PaysWhatItWasQuoted
  <1>1. IInv => PaysWhatItWasQuoted
    BY DEF IInv, Quoted, Current, PaysWhatItWasQuoted
  <1>2. QED
    BY <1>1, Invariant, PTL

\* What execute returns was paid for, or is the empty answer of a query that an
\* exception of getCost left a cost query (Query::getCost), or the empty response
\* of an RPC that failed (Executable.cc:229).
THEOREM AnswersPaid == Spec => []AnswersArePaid
  BY Invariant, PTL DEF IInv

-----------------------------------------------------------------------------
(***************************************************************************)
(* What a query asks, for any number of calls of its setters.              *)
(***************************************************************************)
\* The members the classes never send, and the ID one class does not check.
UnsentMembers    == {"TransactionRecord"} \X {"includeChildren", "includeDuplicates"}
UncheckedMembers == {<<"ContractCall", "senderAccountId">>}

\* The table of a class is complete: each member has a rule, each ID is checked,
\* and what is set is sent, unless a setter of another member resets it.
Checked(k, m, r) ==
  /\ \A f \in m.ids : f \in r.checked \/ <<k, f>> \in UncheckedMembers
  /\ r.checked \subseteq MembersOf(m)

Ruled(k, m, r) ==
  /\ DOMAIN r.rules = MembersOf(m)
  /\ \A f \in MembersOf(m) : "value" \in r.rules[f].unsent => <<k, f>> \in UnsentMembers

Separate(m, s, r) ==
  \A p \in r.oneofs :
    /\ p[1] \in m.absent /\ p[2] \in m.absent /\ p[1] # p[2]
    /\ "absent" \in r.rules[p[1]].unsent
    /\ \A t \in s : /\ p[1] \in t.assigns => p[2] \in t.clears \ t.assigns
                    /\ p[2] \in t.assigns => p[1] \in t.clears \ t.assigns

Complete(k) ==
  LET c == Table[k]
  IN  /\ Checked(k, c.members, c.request) /\ Ruled(k, c.members, c.request)
      /\ Separate(c.members, c.setters, c.request)

\* A rule is for the members it is given, and "value" goes on the wire.
LEMMA RuleFacts ==
  ASSUME NEW F
  PROVE  /\ DOMAIN Optional(F) = F /\ \A f \in F : Optional(F)[f].unsent = {"absent"}
         /\ DOMAIN Plain(F) = F /\ \A f \in F : Plain(F)[f].unsent = {"zero"}
         /\ DOMAIN Message(F) = F /\ \A f \in F : Message(F)[f].unsent = {}
         /\ DOMAIN Unwritten(F) = F
  BY DEF Optional, Plain, Message, Unwritten, Rule

\* Rules for other members are added.
LEMMA AddedRules ==
  ASSUME NEW a, NEW b
  PROVE  /\ DOMAIN (a ++ b) = DOMAIN a \cup DOMAIN b
         /\ \A f \in DOMAIN a : (a ++ b)[f] = a[f]
         /\ \A f \in DOMAIN b \ DOMAIN a : (a ++ b)[f] = b[f]
  BY DEF ++

\* A class of one ID, which is always sent.
LEMMA OneId ==
  ASSUME NEW k, NEW f,
         Table[k].members = [absent |-> {}, zero |-> {f}, preset |-> {}, ids |-> {f}],
         Table[k].request = [rules |-> Message({f}), oneofs |-> {}, checked |-> {f}]
  PROVE  Complete(k)
  BY RuleFacts DEF Complete, Checked, Ruled, Separate, MembersOf

\* The two IDs share a oneof, and each setter resets the other.
LEMMA AccountBalanceComplete == Complete("AccountBalance")
  <1> DEFINE m == Table["AccountBalance"].members
             s == Table["AccountBalance"].setters
             r == Table["AccountBalance"].request
  <1>1. /\ m = AccountBalanceQueryMembers /\ s = AccountBalanceQuerySetters
        /\ r = AccountBalanceQueryRequest
    BY DEF Table, Class
  <1>2. DOMAIN r.rules = {"accountId", "contractId"}
        /\ \A f \in {"accountId", "contractId"} : r.rules[f].unsent = {"absent"}
    BY <1>1, RuleFacts DEF AccountBalanceQueryRequest
  <1>3. /\ r.oneofs = {<<"contractId", "accountId">>} /\ r.checked = {"accountId", "contractId"}
        /\ m.absent = {"accountId", "contractId"} /\ m.ids = {"accountId", "contractId"}
        /\ MembersOf(m) = {"accountId", "contractId"}
    BY <1>1 DEF AccountBalanceQueryRequest, AccountBalanceQueryMembers, MembersOf
  <1>4. \A t \in s : \/ t.assigns = {"accountId"} /\ t.clears = {"contractId"}
                     \/ t.assigns = {"contractId"} /\ t.clears = {"accountId"}
    BY <1>1 DEF AccountBalanceQuerySetters, Exclusive, Setter
  <1> HIDE DEF m, s, r
  <1>5. Checked("AccountBalance", m, r) /\ Ruled("AccountBalance", m, r)
    BY <1>2, <1>3 DEF Checked, Ruled
  <1>6. Separate(m, s, r)
    BY <1>2, <1>3, <1>4 DEF Separate
  <1>7. QED
    BY <1>5, <1>6 DEF Complete, m, s, r

\* The sender is sent and not checked.
LEMMA ContractCallComplete == Complete("ContractCall")
  <1> DEFINE m == Table["ContractCall"].members
             s == Table["ContractCall"].setters
             r == Table["ContractCall"].request
  <1>1. /\ m = ContractCallQueryMembers /\ s = ContractCallQuerySetters
        /\ r = ContractCallQueryRequest
    BY DEF Table, Class
  <1> DEFINE A == Message({"contractId"})
             B == Plain({"gas", "functionParameters"})
             D == Optional({"senderAccountId"})
             E == A ++ B
             J == E ++ D
  <1>2. r.rules = J /\ r.oneofs = {} /\ r.checked = {"contractId"}
    BY <1>1 DEF ContractCallQueryRequest
  <1>3. /\ MembersOf(m) = {"senderAccountId", "contractId", "functionParameters", "gas"}
        /\ m.ids = {"contractId", "senderAccountId"}
    BY <1>1 DEF ContractCallQueryMembers, MembersOf
  <1>4. /\ DOMAIN A = {"contractId"} /\ A["contractId"].unsent = {}
        /\ DOMAIN B = {"gas", "functionParameters"}
        /\ B["gas"].unsent = {"zero"} /\ B["functionParameters"].unsent = {"zero"}
        /\ DOMAIN D = {"senderAccountId"} /\ D["senderAccountId"].unsent = {"absent"}
    BY RuleFacts
  <1>5. /\ DOMAIN E = DOMAIN A \cup DOMAIN B
        /\ \A f \in DOMAIN A : E[f] = A[f]
        /\ \A f \in DOMAIN B \ DOMAIN A : E[f] = B[f]
    BY AddedRules
  <1>6. /\ DOMAIN J = DOMAIN E \cup DOMAIN D
        /\ \A f \in DOMAIN E : J[f] = E[f]
        /\ \A f \in DOMAIN D \ DOMAIN E : J[f] = D[f]
    BY AddedRules
  <1> HIDE DEF m, s, r, A, B, D, E, J
  <1>7. /\ DOMAIN E = {"contractId", "gas", "functionParameters"}
        /\ E["contractId"].unsent = {}
        /\ E["gas"].unsent = {"zero"} /\ E["functionParameters"].unsent = {"zero"}
    BY <1>4, <1>5
  <1>8. /\ DOMAIN J = {"contractId", "senderAccountId", "gas", "functionParameters"}
        /\ J["contractId"].unsent = {} /\ J["senderAccountId"].unsent = {"absent"}
        /\ J["gas"].unsent = {"zero"} /\ J["functionParameters"].unsent = {"zero"}
    BY <1>4, <1>6, <1>7
  <1>9. Ruled("ContractCall", m, r)
    BY <1>2, <1>3, <1>8 DEF Ruled
  <1>10. Checked("ContractCall", m, r) /\ Separate(m, s, r)
    BY <1>2, <1>3 DEF Checked, Separate, UncheckedMembers
  <1>11. QED
    BY <1>9, <1>10 DEF Complete, m, s, r

\* There is nothing to ask for.
LEMMA NetworkVersionInfoComplete == Complete("NetworkVersionInfo")
  <1> DEFINE m == Table["NetworkVersionInfo"].members
             s == Table["NetworkVersionInfo"].setters
             r == Table["NetworkVersionInfo"].request
  <1>1. /\ m = NetworkVersionInfoQueryMembers /\ s = NetworkVersionInfoQuerySetters
        /\ r = NetworkVersionInfoQueryRequest
    BY DEF Table, Class
  <1>2. DOMAIN r.rules = {} /\ r.oneofs = {} /\ r.checked = {} /\ m.ids = {} /\ MembersOf(m) = {}
    BY <1>1 DEF NetworkVersionInfoQueryRequest, NetworkVersionInfoQueryMembers, Holding, MembersOf
  <1> HIDE DEF m, s, r
  <1>3. Checked("NetworkVersionInfo", m, r) /\ Ruled("NetworkVersionInfo", m, r) /\ Separate(m, s, r)
    BY <1>2 DEF Checked, Ruled, Separate
  <1>4. QED
    BY <1>3 DEF Complete, m, s, r

\* Both flags are sent.
LEMMA TransactionReceiptComplete == Complete("TransactionReceipt")
  <1> DEFINE m == Table["TransactionReceipt"].members
             s == Table["TransactionReceipt"].setters
             r == Table["TransactionReceipt"].request
  <1>1. /\ m = TransactionReceiptQueryMembers /\ s = TransactionReceiptQuerySetters
        /\ r = TransactionReceiptQueryRequest
    BY DEF Table, Class
  <1> DEFINE A == Optional({"transactionId"})
             B == Plain({"includeChildren", "includeDuplicates"})
             J == A ++ B
  <1>2. r.rules = J /\ r.oneofs = {} /\ r.checked = {"transactionId"}
    BY <1>1 DEF TransactionReceiptQueryRequest
  <1>3. /\ MembersOf(m) = {"transactionId", "includeChildren", "includeDuplicates"}
        /\ m.ids = {"transactionId"}
    BY <1>1 DEF TransactionReceiptQueryMembers, MembersOf
  <1>4. /\ DOMAIN A = {"transactionId"} /\ A["transactionId"].unsent = {"absent"}
        /\ DOMAIN B = {"includeChildren", "includeDuplicates"}
        /\ B["includeChildren"].unsent = {"zero"} /\ B["includeDuplicates"].unsent = {"zero"}
    BY RuleFacts
  <1>5. /\ DOMAIN J = DOMAIN A \cup DOMAIN B
        /\ \A f \in DOMAIN A : J[f] = A[f]
        /\ \A f \in DOMAIN B \ DOMAIN A : J[f] = B[f]
    BY AddedRules
  <1> HIDE DEF m, s, r, A, B, J
  <1>6. /\ DOMAIN J = {"transactionId", "includeChildren", "includeDuplicates"}
        /\ J["transactionId"].unsent = {"absent"}
        /\ J["includeChildren"].unsent = {"zero"} /\ J["includeDuplicates"].unsent = {"zero"}
    BY <1>4, <1>5
  <1>7. Ruled("TransactionReceipt", m, r)
    BY <1>2, <1>3, <1>6 DEF Ruled
  <1>8. Checked("TransactionReceipt", m, r) /\ Separate(m, s, r)
    BY <1>2, <1>3 DEF Checked, Separate
  <1>9. QED
    BY <1>7, <1>8 DEF Complete, m, s, r

\* Both flags are left out.
LEMMA TransactionRecordComplete == Complete("TransactionRecord")
  <1> DEFINE m == Table["TransactionRecord"].members
             s == Table["TransactionRecord"].setters
             r == Table["TransactionRecord"].request
  <1>1. /\ m = TransactionRecordQueryMembers /\ s = TransactionRecordQuerySetters
        /\ r = TransactionRecordQueryRequest
    BY DEF Table, Class
  <1> DEFINE A == Optional({"transactionId"})
             B == Unwritten({"includeChildren", "includeDuplicates"})
             J == A ++ B
  <1>2. r.rules = J /\ r.oneofs = {} /\ r.checked = {"transactionId"}
    BY <1>1 DEF TransactionRecordQueryRequest
  <1>3. /\ MembersOf(m) = {"transactionId", "includeChildren", "includeDuplicates"}
        /\ m.ids = {"transactionId"}
    BY <1>1 DEF TransactionRecordQueryMembers, MembersOf
  <1>4. /\ DOMAIN A = {"transactionId"} /\ A["transactionId"].unsent = {"absent"}
        /\ DOMAIN B = {"includeChildren", "includeDuplicates"}
    BY RuleFacts
  <1>5. /\ DOMAIN J = DOMAIN A \cup DOMAIN B
        /\ \A f \in DOMAIN A : J[f] = A[f]
        /\ \A f \in DOMAIN B \ DOMAIN A : J[f] = B[f]
    BY AddedRules
  <1> HIDE DEF m, s, r, A, B, J
  <1>6. /\ DOMAIN J = {"transactionId", "includeChildren", "includeDuplicates"}
        /\ J["transactionId"].unsent = {"absent"}
    BY <1>4, <1>5
  <1>7. Ruled("TransactionRecord", m, r)
    BY <1>2, <1>3, <1>6 DEF Ruled, UnsentMembers
  <1>8. Checked("TransactionRecord", m, r) /\ Separate(m, s, r)
    BY <1>2, <1>3 DEF Checked, Separate
  <1>9. QED
    BY <1>7, <1>8 DEF Complete, m, s, r

\* Every class is complete, but for the members above.
LEMMA ClassesComplete ==
  ASSUME NEW k \in Kinds
  PROVE  Complete(k)
  <1>1. Complete("AccountInfo")
    BY OneId DEF Table, Class, AccountInfoQueryMembers, AccountInfoQueryRequest
  <1>2. Complete("AccountRecords")
    BY OneId DEF Table, Class, AccountRecordsQueryMembers, AccountRecordsQueryRequest
  <1>3. Complete("ContractByteCode")
    BY OneId DEF Table, Class, ContractByteCodeQueryMembers, ContractByteCodeQueryRequest
  <1>4. Complete("ContractInfo")
    BY OneId DEF Table, Class, ContractInfoQueryMembers, ContractInfoQueryRequest
  <1>5. Complete("FileContents")
    BY OneId DEF Table, Class, FileContentsQueryMembers, FileContentsQueryRequest
  <1>6. Complete("FileInfo")
    BY OneId DEF Table, Class, FileInfoQueryMembers, FileInfoQueryRequest
  <1>7. Complete("ScheduleInfo")
    BY OneId DEF Table, Class, ScheduleInfoQueryMembers, ScheduleInfoQueryRequest
  <1>8. Complete("TokenInfo")
    BY OneId DEF Table, Class, TokenInfoQueryMembers, TokenInfoQueryRequest
  <1>9. Complete("TokenNftInfo")
    BY OneId DEF Table, Class, TokenNftInfoQueryMembers, TokenNftInfoQueryRequest
  <1>10. Complete("TopicInfo")
    BY OneId DEF Table, Class, TopicInfoQueryMembers, TopicInfoQueryRequest
  <1>11. QED
    BY <1>1, <1>2, <1>3, <1>4, <1>5, <1>6, <1>7, <1>8, <1>9, <1>10,
       AccountBalanceComplete, ContractCallComplete, NetworkVersionInfoComplete,
       TransactionReceiptComplete, TransactionRecordComplete
       DEF Kinds, Table

\* What is asked is what the members say now; between the calls a setter may
\* change them, and inside a call the IDs were checked.
Asked ==
  /\ kind \in Kinds
  /\ DOMAIN fields = MembersOf(Table[kind].members)
  /\ \A f \in DOMAIN fields : fields[f] = "bad" => f \in Table[kind].members.ids
  /\ \A p \in Request_.oneofs : "absent" \in {fields[p[1]], fields[p[2]]}
  /\ frame # "idle" => ~Misdirected
  /\ request # NoRequest => frame # "idle" /\ request.body = Written(Request_, fields)

\* A query has no ID yet, and neither member of a oneof.
LEMMA InitAsked == Init => Asked
  <1> SUFFICES ASSUME Init PROVE Asked
    OBVIOUS
  <1> DEFINE m == Table[kind].members
             r == Table[kind].request
  <1>1. kind \in Kinds /\ fields = Initially(m) /\ frame = "idle" /\ request = NoRequest
    BY DEF Init
  <1>2. Separate(m, Table[kind].setters, r)
    BY <1>1, ClassesComplete DEF Complete
  <1> HIDE DEF m, r
  <1>3. DOMAIN fields = MembersOf(m) /\ \A f \in DOMAIN fields : fields[f] # "bad"
    BY <1>1 DEF Initially
  <1>4. \A p \in r.oneofs : fields[p[1]] = "absent"
    BY <1>1, <1>2 DEF Separate, Initially, MembersOf
  <1>5. QED
    BY <1>1, <1>3, <1>4 DEF Asked, Request_, m, r

\* A setter leaves a bad checksum to an ID only, and resets the other member of
\* a oneof.
LEMMA AssignedFacts ==
  ASSUME NEW k \in Kinds, NEW now, NEW s \in Table[k].setters, NEW v,
         DOMAIN now = MembersOf(Table[k].members),
         \A f \in DOMAIN now : now[f] = "bad" => f \in Table[k].members.ids,
         \A p \in Table[k].request.oneofs : "absent" \in {now[p[1]], now[p[2]]}
  PROVE  LET next == Assigned(Table[k].members, now, s, v)
         IN  /\ DOMAIN next = DOMAIN now
             /\ \A f \in DOMAIN next : next[f] = "bad" => f \in Table[k].members.ids
             /\ \A p \in Table[k].request.oneofs : "absent" \in {next[p[1]], next[p[2]]}
  <1> DEFINE m    == Table[k].members
             next == Assigned(m, now, s, v)
  <1>1. Separate(m, Table[k].setters, Table[k].request)
    BY ClassesComplete DEF Complete
  <1> HIDE DEF m
  <1>2. /\ DOMAIN next = DOMAIN now
        /\ \A f \in DOMAIN now :
             next[f] = IF f \in s.assigns THEN Given(m, f, v)
                       ELSE IF f \in s.clears THEN IF f \in m.absent THEN "absent" ELSE "zero"
                       ELSE now[f]
    BY DEF Assigned
  <1>3. DOMAIN now = MembersOf(m) /\ \A f \in DOMAIN now : now[f] = "bad" => f \in m.ids
    BY DEF m
  <1> HIDE DEF next
  <1>4. \A f \in DOMAIN next : next[f] = "bad" => f \in m.ids
    BY <1>2, <1>3 DEF Given
  <1>5. ASSUME NEW p \in Table[k].request.oneofs
        PROVE  "absent" \in {next[p[1]], next[p[2]]}
    <2>1. /\ p[1] \in m.absent /\ p[2] \in m.absent
          /\ p[1] \in s.assigns => p[2] \in s.clears \ s.assigns
          /\ p[2] \in s.assigns => p[1] \in s.clears \ s.assigns
      BY <1>1 DEF Separate
    <2>2. p[1] \in DOMAIN now /\ p[2] \in DOMAIN now
      BY <1>3, <2>1 DEF MembersOf
    <2>3. "absent" \in {now[p[1]], now[p[2]]}
      OBVIOUS
    <2>4. QED
      BY <1>2, <2>1, <2>2, <2>3
  <1>6. QED
    BY <1>2, <1>4, <1>5 DEF m, next

\* The setters are refused while a query is under way.
LEMMA SetAsked ==
  ASSUME Asked, NEW s \in Table[kind].setters, NEW v, Set(s, v)
  PROVE  Asked'
  <1>1. /\ frame = "idle" /\ request = NoRequest /\ kind \in Kinds
        /\ UNCHANGED <<kind, frame, request>>
        /\ fields' = Assigned(Table[kind].members, fields, s, v)
    BY DEF Asked, Set, Setting, callVars
  <1>2. /\ DOMAIN fields' = DOMAIN fields
        /\ \A f \in DOMAIN fields' : fields'[f] = "bad" => f \in Table[kind].members.ids
        /\ \A p \in Table[kind].request.oneofs : "absent" \in {fields'[p[1]], fields'[p[2]]}
    BY <1>1, AssignedFacts DEF Asked, Request_
  <1>3. QED
    BY <1>1, <1>2 DEF Asked, Request_

\* Whatever leaves the members alone, lets none but a checked query in, and sends
\* none but what they say.
LEMMA MembersKept ==
  ASSUME Asked, UNCHANGED <<kind, client, fields>>,
         frame' # "idle" => frame # "idle" \/ ~Misdirected,
         request' # NoRequest =>
           frame' # "idle" /\ (request' = request \/ request'.body = Written(Request_, fields))
  PROVE  Asked'
  <1>1. Misdirected' <=> Misdirected
    BY DEF Misdirected, Request_
  <1>2. Request_' = Request_ /\ Written(Request_, fields)' = Written(Request_, fields)
    BY DEF Request_, Written
  <1>3. QED
    BY <1>1, <1>2 DEF Asked

\* Every step of the query keeps it.
LEMMA NextAsked ==
  ASSUME Asked, [Next]_vars
  PROVE  Asked'
  <1>1. ASSUME NEW s \in Table[kind].setters, NEW v \in {"value", "bad"}, Set(s, v)
        PROVE  Asked'
    BY <1>1, SetAsked
  <1>2. CASE \/ \E amount \in Limits : setQueryPayment(amount) \/ setMaxQueryPayment(amount)
             \/ setPaymentTransactionId
    <2>1. UNCHANGED <<kind, client, fields, frame, request>>
      BY <1>2 DEF setQueryPayment, setMaxQueryPayment, setPaymentTransactionId, SetQuery, callVars
    <2>2. QED
      BY <2>1, MembersKept DEF Asked
  <1>3. CASE getCost \/ Execute
    <2>1. /\ UNCHANGED <<kind, client, fields, request>> /\ request = NoRequest
          /\ frame' # "idle" => ~Misdirected
      BY <1>3 DEF Asked, getCost, Execute, Call, Throws, userVars
    <2>2. QED
      BY <2>1, MembersKept
  <1>4. ASSUME NEW node \in Nodes, Send(node)
        PROVE  Asked'
    <2>1. /\ UNCHANGED <<kind, client, fields>> /\ frame # "idle" /\ request = NoRequest
          /\ \/ request' = NoRequest
             \/ request' = makeRequest(node) /\ frame' = frame
      BY <1>4 DEF Send, userVars
    <2>2. makeRequest(node).body = Written(Request_, fields)
      BY DEF makeRequest
    <2>3. QED
      BY <2>1, <2>2, MembersKept
  <1>5. ASSUME NEW status, NEW found, Answer(status, found)
        PROVE  Asked'
    <2>1. request # NoRequest /\ request' = NoRequest /\ UNCHANGED <<kind, client, fields>>
      BY <1>5 DEF Answer, userVars
    <2>2. QED
      BY <2>1, MembersKept DEF Asked
  <1>6. CASE Lost \/ Unanswered
    <2>1. request # NoRequest /\ request' = NoRequest /\ UNCHANGED <<kind, client, fields>>
      BY <1>6 DEF Lost, Unanswered, Fails, userVars
    <2>2. QED
      BY <2>1, MembersKept DEF Asked
  <1>7. CASE PriceChanges \/ Done \/ UNCHANGED vars
    <2>1. UNCHANGED <<kind, client, fields, frame, request>>
      BY <1>7 DEF PriceChanges, Done, vars, userVars, callVars
    <2>2. QED
      BY <2>1, MembersKept DEF Asked
  <1>8. QED
    BY <1>1, <1>2, <1>3, <1>4, <1>5, <1>6, <1>7 DEF Next

\* What is set is sent, and a bad checksum of a checked ID stops the call.
LEMMA AskedIsSet ==
  ASSUME Asked, UnsentMembers \subseteq Known.unsent, UncheckedMembers \subseteq Known.unchecked
  PROVE  AsksWhatWasSet
  <1> SUFFICES ASSUME request # NoRequest, NEW f \in DOMAIN fields
               PROVE  /\ fields[f] = "value" =>
                           request.body[f] = "value" \/ <<kind, f>> \in UnsentMembers
                      /\ fields[f] = "bad" =>
                           ~client.validates \/ <<kind, f>> \in UncheckedMembers
    BY DEF AsksWhatWasSet
  <1> DEFINE m == Table[kind].members
             s == Table[kind].setters
             r == Table[kind].request
  <1>1. Checked(kind, m, r) /\ Ruled(kind, m, r) /\ Separate(m, s, r)
    BY ClassesComplete DEF Asked, Complete
  <1>2. /\ DOMAIN fields = MembersOf(m) /\ request.body = Written(r, fields) /\ ~Misdirected
        /\ \A p \in r.oneofs : "absent" \in {fields[p[1]], fields[p[2]]}
        /\ fields[f] = "bad" => f \in m.ids
    BY DEF Asked, Request_
  <1>3. client.validates => \A g \in r.checked : fields[g] # "bad"
    BY <1>2 DEF Misdirected, Request_
  <1> HIDE DEF m, s, r
  <1>4. ASSUME fields[f] = "value", <<kind, f>> \notin UnsentMembers
        PROVE  request.body[f] = "value"
    <2>1. f \in DOMAIN r.rules /\ fields[f] \notin r.rules[f].unsent
      BY <1>1, <1>2, <1>4 DEF Ruled
    <2>2. ASSUME NEW k \in DOMAIN fields, <<k, f>> \in r.oneofs
          PROVE  fields[k] \in r.rules[k].unsent
      <3>1. fields[k] = "absent"
        BY <1>2, <1>4, <2>2
      <3>2. "absent" \in r.rules[k].unsent
        BY <1>1, <2>2 DEF Separate
      <3>3. QED
        BY <3>1, <3>2
    <2>3. QED
      BY <1>2, <1>4, <2>1, <2>2 DEF Written, OnWire
  <1>5. ASSUME fields[f] = "bad", <<kind, f>> \notin UncheckedMembers
        PROVE  ~client.validates
    BY <1>1, <1>2, <1>3, <1>5 DEF Checked
  <1>6. QED
    BY <1>4, <1>5

\* A node is asked for all that the user set, whatever setters were called in
\* whatever order between the calls, and a client that validates sends no ID of
\* another ledger: but for the two flags TransactionRecordQuery never sends, and
\* the sender ContractCallQuery never checks (Query.cc, the buildRequest and
\* validateChecksums of each class).
THEOREM AsksAll ==
  ASSUME UnsentMembers \subseteq Known.unsent, UncheckedMembers \subseteq Known.unchecked
  PROVE  Spec => []AsksWhatWasSet
  <1>1. Init => Asked
    BY InitAsked
  <1>2. Asked /\ [Next]_vars => Asked'
    BY NextAsked
  <1>3. Asked => AsksWhatWasSet
    BY AskedIsSet
  <1>4. QED
    BY <1>1, <1>2, <1>3, PTL DEF Spec

-----------------------------------------------------------------------------
(***************************************************************************)
(* What is kept of an answer: NetworkObjects, for any fields sent.         *)
(***************************************************************************)
CONSTANTS MaxFields, Losses
VARIABLES class, sent, wire, members, shown, phase

Objects == INSTANCE NetworkObjects WITH kind <- class, fields <- members, Known <- Losses

\* The members that are not read, not written back, or dereferenced though they
\* may not be there (README, Findings).
UnreadMembers ==
  {<<"DelegateContractId", "evmAddress">>, <<"Key", "delegatableContractId">>,
   <<"BlockNodeServiceEndpoint", "otherEndpointApis">>}
UnwrittenMembers ==
  {<<"AccountBalance", "tokens">>, <<"TopicInfo", "feeCollectors">>,
   <<"TokenTransfer", "tokenId">>, <<"TokenTransfer", "expectedDecimals">>,
   <<"TokenNftTransfer", "tokenId">>,
   <<"TransactionReceipt", "transactionId">>, <<"TransactionReceipt", "nextRate">>,
   <<"TransactionReceipt", "tokenId">>, <<"TransactionReceipt", "duplicates">>,
   <<"TransactionReceipt", "children">>,
   <<"TransactionRecord", "pendingAirdropRecords">>, <<"TransactionRecord", "duplicates">>,
   <<"TransactionRecord", "children">>}
CrashingMembers ==
  {"TokenInfo"} \X {"adminKey", "kycKey", "freezeKey", "wipeKey", "supplyKey",
                    "feeScheduleKey", "pauseKey", "metadataKey"}

\* What the constructor makes of member f.
Start(m, f) == IF f \in m.absent THEN "absent" ELSE IF f \in m.zero THEN "zero" ELSE "preset"

\* A member that shows what was sent and is written as it is shown; one that is
\* never read; one that is never written.
Returned(m, f, r) ==
  \/ r.unsent = {} /\ r.unread = {"none"}
  \/ r.unsent = {"absent"} /\ r.unread = {"none"} /\ Start(m, f) = "absent"
  \/ r.unsent = {"zero"} /\ r.unread = {}
  \/ r.unsent = {"zero"} /\ r.unread = {"none"} /\ Start(m, f) = "zero"
  \/ r.unsent = {"absent", "zero"} /\ r.unread = {}
  \/ r.unsent = {"absent", "zero"} /\ r.unread = {"none"} /\ Start(m, f) = "absent"
Unseen(m, f, r) ==
  r.unsent = {"absent", "zero"} /\ r.unread = Objects!Wire /\ Start(m, f) = "absent"
Unkept(r) == r.unsent = Objects!Values /\ r.unread \in {{}, {"none"}}

\* Each member of class k has a rule; the first of a oneof is not written unless
\* it was sent, and each alternative of a variant is kept.
Whole(k, m, b) ==
  /\ DOMAIN b.rules = m.absent \cup m.zero \cup m.preset
  /\ \A f \in DOMAIN b.rules :
       /\ b.rules[f].chunks = "one"
       /\ \/ Returned(m, f, b.rules[f])
          \/ <<k, f>> \in UnreadMembers /\ Unseen(m, f, b.rules[f])
          \/ <<k, f>> \in UnwrittenMembers /\ Unkept(b.rules[f])
       /\ b.rules[f].required => <<k, f>> \in CrashingMembers
  /\ \A p \in b.oneofs :
       /\ p[1] \in DOMAIN b.rules /\ p[2] \in DOMAIN b.rules /\ p[1] # p[2]
       /\ IF "none" \in b.rules[p[1]].unread THEN Start(m, p[1]) \in b.rules[p[1]].unsent
          ELSE "zero" \in b.rules[p[1]].unsent
       /\ b.variants # {} => \A f \in {p[1], p[2]} : f \in b.variants \/ <<k, f>> \in UnreadMembers
  /\ \A v \in b.variants :
       /\ v \in DOMAIN b.rules /\ b.rules[v].unsent = {"absent"} /\ b.rules[v].unread = {"none"}
  /\ k = "TransactionRecord" =>
       \A f \in {"receipt", "transactionId"} :
         /\ f \in DOMAIN b.rules /\ b.rules[f].unsent = {"absent"} /\ b.rules[f].unread = {"none"}
         /\ Start(m, f) = "absent" /\ \A p \in b.oneofs : f \notin {p[1], p[2]}

\* Rules for other members are added.
LEMMA AddedObjectRules ==
  ASSUME NEW a, NEW c
  PROVE  LET j == Objects!++(a, c)
         IN  /\ DOMAIN j = DOMAIN a \cup DOMAIN c
             /\ \A f \in DOMAIN a : j[f] = a[f]
             /\ \A f \in DOMAIN c \ DOMAIN a : j[f] = c[f]
  BY DEF Objects!++

(***************************************************************************)
(* The rules of every class are whole: one lemma for each class.           *)
(***************************************************************************)
USE DEF Whole, Returned, Unseen, Unkept, Start, UnreadMembers, UnwrittenMembers, CrashingMembers,
        Objects!Holding, Objects!OneOf, Objects!Carrying, Objects!Inheriting, Objects!Extending, Objects!Rule,
        Objects!Optional, Objects!Plain, Objects!Message, Objects!Nonzero, Objects!OptionalScalar,
        Objects!Unread, Objects!Unwritten, Objects!Positive, Objects!Dropped, Objects!Dereferenced,
        Objects!Values, Objects!Wire, Objects!++

LEMMA AccountIdWhole == Whole("AccountId", Objects!AccountIdMembers, Objects!AccountIdMessage)
  BY DEF Objects!AccountIdMembers, Objects!AccountIdMessage

LEMMA ContractIdWhole == Whole("ContractId", Objects!ContractIdMembers, Objects!ContractIdMessage)
  BY DEF Objects!ContractIdMembers, Objects!ContractIdMessage

LEMMA DelegateContractIdWhole == Whole("DelegateContractId", Objects!DelegateContractIdMembers, Objects!DelegateContractIdMessage)
  <1> DEFINE m == Objects!DelegateContractIdMembers
             b == Objects!DelegateContractIdMessage
  <1>1. DOMAIN b.rules = m.absent \cup m.zero \cup m.preset
    BY DEF Objects!DelegateContractIdMembers, Objects!DelegateContractIdMessage,
           Objects!ContractIdMembers, Objects!ContractIdMessage
  <1>2. ASSUME NEW f \in DOMAIN b.rules
        PROVE  /\ b.rules[f].chunks = "one"
               /\ \/ Returned(m, f, b.rules[f])
                  \/ <<"DelegateContractId", f>> \in UnreadMembers /\ Unseen(m, f, b.rules[f])
                  \/ <<"DelegateContractId", f>> \in UnwrittenMembers /\ Unkept(b.rules[f])
               /\ b.rules[f].required => <<"DelegateContractId", f>> \in CrashingMembers
    BY DEF Objects!DelegateContractIdMembers, Objects!DelegateContractIdMessage,
           Objects!ContractIdMembers, Objects!ContractIdMessage
  <1>3. ASSUME NEW p \in b.oneofs
        PROVE  /\ p[1] \in DOMAIN b.rules /\ p[2] \in DOMAIN b.rules /\ p[1] # p[2]
               /\ IF "none" \in b.rules[p[1]].unread THEN Start(m, p[1]) \in b.rules[p[1]].unsent
                  ELSE "zero" \in b.rules[p[1]].unsent
    BY DEF Objects!DelegateContractIdMembers, Objects!DelegateContractIdMessage,
           Objects!ContractIdMembers, Objects!ContractIdMessage
  <1>4. b.variants = {}
    BY DEF Objects!DelegateContractIdMembers, Objects!DelegateContractIdMessage,
           Objects!ContractIdMembers, Objects!ContractIdMessage
  <1> HIDE DEF m, b
  <1>5. QED
    BY <1>1, <1>2, <1>3, <1>4 DEF m, b

LEMMA FileIdWhole == Whole("FileId", Objects!FileIdMembers, Objects!FileIdMessage)
  BY DEF Objects!FileIdMembers, Objects!FileIdMessage

LEMMA NftIdWhole == Whole("NftId", Objects!NftIdMembers, Objects!NftIdMessage)
  BY DEF Objects!NftIdMembers, Objects!NftIdMessage

LEMMA ScheduleIdWhole == Whole("ScheduleId", Objects!ScheduleIdMembers, Objects!ScheduleIdMessage)
  BY DEF Objects!ScheduleIdMembers, Objects!ScheduleIdMessage

LEMMA TokenIdWhole == Whole("TokenId", Objects!TokenIdMembers, Objects!TokenIdMessage)
  BY DEF Objects!TokenIdMembers, Objects!TokenIdMessage

LEMMA TopicIdWhole == Whole("TopicId", Objects!TopicIdMembers, Objects!TopicIdMessage)
  BY DEF Objects!TopicIdMembers, Objects!TopicIdMessage

LEMMA TransactionIdWhole == Whole("TransactionId", Objects!TransactionIdMembers, Objects!TransactionIdMessage)
  BY DEF Objects!TransactionIdMembers, Objects!TransactionIdMessage

LEMMA KeyWhole == Whole("Key", Objects!KeyMembers, Objects!KeyMessage)
  BY DEF Objects!KeyMembers, Objects!KeyMessage

LEMMA KeyListWhole == Whole("KeyList", Objects!KeyListMembers, Objects!KeyListMessage)
  BY DEF Objects!KeyListMembers, Objects!KeyListMessage

LEMMA AccountBalanceWhole == Whole("AccountBalance", Objects!AccountBalanceMembers, Objects!AccountBalanceMessage)
  BY DEF Objects!AccountBalanceMembers, Objects!AccountBalanceMessage

LEMMA AccountInfoWhole == Whole("AccountInfo", Objects!AccountInfoMembers, Objects!AccountInfoMessage)
  <1> DEFINE m == Objects!AccountInfoMembers
             b == Objects!AccountInfoMessage
  <1>1. DOMAIN b.rules = m.absent \cup m.zero \cup m.preset
    BY DEF Objects!AccountInfoMembers, Objects!AccountInfoMessage
  <1>2. ASSUME NEW f \in DOMAIN b.rules
        PROVE  /\ b.rules[f].chunks = "one"
               /\ \/ Returned(m, f, b.rules[f])
                  \/ <<"AccountInfo", f>> \in UnreadMembers /\ Unseen(m, f, b.rules[f])
                  \/ <<"AccountInfo", f>> \in UnwrittenMembers /\ Unkept(b.rules[f])
               /\ b.rules[f].required => <<"AccountInfo", f>> \in CrashingMembers
    BY DEF Objects!AccountInfoMembers, Objects!AccountInfoMessage
  <1>3. ASSUME NEW p \in b.oneofs
        PROVE  /\ p[1] \in DOMAIN b.rules /\ p[2] \in DOMAIN b.rules /\ p[1] # p[2]
               /\ IF "none" \in b.rules[p[1]].unread THEN Start(m, p[1]) \in b.rules[p[1]].unsent
                  ELSE "zero" \in b.rules[p[1]].unsent
    BY DEF Objects!AccountInfoMembers, Objects!AccountInfoMessage
  <1>4. b.variants = {}
    BY DEF Objects!AccountInfoMembers, Objects!AccountInfoMessage
  <1> HIDE DEF m, b
  <1>5. QED
    BY <1>1, <1>2, <1>3, <1>4 DEF m, b

LEMMA AccountRecordsWhole == Whole("AccountRecords", Objects!AccountRecordsMembers, Objects!AccountRecordsMessage)
  BY DEF Objects!AccountRecordsMembers, Objects!AccountRecordsMessage

LEMMA HbarAllowanceWhole == Whole("HbarAllowance", Objects!HbarAllowanceMembers, Objects!HbarAllowanceMessage)
  BY DEF Objects!HbarAllowanceMembers, Objects!HbarAllowanceMessage

LEMMA HbarTransferWhole == Whole("HbarTransfer", Objects!HbarTransferMembers, Objects!HbarTransferMessage)
  <1> DEFINE m == Objects!HbarTransferMembers
             b == Objects!HbarTransferMessage
  <1>1. DOMAIN b.rules = m.absent \cup m.zero \cup m.preset
    BY DEF Objects!HbarTransferMembers, Objects!HbarTransferMessage
  <1>2. ASSUME NEW f \in DOMAIN b.rules
        PROVE  /\ b.rules[f].chunks = "one"
               /\ \/ Returned(m, f, b.rules[f])
                  \/ <<"HbarTransfer", f>> \in UnreadMembers /\ Unseen(m, f, b.rules[f])
                  \/ <<"HbarTransfer", f>> \in UnwrittenMembers /\ Unkept(b.rules[f])
               /\ b.rules[f].required => <<"HbarTransfer", f>> \in CrashingMembers
    BY DEF Objects!HbarTransferMembers, Objects!HbarTransferMessage
  <1>3. ASSUME NEW p \in b.oneofs
        PROVE  /\ p[1] \in DOMAIN b.rules /\ p[2] \in DOMAIN b.rules /\ p[1] # p[2]
               /\ IF "none" \in b.rules[p[1]].unread THEN Start(m, p[1]) \in b.rules[p[1]].unsent
                  ELSE "zero" \in b.rules[p[1]].unsent
    BY DEF Objects!HbarTransferMembers, Objects!HbarTransferMessage
  <1>4. b.variants = {}
    BY DEF Objects!HbarTransferMembers, Objects!HbarTransferMessage
  <1> HIDE DEF m, b
  <1>5. QED
    BY <1>1, <1>2, <1>3, <1>4 DEF m, b

LEMMA ProxyStakerWhole == Whole("ProxyStaker", Objects!ProxyStakerMembers, Objects!ProxyStakerMessage)
  BY DEF Objects!ProxyStakerMembers, Objects!ProxyStakerMessage

LEMMA StakingInfoWhole == Whole("StakingInfo", Objects!StakingInfoMembers, Objects!StakingInfoMessage)
  BY DEF Objects!StakingInfoMembers, Objects!StakingInfoMessage

LEMMA ContractFunctionResultWhole == Whole("ContractFunctionResult", Objects!ContractFunctionResultMembers, Objects!ContractFunctionResultMessage)
  <1> DEFINE m == Objects!ContractFunctionResultMembers
             b == Objects!ContractFunctionResultMessage
  <1>1. DOMAIN b.rules = m.absent \cup m.zero \cup m.preset
    BY DEF Objects!ContractFunctionResultMembers, Objects!ContractFunctionResultMessage
  <1>2. ASSUME NEW f \in DOMAIN b.rules
        PROVE  /\ b.rules[f].chunks = "one"
               /\ \/ Returned(m, f, b.rules[f])
                  \/ <<"ContractFunctionResult", f>> \in UnreadMembers /\ Unseen(m, f, b.rules[f])
                  \/ <<"ContractFunctionResult", f>> \in UnwrittenMembers /\ Unkept(b.rules[f])
               /\ b.rules[f].required => <<"ContractFunctionResult", f>> \in CrashingMembers
    BY DEF Objects!ContractFunctionResultMembers, Objects!ContractFunctionResultMessage
  <1>3. ASSUME NEW p \in b.oneofs
        PROVE  /\ p[1] \in DOMAIN b.rules /\ p[2] \in DOMAIN b.rules /\ p[1] # p[2]
               /\ IF "none" \in b.rules[p[1]].unread THEN Start(m, p[1]) \in b.rules[p[1]].unsent
                  ELSE "zero" \in b.rules[p[1]].unsent
    BY DEF Objects!ContractFunctionResultMembers, Objects!ContractFunctionResultMessage
  <1>4. b.variants = {}
    BY DEF Objects!ContractFunctionResultMembers, Objects!ContractFunctionResultMessage
  <1> HIDE DEF m, b
  <1>5. QED
    BY <1>1, <1>2, <1>3, <1>4 DEF m, b

LEMMA ContractInfoWhole == Whole("ContractInfo", Objects!ContractInfoMembers, Objects!ContractInfoMessage)
  <1> DEFINE m == Objects!ContractInfoMembers
             b == Objects!ContractInfoMessage
  <1>1. DOMAIN b.rules = m.absent \cup m.zero \cup m.preset
    BY DEF Objects!ContractInfoMembers, Objects!ContractInfoMessage
  <1>2. ASSUME NEW f \in DOMAIN b.rules
        PROVE  /\ b.rules[f].chunks = "one"
               /\ \/ Returned(m, f, b.rules[f])
                  \/ <<"ContractInfo", f>> \in UnreadMembers /\ Unseen(m, f, b.rules[f])
                  \/ <<"ContractInfo", f>> \in UnwrittenMembers /\ Unkept(b.rules[f])
               /\ b.rules[f].required => <<"ContractInfo", f>> \in CrashingMembers
    BY DEF Objects!ContractInfoMembers, Objects!ContractInfoMessage
  <1>3. ASSUME NEW p \in b.oneofs
        PROVE  /\ p[1] \in DOMAIN b.rules /\ p[2] \in DOMAIN b.rules /\ p[1] # p[2]
               /\ IF "none" \in b.rules[p[1]].unread THEN Start(m, p[1]) \in b.rules[p[1]].unsent
                  ELSE "zero" \in b.rules[p[1]].unsent
    BY DEF Objects!ContractInfoMembers, Objects!ContractInfoMessage
  <1>4. b.variants = {}
    BY DEF Objects!ContractInfoMembers, Objects!ContractInfoMessage
  <1> HIDE DEF m, b
  <1>5. QED
    BY <1>1, <1>2, <1>3, <1>4 DEF m, b

LEMMA ContractLogInfoWhole == Whole("ContractLogInfo", Objects!ContractLogInfoMembers, Objects!ContractLogInfoMessage)
  BY DEF Objects!ContractLogInfoMembers, Objects!ContractLogInfoMessage

LEMMA ContractNonceInfoWhole == Whole("ContractNonceInfo", Objects!ContractNonceInfoMembers, Objects!ContractNonceInfoMessage)
  BY DEF Objects!ContractNonceInfoMembers, Objects!ContractNonceInfoMessage

LEMMA EvmHookWhole == Whole("EvmHook", Objects!EvmHookMembers, Objects!EvmHookMessage)
  BY DEF Objects!EvmHookMembers, Objects!EvmHookMessage

LEMMA EvmHookCallWhole == Whole("EvmHookCall", Objects!EvmHookCallMembers, Objects!EvmHookCallMessage)
  BY DEF Objects!EvmHookCallMembers, Objects!EvmHookCallMessage

LEMMA EvmHookMappingEntriesWhole == Whole("EvmHookMappingEntries", Objects!EvmHookMappingEntriesMembers, Objects!EvmHookMappingEntriesMessage)
  BY DEF Objects!EvmHookMappingEntriesMembers, Objects!EvmHookMappingEntriesMessage

LEMMA EvmHookMappingEntryWhole == Whole("EvmHookMappingEntry", Objects!EvmHookMappingEntryMembers, Objects!EvmHookMappingEntryMessage)
  BY DEF Objects!EvmHookMappingEntryMembers, Objects!EvmHookMappingEntryMessage

LEMMA EvmHookSpecWhole == Whole("EvmHookSpec", Objects!EvmHookSpecMembers, Objects!EvmHookSpecMessage)
  BY DEF Objects!EvmHookSpecMembers, Objects!EvmHookSpecMessage

LEMMA EvmHookStorageSlotWhole == Whole("EvmHookStorageSlot", Objects!EvmHookStorageSlotMembers, Objects!EvmHookStorageSlotMessage)
  BY DEF Objects!EvmHookStorageSlotMembers, Objects!EvmHookStorageSlotMessage

LEMMA EvmHookStorageUpdateWhole == Whole("EvmHookStorageUpdate", Objects!EvmHookStorageUpdateMembers, Objects!EvmHookStorageUpdateMessage)
  BY DEF Objects!EvmHookStorageUpdateMembers, Objects!EvmHookStorageUpdateMessage

LEMMA HookCallWhole == Whole("HookCall", Objects!HookCallMembers, Objects!HookCallMessage)
  BY DEF Objects!HookCallMembers, Objects!HookCallMessage

LEMMA HookCreationDetailsWhole == Whole("HookCreationDetails", Objects!HookCreationDetailsMembers, Objects!HookCreationDetailsMessage)
  BY DEF Objects!HookCreationDetailsMembers, Objects!HookCreationDetailsMessage

LEMMA HookEntityIdWhole == Whole("HookEntityId", Objects!HookEntityIdMembers, Objects!HookEntityIdMessage)
  BY DEF Objects!HookEntityIdMembers, Objects!HookEntityIdMessage

LEMMA HookIdWhole == Whole("HookId", Objects!HookIdMembers, Objects!HookIdMessage)
  BY DEF Objects!HookIdMembers, Objects!HookIdMessage

LEMMA EndpointWhole == Whole("Endpoint", Objects!EndpointMembers, Objects!EndpointMessage)
  BY DEF Objects!EndpointMembers, Objects!EndpointMessage

LEMMA NodeAddressWhole == Whole("NodeAddress", Objects!NodeAddressMembers, Objects!NodeAddressMessage)
  BY DEF Objects!NodeAddressMembers, Objects!NodeAddressMessage

LEMMA NodeAddressBookWhole == Whole("NodeAddressBook", Objects!NodeAddressBookMembers, Objects!NodeAddressBookMessage)
  BY DEF Objects!NodeAddressBookMembers, Objects!NodeAddressBookMessage

LEMMA NetworkVersionInfoWhole == Whole("NetworkVersionInfo", Objects!NetworkVersionInfoMembers, Objects!NetworkVersionInfoMessage)
  BY DEF Objects!NetworkVersionInfoMembers, Objects!NetworkVersionInfoMessage

LEMMA SemanticVersionWhole == Whole("SemanticVersion", Objects!SemanticVersionMembers, Objects!SemanticVersionMessage)
  BY DEF Objects!SemanticVersionMembers, Objects!SemanticVersionMessage

LEMMA ExchangeRateWhole == Whole("ExchangeRate", Objects!ExchangeRateMembers, Objects!ExchangeRateMessage)
  BY DEF Objects!ExchangeRateMembers, Objects!ExchangeRateMessage

LEMMA ExchangeRatesWhole == Whole("ExchangeRates", Objects!ExchangeRatesMembers, Objects!ExchangeRatesMessage)
  BY DEF Objects!ExchangeRatesMembers, Objects!ExchangeRatesMessage

LEMMA FeeComponentsWhole == Whole("FeeComponents", Objects!FeeComponentsMembers, Objects!FeeComponentsMessage)
  BY DEF Objects!FeeComponentsMembers, Objects!FeeComponentsMessage

LEMMA FeeDataWhole == Whole("FeeData", Objects!FeeDataMembers, Objects!FeeDataMessage)
  BY DEF Objects!FeeDataMembers, Objects!FeeDataMessage

LEMMA FeeScheduleWhole == Whole("FeeSchedule", Objects!FeeScheduleMembers, Objects!FeeScheduleMessage)
  BY DEF Objects!FeeScheduleMembers, Objects!FeeScheduleMessage

LEMMA FeeSchedulesWhole == Whole("FeeSchedules", Objects!FeeSchedulesMembers, Objects!FeeSchedulesMessage)
  BY DEF Objects!FeeSchedulesMembers, Objects!FeeSchedulesMessage

LEMMA TransactionFeeScheduleWhole == Whole("TransactionFeeSchedule", Objects!TransactionFeeScheduleMembers, Objects!TransactionFeeScheduleMessage)
  BY DEF Objects!TransactionFeeScheduleMembers, Objects!TransactionFeeScheduleMessage

LEMMA FileInfoWhole == Whole("FileInfo", Objects!FileInfoMembers, Objects!FileInfoMessage)
  BY DEF Objects!FileInfoMembers, Objects!FileInfoMessage

LEMMA ScheduleInfoWhole == Whole("ScheduleInfo", Objects!ScheduleInfoMembers, Objects!ScheduleInfoMessage)
  <1> DEFINE m == Objects!ScheduleInfoMembers
             b == Objects!ScheduleInfoMessage
  <1>1. DOMAIN b.rules = m.absent \cup m.zero \cup m.preset
    BY DEF Objects!ScheduleInfoMembers, Objects!ScheduleInfoMessage
  <1>2. ASSUME NEW f \in DOMAIN b.rules
        PROVE  /\ b.rules[f].chunks = "one"
               /\ \/ Returned(m, f, b.rules[f])
                  \/ <<"ScheduleInfo", f>> \in UnreadMembers /\ Unseen(m, f, b.rules[f])
                  \/ <<"ScheduleInfo", f>> \in UnwrittenMembers /\ Unkept(b.rules[f])
               /\ b.rules[f].required => <<"ScheduleInfo", f>> \in CrashingMembers
    BY DEF Objects!ScheduleInfoMembers, Objects!ScheduleInfoMessage
  <1>3. ASSUME NEW p \in b.oneofs
        PROVE  /\ p[1] \in DOMAIN b.rules /\ p[2] \in DOMAIN b.rules /\ p[1] # p[2]
               /\ IF "none" \in b.rules[p[1]].unread THEN Start(m, p[1]) \in b.rules[p[1]].unsent
                  ELSE "zero" \in b.rules[p[1]].unsent
    BY DEF Objects!ScheduleInfoMembers, Objects!ScheduleInfoMessage
  <1>4. b.variants = {}
    BY DEF Objects!ScheduleInfoMembers, Objects!ScheduleInfoMessage
  <1> HIDE DEF m, b
  <1>5. QED
    BY <1>1, <1>2, <1>3, <1>4 DEF m, b

LEMMA TopicInfoWhole == Whole("TopicInfo", Objects!TopicInfoMembers, Objects!TopicInfoMessage)
  <1> DEFINE m == Objects!TopicInfoMembers
             b == Objects!TopicInfoMessage
  <1>1. DOMAIN b.rules = m.absent \cup m.zero \cup m.preset
    BY DEF Objects!TopicInfoMembers, Objects!TopicInfoMessage
  <1>2. ASSUME NEW f \in DOMAIN b.rules
        PROVE  /\ b.rules[f].chunks = "one"
               /\ \/ Returned(m, f, b.rules[f])
                  \/ <<"TopicInfo", f>> \in UnreadMembers /\ Unseen(m, f, b.rules[f])
                  \/ <<"TopicInfo", f>> \in UnwrittenMembers /\ Unkept(b.rules[f])
               /\ b.rules[f].required => <<"TopicInfo", f>> \in CrashingMembers
    BY DEF Objects!TopicInfoMembers, Objects!TopicInfoMessage
  <1>3. ASSUME NEW p \in b.oneofs
        PROVE  /\ p[1] \in DOMAIN b.rules /\ p[2] \in DOMAIN b.rules /\ p[1] # p[2]
               /\ IF "none" \in b.rules[p[1]].unread THEN Start(m, p[1]) \in b.rules[p[1]].unsent
                  ELSE "zero" \in b.rules[p[1]].unsent
    BY DEF Objects!TopicInfoMembers, Objects!TopicInfoMessage
  <1>4. b.variants = {}
    BY DEF Objects!TopicInfoMembers, Objects!TopicInfoMessage
  <1> HIDE DEF m, b
  <1>5. QED
    BY <1>1, <1>2, <1>3, <1>4 DEF m, b

LEMMA RegisteredServiceEndpointWhole == Whole("RegisteredServiceEndpoint", Objects!RegisteredServiceEndpointMembers, Objects!RegisteredServiceEndpointMessage)
  BY DEF Objects!RegisteredServiceEndpointMembers, Objects!RegisteredServiceEndpointMessage

LEMMA BlockNodeServiceEndpointWhole == Whole("BlockNodeServiceEndpoint", Objects!BlockNodeServiceEndpointMembers, Objects!BlockNodeServiceEndpointMessage)
  <1> DEFINE m == Objects!BlockNodeServiceEndpointMembers
             b == Objects!BlockNodeServiceEndpointMessage
  <1>1. DOMAIN b.rules = m.absent \cup m.zero \cup m.preset
    BY DEF Objects!BlockNodeServiceEndpointMembers, Objects!BlockNodeServiceEndpointMessage,
           Objects!RegisteredServiceEndpointMembers, Objects!RegisteredServiceEndpointMessage
  <1>2. ASSUME NEW f \in DOMAIN b.rules
        PROVE  /\ b.rules[f].chunks = "one"
               /\ \/ Returned(m, f, b.rules[f])
                  \/ <<"BlockNodeServiceEndpoint", f>> \in UnreadMembers /\ Unseen(m, f, b.rules[f])
                  \/ <<"BlockNodeServiceEndpoint", f>> \in UnwrittenMembers /\ Unkept(b.rules[f])
               /\ b.rules[f].required => <<"BlockNodeServiceEndpoint", f>> \in CrashingMembers
    BY DEF Objects!BlockNodeServiceEndpointMembers, Objects!BlockNodeServiceEndpointMessage,
           Objects!RegisteredServiceEndpointMembers, Objects!RegisteredServiceEndpointMessage
  <1>3. ASSUME NEW p \in b.oneofs
        PROVE  /\ p[1] \in DOMAIN b.rules /\ p[2] \in DOMAIN b.rules /\ p[1] # p[2]
               /\ IF "none" \in b.rules[p[1]].unread THEN Start(m, p[1]) \in b.rules[p[1]].unsent
                  ELSE "zero" \in b.rules[p[1]].unsent
    BY DEF Objects!BlockNodeServiceEndpointMembers, Objects!BlockNodeServiceEndpointMessage,
           Objects!RegisteredServiceEndpointMembers, Objects!RegisteredServiceEndpointMessage
  <1>4. b.variants = {}
    BY DEF Objects!BlockNodeServiceEndpointMembers, Objects!BlockNodeServiceEndpointMessage,
           Objects!RegisteredServiceEndpointMembers, Objects!RegisteredServiceEndpointMessage
  <1> HIDE DEF m, b
  <1>5. QED
    BY <1>1, <1>2, <1>3, <1>4 DEF m, b

LEMMA GeneralServiceEndpointWhole == Whole("GeneralServiceEndpoint", Objects!GeneralServiceEndpointMembers, Objects!GeneralServiceEndpointMessage)
  <1> DEFINE m == Objects!GeneralServiceEndpointMembers
             b == Objects!GeneralServiceEndpointMessage
  <1>1. DOMAIN b.rules = m.absent \cup m.zero \cup m.preset
    BY DEF Objects!GeneralServiceEndpointMembers, Objects!GeneralServiceEndpointMessage,
           Objects!RegisteredServiceEndpointMembers, Objects!RegisteredServiceEndpointMessage
  <1>2. ASSUME NEW f \in DOMAIN b.rules
        PROVE  /\ b.rules[f].chunks = "one"
               /\ \/ Returned(m, f, b.rules[f])
                  \/ <<"GeneralServiceEndpoint", f>> \in UnreadMembers /\ Unseen(m, f, b.rules[f])
                  \/ <<"GeneralServiceEndpoint", f>> \in UnwrittenMembers /\ Unkept(b.rules[f])
               /\ b.rules[f].required => <<"GeneralServiceEndpoint", f>> \in CrashingMembers
    BY DEF Objects!GeneralServiceEndpointMembers, Objects!GeneralServiceEndpointMessage,
           Objects!RegisteredServiceEndpointMembers, Objects!RegisteredServiceEndpointMessage
  <1>3. ASSUME NEW p \in b.oneofs
        PROVE  /\ p[1] \in DOMAIN b.rules /\ p[2] \in DOMAIN b.rules /\ p[1] # p[2]
               /\ IF "none" \in b.rules[p[1]].unread THEN Start(m, p[1]) \in b.rules[p[1]].unsent
                  ELSE "zero" \in b.rules[p[1]].unsent
    BY DEF Objects!GeneralServiceEndpointMembers, Objects!GeneralServiceEndpointMessage,
           Objects!RegisteredServiceEndpointMembers, Objects!RegisteredServiceEndpointMessage
  <1>4. b.variants = {}
    BY DEF Objects!GeneralServiceEndpointMembers, Objects!GeneralServiceEndpointMessage,
           Objects!RegisteredServiceEndpointMembers, Objects!RegisteredServiceEndpointMessage
  <1> HIDE DEF m, b
  <1>5. QED
    BY <1>1, <1>2, <1>3, <1>4 DEF m, b

LEMMA MirrorNodeServiceEndpointWhole == Whole("MirrorNodeServiceEndpoint", Objects!MirrorNodeServiceEndpointMembers, Objects!MirrorNodeServiceEndpointMessage)
  <1> DEFINE m == Objects!MirrorNodeServiceEndpointMembers
             b == Objects!MirrorNodeServiceEndpointMessage
  <1>1. DOMAIN b.rules = m.absent \cup m.zero \cup m.preset
    BY DEF Objects!MirrorNodeServiceEndpointMembers, Objects!MirrorNodeServiceEndpointMessage,
           Objects!RegisteredServiceEndpointMembers, Objects!RegisteredServiceEndpointMessage
  <1>2. ASSUME NEW f \in DOMAIN b.rules
        PROVE  /\ b.rules[f].chunks = "one"
               /\ \/ Returned(m, f, b.rules[f])
                  \/ <<"MirrorNodeServiceEndpoint", f>> \in UnreadMembers /\ Unseen(m, f, b.rules[f])
                  \/ <<"MirrorNodeServiceEndpoint", f>> \in UnwrittenMembers /\ Unkept(b.rules[f])
               /\ b.rules[f].required => <<"MirrorNodeServiceEndpoint", f>> \in CrashingMembers
    BY DEF Objects!MirrorNodeServiceEndpointMembers, Objects!MirrorNodeServiceEndpointMessage,
           Objects!RegisteredServiceEndpointMembers, Objects!RegisteredServiceEndpointMessage
  <1>3. ASSUME NEW p \in b.oneofs
        PROVE  /\ p[1] \in DOMAIN b.rules /\ p[2] \in DOMAIN b.rules /\ p[1] # p[2]
               /\ IF "none" \in b.rules[p[1]].unread THEN Start(m, p[1]) \in b.rules[p[1]].unsent
                  ELSE "zero" \in b.rules[p[1]].unsent
    BY DEF Objects!MirrorNodeServiceEndpointMembers, Objects!MirrorNodeServiceEndpointMessage,
           Objects!RegisteredServiceEndpointMembers, Objects!RegisteredServiceEndpointMessage
  <1>4. b.variants = {}
    BY DEF Objects!MirrorNodeServiceEndpointMembers, Objects!MirrorNodeServiceEndpointMessage,
           Objects!RegisteredServiceEndpointMembers, Objects!RegisteredServiceEndpointMessage
  <1> HIDE DEF m, b
  <1>5. QED
    BY <1>1, <1>2, <1>3, <1>4 DEF m, b

LEMMA RpcRelayServiceEndpointWhole == Whole("RpcRelayServiceEndpoint", Objects!RpcRelayServiceEndpointMembers, Objects!RpcRelayServiceEndpointMessage)
  <1> DEFINE m == Objects!RpcRelayServiceEndpointMembers
             b == Objects!RpcRelayServiceEndpointMessage
  <1>1. DOMAIN b.rules = m.absent \cup m.zero \cup m.preset
    BY DEF Objects!RpcRelayServiceEndpointMembers, Objects!RpcRelayServiceEndpointMessage,
           Objects!RegisteredServiceEndpointMembers, Objects!RegisteredServiceEndpointMessage
  <1>2. ASSUME NEW f \in DOMAIN b.rules
        PROVE  /\ b.rules[f].chunks = "one"
               /\ \/ Returned(m, f, b.rules[f])
                  \/ <<"RpcRelayServiceEndpoint", f>> \in UnreadMembers /\ Unseen(m, f, b.rules[f])
                  \/ <<"RpcRelayServiceEndpoint", f>> \in UnwrittenMembers /\ Unkept(b.rules[f])
               /\ b.rules[f].required => <<"RpcRelayServiceEndpoint", f>> \in CrashingMembers
    BY DEF Objects!RpcRelayServiceEndpointMembers, Objects!RpcRelayServiceEndpointMessage,
           Objects!RegisteredServiceEndpointMembers, Objects!RegisteredServiceEndpointMessage
  <1>3. ASSUME NEW p \in b.oneofs
        PROVE  /\ p[1] \in DOMAIN b.rules /\ p[2] \in DOMAIN b.rules /\ p[1] # p[2]
               /\ IF "none" \in b.rules[p[1]].unread THEN Start(m, p[1]) \in b.rules[p[1]].unsent
                  ELSE "zero" \in b.rules[p[1]].unsent
    BY DEF Objects!RpcRelayServiceEndpointMembers, Objects!RpcRelayServiceEndpointMessage,
           Objects!RegisteredServiceEndpointMembers, Objects!RegisteredServiceEndpointMessage
  <1>4. b.variants = {}
    BY DEF Objects!RpcRelayServiceEndpointMembers, Objects!RpcRelayServiceEndpointMessage,
           Objects!RegisteredServiceEndpointMembers, Objects!RegisteredServiceEndpointMessage
  <1> HIDE DEF m, b
  <1>5. QED
    BY <1>1, <1>2, <1>3, <1>4 DEF m, b

LEMMA TokenAllowanceWhole == Whole("TokenAllowance", Objects!TokenAllowanceMembers, Objects!TokenAllowanceMessage)
  BY DEF Objects!TokenAllowanceMembers, Objects!TokenAllowanceMessage

LEMMA TokenAssociationWhole == Whole("TokenAssociation", Objects!TokenAssociationMembers, Objects!TokenAssociationMessage)
  BY DEF Objects!TokenAssociationMembers, Objects!TokenAssociationMessage

LEMMA TokenInfoWhole == Whole("TokenInfo", Objects!TokenInfoMembers, Objects!TokenInfoMessage)
  <1> DEFINE m == Objects!TokenInfoMembers
             b == Objects!TokenInfoMessage
  <1>1. DOMAIN b.rules = m.absent \cup m.zero \cup m.preset
    BY DEF Objects!TokenInfoMembers, Objects!TokenInfoMessage
  <1>2. ASSUME NEW f \in DOMAIN b.rules
        PROVE  /\ b.rules[f].chunks = "one"
               /\ \/ Returned(m, f, b.rules[f])
                  \/ <<"TokenInfo", f>> \in UnreadMembers /\ Unseen(m, f, b.rules[f])
                  \/ <<"TokenInfo", f>> \in UnwrittenMembers /\ Unkept(b.rules[f])
               /\ b.rules[f].required => <<"TokenInfo", f>> \in CrashingMembers
    BY DEF Objects!TokenInfoMembers, Objects!TokenInfoMessage
  <1>3. ASSUME NEW p \in b.oneofs
        PROVE  /\ p[1] \in DOMAIN b.rules /\ p[2] \in DOMAIN b.rules /\ p[1] # p[2]
               /\ IF "none" \in b.rules[p[1]].unread THEN Start(m, p[1]) \in b.rules[p[1]].unsent
                  ELSE "zero" \in b.rules[p[1]].unsent
    BY DEF Objects!TokenInfoMembers, Objects!TokenInfoMessage
  <1>4. b.variants = {}
    BY DEF Objects!TokenInfoMembers, Objects!TokenInfoMessage
  <1> HIDE DEF m, b
  <1>5. QED
    BY <1>1, <1>2, <1>3, <1>4 DEF m, b

LEMMA TokenNftAllowanceWhole == Whole("TokenNftAllowance", Objects!TokenNftAllowanceMembers, Objects!TokenNftAllowanceMessage)
  BY DEF Objects!TokenNftAllowanceMembers, Objects!TokenNftAllowanceMessage

LEMMA TokenNftInfoWhole == Whole("TokenNftInfo", Objects!TokenNftInfoMembers, Objects!TokenNftInfoMessage)
  <1> DEFINE m == Objects!TokenNftInfoMembers
             b == Objects!TokenNftInfoMessage
  <1>1. DOMAIN b.rules = m.absent \cup m.zero \cup m.preset
    BY DEF Objects!TokenNftInfoMembers, Objects!TokenNftInfoMessage
  <1>2. ASSUME NEW f \in DOMAIN b.rules
        PROVE  /\ b.rules[f].chunks = "one"
               /\ \/ Returned(m, f, b.rules[f])
                  \/ <<"TokenNftInfo", f>> \in UnreadMembers /\ Unseen(m, f, b.rules[f])
                  \/ <<"TokenNftInfo", f>> \in UnwrittenMembers /\ Unkept(b.rules[f])
               /\ b.rules[f].required => <<"TokenNftInfo", f>> \in CrashingMembers
    BY DEF Objects!TokenNftInfoMembers, Objects!TokenNftInfoMessage
  <1>3. ASSUME NEW p \in b.oneofs
        PROVE  /\ p[1] \in DOMAIN b.rules /\ p[2] \in DOMAIN b.rules /\ p[1] # p[2]
               /\ IF "none" \in b.rules[p[1]].unread THEN Start(m, p[1]) \in b.rules[p[1]].unsent
                  ELSE "zero" \in b.rules[p[1]].unsent
    BY DEF Objects!TokenNftInfoMembers, Objects!TokenNftInfoMessage
  <1>4. b.variants = {}
    BY DEF Objects!TokenNftInfoMembers, Objects!TokenNftInfoMessage
  <1> HIDE DEF m, b
  <1>5. QED
    BY <1>1, <1>2, <1>3, <1>4 DEF m, b

LEMMA TokenNftTransferWhole == Whole("TokenNftTransfer", Objects!TokenNftTransferMembers, Objects!TokenNftTransferMessage)
  <1> DEFINE m == Objects!TokenNftTransferMembers
             b == Objects!TokenNftTransferMessage
  <1>1. DOMAIN b.rules = m.absent \cup m.zero \cup m.preset
    BY DEF Objects!TokenNftTransferMembers, Objects!TokenNftTransferMessage
  <1>2. ASSUME NEW f \in DOMAIN b.rules
        PROVE  /\ b.rules[f].chunks = "one"
               /\ \/ Returned(m, f, b.rules[f])
                  \/ <<"TokenNftTransfer", f>> \in UnreadMembers /\ Unseen(m, f, b.rules[f])
                  \/ <<"TokenNftTransfer", f>> \in UnwrittenMembers /\ Unkept(b.rules[f])
               /\ b.rules[f].required => <<"TokenNftTransfer", f>> \in CrashingMembers
    BY DEF Objects!TokenNftTransferMembers, Objects!TokenNftTransferMessage
  <1>3. ASSUME NEW p \in b.oneofs
        PROVE  /\ p[1] \in DOMAIN b.rules /\ p[2] \in DOMAIN b.rules /\ p[1] # p[2]
               /\ IF "none" \in b.rules[p[1]].unread THEN Start(m, p[1]) \in b.rules[p[1]].unsent
                  ELSE "zero" \in b.rules[p[1]].unsent
    BY DEF Objects!TokenNftTransferMembers, Objects!TokenNftTransferMessage
  <1>4. b.variants = {}
    BY DEF Objects!TokenNftTransferMembers, Objects!TokenNftTransferMessage
  <1> HIDE DEF m, b
  <1>5. QED
    BY <1>1, <1>2, <1>3, <1>4 DEF m, b

LEMMA TokenRelationshipWhole == Whole("TokenRelationship", Objects!TokenRelationshipMembers, Objects!TokenRelationshipMessage)
  <1> DEFINE m == Objects!TokenRelationshipMembers
             b == Objects!TokenRelationshipMessage
  <1>1. DOMAIN b.rules = m.absent \cup m.zero \cup m.preset
    BY DEF Objects!TokenRelationshipMembers, Objects!TokenRelationshipMessage
  <1>2. ASSUME NEW f \in DOMAIN b.rules
        PROVE  /\ b.rules[f].chunks = "one"
               /\ \/ Returned(m, f, b.rules[f])
                  \/ <<"TokenRelationship", f>> \in UnreadMembers /\ Unseen(m, f, b.rules[f])
                  \/ <<"TokenRelationship", f>> \in UnwrittenMembers /\ Unkept(b.rules[f])
               /\ b.rules[f].required => <<"TokenRelationship", f>> \in CrashingMembers
    BY DEF Objects!TokenRelationshipMembers, Objects!TokenRelationshipMessage
  <1>3. ASSUME NEW p \in b.oneofs
        PROVE  /\ p[1] \in DOMAIN b.rules /\ p[2] \in DOMAIN b.rules /\ p[1] # p[2]
               /\ IF "none" \in b.rules[p[1]].unread THEN Start(m, p[1]) \in b.rules[p[1]].unsent
                  ELSE "zero" \in b.rules[p[1]].unsent
    BY DEF Objects!TokenRelationshipMembers, Objects!TokenRelationshipMessage
  <1>4. b.variants = {}
    BY DEF Objects!TokenRelationshipMembers, Objects!TokenRelationshipMessage
  <1> HIDE DEF m, b
  <1>5. QED
    BY <1>1, <1>2, <1>3, <1>4 DEF m, b

LEMMA TokenTransferWhole == Whole("TokenTransfer", Objects!TokenTransferMembers, Objects!TokenTransferMessage)
  <1> DEFINE m == Objects!TokenTransferMembers
             b == Objects!TokenTransferMessage
  <1>1. DOMAIN b.rules = m.absent \cup m.zero \cup m.preset
    BY DEF Objects!TokenTransferMembers, Objects!TokenTransferMessage
  <1>2. ASSUME NEW f \in DOMAIN b.rules
        PROVE  /\ b.rules[f].chunks = "one"
               /\ \/ Returned(m, f, b.rules[f])
                  \/ <<"TokenTransfer", f>> \in UnreadMembers /\ Unseen(m, f, b.rules[f])
                  \/ <<"TokenTransfer", f>> \in UnwrittenMembers /\ Unkept(b.rules[f])
               /\ b.rules[f].required => <<"TokenTransfer", f>> \in CrashingMembers
    BY DEF Objects!TokenTransferMembers, Objects!TokenTransferMessage
  <1>3. ASSUME NEW p \in b.oneofs
        PROVE  /\ p[1] \in DOMAIN b.rules /\ p[2] \in DOMAIN b.rules /\ p[1] # p[2]
               /\ IF "none" \in b.rules[p[1]].unread THEN Start(m, p[1]) \in b.rules[p[1]].unsent
                  ELSE "zero" \in b.rules[p[1]].unsent
    BY DEF Objects!TokenTransferMembers, Objects!TokenTransferMessage
  <1>4. b.variants = {}
    BY DEF Objects!TokenTransferMembers, Objects!TokenTransferMessage
  <1> HIDE DEF m, b
  <1>5. QED
    BY <1>1, <1>2, <1>3, <1>4 DEF m, b

LEMMA AssessedCustomFeeWhole == Whole("AssessedCustomFee", Objects!AssessedCustomFeeMembers, Objects!AssessedCustomFeeMessage)
  <1> DEFINE m == Objects!AssessedCustomFeeMembers
             b == Objects!AssessedCustomFeeMessage
  <1>1. DOMAIN b.rules = m.absent \cup m.zero \cup m.preset
    BY DEF Objects!AssessedCustomFeeMembers, Objects!AssessedCustomFeeMessage
  <1>2. ASSUME NEW f \in DOMAIN b.rules
        PROVE  /\ b.rules[f].chunks = "one"
               /\ \/ Returned(m, f, b.rules[f])
                  \/ <<"AssessedCustomFee", f>> \in UnreadMembers /\ Unseen(m, f, b.rules[f])
                  \/ <<"AssessedCustomFee", f>> \in UnwrittenMembers /\ Unkept(b.rules[f])
               /\ b.rules[f].required => <<"AssessedCustomFee", f>> \in CrashingMembers
    BY DEF Objects!AssessedCustomFeeMembers, Objects!AssessedCustomFeeMessage
  <1>3. ASSUME NEW p \in b.oneofs
        PROVE  /\ p[1] \in DOMAIN b.rules /\ p[2] \in DOMAIN b.rules /\ p[1] # p[2]
               /\ IF "none" \in b.rules[p[1]].unread THEN Start(m, p[1]) \in b.rules[p[1]].unsent
                  ELSE "zero" \in b.rules[p[1]].unsent
    BY DEF Objects!AssessedCustomFeeMembers, Objects!AssessedCustomFeeMessage
  <1>4. b.variants = {}
    BY DEF Objects!AssessedCustomFeeMembers, Objects!AssessedCustomFeeMessage
  <1> HIDE DEF m, b
  <1>5. QED
    BY <1>1, <1>2, <1>3, <1>4 DEF m, b

LEMMA CustomFeeWhole == Whole("CustomFee", Objects!CustomFeeMembers, Objects!CustomFeeMessage)
  BY DEF Objects!CustomFeeMembers, Objects!CustomFeeMessage

LEMMA CustomFeeLimitWhole == Whole("CustomFeeLimit", Objects!CustomFeeLimitMembers, Objects!CustomFeeLimitMessage)
  BY DEF Objects!CustomFeeLimitMembers, Objects!CustomFeeLimitMessage

LEMMA CustomFixedFeeWhole == Whole("CustomFixedFee", Objects!CustomFixedFeeMembers, Objects!CustomFixedFeeMessage)
  BY DEF Objects!CustomFixedFeeMembers, Objects!CustomFixedFeeMessage

LEMMA CustomFractionalFeeWhole == Whole("CustomFractionalFee", Objects!CustomFractionalFeeMembers, Objects!CustomFractionalFeeMessage)
  BY DEF Objects!CustomFractionalFeeMembers, Objects!CustomFractionalFeeMessage

LEMMA CustomRoyaltyFeeWhole == Whole("CustomRoyaltyFee", Objects!CustomRoyaltyFeeMembers, Objects!CustomRoyaltyFeeMessage)
  BY DEF Objects!CustomRoyaltyFeeMembers, Objects!CustomRoyaltyFeeMessage

LEMMA PendingAirdropIdWhole == Whole("PendingAirdropId", Objects!PendingAirdropIdMembers, Objects!PendingAirdropIdMessage)
  BY DEF Objects!PendingAirdropIdMembers, Objects!PendingAirdropIdMessage

LEMMA PendingAirdropRecordWhole == Whole("PendingAirdropRecord", Objects!PendingAirdropRecordMembers, Objects!PendingAirdropRecordMessage)
  BY DEF Objects!PendingAirdropRecordMembers, Objects!PendingAirdropRecordMessage

LEMMA TransactionReceiptWhole == Whole("TransactionReceipt", Objects!TransactionReceiptMembers, Objects!TransactionReceiptMessage)
  <1> DEFINE m == Objects!TransactionReceiptMembers
             b == Objects!TransactionReceiptMessage
             A == Objects!Optional({"accountId", "fileId", "contractId", "topicId", "scheduleId",
                                    "scheduledTransactionId"})
             B == Objects!Positive({"topicSequenceNumber", "topicRunningHash",
                                    "topicRunningHashVersion", "registeredNodeId"})
             C == Objects!Message({"currentRate"})
             D == Objects!Plain({"status", "serialNumbers"})
             E == Objects!OptionalScalar({"newTotalSupply", "nodeId"})
             F == Objects!Unwritten({"transactionId", "nextRate", "duplicates", "children"})
             G == Objects!Dropped({"tokenId"})
             JB == Objects!++(A, B)
             JC == Objects!++(JB, C)
             JD == Objects!++(JC, D)
             JE == Objects!++(JD, E)
             JF == Objects!++(JE, F)
             JG == Objects!++(JF, G)
  <1>1. b.rules = JG /\ b.oneofs = {} /\ b.variants = {}
    BY DEF Objects!TransactionReceiptMessage
  <1>2. /\ DOMAIN A = {"accountId", "fileId", "contractId", "topicId", "scheduleId",
                       "scheduledTransactionId"}
        /\ \A f \in DOMAIN A : /\ A[f].unsent = {"absent"} /\ A[f].unread = {"none"}
                             /\ A[f].chunks = "one" /\ ~A[f].required
    OBVIOUS
  <1>3. /\ DOMAIN B = {"topicSequenceNumber", "topicRunningHash", "topicRunningHashVersion",
                       "registeredNodeId"}
        /\ \A f \in DOMAIN B : /\ B[f].unsent = {"absent", "zero"} /\ B[f].unread = {"none"}
                             /\ B[f].chunks = "one" /\ ~B[f].required
    OBVIOUS
  <1>4. /\ DOMAIN C = {"currentRate"}
        /\ \A f \in DOMAIN C : /\ C[f].unsent = {} /\ C[f].unread = {"none"}
                             /\ C[f].chunks = "one" /\ ~C[f].required
    OBVIOUS
  <1>5. /\ DOMAIN D = {"status", "serialNumbers"}
        /\ \A f \in DOMAIN D : /\ D[f].unsent = {"zero"} /\ D[f].unread = {}
                             /\ D[f].chunks = "one" /\ ~D[f].required
    OBVIOUS
  <1>6. /\ DOMAIN E = {"newTotalSupply", "nodeId"}
        /\ \A f \in DOMAIN E : /\ E[f].unsent = {"absent", "zero"} /\ E[f].unread = {}
                             /\ E[f].chunks = "one" /\ ~E[f].required
    OBVIOUS
  <1>7. /\ DOMAIN F = {"transactionId", "nextRate", "duplicates", "children"}
        /\ \A f \in DOMAIN F : /\ F[f].unsent = Objects!Values /\ F[f].unread = {}
                             /\ F[f].chunks = "one" /\ ~F[f].required
    OBVIOUS
  <1>8. /\ DOMAIN G = {"tokenId"}
        /\ \A f \in DOMAIN G : /\ G[f].unsent = Objects!Values /\ G[f].unread = {"none"}
                             /\ G[f].chunks = "one" /\ ~G[f].required
    OBVIOUS
  <1> HIDE DEF A, B, C, D, E, F, G, b
  <1>9. /\ DOMAIN JB = DOMAIN A \cup DOMAIN B
        /\ \A f \in DOMAIN A : JB[f] = A[f]
        /\ \A f \in DOMAIN B \ DOMAIN A : JB[f] = B[f]
    BY AddedObjectRules
  <1> HIDE DEF JB
  <1>10. /\ DOMAIN JC = DOMAIN JB \cup DOMAIN C
         /\ \A f \in DOMAIN JB : JC[f] = JB[f]
         /\ \A f \in DOMAIN C \ DOMAIN JB : JC[f] = C[f]
    BY AddedObjectRules
  <1> HIDE DEF JC
  <1>11. /\ DOMAIN JD = DOMAIN JC \cup DOMAIN D
         /\ \A f \in DOMAIN JC : JD[f] = JC[f]
         /\ \A f \in DOMAIN D \ DOMAIN JC : JD[f] = D[f]
    BY AddedObjectRules
  <1> HIDE DEF JD
  <1>12. /\ DOMAIN JE = DOMAIN JD \cup DOMAIN E
         /\ \A f \in DOMAIN JD : JE[f] = JD[f]
         /\ \A f \in DOMAIN E \ DOMAIN JD : JE[f] = E[f]
    BY AddedObjectRules
  <1> HIDE DEF JE
  <1>13. /\ DOMAIN JF = DOMAIN JE \cup DOMAIN F
         /\ \A f \in DOMAIN JE : JF[f] = JE[f]
         /\ \A f \in DOMAIN F \ DOMAIN JE : JF[f] = F[f]
    BY AddedObjectRules
  <1> HIDE DEF JF
  <1>14. /\ DOMAIN JG = DOMAIN JF \cup DOMAIN G
         /\ \A f \in DOMAIN JF : JG[f] = JF[f]
         /\ \A f \in DOMAIN G \ DOMAIN JF : JG[f] = G[f]
    BY AddedObjectRules
  <1> HIDE DEF JG
  <1>15. DOMAIN b.rules = m.absent \cup m.zero \cup m.preset
    BY <1>1, <1>2, <1>3, <1>4, <1>5, <1>6, <1>7, <1>8,
       <1>9, <1>10, <1>11, <1>12, <1>13, <1>14 DEF Objects!TransactionReceiptMembers
  <1>16. ASSUME NEW f \in DOMAIN A
        PROVE  /\ f \in DOMAIN b.rules /\ b.rules[f] = A[f]
               /\ Returned(m, f, b.rules[f])
    <2>1. f \in DOMAIN b.rules /\ b.rules[f] = A[f]
      BY <1>1, <1>2, <1>3, <1>4, <1>5, <1>6, <1>7, <1>8,
         <1>9, <1>10, <1>11, <1>12, <1>13, <1>14
    <2>2. Start(m, f) = "absent"
      BY <1>2 DEF Objects!TransactionReceiptMembers
    <2>3. QED
      BY <1>2, <2>1, <2>2
  <1>17. ASSUME NEW f \in DOMAIN B
        PROVE  /\ f \in DOMAIN b.rules /\ b.rules[f] = B[f]
               /\ Returned(m, f, b.rules[f])
    <2>1. f \in DOMAIN b.rules /\ b.rules[f] = B[f]
      BY <1>1, <1>2, <1>3, <1>4, <1>5, <1>6, <1>7, <1>8,
         <1>9, <1>10, <1>11, <1>12, <1>13, <1>14
    <2>2. Start(m, f) = "absent"
      BY <1>3 DEF Objects!TransactionReceiptMembers
    <2>3. QED
      BY <1>3, <2>1, <2>2
  <1>18. ASSUME NEW f \in DOMAIN C
        PROVE  /\ f \in DOMAIN b.rules /\ b.rules[f] = C[f]
               /\ Returned(m, f, b.rules[f])
    <2>1. f \in DOMAIN b.rules /\ b.rules[f] = C[f]
      BY <1>1, <1>2, <1>3, <1>4, <1>5, <1>6, <1>7, <1>8,
         <1>9, <1>10, <1>11, <1>12, <1>13, <1>14
    <2>2. QED
      BY <1>4, <2>1
  <1>19. ASSUME NEW f \in DOMAIN D
        PROVE  /\ f \in DOMAIN b.rules /\ b.rules[f] = D[f]
               /\ Returned(m, f, b.rules[f])
    <2>1. f \in DOMAIN b.rules /\ b.rules[f] = D[f]
      BY <1>1, <1>2, <1>3, <1>4, <1>5, <1>6, <1>7, <1>8,
         <1>9, <1>10, <1>11, <1>12, <1>13, <1>14
    <2>2. QED
      BY <1>5, <2>1
  <1>20. ASSUME NEW f \in DOMAIN E
        PROVE  /\ f \in DOMAIN b.rules /\ b.rules[f] = E[f]
               /\ Returned(m, f, b.rules[f])
    <2>1. f \in DOMAIN b.rules /\ b.rules[f] = E[f]
      BY <1>1, <1>2, <1>3, <1>4, <1>5, <1>6, <1>7, <1>8,
         <1>9, <1>10, <1>11, <1>12, <1>13, <1>14
    <2>2. QED
      BY <1>6, <2>1
  <1>21. ASSUME NEW f \in DOMAIN F
        PROVE  /\ f \in DOMAIN b.rules /\ b.rules[f] = F[f]
               /\ <<"TransactionReceipt", f>> \in UnwrittenMembers /\ Unkept(b.rules[f])
    <2>1. f \in DOMAIN b.rules /\ b.rules[f] = F[f]
      BY <1>1, <1>2, <1>3, <1>4, <1>5, <1>6, <1>7, <1>8,
         <1>9, <1>10, <1>11, <1>12, <1>13, <1>14
    <2>2. <<"TransactionReceipt", f>> \in UnwrittenMembers
      BY <1>7
    <2>3. QED
      BY <1>7, <2>1, <2>2
  <1>22. ASSUME NEW f \in DOMAIN G
        PROVE  /\ f \in DOMAIN b.rules /\ b.rules[f] = G[f]
               /\ <<"TransactionReceipt", f>> \in UnwrittenMembers /\ Unkept(b.rules[f])
    <2>1. f \in DOMAIN b.rules /\ b.rules[f] = G[f]
      BY <1>1, <1>2, <1>3, <1>4, <1>5, <1>6, <1>7, <1>8,
         <1>9, <1>10, <1>11, <1>12, <1>13, <1>14
    <2>2. <<"TransactionReceipt", f>> \in UnwrittenMembers
      BY <1>8
    <2>3. QED
      BY <1>8, <2>1, <2>2
  <1>23. ASSUME NEW f \in DOMAIN b.rules
        PROVE  /\ b.rules[f].chunks = "one" /\ ~b.rules[f].required
               /\ \/ Returned(m, f, b.rules[f])
                  \/ <<"TransactionReceipt", f>> \in UnwrittenMembers /\ Unkept(b.rules[f])
    <2>1. f \in DOMAIN A \cup DOMAIN B \cup DOMAIN C \cup DOMAIN D \cup DOMAIN E \cup DOMAIN F \cup DOMAIN G
      BY <1>1, <1>9, <1>10, <1>11, <1>12, <1>13, <1>14
    <2>2. b.rules[f].chunks = "one" /\ ~b.rules[f].required
      <3>1. CASE f \in DOMAIN A \cup DOMAIN B
        BY <3>1, <1>2, <1>3, <1>16, <1>17
      <3>2. CASE f \in DOMAIN C \cup DOMAIN D
        BY <3>2, <1>4, <1>5, <1>18, <1>19
      <3>3. CASE f \in DOMAIN E \cup DOMAIN F
        BY <3>3, <1>6, <1>7, <1>20, <1>21
      <3>4. CASE f \in DOMAIN G
        BY <3>4, <1>8, <1>22
      <3>5. QED
        BY <2>1, <3>1, <3>2, <3>3, <3>4
    <2>3. \/ Returned(m, f, b.rules[f])
          \/ <<"TransactionReceipt", f>> \in UnwrittenMembers /\ Unkept(b.rules[f])
      BY <2>1, <1>16, <1>17, <1>18, <1>19, <1>20, <1>21, <1>22
    <2>4. QED
      BY <2>2, <2>3
  <1> HIDE DEF m
  <1>24. QED
    BY <1>1, <1>15, <1>23 DEF m, b

LEMMA TransactionRecordWhole == Whole("TransactionRecord", Objects!TransactionRecordMembers, Objects!TransactionRecordMessage)
  <1> DEFINE m == Objects!TransactionRecordMembers
             b == Objects!TransactionRecordMessage
             A == Objects!Optional({"receipt", "consensusTimestamp", "transactionId",
                                    "contractFunctionResult", "scheduleRef",
                                    "parentConsensusTimestamp", "prngNumber"})
             B == Objects!Positive({"alias", "ethereumHash", "evmAddress"})
             C == Objects!Message({"prngBytes"})
             D == Objects!Plain({"transactionHash", "memo", "transactionFee", "hbarTransferList",
                                 "tokenTransferList", "nftTransferList", "assessedCustomFees",
                                 "automaticTokenAssociations", "paidStakingRewards",
                                 "highVolumePricingMultiplier"})
             E == Objects!Unwritten({"children", "duplicates", "pendingAirdropRecords"})
             JB == Objects!++(A, B)
             JC == Objects!++(JB, C)
             JD == Objects!++(JC, D)
             JE == Objects!++(JD, E)
  <1>1. b.rules = JE /\ b.oneofs = {<<"prngNumber", "prngBytes">>} /\ b.variants = {}
    BY DEF Objects!TransactionRecordMessage
  <1>2. /\ DOMAIN A = {"receipt", "consensusTimestamp", "transactionId", "contractFunctionResult",
                       "scheduleRef", "parentConsensusTimestamp", "prngNumber"}
        /\ \A f \in DOMAIN A : /\ A[f].unsent = {"absent"} /\ A[f].unread = {"none"}
                             /\ A[f].chunks = "one" /\ ~A[f].required
    OBVIOUS
  <1>3. /\ DOMAIN B = {"alias", "ethereumHash", "evmAddress"}
        /\ \A f \in DOMAIN B : /\ B[f].unsent = {"absent", "zero"} /\ B[f].unread = {"none"}
                             /\ B[f].chunks = "one" /\ ~B[f].required
    OBVIOUS
  <1>4. /\ DOMAIN C = {"prngBytes"}
        /\ \A f \in DOMAIN C : /\ C[f].unsent = {} /\ C[f].unread = {"none"}
                             /\ C[f].chunks = "one" /\ ~C[f].required
    OBVIOUS
  <1>5. /\ DOMAIN D = {"transactionHash", "memo", "transactionFee", "hbarTransferList",
                       "tokenTransferList", "nftTransferList", "assessedCustomFees",
                       "automaticTokenAssociations", "paidStakingRewards",
                       "highVolumePricingMultiplier"}
        /\ \A f \in DOMAIN D : /\ D[f].unsent = {"zero"} /\ D[f].unread = {}
                             /\ D[f].chunks = "one" /\ ~D[f].required
    OBVIOUS
  <1>6. /\ DOMAIN E = {"children", "duplicates", "pendingAirdropRecords"}
        /\ \A f \in DOMAIN E : /\ E[f].unsent = Objects!Values /\ E[f].unread = {}
                             /\ E[f].chunks = "one" /\ ~E[f].required
    OBVIOUS
  <1> HIDE DEF A, B, C, D, E, b
  <1>7. /\ DOMAIN JB = DOMAIN A \cup DOMAIN B
        /\ \A f \in DOMAIN A : JB[f] = A[f]
        /\ \A f \in DOMAIN B \ DOMAIN A : JB[f] = B[f]
    BY AddedObjectRules
  <1> HIDE DEF JB
  <1>8. /\ DOMAIN JC = DOMAIN JB \cup DOMAIN C
        /\ \A f \in DOMAIN JB : JC[f] = JB[f]
        /\ \A f \in DOMAIN C \ DOMAIN JB : JC[f] = C[f]
    BY AddedObjectRules
  <1> HIDE DEF JC
  <1>9. /\ DOMAIN JD = DOMAIN JC \cup DOMAIN D
        /\ \A f \in DOMAIN JC : JD[f] = JC[f]
        /\ \A f \in DOMAIN D \ DOMAIN JC : JD[f] = D[f]
    BY AddedObjectRules
  <1> HIDE DEF JD
  <1>10. /\ DOMAIN JE = DOMAIN JD \cup DOMAIN E
         /\ \A f \in DOMAIN JD : JE[f] = JD[f]
         /\ \A f \in DOMAIN E \ DOMAIN JD : JE[f] = E[f]
    BY AddedObjectRules
  <1> HIDE DEF JE
  <1>11. DOMAIN b.rules = m.absent \cup m.zero \cup m.preset
    BY <1>1, <1>2, <1>3, <1>4, <1>5, <1>6,
       <1>7, <1>8, <1>9, <1>10 DEF Objects!TransactionRecordMembers
  <1>12. ASSUME NEW f \in DOMAIN A
        PROVE  /\ f \in DOMAIN b.rules /\ b.rules[f] = A[f]
               /\ Returned(m, f, b.rules[f])
    <2>1. f \in DOMAIN b.rules /\ b.rules[f] = A[f]
      BY <1>1, <1>2, <1>3, <1>4, <1>5, <1>6,
         <1>7, <1>8, <1>9, <1>10
    <2>2. Start(m, f) = "absent"
      BY <1>2 DEF Objects!TransactionRecordMembers
    <2>3. QED
      BY <1>2, <2>1, <2>2
  <1>13. ASSUME NEW f \in DOMAIN B
        PROVE  /\ f \in DOMAIN b.rules /\ b.rules[f] = B[f]
               /\ Returned(m, f, b.rules[f])
    <2>1. f \in DOMAIN b.rules /\ b.rules[f] = B[f]
      BY <1>1, <1>2, <1>3, <1>4, <1>5, <1>6,
         <1>7, <1>8, <1>9, <1>10
    <2>2. Start(m, f) = "absent"
      BY <1>3 DEF Objects!TransactionRecordMembers
    <2>3. QED
      BY <1>3, <2>1, <2>2
  <1>14. ASSUME NEW f \in DOMAIN C
        PROVE  /\ f \in DOMAIN b.rules /\ b.rules[f] = C[f]
               /\ Returned(m, f, b.rules[f])
    <2>1. f \in DOMAIN b.rules /\ b.rules[f] = C[f]
      BY <1>1, <1>2, <1>3, <1>4, <1>5, <1>6,
         <1>7, <1>8, <1>9, <1>10
    <2>2. QED
      BY <1>4, <2>1
  <1>15. ASSUME NEW f \in DOMAIN D
        PROVE  /\ f \in DOMAIN b.rules /\ b.rules[f] = D[f]
               /\ Returned(m, f, b.rules[f])
    <2>1. f \in DOMAIN b.rules /\ b.rules[f] = D[f]
      BY <1>1, <1>2, <1>3, <1>4, <1>5, <1>6,
         <1>7, <1>8, <1>9, <1>10
    <2>2. QED
      BY <1>5, <2>1
  <1>16. ASSUME NEW f \in DOMAIN E
        PROVE  /\ f \in DOMAIN b.rules /\ b.rules[f] = E[f]
               /\ <<"TransactionRecord", f>> \in UnwrittenMembers /\ Unkept(b.rules[f])
    <2>1. f \in DOMAIN b.rules /\ b.rules[f] = E[f]
      BY <1>1, <1>2, <1>3, <1>4, <1>5, <1>6,
         <1>7, <1>8, <1>9, <1>10
    <2>2. <<"TransactionRecord", f>> \in UnwrittenMembers
      BY <1>6
    <2>3. QED
      BY <1>6, <2>1, <2>2
  <1>17. ASSUME NEW f \in DOMAIN b.rules
        PROVE  /\ b.rules[f].chunks = "one" /\ ~b.rules[f].required
               /\ \/ Returned(m, f, b.rules[f])
                  \/ <<"TransactionRecord", f>> \in UnwrittenMembers /\ Unkept(b.rules[f])
    <2>1. f \in DOMAIN A \cup DOMAIN B \cup DOMAIN C \cup DOMAIN D \cup DOMAIN E
      BY <1>1, <1>7, <1>8, <1>9, <1>10
    <2>2. b.rules[f].chunks = "one" /\ ~b.rules[f].required
      <3>1. CASE f \in DOMAIN A \cup DOMAIN B
        BY <3>1, <1>2, <1>3, <1>12, <1>13
      <3>2. CASE f \in DOMAIN C \cup DOMAIN D
        BY <3>2, <1>4, <1>5, <1>14, <1>15
      <3>3. CASE f \in DOMAIN E
        BY <3>3, <1>6, <1>16
      <3>4. QED
        BY <2>1, <3>1, <3>2, <3>3
    <2>3. \/ Returned(m, f, b.rules[f])
          \/ <<"TransactionRecord", f>> \in UnwrittenMembers /\ Unkept(b.rules[f])
      BY <2>1, <1>12, <1>13, <1>14, <1>15, <1>16
    <2>4. QED
      BY <2>2, <2>3
  <1>18. /\ "prngBytes" \in DOMAIN b.rules
         /\ \A f \in {"receipt", "transactionId", "prngNumber"} :
              /\ f \in DOMAIN b.rules /\ b.rules[f].unsent = {"absent"} /\ b.rules[f].unread = {"none"}
              /\ Start(m, f) = "absent"
    <2>1. \A f \in {"receipt", "transactionId", "prngNumber"} : f \in DOMAIN A /\ Start(m, f) = "absent"
      BY <1>2 DEF Objects!TransactionRecordMembers
    <2>2. "prngBytes" \in DOMAIN C
      BY <1>4
    <2> HIDE DEF m, Start, Returned
    <2>3. QED
      BY <1>2, <1>12, <1>14, <2>1, <2>2
  <1> HIDE DEF m
  <1>19. QED
    BY <1>1, <1>11, <1>17, <1>18 DEF m, b

HIDE DEF Whole, Returned, Unseen, Unkept, Start, UnreadMembers, UnwrittenMembers, CrashingMembers,
        Objects!Holding, Objects!OneOf, Objects!Carrying, Objects!Inheriting, Objects!Extending, Objects!Rule,
        Objects!Optional, Objects!Plain, Objects!Message, Objects!Nonzero, Objects!OptionalScalar,
        Objects!Unread, Objects!Unwritten, Objects!Positive, Objects!Dropped, Objects!Dereferenced,
        Objects!Values, Objects!Wire, Objects!++

\* Every class.
LEMMA AllWhole ==
  ASSUME NEW k \in Objects!Kinds
  PROVE  Whole(k, Objects!Table[k].members, Objects!Table[k].message)
  <1>1. CASE k = "AccountId"
    BY <1>1, AccountIdWhole DEF Objects!Table, Objects!Class
  <1>2. CASE k = "ContractId"
    BY <1>2, ContractIdWhole DEF Objects!Table, Objects!Class
  <1>3. CASE k = "DelegateContractId"
    BY <1>3, DelegateContractIdWhole DEF Objects!Table, Objects!Class
  <1>4. CASE k = "FileId"
    BY <1>4, FileIdWhole DEF Objects!Table, Objects!Class
  <1>5. CASE k = "NftId"
    BY <1>5, NftIdWhole DEF Objects!Table, Objects!Class
  <1>6. CASE k = "ScheduleId"
    BY <1>6, ScheduleIdWhole DEF Objects!Table, Objects!Class
  <1>7. CASE k = "TokenId"
    BY <1>7, TokenIdWhole DEF Objects!Table, Objects!Class
  <1>8. CASE k = "TopicId"
    BY <1>8, TopicIdWhole DEF Objects!Table, Objects!Class
  <1>9. CASE k = "TransactionId"
    BY <1>9, TransactionIdWhole DEF Objects!Table, Objects!Class
  <1>10. CASE k = "Key"
    BY <1>10, KeyWhole DEF Objects!Table, Objects!Class
  <1>11. CASE k = "KeyList"
    BY <1>11, KeyListWhole DEF Objects!Table, Objects!Class
  <1>12. CASE k = "AccountBalance"
    BY <1>12, AccountBalanceWhole DEF Objects!Table, Objects!Class
  <1>13. CASE k = "AccountInfo"
    BY <1>13, AccountInfoWhole DEF Objects!Table, Objects!Class
  <1>14. CASE k = "AccountRecords"
    BY <1>14, AccountRecordsWhole DEF Objects!Table, Objects!Class
  <1>15. CASE k = "HbarAllowance"
    BY <1>15, HbarAllowanceWhole DEF Objects!Table, Objects!Class
  <1>16. CASE k = "HbarTransfer"
    BY <1>16, HbarTransferWhole DEF Objects!Table, Objects!Class
  <1>17. CASE k = "ProxyStaker"
    BY <1>17, ProxyStakerWhole DEF Objects!Table, Objects!Class
  <1>18. CASE k = "StakingInfo"
    BY <1>18, StakingInfoWhole DEF Objects!Table, Objects!Class
  <1>19. CASE k = "ContractFunctionResult"
    BY <1>19, ContractFunctionResultWhole DEF Objects!Table, Objects!Class
  <1>20. CASE k = "ContractInfo"
    BY <1>20, ContractInfoWhole DEF Objects!Table, Objects!Class
  <1>21. CASE k = "ContractLogInfo"
    BY <1>21, ContractLogInfoWhole DEF Objects!Table, Objects!Class
  <1>22. CASE k = "ContractNonceInfo"
    BY <1>22, ContractNonceInfoWhole DEF Objects!Table, Objects!Class
  <1>23. CASE k = "EvmHook"
    BY <1>23, EvmHookWhole DEF Objects!Table, Objects!Class
  <1>24. CASE k = "EvmHookCall"
    BY <1>24, EvmHookCallWhole DEF Objects!Table, Objects!Class
  <1>25. CASE k = "EvmHookMappingEntries"
    BY <1>25, EvmHookMappingEntriesWhole DEF Objects!Table, Objects!Class
  <1>26. CASE k = "EvmHookMappingEntry"
    BY <1>26, EvmHookMappingEntryWhole DEF Objects!Table, Objects!Class
  <1>27. CASE k = "EvmHookSpec"
    BY <1>27, EvmHookSpecWhole DEF Objects!Table, Objects!Class
  <1>28. CASE k = "EvmHookStorageSlot"
    BY <1>28, EvmHookStorageSlotWhole DEF Objects!Table, Objects!Class
  <1>29. CASE k = "EvmHookStorageUpdate"
    BY <1>29, EvmHookStorageUpdateWhole DEF Objects!Table, Objects!Class
  <1>30. CASE k = "HookCall"
    BY <1>30, HookCallWhole DEF Objects!Table, Objects!Class
  <1>31. CASE k = "HookCreationDetails"
    BY <1>31, HookCreationDetailsWhole DEF Objects!Table, Objects!Class
  <1>32. CASE k = "HookEntityId"
    BY <1>32, HookEntityIdWhole DEF Objects!Table, Objects!Class
  <1>33. CASE k = "HookId"
    BY <1>33, HookIdWhole DEF Objects!Table, Objects!Class
  <1>34. CASE k = "Endpoint"
    BY <1>34, EndpointWhole DEF Objects!Table, Objects!Class
  <1>35. CASE k = "NodeAddress"
    BY <1>35, NodeAddressWhole DEF Objects!Table, Objects!Class
  <1>36. CASE k = "NodeAddressBook"
    BY <1>36, NodeAddressBookWhole DEF Objects!Table, Objects!Class
  <1>37. CASE k = "NetworkVersionInfo"
    BY <1>37, NetworkVersionInfoWhole DEF Objects!Table, Objects!Class
  <1>38. CASE k = "SemanticVersion"
    BY <1>38, SemanticVersionWhole DEF Objects!Table, Objects!Class
  <1>39. CASE k = "ExchangeRate"
    BY <1>39, ExchangeRateWhole DEF Objects!Table, Objects!Class
  <1>40. CASE k = "ExchangeRates"
    BY <1>40, ExchangeRatesWhole DEF Objects!Table, Objects!Class
  <1>41. CASE k = "FeeComponents"
    BY <1>41, FeeComponentsWhole DEF Objects!Table, Objects!Class
  <1>42. CASE k = "FeeData"
    BY <1>42, FeeDataWhole DEF Objects!Table, Objects!Class
  <1>43. CASE k = "FeeSchedule"
    BY <1>43, FeeScheduleWhole DEF Objects!Table, Objects!Class
  <1>44. CASE k = "FeeSchedules"
    BY <1>44, FeeSchedulesWhole DEF Objects!Table, Objects!Class
  <1>45. CASE k = "TransactionFeeSchedule"
    BY <1>45, TransactionFeeScheduleWhole DEF Objects!Table, Objects!Class
  <1>46. CASE k = "FileInfo"
    BY <1>46, FileInfoWhole DEF Objects!Table, Objects!Class
  <1>47. CASE k = "ScheduleInfo"
    BY <1>47, ScheduleInfoWhole DEF Objects!Table, Objects!Class
  <1>48. CASE k = "TopicInfo"
    BY <1>48, TopicInfoWhole DEF Objects!Table, Objects!Class
  <1>49. CASE k = "RegisteredServiceEndpoint"
    BY <1>49, RegisteredServiceEndpointWhole DEF Objects!Table, Objects!Class
  <1>50. CASE k = "BlockNodeServiceEndpoint"
    BY <1>50, BlockNodeServiceEndpointWhole DEF Objects!Table, Objects!Class
  <1>51. CASE k = "GeneralServiceEndpoint"
    BY <1>51, GeneralServiceEndpointWhole DEF Objects!Table, Objects!Class
  <1>52. CASE k = "MirrorNodeServiceEndpoint"
    BY <1>52, MirrorNodeServiceEndpointWhole DEF Objects!Table, Objects!Class
  <1>53. CASE k = "RpcRelayServiceEndpoint"
    BY <1>53, RpcRelayServiceEndpointWhole DEF Objects!Table, Objects!Class
  <1>54. CASE k = "TokenAllowance"
    BY <1>54, TokenAllowanceWhole DEF Objects!Table, Objects!Class
  <1>55. CASE k = "TokenAssociation"
    BY <1>55, TokenAssociationWhole DEF Objects!Table, Objects!Class
  <1>56. CASE k = "TokenInfo"
    BY <1>56, TokenInfoWhole DEF Objects!Table, Objects!Class
  <1>57. CASE k = "TokenNftAllowance"
    BY <1>57, TokenNftAllowanceWhole DEF Objects!Table, Objects!Class
  <1>58. CASE k = "TokenNftInfo"
    BY <1>58, TokenNftInfoWhole DEF Objects!Table, Objects!Class
  <1>59. CASE k = "TokenNftTransfer"
    BY <1>59, TokenNftTransferWhole DEF Objects!Table, Objects!Class
  <1>60. CASE k = "TokenRelationship"
    BY <1>60, TokenRelationshipWhole DEF Objects!Table, Objects!Class
  <1>61. CASE k = "TokenTransfer"
    BY <1>61, TokenTransferWhole DEF Objects!Table, Objects!Class
  <1>62. CASE k = "AssessedCustomFee"
    BY <1>62, AssessedCustomFeeWhole DEF Objects!Table, Objects!Class
  <1>63. CASE k = "CustomFee"
    BY <1>63, CustomFeeWhole DEF Objects!Table, Objects!Class
  <1>64. CASE k = "CustomFeeLimit"
    BY <1>64, CustomFeeLimitWhole DEF Objects!Table, Objects!Class
  <1>65. CASE k = "CustomFixedFee"
    BY <1>65, CustomFixedFeeWhole DEF Objects!Table, Objects!Class
  <1>66. CASE k = "CustomFractionalFee"
    BY <1>66, CustomFractionalFeeWhole DEF Objects!Table, Objects!Class
  <1>67. CASE k = "CustomRoyaltyFee"
    BY <1>67, CustomRoyaltyFeeWhole DEF Objects!Table, Objects!Class
  <1>68. CASE k = "PendingAirdropId"
    BY <1>68, PendingAirdropIdWhole DEF Objects!Table, Objects!Class
  <1>69. CASE k = "PendingAirdropRecord"
    BY <1>69, PendingAirdropRecordWhole DEF Objects!Table, Objects!Class
  <1>70. CASE k = "TransactionReceipt"
    BY <1>70, TransactionReceiptWhole DEF Objects!Table, Objects!Class
  <1>71. CASE k = "TransactionRecord"
    BY <1>71, TransactionRecordWhole DEF Objects!Table, Objects!Class
  <1>72. k \in {"AccountId", "ContractId", "DelegateContractId", "FileId", "NftId", "ScheduleId",
           "TokenId", "TopicId", "TransactionId", "Key", "KeyList", "AccountBalance",
           "AccountInfo", "AccountRecords", "HbarAllowance", "HbarTransfer", "ProxyStaker",
           "StakingInfo", "ContractFunctionResult", "ContractInfo", "ContractLogInfo",
           "ContractNonceInfo", "EvmHook", "EvmHookCall", "EvmHookMappingEntries",
           "EvmHookMappingEntry", "EvmHookSpec", "EvmHookStorageSlot",
           "EvmHookStorageUpdate", "HookCall", "HookCreationDetails", "HookEntityId",
           "HookId", "Endpoint", "NodeAddress", "NodeAddressBook", "NetworkVersionInfo",
           "SemanticVersion", "ExchangeRate", "ExchangeRates", "FeeComponents", "FeeData",
           "FeeSchedule", "FeeSchedules", "TransactionFeeSchedule", "FileInfo",
           "ScheduleInfo", "TopicInfo", "RegisteredServiceEndpoint",
           "BlockNodeServiceEndpoint", "GeneralServiceEndpoint",
           "MirrorNodeServiceEndpoint", "RpcRelayServiceEndpoint", "TokenAllowance",
           "TokenAssociation", "TokenInfo", "TokenNftAllowance", "TokenNftInfo",
           "TokenNftTransfer", "TokenRelationship", "TokenTransfer", "AssessedCustomFee",
           "CustomFee", "CustomFeeLimit", "CustomFixedFee", "CustomFractionalFee",
           "CustomRoyaltyFee", "PendingAirdropId", "PendingAirdropRecord",
           "TransactionReceipt", "TransactionRecord"}
    BY DEF Objects!Kinds, Objects!Table
  <1>73. QED
    BY <1>1, <1>2, <1>3, <1>4, <1>5, <1>6, <1>7, <1>8, <1>9, <1>10, <1>11, <1>12, <1>13,
       <1>14, <1>15, <1>16, <1>17, <1>18, <1>19, <1>20, <1>21, <1>22, <1>23, <1>24, <1>25,
       <1>26, <1>27, <1>28, <1>29, <1>30, <1>31, <1>32, <1>33, <1>34, <1>35, <1>36, <1>37,
       <1>38, <1>39, <1>40, <1>41, <1>42, <1>43, <1>44, <1>45, <1>46, <1>47, <1>48, <1>49,
       <1>50, <1>51, <1>52, <1>53, <1>54, <1>55, <1>56, <1>57, <1>58, <1>59, <1>60, <1>61,
       <1>62, <1>63, <1>64, <1>65, <1>66, <1>67, <1>68, <1>69, <1>70, <1>71, <1>72

-----------------------------------------------------------------------------
\* What is read of a field, and what is written of a member.
Got(m, f, r, x) == IF x \in r.unread THEN Start(m, f) ELSE IF x = "none" THEN "zero" ELSE x
Put(r, x)       == IF x \in r.unsent THEN "none" ELSE x

\* A member that is kept holds after its time as bytes what it held before, and
\* shows a value that was sent; and what is read of nothing is not written.
LEMMA GotAgain ==
  ASSUME NEW m, NEW f, NEW r, NEW x \in {"none", "zero", "value"}, x = "zero" => "zero" \notin r.unsent
  PROVE  /\ (Returned(m, f, r) \/ Unseen(m, f, r)) =>
              Got(m, f, r, Put(r, Got(m, f, r, x))) = Got(m, f, r, x)
         /\ (Returned(m, f, r) \/ Unkept(r)) => (x = "value" => Got(m, f, r, x) = "value")
  <1>1. Start(m, f) \in {"absent", "zero", "preset"}
    BY DEF Start
  <1>2. CASE Returned(m, f, r)
    BY <1>1, <1>2 DEF Returned, Got, Put
  <1>3. CASE Unseen(m, f, r)
    BY <1>1, <1>3 DEF Unseen, Returned, Got, Put, Unkept, Objects!Wire, Objects!Values
  <1>4. CASE Unkept(r)
    BY <1>1, <1>4 DEF Unkept, Returned, Unseen, Got, Put, Objects!Values
  <1>5. QED
    BY <1>2, <1>3, <1>4

\* A message the network may send.
Sendable(k, w) ==
  LET b == Objects!Table[k].message
  IN  /\ DOMAIN w = DOMAIN b.rules
      /\ \A f \in DOMAIN w : w[f] \in {"none", "zero", "value"} /\ (w[f] = "zero" => "zero" \notin b.rules[f].unsent)
      /\ \A p \in b.oneofs : "none" \in {w[p[1]], w[p[2]]}

\* A record without a transaction ID has a receipt though none was sent.
MadeUp(k, w, f) ==
  k = "TransactionRecord" /\ f = "receipt" /\ w["transactionId"] = "none" /\ w["receipt"] = "none"

\* fromProtobuf reads member by member.
LEMMA ReceivedIs ==
  ASSUME NEW k \in Objects!Kinds, NEW w
  PROVE  LET m == Objects!Table[k].members
             b == Objects!Table[k].message
         IN  /\ DOMAIN Objects!Received(k, w) = DOMAIN b.rules
             /\ \A f \in DOMAIN b.rules :
                  Objects!Received(k, w)[f] = IF MadeUp(k, w, f) THEN "zero" ELSE Got(m, f, b.rules[f], w[f])
  <1> DEFINE m == Objects!Table[k].members
             b == Objects!Table[k].message
             read == Objects!ReadBack(m, b, w, "body")
  <1>1. Whole(k, m, b)
    BY AllWhole
  <1> HIDE DEF m, b
  <1>2. DOMAIN read = DOMAIN b.rules
    BY DEF Objects!ReadBack
  <1>3. ASSUME NEW f \in DOMAIN b.rules
        PROVE  read[f] = Got(m, f, b.rules[f], w[f])
    <2>1. b.rules[f].chunks = "one" /\ f \in m.absent \cup m.zero \cup m.preset
      BY <1>1 DEF Whole
    <2>2. Objects!Initially(m)[f] = Start(m, f)
      BY <2>1 DEF Objects!Initially, Objects!MembersOf, Start
    <2>3. QED
      BY <2>1, <2>2 DEF Objects!ReadBack, Got
  <1>4. Objects!Received(k, w) = IF k = "TransactionRecord" /\ w["transactionId"] = "none" /\ w["receipt"] = "none"
                                   THEN [read EXCEPT !["receipt"] = "zero"] ELSE read
    BY DEF Objects!Received, Objects!Message_, m, b
  <1> HIDE DEF read
  <1>5. /\ DOMAIN Objects!Received(k, w) = DOMAIN b.rules
        /\ \A f \in DOMAIN b.rules :
             Objects!Received(k, w)[f] = IF MadeUp(k, w, f) THEN "zero" ELSE read[f]
    BY <1>2, <1>4 DEF MadeUp
  <1>6. QED
    BY <1>3, <1>5 DEF m, b

\* What was sent and read is written and read again as it was.
LEMMA KeptInBytes ==
  ASSUME NEW k \in Objects!Kinds, NEW w, Sendable(k, w)
  PROVE  LET b     == Objects!Table[k].message
             shown_ == Objects!Received(k, w)
             bytes == Objects!Written(b, shown_)
         IN  /\ \A f \in DOMAIN w : w[f] = "value" => <<k, f>> \in UnreadMembers \/ shown_[f] = "value"
             /\ \A f \in DOMAIN w : <<k, f>> \in UnwrittenMembers \/ Objects!Received(k, bytes)[f] = shown_[f]
             /\ Objects!Refused(k, bytes) => Objects!Refused(k, w)
  <1> DEFINE m     == Objects!Table[k].members
             b     == Objects!Table[k].message
             first == Objects!Received(k, w)
             bytes == Objects!Written(b, first)
             again == Objects!Received(k, bytes)
  <1>1. Whole(k, m, b)
    BY AllWhole
  <1>2. /\ DOMAIN w = DOMAIN b.rules
        /\ \A f \in DOMAIN w : w[f] \in {"none", "zero", "value"} /\ (w[f] = "zero" => "zero" \notin b.rules[f].unsent)
        /\ \A p \in b.oneofs : "none" \in {w[p[1]], w[p[2]]}
    BY DEF Sendable
  <1>3. /\ DOMAIN first = DOMAIN b.rules
        /\ \A f \in DOMAIN b.rules : first[f] = IF MadeUp(k, w, f) THEN "zero" ELSE Got(m, f, b.rules[f], w[f])
    BY ReceivedIs
  <1>4. /\ DOMAIN again = DOMAIN b.rules
        /\ \A f \in DOMAIN b.rules :
             again[f] = IF MadeUp(k, bytes, f) THEN "zero" ELSE Got(m, f, b.rules[f], bytes[f])
    BY ReceivedIs
  <1>5. Objects!Refused(k, bytes) = (b.variants # {} /\ \A f \in b.variants : bytes[f] = "none")
        /\ Objects!Refused(k, w) = (b.variants # {} /\ \A f \in b.variants : w[f] = "none")
    BY DEF Objects!Refused, Objects!Message_
  <1> HIDE DEF m, b, first, again
  \* No ID has lost its checksum, for the network sends none.
  <1>6. \A f \in DOMAIN b.rules : first[f] # "bad"
    BY <1>2, <1>3 DEF Got, Start
  \* Whoever is suppressed by the other member of a oneof was not sent.
  <1>7. ASSUME NEW f \in DOMAIN b.rules
        PROVE  bytes[f] = Put(b.rules[f], first[f]) \/ (bytes[f] = "none" /\ w[f] = "none")
    <2>1. CASE \E g \in DOMAIN first : <<g, f>> \in b.oneofs /\ first[g] \notin b.rules[g].unsent
      <3>1. PICK g \in DOMAIN first : <<g, f>> \in b.oneofs /\ first[g] \notin b.rules[g].unsent
        BY <2>1
      <3>2. /\ g \in DOMAIN b.rules
            /\ IF "none" \in b.rules[g].unread THEN Start(m, g) \in b.rules[g].unsent
               ELSE "zero" \in b.rules[g].unsent
            /\ k = "TransactionRecord" => g # "receipt"
        BY <1>1, <3>1 DEF Whole
      <3>3. first[g] = Got(m, g, b.rules[g], w[g])
        BY <1>3, <3>2 DEF MadeUp
      <3>4. w[g] # "none"
        BY <3>1, <3>2, <3>3 DEF Got
      <3>5. "none" \in {w[g], w[f]}
        BY <1>2, <3>1
      <3>6. bytes[f] = "none"
        BY <2>1 DEF Objects!Written
      <3>7. QED
        BY <3>4, <3>5, <3>6
    <2>2. CASE ~\E g \in DOMAIN first : <<g, f>> \in b.oneofs /\ first[g] \notin b.rules[g].unsent
      <3>1. bytes[f] = IF first[f] \in b.rules[f].unsent THEN "none" ELSE Objects!OnWire(first[f])
        BY <2>2 DEF Objects!Written
      <3>2. Objects!OnWire(first[f]) = first[f]
        BY <1>6 DEF Objects!OnWire
      <3>3. QED
        BY <3>1, <3>2 DEF Put
    <2>3. QED
      BY <2>1, <2>2
  <1> HIDE DEF bytes
  <1>8. ASSUME NEW f \in DOMAIN b.rules, <<k, f>> \notin UnwrittenMembers, ~MadeUp(k, w, f), ~MadeUp(k, bytes, f)
        PROVE  again[f] = first[f]
    <2>1. first[f] = Got(m, f, b.rules[f], w[f]) /\ again[f] = Got(m, f, b.rules[f], bytes[f])
      BY <1>3, <1>4, <1>8
    <2>2. CASE bytes[f] = "none" /\ w[f] = "none"
      BY <2>1, <2>2
    <2>3. CASE bytes[f] = Put(b.rules[f], first[f])
      <3>1. Returned(m, f, b.rules[f]) \/ Unseen(m, f, b.rules[f])
        BY <1>1, <1>8 DEF Whole
      <3>2. w[f] \in {"none", "zero", "value"} /\ (w[f] = "zero" => "zero" \notin b.rules[f].unsent)
        BY <1>2
      <3>3. QED
        BY <2>1, <2>3, <3>1, <3>2, GotAgain
    <2>4. QED
      BY <1>7, <2>2, <2>3
  <1>9. ASSUME NEW f \in DOMAIN b.rules, k = "TransactionRecord", f = "receipt", MadeUp(k, w, f) \/ MadeUp(k, bytes, f)
        PROVE  again[f] = first[f]
    <2>1. \A g \in {"receipt", "transactionId"} :
            /\ g \in DOMAIN b.rules /\ b.rules[g].unsent = {"absent"} /\ b.rules[g].unread = {"none"}
            /\ Start(m, g) = "absent"
      BY <1>1, <1>9 DEF Whole
    <2>2. w["transactionId"] \in {"none", "zero", "value"} /\ w["receipt"] \in {"none", "zero", "value"}
      BY <1>2, <2>1
    <2>3. first["transactionId"] = Got(m, "transactionId", b.rules["transactionId"], w["transactionId"])
      BY <1>3, <2>1 DEF MadeUp
    <2>4. bytes["transactionId"] = "none" => w["transactionId"] = "none"
      BY <1>7, <2>1, <2>2, <2>3 DEF Got, Put
    <2>5. CASE MadeUp(k, w, f)
      <3>1. first["receipt"] = "zero"
        BY <1>3, <1>9, <2>5
      <3>2. \A p \in b.oneofs : "receipt" \notin {p[1], p[2]}
        BY <1>1, <1>9 DEF Whole
      <3>3. bytes["receipt"] = "zero"
        BY <2>1, <3>1, <3>2 DEF bytes, Objects!Written, Objects!OnWire
      <3>4. QED
        BY <1>4, <1>9, <2>1, <3>1, <3>3 DEF MadeUp, Got
    <2>6. CASE ~MadeUp(k, w, f)
      <3>1. bytes["transactionId"] = "none" /\ bytes["receipt"] = "none"
        BY <1>9, <2>6 DEF MadeUp
      <3>2. w["receipt"] # "none"
        BY <1>9, <2>4, <2>6, <3>1 DEF MadeUp
      <3>3. first["receipt"] = w["receipt"]
        BY <1>3, <1>9, <2>1, <2>6, <3>2 DEF Got
      <3>4. QED
        BY <1>7, <2>1, <2>2, <3>1, <3>2, <3>3 DEF Put
    <2>7. QED
      BY <2>5, <2>6
  <1>10. \A f \in DOMAIN w : <<k, f>> \in UnwrittenMembers \/ again[f] = first[f]
    BY <1>2, <1>8, <1>9 DEF MadeUp
  <1>11. ASSUME NEW f \in DOMAIN w, w[f] = "value", <<k, f>> \notin UnreadMembers
         PROVE  first[f] = "value"
    <2>1. first[f] = Got(m, f, b.rules[f], w[f])
      BY <1>2, <1>3, <1>11 DEF MadeUp
    <2>2. Returned(m, f, b.rules[f]) \/ Unkept(b.rules[f])
      BY <1>1, <1>2, <1>11 DEF Whole
    <2>3. QED
      BY <1>11, <2>1, <2>2, GotAgain
  <1>12. ASSUME NEW f \in b.variants, w[f] # "none"
         PROVE  bytes[f] # "none"
    <2>1. f \in DOMAIN b.rules /\ b.rules[f].unsent = {"absent"} /\ b.rules[f].unread = {"none"}
      BY <1>1 DEF Whole
    <2>2. first[f] = w[f] /\ w[f] \in {"zero", "value"}
      BY <1>2, <1>3, <1>12, <2>1 DEF MadeUp, Got
    <2>3. QED
      BY <1>7, <1>12, <2>1, <2>2 DEF Put
  <1>13. QED
    BY <1>5, <1>10, <1>11, <1>12 DEF b, first, again, bytes

\* What an object has been through, and where it stopped.
Bytes(k, w) == Objects!Written(Objects!Table[k].message, Objects!Received(k, w))

ObjectsKept ==
  /\ class \in Objects!Kinds /\ Sendable(class, sent)
  /\ phase = "network" => wire = sent
  /\ phase \in {"received", "bytes", "restored"} =>
       shown = Objects!Received(class, sent) /\ ~Objects!Refused(class, sent)
  /\ phase = "received" => members = shown
  /\ phase = "bytes" => wire = Bytes(class, sent)
  /\ phase = "restored" => members = Objects!Received(class, Bytes(class, sent))
  /\ phase = "refused" => \E f \in DOMAIN sent : <<class, f>> \in UnreadMembers /\ sent[f] # "none"
  /\ phase = "crashed" => \E f \in DOMAIN sent : <<class, f>> \in CrashingMembers /\ members[f] = "absent"

objectVars == <<class, sent, wire, members, shown, phase>>

\* Nothing has been sent at first.
LEMMA ObjectsInit == Objects!Init => ObjectsKept
  <1> SUFFICES ASSUME Objects!Init PROVE ObjectsKept
    OBVIOUS
  <1> DEFINE b == Objects!Table[class].message
  <1>1. class \in Objects!Kinds /\ sent = [f \in DOMAIN b.rules |-> "none"] /\ wire = sent /\ phase = "network"
    BY DEF Objects!Init, Objects!Blank, Objects!Message_
  <1>2. \A p \in b.oneofs : p[1] \in DOMAIN b.rules /\ p[2] \in DOMAIN b.rules
    BY <1>1, AllWhole DEF Whole
  <1> HIDE DEF b
  <1>3. \A p \in b.oneofs : "none" \in {sent[p[1]], sent[p[2]]}
    BY <1>1, <1>2
  <1>4. DOMAIN sent = DOMAIN b.rules /\ \A f \in DOMAIN sent : sent[f] = "none"
    BY <1>1
  <1>5. Sendable(class, sent)
    BY <1>3, <1>4 DEF Sendable, b
  <1>6. QED
    BY <1>1, <1>5 DEF ObjectsKept

\* One more field is sent, and no second of a oneof.
LEMMA ObjectsSend ==
  ASSUME ObjectsKept, NEW f \in DOMAIN sent, NEW v \in Objects!Sendable(Objects!Message_(class).rules[f]),
         Objects!Send(f, v)
  PROVE  ObjectsKept'
  <1> DEFINE b == Objects!Table[class].message
  <1>1. /\ phase = "network" /\ sent' = [sent EXCEPT ![f] = v] /\ wire' = sent'
        /\ class' = class /\ phase' = phase
        /\ \A p \in b.oneofs : f \in {p[1], p[2]} => sent[p[1]] = "none" /\ sent[p[2]] = "none"
    BY DEF Objects!Send, Objects!Message_
  <1>2. v \in {"zero", "value"} /\ (v = "zero" => "zero" \notin b.rules[f].unsent)
    BY DEF Objects!Sendable, Objects!Message_
  <1>3. class \in Objects!Kinds /\ Sendable(class, sent)
    BY DEF ObjectsKept
  <1>4. \A p \in b.oneofs : p[1] \in DOMAIN b.rules /\ p[2] \in DOMAIN b.rules /\ p[1] # p[2]
    BY <1>3, AllWhole DEF Whole
  <1>5. Sendable(class, sent)'
    BY <1>1, <1>2, <1>3, <1>4 DEF Sendable
  <1>6. QED
    BY <1>1, <1>3, <1>5 DEF ObjectsKept

\* Reading refuses only what holds none of the alternatives the SDK knows.
LEMMA ObjectsReceive ==
  ASSUME ObjectsKept, Objects!Receive
  PROVE  ObjectsKept'
  <1> DEFINE b == Objects!Table[class].message
  <1>1. /\ phase = "network" /\ wire = sent /\ class \in Objects!Kinds /\ Sendable(class, sent)
        /\ class' = class /\ sent' = sent /\ wire' = wire
    BY DEF ObjectsKept, Objects!Receive, Objects!Read
  <1>2. CASE Objects!Refused(class, sent)
    <2>1. phase' = "refused"
      BY <1>1, <1>2 DEF Objects!Receive, Objects!Read
    <2>2. b.variants # {} /\ \A f \in b.variants : sent[f] = "none"
      BY <1>2 DEF Objects!Refused, Objects!Message_
    <2>3. \E f \in b.variants \cup UNION {{p[1], p[2]} : p \in b.oneofs} : sent[f] # "none"
      BY <2>2 DEF Objects!Receive, Objects!Complete, Objects!Message_
    <2>4. PICK p \in b.oneofs : \E f \in {p[1], p[2]} : sent[f] # "none"
      BY <2>2, <2>3
    <2>5. PICK f \in {p[1], p[2]} : sent[f] # "none"
      BY <2>4
    <2>6. Whole(class, Objects!Table[class].members, b)
      BY <1>1, AllWhole
    <2>7. /\ p[1] \in DOMAIN b.rules /\ p[2] \in DOMAIN b.rules
          /\ \A g \in {p[1], p[2]} : g \in b.variants \/ <<class, g>> \in UnreadMembers
      <3> HIDE DEF b
      <3>1. QED
        BY <2>2, <2>6 DEF Whole
    <2>8. DOMAIN sent = DOMAIN b.rules
      BY <1>1 DEF Sendable
    <2>9. \E g \in DOMAIN sent : <<class, g>> \in UnreadMembers /\ sent[g] # "none"
      BY <2>2, <2>5, <2>7, <2>8
    <2>10. QED
      BY <1>1, <2>1, <2>9 DEF ObjectsKept
  <1>3. CASE ~Objects!Refused(class, sent)
    <2>1. phase' = "received" /\ members' = Objects!Received(class, sent) /\ shown' = members'
      BY <1>1, <1>3 DEF Objects!Receive, Objects!Read
    <2>2. QED
      BY <1>1, <1>3, <2>1 DEF ObjectsKept
  <1>4. QED
    BY <1>2, <1>3

\* Writing fails only at a pointer that is dereferenced unchecked.
LEMMA ObjectsToBytes ==
  ASSUME ObjectsKept, Objects!ToBytes
  PROVE  ObjectsKept'
  <1> DEFINE b == Objects!Table[class].message
  <1>1. /\ phase = "received" /\ class \in Objects!Kinds /\ Sendable(class, sent)
        /\ members = shown /\ shown = Objects!Received(class, sent) /\ ~Objects!Refused(class, sent)
        /\ class' = class /\ sent' = sent /\ members' = members /\ shown' = shown
    BY DEF ObjectsKept, Objects!ToBytes
  <1>2. CASE Objects!CanBeWritten(Objects!Message_(class), members)
    <2>1. phase' = "bytes" /\ wire' = Bytes(class, sent)
      BY <1>1, <1>2 DEF Objects!ToBytes, Bytes, Objects!Message_
    <2>2. QED
      BY <1>1, <2>1 DEF ObjectsKept
  <1>3. CASE ~Objects!CanBeWritten(Objects!Message_(class), members)
    <2>1. phase' = "crashed"
      BY <1>3 DEF Objects!ToBytes
    <2>2. PICK f \in DOMAIN b.rules : b.rules[f].required /\ members[f] = "absent"
      BY <1>3 DEF Objects!CanBeWritten, Objects!Message_
    <2>3. <<class, f>> \in CrashingMembers
      BY <1>1, <2>2, AllWhole DEF Whole
    <2>4. f \in DOMAIN sent
      BY <1>1 DEF Sendable
    <2>5. QED
      BY <1>1, <2>1, <2>2, <2>3, <2>4 DEF ObjectsKept
  <1>4. QED
    BY <1>2, <1>3

\* What could be read once can be read again.
LEMMA ObjectsFromBytes ==
  ASSUME ObjectsKept, Objects!FromBytes
  PROVE  ObjectsKept'
  <1>1. /\ phase = "bytes" /\ class \in Objects!Kinds /\ Sendable(class, sent)
        /\ wire = Bytes(class, sent)
        /\ shown = Objects!Received(class, sent) /\ ~Objects!Refused(class, sent)
        /\ class' = class /\ sent' = sent /\ shown' = shown
    BY DEF ObjectsKept, Objects!FromBytes, Objects!Read
  <1>2. ~Objects!Refused(class, wire)
    BY <1>1, KeptInBytes DEF Bytes
  <1>3. phase' = "restored" /\ members' = Objects!Received(class, Bytes(class, sent))
    BY <1>1, <1>2 DEF Objects!FromBytes, Objects!Read
  <1>4. QED
    BY <1>1, <1>3 DEF ObjectsKept

\* The invariant says what is kept.
LEMMA ObjectsKeptKeeps ==
  ASSUME ObjectsKept, UnreadMembers \subseteq Losses.unread,
         UnwrittenMembers \subseteq Losses.unwritten, CrashingMembers \subseteq Losses.crashing
  PROVE  Objects!KeptAsSent
  <1> USE DEF ObjectsKept
  <1>1. phase \in {"received", "bytes", "restored"} =>
          \A f \in DOMAIN sent : sent[f] = "value" => <<class, f>> \in Losses.unread \/ shown[f] = "value"
    BY KeptInBytes
  <1>2. phase = "restored" => \A f \in DOMAIN sent : <<class, f>> \in Losses.unwritten \/ members[f] = shown[f]
    BY KeptInBytes DEF Bytes
  <1>3. phase = "refused" => \E f \in DOMAIN sent : <<class, f>> \in Losses.unread /\ sent[f] # "none"
    OBVIOUS
  <1>4. phase = "crashed" => \E f \in DOMAIN sent : <<class, f>> \in Losses.crashing /\ members[f] = "absent"
    OBVIOUS
  <1>5. QED
    BY <1>1, <1>2, <1>3, <1>4 DEF Objects!KeptAsSent

\* Whatever the network sends of any class of object, in any number of fields at
\* once, shows in the object, can be turned into bytes, and shows again in the
\* object read from the bytes, except the members named above: fromProtobuf and
\* toProtobuf of every class of IDs, infos, keys, fees and records.
THEOREM AnswersKept ==
  ASSUME UnreadMembers \subseteq Losses.unread,
         UnwrittenMembers \subseteq Losses.unwritten, CrashingMembers \subseteq Losses.crashing
  PROVE  Objects!Spec => []Objects!KeptAsSent
  <1>1. Objects!Init => ObjectsKept
    BY ObjectsInit
  <1>2. ObjectsKept /\ [Objects!Next]_objectVars => ObjectsKept'
    <2> SUFFICES ASSUME ObjectsKept, [Objects!Next]_objectVars PROVE ObjectsKept'
      OBVIOUS
    <2>1. CASE \E f \in DOMAIN sent : \E v \in Objects!Sendable(Objects!Message_(class).rules[f]) : Objects!Send(f, v)
      BY <2>1, ObjectsSend
    <2>2. CASE Objects!Receive
      BY <2>2, ObjectsReceive
    <2>3. CASE Objects!ToBytes
      BY <2>3, ObjectsToBytes
    <2>4. CASE Objects!FromBytes
      BY <2>4, ObjectsFromBytes
    <2>5. CASE Objects!Done \/ UNCHANGED objectVars
      BY <2>5 DEF Objects!Done, Objects!vars, objectVars, ObjectsKept
    <2>6. QED
      BY <2>1, <2>2, <2>3, <2>4, <2>5 DEF Objects!Next
  <1>3. ObjectsKept => Objects!KeptAsSent
    BY ObjectsKeptKeeps
  <1>4. QED
    BY <1>1, <1>2, <1>3, PTL DEF Objects!Spec, Objects!vars, objectVars

=============================================================================
