-------------------------- MODULE TopicSubscription --------------------------
(***************************************************************************)
(* One subscription to a topic (src/TopicMessageQuery.cc): the thread that *)
(* subscribe() starts, the completion queue it reads, the mirror node that *)
(* streams the topic, and the user who may unsubscribe at any moment.      *)
(*                                                                         *)
(* The topic is a sequence of responses; a response's place in it stands   *)
(* for its consensus timestamp.  A message of several chunks is several    *)
(* responses with the same transaction ID.                                 *)
(*                                                                         *)
(* One operation is under way at any moment (create, read or finish); the  *)
(* queue delivers it with ok or without.  The response of a read is        *)
(* written when its event is taken from the queue.  Waits are counted in   *)
(* units of DEFAULT_MIN_BACKOFF.                                           *)
(***************************************************************************)
EXTENDS Integers, Sequences, FiniteSets

CONSTANTS
  Transactions,  \* IDs of transactions that sent their message in chunks
  NoTransaction, \* in place of the ID: a message of one response
  Topic,         \* the responses: [tx, total]
  Limits,        \* the limits a query may have, 0 for none
  MaxAttempts,   \* mMaxAttempts
  MaxBackoff     \* mMaxBackoff

Positions == 1 .. Len(Topic)
Chunks(tx) == {i \in Positions : Topic[i].tx = tx}

ASSUME TopicAssumption ==
  /\ NoTransaction \notin Transactions
  /\ Topic \in Seq([tx : Transactions \cup {NoTransaction}, total : Nat \ {0}])
  /\ \A i \in Positions :
       Topic[i].total = IF Topic[i].tx = NoTransaction THEN 1
                        ELSE Cardinality(Chunks(Topic[i].tx))
  /\ Limits \subseteq Nat
  /\ MaxAttempts \in Nat /\ MaxBackoff \in Nat \ {0}

VARIABLES
  query,      \* what the next stream is asked for: [start, limit]
  bounded,    \* does the query have an end time, at the end of the topic
  pc, callStatus, attempt, complete, backoff, grpcStatus,
  response,   \* the response buffer: a position, 0 before the first read
  pendingMessages,
  op,         \* the operation under way
  event,      \* "none", or what the queue holds for it: "ok" or "failed"
  arriving,   \* the response that comes with the event
  queueDown,  \* is the last queue shut down
  stream,     \* the mirror node's side of the last call: [next, left, status]
  cancelled,  \* TryCancel was called on the last context
  handle,     \* mUnsubscribeFunc is set
  unsubscribed,
  delivered,  \* history: what onNext got, as sets of positions
  outcome     \* history: the handler that was called

clientVars == <<query, pc, callStatus, attempt, complete, backoff, grpcStatus,
                response, pendingMessages, queueDown>>
callVars == <<op, event, arriving, stream>>
userVars == <<bounded, cancelled, handle, unsubscribed>>
histVars == <<delivered, outcome>>
vars == <<clientVars, callVars, userVars, histVars>>

Retryable == {"UNAVAILABLE"}    \* NOT_FOUND, RESOURCE_EXHAUSTED, INTERNAL too
Statuses  == Retryable \cup {"OK", "CANCELLED", "INVALID_ARGUMENT"}

\* An unlimited stream has left = -1.
NewStream(q, cancel) ==
  [ next |-> q.start, left |-> IF q.limit = 0 THEN -1 ELSE q.limit,
    status |-> IF cancel THEN "CANCELLED" ELSE "open" ]

\* subscribe: the call is made before the thread runs.
Init ==
  /\ bounded \in BOOLEAN
  /\ \E limit \in Limits : query = [start |-> 1, limit |-> limit]
  /\ pc = "starting" /\ callStatus = "CREATE" /\ attempt = 0
  /\ complete = FALSE /\ backoff = 1 /\ grpcStatus = "OK" /\ response = 0
  /\ pendingMessages = [tx \in Transactions |-> <<>>]
  /\ op = "create" /\ event = "none" /\ arriving = 0 /\ queueDown = FALSE
  /\ stream = NewStream(query, FALSE)
  /\ cancelled = FALSE /\ handle = FALSE /\ unsubscribed = FALSE
  /\ delivered = <<>> /\ outcome = "none"

-----------------------------------------------------------------------------
(***************************************************************************)
(* The mirror node and the queue.                                          *)
(***************************************************************************)
Quiet == UNCHANGED <<clientVars, userVars, histVars>>

CallCreated ==
  /\ op = "create" /\ event = "none"
  /\ event' = "ok"
  /\ UNCHANGED <<op, arriving, stream>> /\ Quiet

ResponseArrives ==
  /\ op = "read" /\ event = "none"
  /\ stream.status = "open" /\ stream.next \in Positions /\ stream.left # 0
  /\ event' = "ok" /\ arriving' = stream.next
  /\ stream' = [stream EXCEPT !.next = @ + 1,
                              !.left = IF @ > 0 THEN @ - 1 ELSE @]
  /\ UNCHANGED op /\ Quiet

\* The stream ends after the limit or the end time, and fails at any moment.
Finished == stream.left = 0 \/ (bounded /\ stream.next > Len(Topic))

StreamEnds ==
  /\ stream.status = "open"
  /\ \E status \in {"OK"} \cup Retryable \cup {"INVALID_ARGUMENT"} :
       /\ status = "OK" => Finished
       /\ stream' = [stream EXCEPT !.status = status]
  /\ UNCHANGED <<op, event, arriving>> /\ Quiet

\* Nothing more comes from a stream that is over; Finish fetches its status.
OperationOver ==
  /\ event = "none" /\ stream.status # "open"
  /\ \/ op \in {"create", "read"} /\ event' = "failed" /\ UNCHANGED grpcStatus
     \/ op = "finish" /\ event' = "ok" /\ grpcStatus' = stream.status
  /\ UNCHANGED <<query, pc, callStatus, attempt, complete, backoff, response,
                 pendingMessages, queueDown, op, arriving, stream, userVars, histVars>>

-----------------------------------------------------------------------------
(***************************************************************************)
(* The thread.                                                             *)
(***************************************************************************)
SetOnUnsubscribe ==
  /\ pc = "starting"
  /\ pc' = "next" /\ handle' = TRUE
  /\ UNCHANGED <<query, callStatus, attempt, complete, backoff, grpcStatus, response,
                 pendingMessages, queueDown, callVars, bounded, cancelled,
                 unsubscribed, histVars>>

\* Mutant: the backoff has no maximum.
LongerUncapped == backoff * 2

Longer == IF backoff * 2 > MaxBackoff THEN MaxBackoff ELSE backoff * 2
Shorter == IF backoff \div 2 < 1 THEN 1 ELSE backoff \div 2

Timeout ==
  /\ pc = "next" /\ event = "none" /\ ~queueDown
  /\ backoff' = Longer
  /\ UNCHANGED <<query, pc, callStatus, attempt, complete, grpcStatus, response,
                 pendingMessages, queueDown, callVars, userVars, histVars>>

\* Mutant: the retry starts where the first call did.
AdjustedLimitOnly(r) ==
  [query EXCEPT !.limit = IF @ > 0 THEN @ - 1 ELSE 0]

\* Mutant: one unit is added, of a clock coarser than the topic's timestamps.
AdjustedTooFar(r) ==
  [ start |-> IF r = 0 THEN query.start ELSE r + 2,
    limit |-> IF query.limit > 0 THEN query.limit - 1 ELSE 0 ]

\* The query for a retry after response r, which is empty before the first read.
\* The duration that is added to the timestamp of r is value-initialised, so it
\* is 0: the next stream begins with r again.
Adjusted(r) ==
  [ start |-> IF r = 0 THEN query.start ELSE r,
    limit |-> IF query.limit > 0 THEN query.limit - 1 ELSE 0 ]

\* onNext, at once or when there are as many chunks as the message has.
Deliver(r) ==
  IF r = 0 \/ Topic[r].total = 1
  THEN delivered' = Append(delivered, {r} \ {0}) /\ UNCHANGED pendingMessages
  ELSE LET chunks == Append(pendingMessages[Topic[r].tx], r)
       IN /\ pendingMessages' = [pendingMessages EXCEPT ![Topic[r].tx] = chunks]
          /\ delivered' = IF Len(chunks) = Topic[r].total
                          THEN Append(delivered, {chunks[i] : i \in DOMAIN chunks})
                          ELSE delivered

\* An event with ok after create or read.  After create the buffer still holds
\* what it held before: nothing, or the last response before the retry.
Process ==
  /\ pc = "next" /\ event = "ok" /\ callStatus \in {"CREATE", "PROCESSING"}
  /\ LET r == IF op = "read" THEN arriving ELSE response
     IN response' = r /\ query' = Adjusted(r) /\ Deliver(r)
  /\ callStatus' = "PROCESSING" /\ backoff' = Shorter
  /\ op' = "read" /\ event' = "none" /\ arriving' = 0
  /\ UNCHANGED <<pc, attempt, complete, grpcStatus, queueDown, stream, userVars,
                 outcome>>

Finish ==
  /\ pc = "next" /\ event = "failed" /\ callStatus \in {"CREATE", "PROCESSING"}
  /\ callStatus' = "FINISH" /\ backoff' = Shorter
  /\ op' = "finish" /\ event' = "none"
  /\ UNCHANGED <<query, pc, attempt, complete, grpcStatus, response, pendingMessages,
                 queueDown, arriving, stream, userVars, histVars>>

\* Mutant: every status is retried.
RetryingAnyStatus == attempt < MaxAttempts

Retrying == attempt < MaxAttempts /\ grpcStatus \in Retryable

\* Mutant: the error handler is told of every failed stream.
CompletedReporting ==
  /\ pc = "next" /\ event = "ok" /\ callStatus = "FINISH"
  /\ outcome' = IF grpcStatus = "OK" THEN "completed" ELSE "error"
  /\ complete' = (grpcStatus = "OK" \/ ~Retrying)
  /\ cancelled' = (cancelled \/ grpcStatus # "OK")
  /\ backoff' = Shorter /\ queueDown' = TRUE /\ op' = "none" /\ event' = "none"
  /\ UNCHANGED <<query, pc, callStatus, attempt, grpcStatus, response,
                 pendingMessages, arriving, stream, bounded, handle, unsubscribed,
                 delivered>>

\* The status is there: done, or the queue is closed for a retry.
Completed ==
  /\ pc = "next" /\ event = "ok" /\ callStatus = "FINISH"
  /\ \/ /\ grpcStatus = "OK"
        /\ outcome' = "completed" /\ complete' = TRUE /\ UNCHANGED cancelled
     \/ /\ grpcStatus # "OK" /\ cancelled' = TRUE
        /\ IF Retrying THEN UNCHANGED <<outcome, complete>>
                       ELSE outcome' = "error" /\ complete' = TRUE
  /\ backoff' = Shorter /\ queueDown' = TRUE /\ op' = "none" /\ event' = "none"
  /\ UNCHANGED <<query, pc, callStatus, attempt, grpcStatus, response,
                 pendingMessages, arriving, stream, bounded, handle, unsubscribed,
                 delivered>>

\* SHUTDOWN: a second of grace, or the backoff before a retry.
QueueDown ==
  /\ pc = "next" /\ queueDown
  /\ \/ complete /\ pc' = "closing" /\ UNCHANGED backoff
     \/ ~complete /\ pc' = "sleeping" /\ backoff' = Longer
  /\ UNCHANGED <<query, callStatus, attempt, complete, grpcStatus, response,
                 pendingMessages, queueDown, callVars, userVars, histVars>>

\* Mutant: the attempt is not counted.
RetryUncounted ==
  /\ pc = "sleeping"
  /\ pc' = "connecting"
  /\ cancelled' = FALSE /\ queueDown' = FALSE /\ callStatus' = "CREATE"
  /\ UNCHANGED <<query, attempt, complete, backoff, grpcStatus, response,
                 pendingMessages, callVars, bounded, handle, unsubscribed, histVars>>

\* The new context and queue; then the search for a node that can be connected.
Retry ==
  /\ pc = "sleeping"
  /\ pc' = "connecting" /\ attempt' = attempt + 1
  /\ cancelled' = FALSE /\ queueDown' = FALSE /\ callStatus' = "CREATE"
  /\ UNCHANGED <<query, complete, backoff, grpcStatus, response, pendingMessages,
                 callVars, bounded, handle, unsubscribed, histVars>>

\* getConnectedMirrorNode throws only when there is no mirror network, or it has
\* no node; the network the thread keeps had one, and is never emptied.
Resend ==
  /\ pc = "connecting"
  /\ pc' = "next" /\ op' = "create" /\ event' = "none" /\ arriving' = 0
  /\ stream' = NewStream(query, cancelled)
  /\ UNCHANGED <<query, callStatus, attempt, complete, backoff, grpcStatus, response,
                 pendingMessages, queueDown, userVars, histVars>>

Return ==
  /\ pc = "closing"
  /\ pc' = "returned"
  /\ UNCHANGED <<query, callStatus, attempt, complete, backoff, grpcStatus, response,
                 pendingMessages, queueDown, callVars, userVars, histVars>>

-----------------------------------------------------------------------------
(***************************************************************************)
(* The user.                                                               *)
(***************************************************************************)
\* unsubscribe: cancels the last context, if the thread has told how.  A call
\* on the way ends as cancelled unless it has ended already.
Unsubscribe ==
  /\ ~unsubscribed /\ pc # "returned"
  /\ unsubscribed' = TRUE
  /\ \/ /\ handle /\ cancelled' = TRUE
        /\ stream' = IF stream.status = "open"
                     THEN [stream EXCEPT !.status = "CANCELLED"] ELSE stream
     \/ ~handle /\ UNCHANGED <<cancelled, stream>>
  /\ UNCHANGED <<clientVars, op, event, arriving, bounded, handle, histVars>>

\* The handle still refers to the contexts, which are gone: unsubscribe and the
\* handle's destructor may do anything.
UnsubscribeLate ==
  /\ pc = "returned"
  /\ pc' \in {"ended", "crashed"}
  /\ UNCHANGED <<query, callStatus, attempt, complete, backoff, grpcStatus, response,
                 pendingMessages, queueDown, callVars, userVars, histVars>>

-----------------------------------------------------------------------------
Thread ==
  \/ SetOnUnsubscribe \/ Timeout \/ Process \/ Finish \/ Completed
  \/ QueueDown \/ Retry \/ Resend \/ Return
MirrorNode == CallCreated \/ ResponseArrives \/ StreamEnds \/ OperationOver
Done == pc \in {"ended", "crashed"}

Next ==
  \/ Thread \/ MirrorNode \/ Unsubscribe \/ UnsubscribeLate
  \/ Done /\ UNCHANGED vars

Spec == Init /\ [][Next]_vars

\* The thread runs; the mirror node sends what it has, ends a stream that is at
\* its end, and the queue delivers every event.  Nothing makes a stream fail.
FairSpec ==
  /\ Spec
  /\ WF_vars(SetOnUnsubscribe) /\ WF_vars(Process) /\ WF_vars(Finish)
  /\ WF_vars(Completed) /\ WF_vars(QueueDown) /\ WF_vars(Retry)
  /\ WF_vars(Resend) /\ WF_vars(Return)
  /\ WF_vars(CallCreated) /\ WF_vars(ResponseArrives) /\ WF_vars(OperationOver)
  /\ WF_vars(Finished /\ StreamEnds)

-----------------------------------------------------------------------------
(***************************************************************************)
(* Properties.                                                             *)
(***************************************************************************)
TypeOK ==
  /\ query \in [start : Positions \cup {Len(Topic) + 1}, limit : Nat]
  /\ bounded \in BOOLEAN
  /\ pc \in {"starting", "next", "sleeping", "connecting", "closing", "returned",
             "ended", "crashed"}
  /\ callStatus \in {"CREATE", "PROCESSING", "FINISH"}
  /\ attempt \in 0 .. MaxAttempts /\ complete \in BOOLEAN
  /\ backoff \in 1 .. MaxBackoff
  /\ grpcStatus \in Statuses
  /\ response \in Positions \cup {0} /\ arriving \in Positions \cup {0}
  /\ pendingMessages \in [Transactions -> Seq(Positions)]
  /\ op \in {"none", "create", "read", "finish"} /\ event \in {"none", "ok", "failed"}
  /\ stream \in [next : Positions \cup {Len(Topic) + 1}, left : Nat \cup {-1},
                 status : Statuses \cup {"open"}]
  /\ queueDown \in BOOLEAN /\ cancelled \in BOOLEAN
  /\ handle \in BOOLEAN /\ unsubscribed \in BOOLEAN
  /\ delivered \in Seq(SUBSET Positions)
  /\ outcome \in {"none", "completed", "error"}

\* Exactly one of the completion handler and the error handler is called, when
\* the subscription is over for good: not for a stream that is retried, and
\* nothing is delivered after it.
OutcomeIsFinal ==
  [][outcome # "none" => UNCHANGED <<outcome, delivered, attempt>>]_vars

\* Retries lose no response: whatever lies before the point where a new stream
\* would start, and the response itself that the thread read last, was handed to
\* onNext or is kept as a chunk.
Handed ==
  (UNION {delivered[k] : k \in DOMAIN delivered})
    \cup (UNION {{pendingMessages[tx][k] : k \in DOMAIN pendingMessages[tx]} :
                   tx \in Transactions})

NoGap ==
  \A i \in Positions : i < query.start \/ i <= response => i \in Handed

\* onNext sees the topic in order.  A retry handles the last response again,
\* once from the buffer and once as the new stream begins with it, and nothing
\* that came before it.
InOrder ==
  \A j, k \in DOMAIN delivered : j < k =>
    \A m \in delivered[k] : \E n \in delivered[k] :
      n >= m /\ \A i \in delivered[j] : i <= n

\* With an end time every subscription ends: after as many failed streams as
\* there are attempts, the error handler is called; a stream that does not fail
\* completes.
SubscriptionEnds == bounded ~> pc \in {"returned", "ended", "crashed"}

\* An unsubscribe that finds the stream open, or comes before the call of a
\* retry is made, ends the subscription although attempts are left.
CancelledEnds ==
  stream.status = "CANCELLED" ~> pc \in {"returned", "ended", "crashed"}

=============================================================================
