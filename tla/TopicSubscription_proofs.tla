----------------------- MODULE TopicSubscription_proofs -----------------------
(***************************************************************************)
(* The subscription delivers in order and without a gap, and ends once,    *)
(* for every topic, limit, number of attempts and maximum of the backoff.  *)
(***************************************************************************)
EXTENDS TopicSubscription, SequenceTheorems, TLAPS

-----------------------------------------------------------------------------
(***************************************************************************)
(* The inductive invariant.                                                *)
(***************************************************************************)
\* A new attempt is only prepared while one is left.
AttemptLeft ==
  /\ pc = "sleeping" => attempt < MaxAttempts
  /\ pc = "next" /\ queueDown /\ ~complete => attempt < MaxAttempts
  /\ pc \in {"starting", "connecting"} => ~queueDown

\* The next stream starts with the response in the buffer, and what was handed
\* on is everything up to that response.
Progress ==
  /\ query.start = IF response = 0 THEN 1 ELSE response
  /\ Handed = 1 .. response

\* A stream goes on after the response in the buffer, or begins with it again;
\* so does the response on its way.
InStep ==
  IF op = "read" /\ event = "ok"
  THEN /\ arriving \in {response, response + 1} \ {0}
       /\ stream.next = arriving + 1
  ELSE stream.next \in {query.start, response + 1}

\* The status of the call goes with its operation.
Stage ==
  /\ callStatus = "FINISH" => op \in {"finish", "none"}
  /\ pc = "connecting" => callStatus = "CREATE"

\* Once a handler was called, no operation is left that could bring an event.
Over ==
  /\ outcome # "none" => complete
  /\ complete => /\ op = "none" /\ event = "none"
                 /\ pc \in {"next", "closing", "returned", "ended", "crashed"}

IInv == TypeOK /\ AttemptLeft /\ Progress /\ InStep /\ Stage /\ Over /\ InOrder

-----------------------------------------------------------------------------
(***************************************************************************)
(* What handing on one response does.                                      *)
(***************************************************************************)
\* A response is a message of its own, or a chunk of a known transaction.
LEMMA TopicType ==
  /\ Len(Topic) \in Nat
  /\ \A i \in Positions : Topic[i].total # 1 => Topic[i].tx \in Transactions
  <1>1. Len(Topic) \in Nat
    BY TopicAssumption, LenProperties
  <1>2. ASSUME NEW i \in Positions
        PROVE  Topic[i] \in [tx : Transactions \cup {NoTransaction}, total : Nat \ {0}]
    BY TopicAssumption, ElementOfSeq DEF Positions
  <1>3. QED
    BY <1>1, <1>2, TopicAssumption

\* The elements of a sequence with one appended.
LEMMA AppendMembers ==
  ASSUME NEW S, NEW s \in Seq(S), NEW e \in S
  PROVE  LET t == Append(s, e)
         IN /\ t \in Seq(S)
            /\ DOMAIN s = 1 .. Len(s) /\ Len(s) \in Nat
            /\ DOMAIN t = 1 .. Len(s) + 1
            /\ \A k \in DOMAIN s : t[k] = s[k]
            /\ t[Len(s) + 1] = e
            /\ \A i : (\E k \in DOMAIN t : i = t[k])
                      <=> (\E k \in DOMAIN s : i = s[k]) \/ i = e
            /\ \A i : (\E k \in DOMAIN t : i \in t[k])
                      <=> (\E k \in DOMAIN s : i \in s[k]) \/ i \in e
  <1> DEFINE t == Append(s, e)
  <1>1. /\ t \in Seq(S)
        /\ DOMAIN s = 1 .. Len(s) /\ Len(s) \in Nat
        /\ DOMAIN t = 1 .. Len(s) + 1
        /\ \A k \in DOMAIN s : t[k] = s[k]
        /\ t[Len(s) + 1] = e
    BY AppendProperties, LenProperties
  <1> HIDE DEF t
  <1>2. \A k : k \in DOMAIN t <=> k \in DOMAIN s \/ k = Len(s) + 1
    BY <1>1, SMT
  <1>3. \A i : (\E k \in DOMAIN t : i = t[k])
               <=> (\E k \in DOMAIN s : i = s[k]) \/ i = e
    BY <1>1, <1>2, Zenon
  <1>4. \A i : (\E k \in DOMAIN t : i \in t[k])
               <=> (\E k \in DOMAIN s : i \in s[k]) \/ i \in e
    BY <1>1, <1>2, Zenon
  <1>5. QED
    BY <1>1, <1>3, <1>4 DEF t

\* Membership in Handed, element by element.
LEMMA HandedMember ==
  \A i : i \in Handed <=>
          \/ \E k \in DOMAIN delivered : i \in delivered[k]
          \/ \E tx \in Transactions : \E k \in DOMAIN pendingMessages[tx] :
               i = pendingMessages[tx][k]
  <1> DEFINE Kept(tx, i) == \E k \in DOMAIN pendingMessages[tx] :
                             i = pendingMessages[tx][k]
             C(tx) == {pendingMessages[tx][k] : k \in DOMAIN pendingMessages[tx]}
             P == UNION {C(tx) : tx \in Transactions}
             D == UNION {delivered[k] : k \in DOMAIN delivered}
  <1>1. Handed = D \cup P
    BY DEF Handed
  <1>2. \A tx \in Transactions : \A i : i \in C(tx) <=> Kept(tx, i)
    OBVIOUS
  <1>3. \A i : i \in P <=> \E tx \in Transactions : i \in C(tx)
    OBVIOUS
  <1>4. \A i : i \in D <=> \E k \in DOMAIN delivered : i \in delivered[k]
    OBVIOUS
  <1> HIDE DEF C, P, D, Kept
  <1>5. \A i : i \in P <=> \E tx \in Transactions : Kept(tx, i)
    BY <1>2, <1>3
  <1>6. \A i : i \in Handed <=> \/ \E k \in DOMAIN delivered : i \in delivered[k]
                              \/ \E tx \in Transactions : Kept(tx, i)
    BY <1>1, <1>4, <1>5
  <1>7. QED
    BY <1>6, Zenon DEF Kept

\* The same after a step.
LEMMA HandedMemberAfter ==
  \A i : i \in Handed' <=>
          \/ \E k \in DOMAIN delivered' : i \in delivered'[k]
          \/ \E tx \in Transactions : \E k \in DOMAIN pendingMessages'[tx] :
               i = pendingMessages'[tx][k]
  <1> DEFINE Kept(tx, i) == \E k \in DOMAIN pendingMessages'[tx] :
                             i = pendingMessages'[tx][k]
             C(tx) == {pendingMessages'[tx][k] : k \in DOMAIN pendingMessages'[tx]}
             P == UNION {C(tx) : tx \in Transactions}
             D == UNION {delivered'[k] : k \in DOMAIN delivered'}
  <1>1. Handed' = D \cup P
    BY DEF Handed
  <1>2. \A tx \in Transactions : \A i : i \in C(tx) <=> Kept(tx, i)
    OBVIOUS
  <1>3. \A i : i \in P <=> \E tx \in Transactions : i \in C(tx)
    OBVIOUS
  <1>4. \A i : i \in D <=> \E k \in DOMAIN delivered' : i \in delivered'[k]
    OBVIOUS
  <1> HIDE DEF C, P, D, Kept
  <1>5. \A i : i \in P <=> \E tx \in Transactions : Kept(tx, i)
    BY <1>2, <1>3
  <1>6. \A i : i \in Handed' <=> \/ \E k \in DOMAIN delivered' : i \in delivered'[k]
                              \/ \E tx \in Transactions : Kept(tx, i)
    BY <1>1, <1>4, <1>5
  <1>7. QED
    BY <1>6, Zenon DEF Kept

\* The next response in line is handed on, or the last one again: delivered or
\* kept, nothing else is lost, and onNext stays in order.
LEMMA DeliverHands ==
  ASSUME TypeOK, Handed = 1 .. response, InOrder,
         NEW r \in Positions \cup {0}, r = response \/ r = response + 1,
         Deliver(r)
  PROVE  /\ delivered' \in Seq(SUBSET Positions)
         /\ pendingMessages' \in [Transactions -> Seq(Positions)]
         /\ Handed' = 1 .. r
         /\ InOrder'
  <1> USE TopicType
  <1> DEFINE new == delivered'[Len(delivered) + 1]
  <1>1. /\ delivered \in Seq(SUBSET Positions) /\ Len(delivered) \in Nat
        /\ DOMAIN delivered = 1 .. Len(delivered)
        /\ pendingMessages \in [Transactions -> Seq(Positions)]
        /\ response \in Nat /\ r \in Nat
    BY LenProperties, SMT DEF TypeOK, Positions
  \* Both kinds of message come to this: one set more, or none.
  <1>2. ASSUME \/ delivered' = delivered
               \/ \E m \in SUBSET Positions :
                    /\ delivered' = Append(delivered, m)
                    /\ m \subseteq Handed \cup ({r} \ {0})
                    /\ m # {} => r \in m,
               \A i : i \in Handed' <=> i \in Handed \/ (i = r /\ r # 0)
        PROVE  /\ delivered' \in Seq(SUBSET Positions)
               /\ Handed' = 1 .. r
               /\ InOrder'
    <2>1. Handed' = 1 .. r
      <3>1. \A i : i \in Handed' <=> i \in 1 .. r
        BY <1>1, <1>2, SMT
      <3>2. QED
        BY <3>1, Zenon
    <2>2. CASE delivered' = delivered
      BY <1>1, <2>1, <2>2 DEF InOrder
    <2>3. ASSUME NEW m \in SUBSET Positions,
                 delivered' = Append(delivered, m),
                 m \subseteq Handed \cup ({r} \ {0}),
                 m # {} => r \in m
          PROVE  delivered' \in Seq(SUBSET Positions) /\ InOrder'
      <3>1. /\ delivered' \in Seq(SUBSET Positions)
            /\ DOMAIN delivered' = 1 .. Len(delivered) + 1
            /\ \A k \in 1 .. Len(delivered) : delivered'[k] = delivered[k]
            /\ delivered'[Len(delivered) + 1] = m
        BY <1>1, <2>3, AppendMembers
      <3>2. \A k \in DOMAIN delivered : delivered[k] \subseteq 1 .. response
        BY HandedMember
      <3> SUFFICES ASSUME NEW j \in DOMAIN delivered', NEW k \in DOMAIN delivered',
                          j < k, NEW n \in delivered'[k]
                   PROVE  \E l \in delivered'[k] :
                            l >= n /\ \A i \in delivered'[j] : i <= l
        BY <3>1 DEF InOrder
      <3>3. j \in 1 .. Len(delivered)
        BY <1>1, <3>1, SMT
      <3>4. CASE k = Len(delivered) + 1
        <4>1. r \in delivered'[k] /\ n \in 1 .. r
          <5>1. n \in m /\ delivered'[k] = m
            BY <3>1, <3>4
          <5>2. r # 0 /\ (n \in 1 .. response \/ n = r)
            BY <2>3, <5>1 DEF Positions
          <5>3. QED
            BY <1>1, <2>3, <5>1, <5>2, SMT
        <4>2. \A i \in delivered'[j] : i <= r
          BY <1>1, <3>1, <3>2, <3>3, SMT
        <4>3. QED
          BY <1>1, <4>1, <4>2, SMT
      <3>5. CASE k \in 1 .. Len(delivered)
        BY <1>1, <3>1, <3>3, <3>5 DEF InOrder
      <3>6. QED
        BY <1>1, <3>1, <3>4, <3>5, SMT
    <2>4. QED
      BY <1>1, <1>2, <2>1, <2>2, <2>3
  \* A message of one response, or the empty one of a first create.
  <1>3. CASE r = 0 \/ Topic[r].total = 1
    <2> DEFINE m == {r} \ {0}
    <2>1. delivered' = Append(delivered, m) /\ pendingMessages' = pendingMessages
      BY <1>3 DEF Deliver
    <2>2. m \in SUBSET Positions
      OBVIOUS
    <2>3. \A i : i \in Handed' <=> i \in Handed \/ (i = r /\ r # 0)
      <3>1. \A i : (\E k \in DOMAIN delivered' : i \in delivered'[k])
                   <=> (\E k \in DOMAIN delivered : i \in delivered[k]) \/ i \in m
        BY <1>1, <2>1, <2>2, AppendMembers
      <3>2. \A i : i \in m <=> i = r /\ r # 0
        OBVIOUS
      <3> HIDE DEF m
      <3>3. QED
        BY <2>1, <3>1, <3>2, HandedMember, HandedMemberAfter
    <2>4. QED
      BY <1>1, <1>2, <2>1, <2>2, <2>3
  \* A chunk: kept, and delivered with the others when it is the last.
  <1>4. CASE ~(r = 0 \/ Topic[r].total = 1)
    <2> DEFINE tx == Topic[r].tx
               chunks == Append(pendingMessages[tx], r)
               m == {chunks[i] : i \in DOMAIN chunks}
    <2>1. r \in Positions /\ tx \in Transactions
      BY <1>4
    <2>2. /\ pendingMessages' = [pendingMessages EXCEPT ![tx] = chunks]
          /\ delivered' = delivered \/ delivered' = Append(delivered, m)
      BY <1>4 DEF Deliver
    <2>3. /\ chunks \in Seq(Positions)
          /\ \A i : (\E k \in DOMAIN chunks : i = chunks[k])
                  <=> (\E k \in DOMAIN pendingMessages[tx] :
                         i = pendingMessages[tx][k]) \/ i = r
      <3> DEFINE kept == pendingMessages[tx]
      <3>1. kept \in Seq(Positions)
        BY <1>1, <2>1
      <3> HIDE DEF kept
      <3>2. /\ Append(kept, r) \in Seq(Positions)
            /\ \A i : (\E k \in DOMAIN Append(kept, r) : i = Append(kept, r)[k])
                      <=> (\E k \in DOMAIN kept : i = kept[k]) \/ i = r
        BY <2>1, <3>1, AppendMembers
      <3>3. QED
        BY <3>2 DEF kept
    <2>4. /\ m \in SUBSET Positions
          /\ m \subseteq Handed \cup ({r} \ {0})
          /\ r \in m
      <3>1. m \in SUBSET Positions
        BY <2>3, LenProperties, ElementOfSeq
      <3>2. \A i \in m : i \in Handed \/ i = r
        BY <2>1, <2>3, HandedMember
      <3>3. r \in m
        BY <2>3
      <3>4. QED
        BY <1>4, <3>1, <3>2, <3>3
    <2> HIDE DEF tx, chunks, m
    <2>5. \A i : i \in Handed' <=> i \in Handed \/ (i = r /\ r # 0)
      <3>1. \A t \in Transactions : pendingMessages'[t] =
              IF t = tx THEN chunks ELSE pendingMessages[t]
        BY <1>1, <2>2
      <3>2. ASSUME NEW i
            PROVE  (\E t \in Transactions : \E k \in DOMAIN pendingMessages'[t] :
                      i = pendingMessages'[t][k])
                   <=> \/ \E t \in Transactions : \E k \in DOMAIN pendingMessages[t] :
                            i = pendingMessages[t][k]
                       \/ i = r
        <4> DEFINE Kept(p) == \E k \in DOMAIN p : i = p[k]
        <4>1. Kept(chunks) <=> Kept(pendingMessages[tx]) \/ i = r
          BY <2>3
        <4> HIDE DEF Kept
        <4>2. (\E t \in Transactions : Kept(pendingMessages'[t]))
              <=> (\E t \in Transactions : Kept(pendingMessages[t])) \/ i = r
          BY <2>1, <3>1, <4>1, Zenon
        <4>3. QED
          BY <4>2, Zenon DEF Kept
      <3>3. CASE delivered' = delivered
        BY <1>4, <3>2, <3>3, HandedMember, HandedMemberAfter
      <3>4. CASE delivered' = Append(delivered, m)
        <4>1. \A i : (\E k \in DOMAIN delivered' : i \in delivered'[k])
                     <=> (\E k \in DOMAIN delivered : i \in delivered[k]) \/ i \in m
          BY <1>1, <2>4, <3>4, AppendMembers
        <4>2. QED
          BY <1>4, <2>4, <3>2, <4>1, HandedMember, HandedMemberAfter
      <3>5. QED
        BY <2>2, <3>3, <3>4
    <2>6. pendingMessages' \in [Transactions -> Seq(Positions)]
      BY <1>1, <2>2, <2>3
    <2>7. QED
      BY <1>2, <2>2, <2>4, <2>5, <2>6
  <1>5. QED
    BY <1>3, <1>4

-----------------------------------------------------------------------------
(***************************************************************************)
(* The invariant is inductive.                                             *)
(***************************************************************************)
\* Steps that hand nothing on leave the progress and the order as they are.
LEMMA NothingHanded ==
  ASSUME IInv, UNCHANGED <<delivered, pendingMessages, query, response>>
  PROVE  Progress' /\ InOrder'
  BY DEF IInv, Progress, Handed, InOrder

\* There is room for one more attempt below the maximum.
LEMMA OneMore == \A m \in Nat : \A a \in 0 .. m : a < m => a + 1 \in 0 .. m
  OBVIOUS

\* A new subscription satisfies the invariant.
LEMMA InitIInv == Init => IInv
  <1> SUFFICES ASSUME Init PROVE IInv
    OBVIOUS
  <1> USE TopicAssumption, TopicType DEF Init
  <1>1. TypeOK
    <2>1. /\ pendingMessages \in [Transactions -> Seq(Positions)]
          /\ delivered \in Seq(SUBSET Positions)
      BY EmptySeq
    <2>2. /\ query \in [start : Positions \cup {Len(Topic) + 1}, limit : Nat]
          /\ stream \in [next : Positions \cup {Len(Topic) + 1}, left : Nat \cup {-1},
                         status : Statuses \cup {"open"}]
      <3>1. 1 \in Positions \cup {Len(Topic) + 1}
        BY SMT DEF Positions
      <3>2. QED
        BY <3>1, SMT DEF NewStream, Statuses
    <2>3. attempt \in 0 .. MaxAttempts /\ backoff \in 1 .. MaxBackoff
      BY SMT
    <2>4. QED
      BY <2>1, <2>2, <2>3 DEF TypeOK, Statuses
  <1>2. \A i : i \notin Handed
    BY HandedMember
  <1>3. Progress
    BY <1>2, SMT DEF Progress
  <1>4. AttemptLeft /\ InStep /\ Stage /\ Over /\ InOrder
    BY DEF AttemptLeft, InStep, Stage, Over, InOrder, NewStream
  <1>5. QED
    BY <1>1, <1>3, <1>4 DEF IInv

\* Every step of the mirror node, the thread and the user keeps the invariant.
LEMMA NextIInv == IInv /\ [Next]_vars => IInv'
  <1> SUFFICES ASSUME IInv, [Next]_vars PROVE IInv'
    OBVIOUS
  <1> USE TopicAssumption, TopicType
        DEF clientVars, callVars, userVars, histVars, Quiet
  <1>1. CASE CallCreated
    <2>1. TypeOK'
      BY <1>1 DEF IInv, TypeOK, CallCreated
    <2>2. AttemptLeft' /\ InStep' /\ Stage' /\ Over'
      BY <1>1, SMT DEF IInv, TypeOK, AttemptLeft, InStep, Stage, Over, CallCreated
    <2>3. QED
      BY <1>1, <2>1, <2>2, NothingHanded DEF IInv, CallCreated
  <1>2. CASE ResponseArrives
    <2>1. TypeOK'
      <3>1. stream' \in [next : Positions \cup {Len(Topic) + 1}, left : Nat \cup {-1},
                           status : Statuses \cup {"open"}]
        <4>1. stream.next + 1 \in Positions \cup {Len(Topic) + 1}
          BY <1>2, SMT DEF ResponseArrives, Positions
        <4>2. (IF stream.left > 0 THEN stream.left - 1 ELSE stream.left) \in Nat \cup {-1}
          BY SMT DEF IInv, TypeOK
        <4>3. QED
          BY <1>2, <4>1, <4>2 DEF IInv, TypeOK, ResponseArrives
      <3>2. QED
        BY <1>2, <3>1 DEF IInv, TypeOK, ResponseArrives
    <2>2. AttemptLeft' /\ InStep' /\ Stage' /\ Over'
      <3>1. stream.next \in {response, response + 1} \ {0}
        BY <1>2, SMT DEF IInv, TypeOK, Progress, InStep, ResponseArrives, Positions
      <3>2. InStep'
        BY <1>2, <3>1, SMT DEF IInv, TypeOK, InStep, ResponseArrives, Positions
      <3>3. QED
        BY <1>2, <3>2 DEF IInv, AttemptLeft, Stage, Over, ResponseArrives
    <2>3. QED
      BY <1>2, <2>1, <2>2, NothingHanded DEF IInv, ResponseArrives
  <1>3. CASE StreamEnds
    <2>1. TypeOK'
      <3>1. stream' \in [next : Positions \cup {Len(Topic) + 1}, left : Nat \cup {-1},
                           status : Statuses \cup {"open"}]
        BY <1>3 DEF IInv, TypeOK, StreamEnds, Statuses, Retryable
      <3>2. QED
        BY <1>3, <3>1 DEF IInv, TypeOK, StreamEnds
    <2>2. AttemptLeft' /\ InStep' /\ Stage' /\ Over'
      BY <1>3, SMT DEF IInv, TypeOK, AttemptLeft, InStep, Stage, Over, StreamEnds
    <2>3. QED
      BY <1>3, <2>1, <2>2, NothingHanded DEF IInv, StreamEnds
  <1>4. CASE OperationOver
    <2>1. TypeOK'
      BY <1>4 DEF IInv, TypeOK, OperationOver
    <2>2. AttemptLeft' /\ InStep' /\ Stage' /\ Over'
      BY <1>4, SMT DEF IInv, TypeOK, AttemptLeft, InStep, Stage, Over, OperationOver
    <2>3. QED
      BY <1>4, <2>1, <2>2, NothingHanded DEF IInv, OperationOver
  <1>5. CASE SetOnUnsubscribe
    <2>1. TypeOK'
      BY <1>5 DEF IInv, TypeOK, SetOnUnsubscribe
    <2>2. AttemptLeft' /\ InStep' /\ Stage' /\ Over'
      BY <1>5, SMT DEF IInv, TypeOK, AttemptLeft, InStep, Stage, Over, SetOnUnsubscribe
    <2>3. QED
      BY <1>5, <2>1, <2>2, NothingHanded DEF IInv, SetOnUnsubscribe
  <1>6. CASE Timeout
    <2>1. TypeOK'
      BY <1>6, SMT DEF IInv, TypeOK, Timeout, Longer
    <2>2. AttemptLeft' /\ InStep' /\ Stage' /\ Over'
      BY <1>6, SMT DEF IInv, TypeOK, AttemptLeft, InStep, Stage, Over, Timeout
    <2>3. QED
      BY <1>6, <2>1, <2>2, NothingHanded DEF IInv, Timeout
  <1>7. CASE Finish
    <2>1. TypeOK'
      BY <1>7, SMT DEF IInv, TypeOK, Finish, Shorter
    <2>2. AttemptLeft' /\ InStep' /\ Stage' /\ Over'
      BY <1>7, SMT DEF IInv, TypeOK, AttemptLeft, InStep, Stage, Over, Finish
    <2>3. QED
      BY <1>7, <2>1, <2>2, NothingHanded DEF IInv, Finish
  <1>8. CASE Completed
    <2>1. TypeOK'
      <3>1. backoff' \in 1 .. MaxBackoff
        BY <1>8, SMT DEF IInv, TypeOK, Completed, Shorter
      <3>2. complete' \in BOOLEAN /\ outcome' \in {"none", "completed", "error"}
        BY <1>8 DEF IInv, TypeOK, Completed
      <3>3. cancelled' \in BOOLEAN
        BY <1>8 DEF IInv, TypeOK, Completed
      <3>4. QED
        BY <1>8, <3>1, <3>2, <3>3 DEF IInv, TypeOK, Completed
    <2>2. AttemptLeft' /\ InStep' /\ Stage' /\ Over'
      BY <1>8, SMT DEF IInv, TypeOK, AttemptLeft, InStep, Stage, Over, Completed,
                       Retrying
    <2>3. QED
      BY <1>8, <2>1, <2>2, NothingHanded DEF IInv, Completed
  <1>9. CASE QueueDown
    <2>1. TypeOK'
      BY <1>9, SMT DEF IInv, TypeOK, QueueDown, Longer
    <2>2. AttemptLeft' /\ InStep' /\ Stage' /\ Over'
      BY <1>9, SMT DEF IInv, TypeOK, AttemptLeft, InStep, Stage, Over, QueueDown
    <2>3. QED
      BY <1>9, <2>1, <2>2, NothingHanded DEF IInv, QueueDown
  <1>10. CASE Retry
    <2>1. TypeOK'
      <3>1. attempt' \in 0 .. MaxAttempts
        <4>1. attempt \in 0 .. MaxAttempts /\ attempt < MaxAttempts
          BY <1>10 DEF IInv, AttemptLeft, TypeOK, Retry
        <4>2. QED
          BY <1>10, <4>1, OneMore DEF Retry
      <3>2. cancelled' \in BOOLEAN /\ queueDown' \in BOOLEAN
        BY <1>10 DEF Retry
      <3>3. /\ pc' = "connecting" /\ callStatus' = "CREATE"
            /\ UNCHANGED <<query, complete, backoff, grpcStatus, response,
                           pendingMessages, callVars, bounded, handle, unsubscribed,
                           histVars>>
        BY <1>10 DEF Retry
      <3>4. QED
        BY <3>1, <3>2, <3>3 DEF IInv, TypeOK
    <2>2. AttemptLeft' /\ InStep' /\ Stage' /\ Over'
      BY <1>10, SMT DEF IInv, TypeOK, AttemptLeft, InStep, Stage, Over, Retry
    <2>3. QED
      BY <1>10, <2>1, <2>2, NothingHanded DEF IInv, Retry
  <1>11. CASE Resend
    <2>1. TypeOK'
      BY <1>11, SMT DEF IInv, TypeOK, Statuses, Resend, NewStream
    <2>2. AttemptLeft' /\ InStep' /\ Stage' /\ Over'
      BY <1>11, SMT DEF IInv, TypeOK, AttemptLeft, InStep, Stage, Over, Resend, NewStream
    <2>3. QED
      BY <1>11, <2>1, <2>2, NothingHanded DEF IInv, Resend
  <1>12. CASE Return
    <2>1. TypeOK'
      BY <1>12 DEF IInv, TypeOK, Return
    <2>2. AttemptLeft' /\ InStep' /\ Stage' /\ Over'
      BY <1>12, SMT DEF IInv, TypeOK, AttemptLeft, InStep, Stage, Over, Return
    <2>3. QED
      BY <1>12, <2>1, <2>2, NothingHanded DEF IInv, Return
  <1>13. CASE Unsubscribe
    <2>1. TypeOK'
      <3>1. stream' \in [next : Positions \cup {Len(Topic) + 1}, left : Nat \cup {-1},
                           status : Statuses \cup {"open"}]
        BY <1>13 DEF IInv, TypeOK, Unsubscribe, Statuses
      <3>2. cancelled' \in BOOLEAN
        BY <1>13 DEF IInv, TypeOK, Unsubscribe
      <3>3. QED
        BY <1>13, <3>1, <3>2 DEF IInv, TypeOK, Unsubscribe
    <2>2. AttemptLeft' /\ InStep' /\ Stage' /\ Over'
      BY <1>13, SMT DEF IInv, TypeOK, AttemptLeft, InStep, Stage, Over, Unsubscribe
    <2>3. QED
      BY <1>13, <2>1, <2>2, NothingHanded DEF IInv, Unsubscribe
  <1>14. CASE UnsubscribeLate
    <2>1. TypeOK'
      BY <1>14 DEF IInv, TypeOK, UnsubscribeLate
    <2>2. AttemptLeft' /\ InStep' /\ Stage' /\ Over'
      BY <1>14, SMT DEF IInv, TypeOK, AttemptLeft, InStep, Stage, Over, UnsubscribeLate
    <2>3. QED
      BY <1>14, <2>1, <2>2, NothingHanded DEF IInv, UnsubscribeLate
  <1>15. CASE Process
    <2> DEFINE r == IF op = "read" THEN arriving ELSE response
    <2>1. r \in Positions \cup {0} /\ (r = response \/ r = response + 1)
      BY <1>15 DEF IInv, TypeOK, Progress, InStep, Process
    <2>2. response' = r /\ query' = Adjusted(r) /\ Deliver(r)
      BY <1>15 DEF Process
    <2> HIDE DEF r
    <2>3. /\ delivered' \in Seq(SUBSET Positions)
          /\ pendingMessages' \in [Transactions -> Seq(Positions)]
          /\ Handed' = 1 .. r
          /\ InOrder'
      BY <2>1, <2>2, DeliverHands DEF IInv, Progress
    <2>4. /\ query'.start = IF r = 0 THEN 1 ELSE r
          /\ query' \in [start : Positions \cup {Len(Topic) + 1}, limit : Nat]
      BY <2>1, <2>2, SMT DEF IInv, TypeOK, Progress, Adjusted, Positions
    <2>5. TypeOK'
      BY <1>15, <2>1, <2>2, <2>3, <2>4, SMT DEF IInv, TypeOK, Process, Shorter, Statuses
    <2>6. stream.next \in {query'.start, r + 1}
      BY <1>15, <2>1, <2>4, SMT DEF IInv, TypeOK, Progress, InStep, Process, r
    <2>7. AttemptLeft' /\ InStep' /\ Stage' /\ Over'
      BY <1>15, <2>2, <2>6 DEF IInv, AttemptLeft, InStep, Stage, Over, Process
    <2>8. QED
      BY <2>2, <2>3, <2>4, <2>5, <2>7 DEF IInv, Progress
  <1>16. CASE UNCHANGED vars
    <2>1. TypeOK' /\ AttemptLeft' /\ InStep' /\ Stage' /\ Over'
      BY <1>16 DEF IInv, TypeOK, AttemptLeft, InStep, Stage, Over, vars
    <2>2. QED
      BY <1>16, <2>1, NothingHanded DEF IInv, vars
  <1>17. QED
    BY <1>1, <1>2, <1>3, <1>4, <1>5, <1>6, <1>7, <1>8, <1>9, <1>10,
       <1>11, <1>12, <1>13, <1>14, <1>15, <1>16
       DEF Next, Thread, MirrorNode, Done

\* It holds in every reachable state.
LEMMA Invariant == Spec => []IInv
  BY InitIInv, NextIInv, PTL DEF Spec

-----------------------------------------------------------------------------
(***************************************************************************)
(* The theorems.                                                           *)
(***************************************************************************)
\* Every variable of a subscription stays inside its type: the query never asks
\* for more than the end of the topic, the attempts stay within mMaxAttempts
\* and the backoff within mMaxBackoff.
THEOREM TypeCorrect == Spec => []TypeOK
  BY Invariant, PTL DEF IInv

\* Whatever lies before the point a new stream would start from, and the last
\* response itself, was handed to onNext or is kept as a chunk: no retry of
\* startSubscription loses a response.
THEOREM NoGapKept == Spec => []NoGap
  <1>1. IInv => NoGap
    BY TopicType, SMT DEF IInv, TypeOK, Progress, NoGap, Positions
  <1>2. QED
    BY <1>1, Invariant, PTL

\* onNext sees the topic in order: a retry repeats the last response, from the
\* buffer and from the stream that begins with it, and nothing before it.
THEOREM InOrderKept == Spec => []InOrder
  BY Invariant, PTL DEF IInv

\* The completion handler or the error handler is called once, when the
\* subscription is over: nothing is delivered and no attempt is made after it.
THEOREM OutcomeFinal == Spec => OutcomeIsFinal
  <1>1. ASSUME IInv, [Next]_vars
        PROVE  [outcome # "none" => UNCHANGED <<outcome, delivered, attempt>>]_vars
    <2> SUFFICES ASSUME outcome # "none", Next
                 PROVE  UNCHANGED <<outcome, delivered, attempt>>
      BY <1>1
    <2>1. op = "none" /\ event = "none" /\ pc \notin {"sleeping", "connecting"}
      BY <1>1 DEF IInv, Over
    <2>2. QED
      BY <2>1 DEF Next, Thread, MirrorNode, SetOnUnsubscribe, Timeout, Process, Finish,
                  Completed, QueueDown, Retry, Resend, Return, CallCreated,
                  ResponseArrives, StreamEnds, OperationOver, Quiet, Unsubscribe,
                  UnsubscribeLate, Done, clientVars, callVars, userVars, histVars, vars
  <1>2. QED
    BY <1>1, Invariant, PTL DEF Spec, OutcomeIsFinal

=============================================================================
