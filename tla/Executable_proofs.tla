------------------------- MODULE Executable_proofs -------------------------
(***************************************************************************)
(* Invariants of Executable for any number of executions and nodes, any    *)
(* budget and any backoffs.                                                *)
(*                                                                         *)
(* Budget is not inductive: it needs to know how far an attempt has come   *)
(* (Counted), and the types of the records need to know that every index   *)
(* an execution uses lies inside its nodes (Located).  What an execution   *)
(* knows of responses, look-ups and the nodes it passed is LInv, and how   *)
(* long it still sleeps against the penalty of its node is Served.         *)
(***************************************************************************)
EXTENDS Executable, SequenceTheorems, FiniteSetTheorems, TLAPS

-----------------------------------------------------------------------------
(***************************************************************************)
(* What the operations on a node preserve, for every backoff range.        *)
(***************************************************************************)
\* A node starts inside its ranges.
LEMMA NewNodeType == NewNode \in NodeState
  BY NodeAssumption, SMT DEF NewNode, NodeState

\* No operation takes a node out of its ranges: the backoff doubled or halved
\* stays between MinNodeBackoff and MaxNodeBackoff, and no readmit time is
\* further away than MaxNodeBackoff.
LEMMA NodeOperationsType ==
  ASSUME NEW n \in NodeState, NEW up \in BOOLEAN
  PROVE  /\ increaseBackoff(n) \in NodeState
         /\ decreaseBackoff(n) \in NodeState
         /\ getChannel(n) \in NodeState
         /\ WaitForConnected(n, up) \in NodeState
         /\ closeChannel(n) \in NodeState
         /\ Elapse(n) \in NodeState
  <1> USE NodeAssumption DEF NodeState, AtMost, AtLeast
  <1>1. increaseBackoff(n) \in NodeState
    <2> DEFINE bad == AtMost(n.mBadGrpcStatusCount + 1, MaxBadStatus)
               next == AtMost(2 * n.mCurrentBackoff, MaxNodeBackoff)
    <2>1. bad \in 0 .. MaxBadStatus
      BY SMT
    <2>2. n.mCurrentBackoff \in MinNodeBackoff .. MaxNodeBackoff
      BY SMT
    <2>3. next \in MinNodeBackoff .. MaxNodeBackoff
      BY <2>2, SMT
    <2>4. n.mCurrentBackoff \in -1 .. MaxNodeBackoff
      BY <2>2, SMT
    <2>5. increaseBackoff(n) = [n EXCEPT !.mBadGrpcStatusCount = bad,
                                         !.readmitIn = n.mCurrentBackoff,
                                         !.mCurrentBackoff = next]
      BY DEF increaseBackoff
    <2> HIDE DEF bad, next
    <2>6. QED
      BY <2>1, <2>3, <2>4, <2>5
  <1>2. decreaseBackoff(n) \in NodeState
    BY SMT DEF decreaseBackoff
  <1>3. getChannel(n) \in NodeState /\ closeChannel(n) \in NodeState
    BY DEF getChannel, closeChannel
  <1>4. WaitForConnected(n, up) \in NodeState
    BY SMT DEF WaitForConnected
  <1>5. Elapse(n) \in NodeState
    BY SMT DEF Elapse
  <1>6. QED
    BY <1>1, <1>2, <1>3, <1>4, <1>5

-----------------------------------------------------------------------------

Looking   == {"idle", "fetch", "refetch", "done"}
Scanning  == {"scan", "scanDelay"}
AtNode    == {"selected", "delay", "nodeWait", "connect", "connecting", "submit",
              "rpc", "penalize", "answered", "invalid", "retryWait"}
Submitted == {"rpc", "penalize", "answered", "invalid", "retryWait"}

\* Every index an execution is about to use lies inside its nodes.
Located(k) ==
  /\ k.pc \notin Looking => Len(k.nodes) > 0
  /\ k.pc \in Scanning => k.cursor <= Len(k.nodes) /\ k.candidate <= Len(k.nodes)
  /\ k.pc \notin Scanning => k.candidate = 0
  /\ k.pc \in AtNode => k.nodeIndex \in 1 .. Len(k.nodes)

\* How many RPCs and address book queries can have been started by now.
Counted(k, h) ==
  /\ h.submissions <= MaxAttempts
  /\ h.updates <= MAX_ADDRESS_BOOK_UPDATES
  /\ k.pc \in {"idle", "fetch"} => k.attempt = 0
  /\ k.pc \in Scanning \cup AtNode => k.attempt < MaxAttempts
  /\ k.pc # "done" =>
       h.submissions <= IF k.pc \in Submitted THEN k.attempt + 1 ELSE k.attempt
  /\ k.pc \in {"update", "refetch"} => k.addressBookUpdateCount = 0
  /\ k.pc \notin {"update", "refetch", "done"} =>
       h.updates <= k.addressBookUpdateCount

Good(k, h) ==
  /\ k \in CallState
  /\ h \in History
  /\ Located(k)
  /\ Counted(k, h)

SharedType ==
  /\ node \in [Nodes -> NodeState]
  /\ nodeLock \in [Nodes -> Calls \cup {NoCall}]
  /\ account \in [Nodes -> Accounts]
  /\ hasMirror \in BOOLEAN

IInv ==
  /\ SharedType
  /\ call \in [Calls -> CallState]
  /\ hist \in [Calls -> History]
  /\ \A c \in Calls : Good(call[c], hist[c])

-----------------------------------------------------------------------------
(***************************************************************************)
(* The records a step builds: their types, and the fields it leaves alone. *)
(***************************************************************************)
Lasting(new, k) ==
  /\ new.nodes = k.nodes
  /\ new.candidate = k.candidate
  /\ new.addressBookUpdateCount = k.addressBookUpdateCount

Kept(new, k) == Lasting(new, k) /\ new.nodeIndex = k.nodeIndex

LEMMA SetPc ==
  ASSUME NEW k \in CallState, NEW p \in Pcs, NEW new, new = [k EXCEPT !.pc = p]
  PROVE  new \in CallState /\ Kept(new, k) /\ new.pc = p /\ new.attempt = k.attempt
  BY DEF CallState, Kept, Lasting

LEMMA Finished ==
  ASSUME NEW k \in CallState, NEW how \in Outcomes, NEW new, new = Finish(k, how)
  PROVE  new \in CallState /\ Kept(new, k) /\ new.pc = "done"
  BY DEF CallState, Kept, Lasting, Finish, Pcs

LEMMA Advanced ==
  ASSUME NEW k \in CallState, NEW new, new = NextAttempt(k)
  PROVE  /\ new \in CallState /\ Lasting(new, k)
         /\ new.pc = "loop" /\ new.attempt = k.attempt + 1
  <1>1. k.attempt + 1 \in Nat
    BY SMT DEF CallState
  <1>2. QED
    BY <1>1 DEF CallState, Lasting, NextAttempt, Pcs, AllReplies, Statuses

LEMMA Flagged ==
  ASSUME NEW k \in CallState,
         NEW new, new = [NextAttempt(k) EXCEPT !.needsAddressBookUpdate = TRUE]
  PROVE  /\ new \in CallState /\ Lasting(new, k)
         /\ new.pc = "loop" /\ new.attempt = k.attempt + 1
  <1>1. NextAttempt(k) \in CallState
    BY Advanced
  <1>2. new \in CallState /\ Lasting(new, NextAttempt(k)) /\ new.pc = NextAttempt(k).pc
          /\ new.attempt = NextAttempt(k).attempt
    BY <1>1 DEF CallState, Lasting
  <1>3. QED
    BY <1>2, Advanced DEF Lasting

LEMMA BackedOff ==
  ASSUME NEW k \in CallState,
         NEW new, new = [NextAttempt(k) EXCEPT
                           !.mCurrentBackoff = AtMost(2 * @, MaxBackoff)]
  PROVE  /\ new \in CallState /\ Lasting(new, k)
         /\ new.pc = "loop" /\ new.attempt = k.attempt + 1
  <1> DEFINE b == AtMost(2 * NextAttempt(k).mCurrentBackoff, MaxBackoff)
  <1>1. NextAttempt(k) \in CallState
    BY Advanced
  <1>2. NextAttempt(k).mCurrentBackoff \in 0 .. MaxBackoff
    BY <1>1 DEF CallState
  <1>3. b \in 0 .. MaxBackoff
    BY <1>2, ExecutableAssumption, SMT DEF AtMost
  <1>4. new = [NextAttempt(k) EXCEPT !.mCurrentBackoff = b]
    OBVIOUS
  <1> HIDE DEF b
  <1>5. new \in CallState /\ Lasting(new, NextAttempt(k)) /\ new.pc = NextAttempt(k).pc
          /\ new.attempt = NextAttempt(k).attempt
    BY <1>1, <1>3, <1>4 DEF CallState, Lasting
  <1>6. QED
    BY <1>5, Advanced DEF Lasting

LEMMA Updated ==
  ASSUME NEW k \in CallState, NEW new, new = UpdateOver(k)
  PROVE  /\ new \in CallState
         /\ new.nodes = k.nodes /\ new.candidate = k.candidate
         /\ new.pc = "loop" /\ new.attempt = k.attempt
         /\ new.addressBookUpdateCount = k.addressBookUpdateCount + 1
  <1>1. k.addressBookUpdateCount + 1 \in Nat
    BY SMT DEF CallState
  <1>2. QED
    BY <1>1 DEF CallState, UpdateOver, Pcs

-----------------------------------------------------------------------------
(***************************************************************************)
(* A step of one call: it is enough to look at the record it builds.       *)
(***************************************************************************)
LEMMA Frame ==
  ASSUME IInv, NEW c \in Calls, NEW k, NEW h,
         Move(c, k),
         Record(c, h) \/ (UNCHANGED hist /\ h = hist[c]),
         Good(k, h),
         SharedType'
  PROVE  IInv'
  <1>1. k \in CallState /\ h \in History
    BY DEF Good
  <1>2. call' \in [Calls -> CallState] /\ hist' \in [Calls -> History]
    BY <1>1 DEF IInv, Move, Record
  <1>3. ASSUME NEW d \in Calls
        PROVE  Good(call'[d], hist'[d])
    <2>1. CASE d = c
      BY <2>1 DEF IInv, Move, Record
    <2>2. CASE d # c
      BY <2>2 DEF IInv, Move, Record
    <2>3. QED
      BY <2>1, <2>2
  <1>4. QED
    BY <1>2, <1>3 DEF IInv

LEMMA FrameShared ==
  ASSUME IInv, UNCHANGED <<call, hist>>, SharedType'
  PROVE  IInv'
  BY DEF IInv

-----------------------------------------------------------------------------
(***************************************************************************)
(* The three ways an attempt goes on.                                      *)
(***************************************************************************)
\* An execution that ends needs no further promise.
LEMMA Ends ==
  ASSUME NEW k, NEW h, Good(k, h), k.pc # "scan", k.pc # "scanDelay",
         NEW how \in Outcomes, NEW new, new = Finish(k, how)
  PROVE  Good(new, h)
  <1>1. new \in CallState /\ Kept(new, k) /\ new.pc = "done"
    BY Finished DEF Good
  <1>2. Located(new) /\ Counted(new, h)
    BY <1>1 DEF Good, Located, Counted, Kept, Lasting, Looking, Scanning, AtNode, Submitted
  <1>3. QED
    BY <1>1, <1>2 DEF Good

\* A step inside an attempt keeps the attempt's node and its count.
LEMMA GoesOn ==
  ASSUME NEW k, NEW h, Good(k, h), NEW new \in CallState, Kept(new, k),
         new.attempt = k.attempt, k.pc \in AtNode, new.pc \in AtNode,
         k.pc \in Submitted => new.pc \in Submitted
  PROVE  Good(new, h)
  <1>1. Located(new)
    BY DEF Good, Located, Kept, Lasting, Looking, Scanning, AtNode
  <1>2. k.attempt \in Nat /\ h.submissions \in Nat
    BY DEF Good, CallState, History
  <1>3. Counted(new, h)
    BY <1>2 DEF Good, Counted, Kept, Lasting, Scanning, AtNode, Submitted
  <1>4. QED
    BY <1>1, <1>3 DEF Good

\* The next attempt pays for the RPC of this one.
LEMMA TriesAgain ==
  ASSUME NEW k, NEW h, Good(k, h), NEW new \in CallState, Lasting(new, k),
         new.attempt = k.attempt + 1, k.pc \in Submitted, new.pc = "loop"
  PROVE  Good(new, h)
  <1>1. Located(new)
    BY DEF Good, Located, Lasting, Looking, Scanning, AtNode, Submitted
  <1>2. Counted(new, h)
    BY DEF Good, Counted, Lasting, Scanning, AtNode, Submitted
  <1>3. QED
    BY <1>1, <1>2 DEF Good

-----------------------------------------------------------------------------
(***************************************************************************)
(* Before the loop.                                                        *)
(***************************************************************************)
LEMMA BeginStep ==
  ASSUME IInv, NEW c \in Calls, Begin(c)
  PROVE  IInv'
  <1> DEFINE k   == call[c]
             new == [k EXCEPT !.pc = "fetch", !.mCurrentBackoff = MinBackoff]
  <1>1. Good(k, hist[c]) /\ k.pc = "idle" /\ Move(c, new) /\ UNCHANGED hist /\ SharedType'
    BY DEF IInv, Begin, SharedType
  <1>2. MinBackoff \in 0 .. MaxBackoff
    BY ExecutableAssumption, SMT
  <1>3. new \in CallState /\ Kept(new, k) /\ new.pc = "fetch" /\ new.attempt = k.attempt
    BY <1>1, <1>2 DEF Good, CallState, Kept, Lasting, Pcs
  <1> HIDE DEF k, new
  <1>4. Located(new)
    BY <1>1, <1>3 DEF Good, Located, Kept, Lasting, Looking, Scanning, AtNode
  <1>5. Counted(new, hist[c])
    BY <1>1, <1>3, SMT DEF Good, Counted, Kept, Lasting, Scanning, AtNode, Submitted
  <1>6. QED
    BY <1>1, <1>3, <1>4, <1>5, Frame DEF Good

LEMMA FetchProxyStep ==
  ASSUME IInv, NEW c \in Calls, FetchProxy(c)
  PROVE  IInv'
  <1> DEFINE k == call[c]
  <1>1. Good(k, hist[c]) /\ UNCHANGED hist /\ SharedType' /\ k.pc \in {"fetch", "refetch"}
    BY DEF IInv, FetchProxy, SharedType
  <1>2. k.cursor + 1 \in Nat \ {0} /\ k.nodes \in Seq(Nodes)
    BY <1>1, SMT DEF Good, CallState
  <1>3. PICK new : /\ Move(c, new)
                   /\ \/ \E n \in Nodes : new = [k EXCEPT !.cursor = @ + 1, !.nodes = Append(@, n)]
                      \/ new = [k EXCEPT !.cursor = @ + 1]
    BY DEF FetchProxy, Proxies
  <1>4. /\ new \in CallState /\ new.pc = k.pc /\ new.attempt = k.attempt
        /\ new.candidate = k.candidate
        /\ new.addressBookUpdateCount = k.addressBookUpdateCount
    <2>1. ASSUME NEW n \in Nodes, new = [k EXCEPT !.cursor = @ + 1, !.nodes = Append(@, n)]
          PROVE  <1>4!:
      <3>1. Append(k.nodes, n) \in Seq(Nodes)
        BY <1>2
      <3>2. QED
        BY <1>1, <1>2, <2>1, <3>1 DEF Good, CallState
    <2>2. CASE new = [k EXCEPT !.cursor = @ + 1]
      BY <1>1, <1>2, <2>2 DEF Good, CallState
    <2>3. QED
      BY <1>3, <2>1, <2>2
  <1> HIDE DEF k
  <1>5. Located(new)
    BY <1>1, <1>4 DEF Good, Located, Looking, Scanning, AtNode
  <1>6. Counted(new, hist[c])
    BY <1>1, <1>4 DEF Good, Counted, Scanning, AtNode, Submitted
  <1>7. QED
    BY <1>1, <1>3, <1>4, <1>5, <1>6, Frame DEF Good

LEMMA FetchDoneStep ==
  ASSUME IInv, NEW c \in Calls, FetchDone(c)
  PROVE  IInv'
  <1> DEFINE k == call[c]
  <1>1. Good(k, hist[c]) /\ k.pc = "fetch" /\ UNCHANGED hist /\ SharedType'
    BY DEF IInv, FetchDone, SharedType
  <1>2. CASE Move(c, Finish(k, "IllegalState"))
    BY <1>1, <1>2, Ends, Frame DEF Outcomes
  <1>3. CASE k.nodes # <<>> /\ Move(c, [k EXCEPT !.pc = "loop"])
    <2> DEFINE new == [k EXCEPT !.pc = "loop"]
    <2>1. new \in CallState /\ Kept(new, k) /\ new.pc = "loop" /\ new.attempt = k.attempt
      BY <1>1, SetPc DEF Good, Pcs
    <2>2. Len(k.nodes) > 0
      BY <1>1, <1>3, EmptySeq DEF Good, CallState
    <2> HIDE DEF new
    <2>3. Located(new)
      BY <1>1, <2>1, <2>2 DEF Good, Located, Kept, Lasting, Looking, Scanning, AtNode
    <2>4. Counted(new, hist[c])
      BY <1>1, <2>1 DEF Good, Counted, Kept, Lasting, Scanning, AtNode, Submitted
    <2>5. QED
      BY <1>1, <1>3, <2>1, <2>3, <2>4, Frame DEF Good, new
  <1>4. QED
    BY <1>2, <1>3 DEF FetchDone

-----------------------------------------------------------------------------
(***************************************************************************)
(* The head of an iteration.                                               *)
(***************************************************************************)
LEMMA UpdateSkippedStep ==
  ASSUME IInv, NEW c \in Calls, UpdateSkipped(c)
  PROVE  IInv'
  <1> DEFINE k   == call[c]
             new == UpdateOver(k)
  <1>1. Good(k, hist[c]) /\ k.pc = "loop" /\ Move(c, new) /\ UNCHANGED hist /\ SharedType'
    BY DEF IInv, UpdateSkipped, SharedType
  <1>2. /\ new \in CallState
        /\ new.nodes = k.nodes /\ new.candidate = k.candidate
        /\ new.pc = "loop" /\ new.attempt = k.attempt
        /\ new.addressBookUpdateCount = k.addressBookUpdateCount + 1
    BY <1>1, Updated DEF Good
  <1> HIDE DEF k, new
  <1>3. Located(new)
    BY <1>1, <1>2 DEF Good, Located, Looking, Scanning, AtNode
  <1>4. k.addressBookUpdateCount \in Nat /\ hist[c].updates \in Nat
    BY <1>1 DEF Good, CallState, History
  <1>5. Counted(new, hist[c])
    BY <1>1, <1>2, <1>4, SMT DEF Good, Counted, Scanning, AtNode, Submitted
  <1>6. QED
    BY <1>1, <1>2, <1>3, <1>5, Frame DEF Good

LEMMA UpdateBeginStep ==
  ASSUME IInv, NEW c \in Calls, UpdateBegin(c)
  PROVE  IInv'
  <1> DEFINE k    == call[c]
             h    == hist[c]
             new  == [k EXCEPT !.pc = "update"]
             newh == [h EXCEPT !.updates = @ + 1]
  <1>1. Good(k, h) /\ k.pc = "loop" /\ UpdateDue(k) /\ Move(c, new) /\ Record(c, newh) /\ SharedType'
    BY DEF IInv, UpdateBegin, SharedType
  <1>2. new \in CallState /\ Kept(new, k) /\ new.pc = "update" /\ new.attempt = k.attempt
    BY <1>1, SetPc DEF Good, Pcs
  <1>3. /\ k.addressBookUpdateCount \in Nat /\ k.addressBookUpdateCount < MAX_ADDRESS_BOOK_UPDATES
        /\ h.updates \in Nat /\ h.updates <= k.addressBookUpdateCount
    BY <1>1 DEF Good, CallState, History, Counted, UpdateDue
  <1>4. k.addressBookUpdateCount = 0 /\ h.updates + 1 \in Nat /\ h.updates + 1 <= MAX_ADDRESS_BOOK_UPDATES
    BY <1>3, SMT DEF MAX_ADDRESS_BOOK_UPDATES
  <1>5. newh \in History /\ newh.submissions = h.submissions /\ newh.updates = h.updates + 1
    BY <1>1, <1>4 DEF Good, History
  <1> HIDE DEF k, h, new, newh
  <1>6. Located(new)
    BY <1>1, <1>2 DEF Good, Located, Looking, Scanning, AtNode, Kept, Lasting
  <1>7. Counted(new, newh)
    BY <1>1, <1>2, <1>4, <1>5 DEF Good, Counted, Scanning, AtNode, Submitted, Kept, Lasting
  <1>8. QED
    BY <1>1, <1>2, <1>5, <1>6, <1>7, Frame DEF Good

LEMMA UpdateEndStep ==
  ASSUME IInv, NEW c \in Calls, UpdateEnd(c)
  PROVE  IInv'
  <1> DEFINE k    == call[c]
             h    == hist[c]
             new  == [k EXCEPT !.pc = "refetch", !.cursor = 1, !.nodes = <<>>]
             newh == [h EXCEPT !.considered = {}]
  <1>1. Good(k, h) /\ k.pc = "update" /\ Move(c, new) /\ Record(c, newh)
    BY DEF IInv, UpdateEnd
  <1>2. account' \in [Nodes -> Accounts]
    <2>1. PICK book \in AddressBooks : updateNodeAccountIds(book)
      BY DEF UpdateEnd
    <2>2. QED
      BY <2>1, ExecutableAssumption DEF updateNodeAccountIds, IInv, SharedType
  <1>3. SharedType'
    BY <1>2 DEF IInv, UpdateEnd, SharedType
  <1>4. /\ new \in CallState /\ new.pc = "refetch" /\ new.attempt = k.attempt
        /\ new.candidate = k.candidate
        /\ new.addressBookUpdateCount = k.addressBookUpdateCount
    <2>1. <<>> \in Seq(Nodes) /\ 1 \in Nat \ {0}
      BY SMT
    <2>2. QED
      BY <1>1, <2>1 DEF Good, CallState, Pcs
  <1>5. newh \in History /\ newh.submissions = h.submissions /\ newh.updates = h.updates
    BY <1>1 DEF Good, History
  <1> HIDE DEF k, h, new, newh
  <1>6. Located(new)
    BY <1>1, <1>4 DEF Good, Located, Looking, Scanning, AtNode
  <1>7. Counted(new, newh)
    BY <1>1, <1>4, <1>5 DEF Good, Counted, Scanning, AtNode, Submitted
  <1>8. QED
    BY <1>1, <1>3, <1>4, <1>5, <1>6, <1>7, Frame DEF Good

LEMMA UpdateFailsStep ==
  ASSUME IInv, NEW c \in Calls, UpdateFails(c)
  PROVE  IInv'
  <1>1. /\ Good(call[c], hist[c]) /\ call[c].pc = "update" /\ SharedType'
        /\ Move(c, Finish(call[c], "UpdateFailed")) /\ UNCHANGED hist
    BY DEF IInv, UpdateFails, SharedType
  <1>2. QED
    BY <1>1, Ends, Frame DEF Outcomes

LEMMA RefetchDoneStep ==
  ASSUME IInv, NEW c \in Calls, RefetchDone(c)
  PROVE  IInv'
  <1> DEFINE k == call[c]
  <1>1. Good(k, hist[c]) /\ k.pc = "refetch" /\ UNCHANGED hist /\ SharedType'
    BY DEF IInv, RefetchDone, SharedType
  <1>2. CASE Move(c, Finish(k, "INVALID_NODE_ACCOUNT"))
    BY <1>1, <1>2, Ends, Frame DEF Outcomes
  <1>3. CASE k.nodes # <<>> /\ Move(c, [UpdateOver(k) EXCEPT !.nodeResponses = NoResponses])
    <2> DEFINE over == UpdateOver(k)
               new  == [over EXCEPT !.nodeResponses = NoResponses]
    <2>1. /\ over \in CallState
          /\ over.nodes = k.nodes /\ over.candidate = k.candidate
          /\ over.pc = "loop" /\ over.attempt = k.attempt
          /\ over.addressBookUpdateCount = k.addressBookUpdateCount + 1
      BY <1>1, Updated DEF Good
    <2> HIDE DEF over
    <2>2. /\ new \in CallState
          /\ new.nodes = k.nodes /\ new.candidate = k.candidate
          /\ new.pc = "loop" /\ new.attempt = k.attempt
          /\ new.addressBookUpdateCount = k.addressBookUpdateCount + 1
      BY <2>1 DEF CallState, NoResponses
    <2>3. Len(k.nodes) > 0
      BY <1>1, <1>3, EmptySeq DEF Good, CallState
    <2>4. Move(c, new)
      BY <1>3 DEF over
    <2> HIDE DEF new, k
    <2>5. Located(new)
      BY <1>1, <2>2, <2>3 DEF Good, Located, Looking, Scanning, AtNode
    <2>6. Counted(new, hist[c])
      BY <1>1, <2>2, SMT DEF Good, Counted, Scanning, AtNode, Submitted, MAX_ADDRESS_BOOK_UPDATES
    <2>7. QED
      BY <1>1, <2>2, <2>4, <2>5, <2>6, Frame DEF Good
  <1>4. QED
    BY <1>2, <1>3 DEF RefetchDone

LEMMA AttemptsExhaustedStep ==
  ASSUME IInv, NEW c \in Calls, AttemptsExhausted(c)
  PROVE  IInv'
  <1>1. /\ Good(call[c], hist[c]) /\ call[c].pc = "loop" /\ SharedType'
        /\ Move(c, Finish(call[c], "MaxAttemptsExceeded")) /\ UNCHANGED hist
    BY DEF IInv, AttemptsExhausted, SharedType
  <1>2. QED
    BY <1>1, Ends, Frame DEF Outcomes

-----------------------------------------------------------------------------
(***************************************************************************)
(* getNodeIndexForExecute.                                                 *)
(***************************************************************************)
LEMMA ScanBeginStep ==
  ASSUME IInv, NEW c \in Calls, ScanBegin(c)
  PROVE  IInv'
  <1> DEFINE k   == call[c]
             i   == firstIndex(k)
             new == [k EXCEPT !.pc = "scan", !.cursor = i]
  <1>1. /\ Good(k, hist[c]) /\ k.pc = "loop" /\ k.attempt < MaxAttempts
        /\ Move(c, new) /\ UNCHANGED hist /\ SharedType'
    BY DEF IInv, ScanBegin, SharedType
  <1>2. k.attempt \in Nat /\ Len(k.nodes) \in Nat /\ Len(k.nodes) > 0
    BY <1>1 DEF Good, CallState, Located, Looking
  <1>3. i \in Nat \ {0} /\ i <= Len(k.nodes)
    <2>1. ASSUME NEW a \in Nat, NEW b \in Nat, b > 0
          PROVE  (a % b) + 1 \in Nat \ {0} /\ (a % b) + 1 <= b
      BY <2>1, SMT
    <2>2. QED
      BY <1>2, <2>1 DEF firstIndex
  <1> HIDE DEF i
  <1>4. /\ new \in CallState /\ Kept(new, k) /\ new.pc = "scan"
        /\ new.attempt = k.attempt /\ new.cursor = i
    BY <1>1, <1>3 DEF Good, CallState, Kept, Lasting, Pcs
  <1> HIDE DEF k, new
  <1>5. Located(new)
    <2>1. new.candidate = 0
      BY <1>1, <1>4 DEF Good, Located, Kept, Lasting, Scanning
    <2>2. QED
      BY <1>2, <1>3, <1>4, <2>1 DEF Located, Looking, Scanning, AtNode, Kept, Lasting
  <1>6. Counted(new, hist[c])
    BY <1>1, <1>4 DEF Good, Counted, Scanning, AtNode, Submitted, Kept, Lasting
  <1>7. QED
    BY <1>1, <1>4, <1>5, <1>6, Frame DEF Good

\* Leaving the scan with an index inside the nodes.
LEMMA SelectedGood ==
  ASSUME NEW k, NEW h, Good(k, h), k.pc \in Scanning,
         NEW r \in CallState, r.nodes = k.nodes, r.attempt = k.attempt,
         r.addressBookUpdateCount = k.addressBookUpdateCount,
         NEW i \in 1 .. Len(k.nodes), NEW new, new = Selected(r, i)
  PROVE  Good(new, h)
  <1>1. /\ new \in CallState /\ new.pc = "selected" /\ new.nodes = k.nodes
        /\ new.attempt = k.attempt /\ new.candidate = 0 /\ new.nodeIndex = i
        /\ new.addressBookUpdateCount = k.addressBookUpdateCount
    <2>1. i \in Nat /\ 1 \in Nat \ {0} /\ 0 \in -1 .. MaxNodeBackoff
      <3>1. Len(k.nodes) \in Nat
        BY DEF Good, CallState
      <3>2. QED
        BY <3>1, NodeAssumption, SMT
    <2>2. QED
      BY <2>1 DEF Selected, CallState, Pcs
  <1>2. Located(new)
    BY <1>1 DEF Good, Located, Looking, Scanning, AtNode
  <1>3. Counted(new, h)
    BY <1>1 DEF Good, Counted, Scanning, AtNode, Submitted
  <1>4. QED
    BY <1>1, <1>2, <1>3 DEF Good

LEMMA ScanHealthyStep ==
  ASSUME IInv, NEW c \in Calls, ScanHealthy(c)
  PROVE  IInv'
  <1> DEFINE k == call[c]
  <1>1. /\ Good(k, hist[c]) /\ k.pc = "scan" /\ Move(c, Selected(k, k.cursor))
        /\ UNCHANGED hist /\ SharedType'
    BY DEF IInv, ScanHealthy, SharedType
  <1>2. k.cursor \in 1 .. Len(k.nodes)
    <2>1. k.cursor \in Nat \ {0} /\ Len(k.nodes) \in Nat /\ k.cursor <= Len(k.nodes)
      BY <1>1 DEF Good, CallState, Located, Scanning
    <2> HIDE DEF k
    <2>2. QED
      BY <2>1, SMT
  <1>3. QED
    BY <1>1, <1>2, SelectedGood, Frame DEF Good, Scanning

\* The delay of the node at the cursor leaves the candidate inside the nodes.
LEMMA CandidatesType ==
  ASSUME NEW k \in CallState, NEW delay \in -1 .. MaxNodeBackoff,
         k.cursor <= Len(k.nodes), k.candidate <= Len(k.nodes),
         NEW r \in Candidates(k, delay)
  PROVE  /\ r \in CallState /\ r.pc = k.pc /\ r.nodes = k.nodes
         /\ r.attempt = k.attempt /\ r.cursor = k.cursor
         /\ r.addressBookUpdateCount = k.addressBookUpdateCount
         /\ r.nodeResponses = k.nodeResponses /\ r.outcome = k.outcome
         /\ r.candidate \in 1 .. Len(k.nodes)
  <1>1. k.cursor \in Nat \ {0} /\ k.candidate \in Nat /\ Len(k.nodes) \in Nat
    BY DEF CallState
  <1>2. k.cursor \in 1 .. Len(k.nodes) /\ k.cursor \in Nat
    BY <1>1, SMT
  <1>3. CASE r = [k EXCEPT !.candidate = k.cursor, !.candidateDelay = delay]
    BY <1>2, <1>3 DEF CallState
  <1>4. CASE r = k
    <2>1. k.candidate # 0
      BY <1>4 DEF Candidates
    <2>2. k.candidate \in 1 .. Len(k.nodes)
      BY <1>1, <2>1, SMT
    <2>3. QED
      BY <1>4, <2>2
  <1>5. QED
    BY <1>3, <1>4 DEF Candidates

LEMMA ScanUnhealthyStep ==
  ASSUME IInv, NEW c \in Calls, ScanUnhealthy(c)
  PROVE  IInv'
  <1> DEFINE k    == call[c]
             h    == hist[c]
             new  == [k EXCEPT !.pc = "scanDelay"]
             newh == [h EXCEPT !.considered = @ \cup {k.cursor}]
  <1>1. Good(k, h) /\ k.pc = "scan" /\ Move(c, new) /\ Record(c, newh) /\ SharedType'
    BY DEF IInv, ScanUnhealthy, SharedType
  <1>2. /\ new \in CallState /\ Kept(new, k) /\ new.pc = "scanDelay"
        /\ new.attempt = k.attempt /\ new.cursor = k.cursor
    BY <1>1 DEF Good, CallState, Kept, Lasting, Pcs
  <1>3. newh \in History /\ newh.submissions = h.submissions /\ newh.updates = h.updates
    <2>1. h.considered \cup {k.cursor} \in SUBSET Nat
      BY <1>1 DEF Good, History, CallState
    <2>2. QED
      BY <1>1, <2>1 DEF Good, History
  <1> HIDE DEF k, h, new, newh
  <1>4. Located(new)
    BY <1>1, <1>2 DEF Good, Located, Kept, Lasting, Looking, Scanning, AtNode
  <1>5. Counted(new, newh)
    BY <1>1, <1>2, <1>3 DEF Good, Counted, Kept, Lasting, Scanning, AtNode, Submitted
  <1>6. QED
    BY <1>1, <1>2, <1>3, <1>4, <1>5, Frame DEF Good

\* What the delay of the node at the cursor is asked for with, and gives.
LEMMA DelayAsked ==
  ASSUME IInv, NEW c \in Calls, call[c].pc = "scanDelay"
  PROVE  /\ call[c] \in CallState /\ Good(call[c], hist[c])
         /\ call[c].cursor \in Nat \ {0} /\ Len(call[c].nodes) \in Nat
         /\ call[c].cursor <= Len(call[c].nodes)
         /\ call[c].candidate <= Len(call[c].nodes)
         /\ getRemainingTimeForBackoff(node[call[c].nodes[call[c].cursor]])
              \in -1 .. MaxNodeBackoff
  <1> DEFINE k == call[c]
  <1>1. Good(k, hist[c])
    BY DEF IInv
  <1>2. /\ k.cursor \in Nat \ {0} /\ Len(k.nodes) \in Nat /\ k.cursor <= Len(k.nodes)
        /\ k.candidate <= Len(k.nodes) /\ k.nodes \in Seq(Nodes)
    BY <1>1 DEF Good, CallState, Located, Scanning
  <1>3. k.cursor \in 1 .. Len(k.nodes)
    <2> HIDE DEF k
    <2>1. QED
      BY <1>2, SMT
  <1>4. k.nodes[k.cursor] \in Nodes
    BY <1>2, <1>3, ElementOfSeq
  <1>5. QED
    BY <1>1, <1>2, <1>4 DEF IInv, SharedType, NodeState, getRemainingTimeForBackoff, Good

LEMMA ScanDelayStep ==
  ASSUME IInv, NEW c \in Calls, ScanDelay(c)
  PROVE  IInv'
  <1> DEFINE k     == call[c]
             h     == hist[c]
             delay == getRemainingTimeForBackoff(node[k.nodes[k.cursor]])
  <1>1. /\ k.pc = "scanDelay" /\ UNCHANGED hist /\ SharedType'
        /\ k \in CallState /\ Good(k, h) /\ k.cursor \in Nat \ {0}
        /\ Len(k.nodes) \in Nat /\ k.cursor <= Len(k.nodes)
        /\ k.candidate <= Len(k.nodes) /\ delay \in -1 .. MaxNodeBackoff
    BY DelayAsked DEF IInv, ScanDelay, SharedType
  <1>2. PICK r \in Candidates(k, delay) :
          \/ k.cursor < Len(k.nodes) /\ Move(c, [r EXCEPT !.pc = "scan", !.cursor = @ + 1])
          \/ Move(c, Selected(r, r.candidate))
    BY DEF ScanDelay
  <1> HIDE DEF delay
  <1>3. /\ r \in CallState /\ r.nodes = k.nodes
        /\ r.attempt = k.attempt /\ r.cursor = k.cursor
        /\ r.addressBookUpdateCount = k.addressBookUpdateCount
        /\ r.candidate \in 1 .. Len(k.nodes)
    BY <1>1, CandidatesType
  <1> HIDE DEF k, h
  <1>4. ASSUME k.cursor < Len(k.nodes), Move(c, [r EXCEPT !.pc = "scan", !.cursor = @ + 1])
        PROVE  IInv'
    <2> DEFINE new == [r EXCEPT !.pc = "scan", !.cursor = @ + 1]
    <2>1. r.cursor + 1 \in Nat \ {0} /\ k.cursor + 1 <= Len(k.nodes)
      BY <1>1, <1>3, <1>4, SMT
    <2>2. /\ new \in CallState /\ new.pc = "scan" /\ new.nodes = k.nodes
          /\ new.attempt = k.attempt /\ new.candidate = r.candidate
          /\ new.addressBookUpdateCount = k.addressBookUpdateCount
          /\ new.cursor = k.cursor + 1
      BY <1>3, <2>1 DEF CallState, Pcs
    <2>3. r.candidate <= Len(k.nodes) /\ Len(k.nodes) > 0
      BY <1>1, <1>3, SMT
    <2> HIDE DEF new
    <2>4. Located(new)
      BY <2>1, <2>2, <2>3 DEF Located, Looking, Scanning, AtNode
    <2>5. Counted(new, h)
      BY <1>1, <2>2 DEF Good, Counted, Scanning, AtNode, Submitted
    <2>6. QED
      BY <1>1, <1>4, <2>2, <2>4, <2>5, Frame DEF Good, new, h
  <1>5. ASSUME Move(c, Selected(r, r.candidate))
        PROVE  IInv'
    <2>1. Good(Selected(r, r.candidate), h)
      BY <1>1, <1>3, SelectedGood DEF Scanning
    <2>2. QED
      BY <1>1, <1>5, <2>1, Frame DEF h
  <1>6. QED
    BY <1>2, <1>4, <1>5

-----------------------------------------------------------------------------
(***************************************************************************)
(* One attempt at the chosen node.                                         *)
(***************************************************************************)
LEMMA ChosenIsNode ==
  ASSUME NEW k, NEW h, Good(k, h), k.pc \in AtNode
  PROVE  Chosen(k) \in Nodes
  BY ElementOfSeq DEF Good, CallState, Located, Chosen

\* Replacing one node, or one lock, by another of its type.
LEMMA NodeChanged ==
  ASSUME IInv, NEW n \in Nodes, NEW new \in NodeState,
         node' = [node EXCEPT ![n] = new], UNCHANGED <<account, hasMirror>>,
         nodeLock' \in [Nodes -> Calls \cup {NoCall}]
  PROVE  SharedType'
  BY DEF IInv, SharedType

LEMMA CheckHealthStep ==
  ASSUME IInv, NEW c \in Calls, CheckHealth(c)
  PROVE  IInv'
  <1> DEFINE k == call[c]
             p == IF isHealthy(node[Chosen(k)]) THEN "connect" ELSE "delay"
  <1>1. /\ Good(k, hist[c]) /\ k.pc = "selected" /\ UNCHANGED hist /\ SharedType'
        /\ Move(c, [k EXCEPT !.pc = p])
    BY DEF IInv, CheckHealth, SharedType
  <1>2. p \in Pcs /\ p \in AtNode
    BY DEF Pcs, AtNode
  <1> HIDE DEF p
  <1>3. Good([k EXCEPT !.pc = p], hist[c])
    BY <1>1, <1>2, SetPc, GoesOn DEF Good, AtNode, Submitted
  <1>4. QED
    BY <1>1, <1>3, Frame

\* What is left of the penalty of the chosen node is a number.
LEMMA PenaltyType ==
  ASSUME IInv, NEW c \in Calls, call[c].pc \in AtNode
  PROVE  /\ Chosen(call[c]) \in Nodes /\ node[Chosen(call[c])] \in NodeState
         /\ getRemainingTimeForBackoff(node[Chosen(call[c])]) \in Int
  <1> DEFINE n == Chosen(call[c])
             t == getRemainingTimeForBackoff(node[n])
  <1>1. n \in Nodes
    BY ChosenIsNode DEF IInv
  <1>2. node[n] \in NodeState /\ t \in -1 .. MaxNodeBackoff
    BY <1>1 DEF IInv, SharedType, NodeState, getRemainingTimeForBackoff
  <1>3. t \in Int
    <2> HIDE DEF t
    <2>1. QED
      BY <1>2, NodeAssumption, SMT
  <1>4. QED
    BY <1>1, <1>2, <1>3

LEMMA TakeDelayStep ==
  ASSUME IInv, NEW c \in Calls, TakeDelay(c)
  PROVE  IInv'
  <1> DEFINE k   == call[c]
             t   == getRemainingTimeForBackoff(node[Chosen(k)])
             new == [k EXCEPT !.pc = "nodeWait", !.sleep = t]
  <1>1. /\ Good(k, hist[c]) /\ k.pc = "delay" /\ UNCHANGED hist /\ SharedType'
        /\ Move(c, new)
    BY DEF IInv, TakeDelay, SharedType
  <1>2. t \in Int
    BY <1>1, PenaltyType DEF AtNode
  <1> HIDE DEF t
  <1>3. new \in CallState /\ Kept(new, k) /\ new.pc = "nodeWait" /\ new.attempt = k.attempt
    BY <1>1, <1>2 DEF Good, CallState, Kept, Lasting, Pcs
  <1> HIDE DEF k, new
  <1>4. Good(new, hist[c])
    BY <1>1, <1>3, GoesOn DEF AtNode, Submitted
  <1>5. QED
    BY <1>1, <1>4, Frame

LEMMA NodeWaitOverStep ==
  ASSUME IInv, NEW c \in Calls, NodeWaitOver(c)
  PROVE  IInv'
  <1> DEFINE k == call[c]
  <1>1. /\ Good(k, hist[c]) /\ k.pc = "nodeWait" /\ UNCHANGED hist /\ SharedType'
        /\ Move(c, [k EXCEPT !.pc = "connect"])
    BY DEF IInv, NodeWaitOver, SharedType
  <1>2. Good([k EXCEPT !.pc = "connect"], hist[c])
    BY <1>1, SetPc, GoesOn DEF Good, Pcs, AtNode, Submitted
  <1>3. QED
    BY <1>1, <1>2, Frame

LEMMA ConnectStep ==
  ASSUME IInv, NEW c \in Calls, Connect(c)
  PROVE  IInv'
  <1> DEFINE k == call[c]
             n == Chosen(k)
  <1>1. Good(k, hist[c]) /\ k.pc = "connect" /\ UNCHANGED <<account, hasMirror, hist>>
    BY DEF IInv, Connect
  <1>2. n \in Nodes /\ node[n] \in NodeState
    BY <1>1, ChosenIsNode DEF AtNode, IInv, SharedType
  <1>3. CASE Move(c, [k EXCEPT !.pc = "submit"]) /\ UNCHANGED <<node, nodeLock>>
    <2>1. Good([k EXCEPT !.pc = "submit"], hist[c])
      BY <1>1, SetPc, GoesOn DEF Good, Pcs, AtNode, Submitted
    <2>2. SharedType'
      BY <1>1, <1>3 DEF IInv, SharedType
    <2>3. QED
      BY <1>1, <1>3, <2>1, <2>2, Frame
  <1>4. CASE /\ Move(c, [k EXCEPT !.pc = "connecting"])
             /\ node' = [node EXCEPT ![n] = getChannel(@)]
             /\ nodeLock' = [nodeLock EXCEPT ![n] = c]
    <2>1. Good([k EXCEPT !.pc = "connecting"], hist[c])
      BY <1>1, SetPc, GoesOn DEF Good, Pcs, AtNode, Submitted
    <2>2. nodeLock' \in [Nodes -> Calls \cup {NoCall}]
      BY <1>4 DEF IInv, SharedType
    <2>3. getChannel(node[n]) \in NodeState /\ node' = [node EXCEPT ![n] = getChannel(node[n])]
      BY <1>2, <1>4, NodeOperationsType
    <2>4. SharedType'
      BY <1>1, <1>2, <2>2, <2>3, NodeChanged
    <2>5. QED
      BY <1>1, <1>4, <2>1, <2>4, Frame
  <1>5. QED
    BY <1>3, <1>4 DEF Connect

LEMMA ConnectEndStep ==
  ASSUME IInv, NEW c \in Calls, ConnectEnd(c)
  PROVE  IInv'
  <1> DEFINE k == call[c]
             h == hist[c]
             n == Chosen(k)
  <1>1. Good(k, h) /\ k.pc = "connecting" /\ UNCHANGED <<account, hasMirror>>
    BY DEF IInv, ConnectEnd
  <1>2. n \in Nodes /\ node[n] \in NodeState
    BY <1>1, ChosenIsNode DEF AtNode, IInv, SharedType
  <1>3. PICK up \in BOOLEAN :
          /\ node' = [node EXCEPT ![n] = WaitForConnected(@, up)]
          /\ Move(c, [k EXCEPT !.pc = IF up THEN "submit" ELSE "penalize"])
          /\ Record(c, IF up THEN h
                       ELSE [h EXCEPT !.considered = @ \cup {k.nodeIndex},
                                      !.overtaken = FALSE])
    BY DEF ConnectEnd
  <1> DEFINE p    == IF up THEN "submit" ELSE "penalize"
             newh == IF up THEN h
                     ELSE [h EXCEPT !.considered = @ \cup {k.nodeIndex}, !.overtaken = FALSE]
  <1>4. newh \in History /\ newh.submissions = h.submissions /\ newh.updates = h.updates
    <2>1. h.considered \cup {k.nodeIndex} \in SUBSET Nat
      BY <1>1 DEF Good, History, CallState
    <2>2. QED
      BY <1>1, <2>1 DEF Good, History
  <1>5. Good(k, newh)
    BY <1>1, <1>4 DEF Good, Counted
  <1>6. p \in Pcs /\ p \in AtNode
    BY DEF Pcs, AtNode
  <1> HIDE DEF p
  <1>7. Good([k EXCEPT !.pc = p], newh)
    BY <1>1, <1>5, <1>6, SetPc, GoesOn DEF Good, AtNode, Submitted
  <1>8. SharedType'
    <2>1. nodeLock' \in [Nodes -> Calls \cup {NoCall}]
      BY DEF ConnectEnd, IInv, SharedType
    <2>2. /\ WaitForConnected(node[n], up) \in NodeState
          /\ node' = [node EXCEPT ![n] = WaitForConnected(node[n], up)]
      BY <1>2, <1>3, NodeOperationsType
    <2>3. QED
      BY <1>1, <1>2, <2>1, <2>2, NodeChanged
  <1>9. Move(c, [k EXCEPT !.pc = p]) /\ Record(c, newh)
    BY <1>3 DEF p
  <1> HIDE DEF newh
  <1>10. QED
    BY <1>7, <1>8, <1>9, Frame

LEMMA SubmitStep ==
  ASSUME IInv, NEW c \in Calls, Submit(c)
  PROVE  IInv'
  <1> DEFINE k    == call[c]
             h    == hist[c]
             n    == Chosen(k)
             new  == [k EXCEPT !.pc = "rpc"]
             newh == [h EXCEPT !.submissions = @ + 1,
                               !.considered = @ \cup {k.nodeIndex},
                               !.overtaken = FALSE]
  <1>1. Good(k, h) /\ k.pc = "submit" /\ UNCHANGED <<node, account, hasMirror>>
    BY DEF IInv, Submit
  <1>2. n \in Nodes
    BY <1>1, ChosenIsNode DEF AtNode
  <1>3. CASE /\ Move(c, new)
             /\ nodeLock' = [nodeLock EXCEPT ![n] = c]
             /\ Record(c, newh)
    <2>1. SharedType'
      BY <1>1, <1>3 DEF IInv, SharedType
    <2>2. new \in CallState /\ Kept(new, k) /\ new.pc = "rpc" /\ new.attempt = k.attempt
      BY <1>1, SetPc DEF Good, Pcs
    <2>3. /\ h.submissions \in Nat /\ k.attempt \in Nat
          /\ h.submissions <= k.attempt /\ k.attempt < MaxAttempts
      BY <1>1 DEF Good, CallState, History, Counted, Scanning, AtNode, Submitted
    <2>4. newh \in History /\ newh.submissions = h.submissions + 1 /\ newh.updates = h.updates
      <3>1. h.submissions + 1 \in Nat
        BY <2>3, SMT
      <3>2. h.considered \cup {k.nodeIndex} \in SUBSET Nat
        BY <1>1 DEF Good, History, CallState
      <3>3. QED
        BY <1>1, <3>1, <3>2 DEF Good, History
    <2>5. h.submissions + 1 <= k.attempt + 1 /\ h.submissions + 1 <= MaxAttempts
      <3> HIDE DEF h, k
      <3>1. QED
        BY <2>3, ExecutableAssumption, SMT
    <2> HIDE DEF new, newh
    <2>6. Located(new)
      BY <1>1, <2>2 DEF Good, Located, Kept, Lasting, Looking, Scanning, AtNode
    <2>7. Counted(new, newh)
      BY <1>1, <2>2, <2>4, <2>5 DEF Good, Counted, Kept, Lasting, Scanning, AtNode, Submitted
    <2>8. QED
      BY <1>3, <2>1, <2>2, <2>4, <2>6, <2>7, Frame DEF Good
  <1>4. CASE Move(c, Finish(k, "Crashed")) /\ UNCHANGED <<nodeLock, hist>>
    <2>1. SharedType'
      BY <1>1, <1>4 DEF IInv, SharedType
    <2>2. QED
      BY <1>1, <1>4, <2>1, Ends, Frame DEF Outcomes
  <1>5. QED
    BY <1>3, <1>4 DEF Submit

LEMMA ReplyStep ==
  ASSUME IInv, NEW c \in Calls, Reply(c)
  PROVE  IInv'
  <1> DEFINE k == call[c]
  <1>1. Good(k, hist[c]) /\ k.pc = "rpc" /\ UNCHANGED hist
    BY DEF IInv, Reply
  <1>2. SharedType'
    BY DEF Reply, IInv, SharedType
  <1>3. PICK r \in Replies :
          Move(c, [k EXCEPT !.reply = r,
                     !.pc = IF r = "UNAVAILABLE" THEN "penalize" ELSE "answered"])
    BY DEF Reply
  <1> DEFINE p == IF r = "UNAVAILABLE" THEN "penalize" ELSE "answered"
  <1>4. p \in Pcs /\ p \in AtNode /\ p \in Submitted
    BY DEF Pcs, AtNode, Submitted
  <1>5. Move(c, [k EXCEPT !.reply = r, !.pc = p])
    BY <1>3
  <1> HIDE DEF p
  <1>6. r \in AllReplies
    BY ExecutableAssumption
  <1> DEFINE new == [k EXCEPT !.reply = r, !.pc = p]
  <1>7. new \in CallState /\ Kept(new, k) /\ new.pc = p /\ new.attempt = k.attempt
    BY <1>1, <1>4, <1>6 DEF Good, CallState, Kept, Lasting
  <1> HIDE DEF k, new
  <1>8. Good(new, hist[c])
    BY <1>1, <1>4, <1>7, GoesOn DEF AtNode
  <1>9. QED
    BY <1>1, <1>2, <1>5, <1>8, Frame DEF new

\* Penalising a node changes nothing else in anybody's history.
LEMMA OvertakenOnly ==
  ASSUME IInv, NEW n, Overtaken(n)
  PROVE  /\ hist' \in [Calls -> History]
         /\ \A d \in Calls : /\ hist'[d].submissions = hist[d].submissions
                             /\ hist'[d].updates = hist[d].updates
                             /\ hist'[d].considered = hist[d].considered
  <1>1. ASSUME NEW d \in Calls
        PROVE  /\ hist'[d] \in History
               /\ hist'[d].submissions = hist[d].submissions
               /\ hist'[d].updates = hist[d].updates
               /\ hist'[d].considered = hist[d].considered
    <2> DEFINE h == hist[d]
    <2>1. h \in History
      BY DEF IInv
    <2>2. hist'[d] = [h EXCEPT !.overtaken = TRUE] \/ hist'[d] = h
      BY DEF Overtaken
    <2> HIDE DEF h
    <2>3. CASE hist'[d] = h
      BY <2>1, <2>3 DEF h
    <2>4. CASE hist'[d] = [h EXCEPT !.overtaken = TRUE]
      <3>1. /\ [h EXCEPT !.overtaken = TRUE] \in History
            /\ [h EXCEPT !.overtaken = TRUE].submissions = h.submissions
            /\ [h EXCEPT !.overtaken = TRUE].updates = h.updates
            /\ [h EXCEPT !.overtaken = TRUE].considered = h.considered
        BY <2>1 DEF History
      <3>2. QED
        BY <2>4, <3>1 DEF h
    <2>5. QED
      BY <2>2, <2>3, <2>4
  <1>2. hist' = [d \in Calls |-> hist'[d]]
    BY DEF Overtaken
  <1>3. QED
    BY <1>1, <1>2

LEMMA FrameOvertaking ==
  ASSUME IInv, NEW c \in Calls, NEW k, NEW n, Move(c, k), Overtaken(n),
         Good(k, hist[c]), SharedType'
  PROVE  IInv'
  <1>1. call' \in [Calls -> CallState]
    BY DEF IInv, Move, Good
  <1>2. /\ hist' \in [Calls -> History]
        /\ \A d \in Calls : /\ hist'[d].submissions = hist[d].submissions
                            /\ hist'[d].updates = hist[d].updates
    BY OvertakenOnly
  <1>3. ASSUME NEW d \in Calls
        PROVE  Good(call'[d], hist'[d])
    <2>1. Good(call'[d], hist[d])
      <3>1. CASE d = c
        BY <3>1 DEF IInv, Move
      <3>2. CASE d # c
        BY <3>2 DEF IInv, Move
      <3>3. QED
        BY <3>1, <3>2
    <2>2. QED
      BY <1>2, <2>1 DEF Good, Counted
  <1>4. QED
    BY <1>1, <1>2, <1>3 DEF IInv

LEMMA PenalizeStep ==
  ASSUME IInv, NEW c \in Calls, Penalize(c)
  PROVE  IInv'
  <1> DEFINE k == call[c]
             n == Chosen(k)
  <1>1. /\ Good(k, hist[c]) /\ k.pc = "penalize" /\ Move(c, NextAttempt(k))
        /\ UNCHANGED <<nodeLock, account, hasMirror>> /\ Overtaken(n)
        /\ nodeLock' \in [Nodes -> Calls \cup {NoCall}]
    BY DEF IInv, Penalize, SharedType
  <1>2. n \in Nodes /\ node[n] \in NodeState
    BY <1>1, ChosenIsNode DEF AtNode, IInv, SharedType
  <1>3. /\ increaseBackoff(node[n]) \in NodeState
        /\ node' = [node EXCEPT ![n] = increaseBackoff(node[n])]
    BY <1>2, NodeOperationsType DEF Penalize
  <1>4. SharedType'
    BY <1>1, <1>2, <1>3, NodeChanged
  <1>5. Good(NextAttempt(k), hist[c])
    BY <1>1, Advanced, TriesAgain DEF Good, Submitted
  <1>6. QED
    BY <1>1, <1>4, <1>5, FrameOvertaking

-----------------------------------------------------------------------------
(***************************************************************************)
(* A response.                                                             *)
(***************************************************************************)
LEMMA DecisionGood ==
  ASSUME NEW k, NEW h, Good(k, h), k.pc = "answered", NEW s \in Statuses
  PROVE  Good(Decision(k, s), h)
  <1> DEFINE new == Decision(k, s)
  <1>1. k \in CallState
    BY DEF Good
  <1>2. \/ new = NextAttempt(k)
        \/ new = [k EXCEPT !.pc = "invalid", !.nodeResponses = NoResponses]
        \/ new = [k EXCEPT !.pc = "invalid"]
        \/ new = [k EXCEPT !.pc = "retryWait", !.sleep = k.mCurrentBackoff]
        \/ new = Finish(k, "REJECTED")
        \/ new = Finish(k, "success")
    BY DEF Decision
  <1> SUFFICES Good(new, h)
    OBVIOUS
  <1> HIDE DEF new
  <1>3. CASE new = NextAttempt(k)
    <2>1. /\ new \in CallState /\ Lasting(new, k)
          /\ new.pc = "loop" /\ new.attempt = k.attempt + 1
      BY <1>1, <1>3, Advanced
    <2>2. QED
      BY <2>1, TriesAgain DEF Submitted
  <1>4. ASSUME \/ new = [k EXCEPT !.pc = "invalid", !.nodeResponses = NoResponses]
               \/ new = [k EXCEPT !.pc = "invalid"]
        PROVE  Good(new, h)
    <2>1. CASE new = [k EXCEPT !.pc = "invalid", !.nodeResponses = NoResponses]
      <3>1. new \in CallState /\ Kept(new, k) /\ new.pc = "invalid" /\ new.attempt = k.attempt
        BY <1>1, <2>1 DEF CallState, Kept, Lasting, Pcs, NoResponses
      <3>2. QED
        BY <3>1, GoesOn DEF AtNode, Submitted
    <2>2. CASE new = [k EXCEPT !.pc = "invalid"]
      <3>1. new \in CallState /\ Kept(new, k) /\ new.pc = "invalid" /\ new.attempt = k.attempt
        BY <1>1, <2>2 DEF CallState, Kept, Lasting, Pcs
      <3>2. QED
        BY <3>1, GoesOn DEF AtNode, Submitted
    <2>3. QED
      BY <1>4, <2>1, <2>2
  <1>5. CASE new = [k EXCEPT !.pc = "retryWait", !.sleep = k.mCurrentBackoff]
    <2>1. k.mCurrentBackoff \in Int
      <3>1. k.mCurrentBackoff \in 0 .. MaxBackoff
        BY <1>1 DEF CallState
      <3>2. QED
        BY <3>1, ExecutableAssumption, SMT
    <2>2. new \in CallState /\ Kept(new, k) /\ new.pc = "retryWait" /\ new.attempt = k.attempt
      BY <1>1, <1>5, <2>1 DEF CallState, Kept, Lasting, Pcs
    <2>3. QED
      BY <2>2, GoesOn DEF AtNode, Submitted
  <1>6. CASE new = Finish(k, "REJECTED")
    BY <1>6, Ends DEF Outcomes
  <1>7. CASE new = Finish(k, "success")
    BY <1>7, Ends DEF Outcomes
  <1>8. QED
    BY <1>2, <1>3, <1>4, <1>5, <1>6, <1>7

LEMMA HandleResponseStep ==
  ASSUME IInv, NEW c \in Calls, HandleResponse(c)
  PROVE  IInv'
  <1> DEFINE k == call[c]
             n == Chosen(k)
             s == mapResponseStatus(k.reply)
             noted == [k EXCEPT !.nodeResponses[n] = s]
  <1>1. /\ Good(k, hist[c]) /\ k.pc = "answered" /\ Move(c, Decision(noted, s))
        /\ UNCHANGED <<nodeLock, account, hasMirror, hist>>
        /\ nodeLock' \in [Nodes -> Calls \cup {NoCall}]
    BY DEF IInv, HandleResponse, SharedType
  <1>2. n \in Nodes /\ node[n] \in NodeState
    BY <1>1, ChosenIsNode DEF AtNode, IInv, SharedType
  <1>3. /\ decreaseBackoff(node[n]) \in NodeState
        /\ node' = [node EXCEPT ![n] = decreaseBackoff(node[n])]
    BY <1>2, NodeOperationsType DEF HandleResponse
  <1>4. SharedType'
    BY <1>1, <1>2, <1>3, NodeChanged
  <1>5. s \in Statuses
    BY DEF mapResponseStatus, Statuses
  <1>6. Good(noted, hist[c]) /\ noted.pc = "answered"
    <2>1. /\ noted \in CallState /\ Kept(noted, k)
          /\ noted.pc = "answered" /\ noted.attempt = k.attempt
      <3> HIDE DEF s, n
      <3>1. QED
        BY <1>1, <1>2, <1>5 DEF Good, CallState, Kept, Lasting
    <2> HIDE DEF k, noted
    <2>2. QED
      BY <1>1, <2>1, GoesOn DEF AtNode, Submitted
  <1> HIDE DEF noted, s
  <1>7. Good(Decision(noted, s), hist[c])
    BY <1>5, <1>6, DecisionGood
  <1>8. QED
    BY <1>1, <1>4, <1>7, Frame

LEMMA RetryWithAnotherNodeStep ==
  ASSUME IInv, NEW c \in Calls, RetryWithAnotherNode(c)
  PROVE  IInv'
  <1> DEFINE k == call[c]
             n == Chosen(k)
             new == [NextAttempt(k) EXCEPT !.needsAddressBookUpdate = TRUE]
  <1>1. /\ Good(k, hist[c]) /\ k.pc = "invalid"
        /\ UNCHANGED <<nodeLock, account, hasMirror>> /\ Overtaken(n)
        /\ nodeLock' \in [Nodes -> Calls \cup {NoCall}]
    BY DEF IInv, RetryWithAnotherNode, SharedType
  <1>2. n \in Nodes /\ node[n] \in NodeState
    BY <1>1, ChosenIsNode DEF AtNode, IInv, SharedType
  <1>3. /\ increaseBackoff(node[n]) \in NodeState
        /\ node' = [node EXCEPT ![n] = increaseBackoff(node[n])]
    BY <1>2, NodeOperationsType DEF RetryWithAnotherNode
  <1>4. SharedType'
    BY <1>1, <1>2, <1>3, NodeChanged
  <1>5. CASE Move(c, Finish(k, "INVALID_NODE_ACCOUNT"))
    BY <1>1, <1>4, <1>5, Ends, FrameOvertaking DEF Outcomes
  <1>6. CASE Move(c, new)
    <2>1. /\ new \in CallState /\ Lasting(new, k)
          /\ new.pc = "loop" /\ new.attempt = k.attempt + 1
      BY <1>1, Flagged DEF Good
    <2> HIDE DEF k, new
    <2>2. Good(new, hist[c])
      BY <1>1, <2>1, TriesAgain DEF Submitted
    <2>3. QED
      BY <1>1, <1>4, <1>6, <2>2, FrameOvertaking
  <1>7. QED
    BY <1>5, <1>6 DEF RetryWithAnotherNode

LEMMA RetryWaitOverStep ==
  ASSUME IInv, NEW c \in Calls, RetryWaitOver(c)
  PROVE  IInv'
  <1> DEFINE k == call[c]
             new == [NextAttempt(k) EXCEPT !.mCurrentBackoff = AtMost(2 * @, MaxBackoff)]
  <1>1. /\ Good(k, hist[c]) /\ k.pc = "retryWait" /\ Move(c, new)
        /\ UNCHANGED hist /\ SharedType'
    BY DEF IInv, RetryWaitOver, SharedType
  <1>2. /\ new \in CallState /\ Lasting(new, k)
        /\ new.pc = "loop" /\ new.attempt = k.attempt + 1
    BY <1>1, BackedOff DEF Good
  <1> HIDE DEF k, new
  <1>3. Good(new, hist[c])
    BY <1>1, <1>2, TriesAgain DEF Submitted
  <1>4. QED
    BY <1>1, <1>3, Frame

-----------------------------------------------------------------------------
(***************************************************************************)
(* The environment.                                                        *)
(***************************************************************************)
LEMMA TickStep ==
  ASSUME IInv, Tick
  PROVE  IInv'
  <1>1. SharedType'
    BY NodeOperationsType DEF IInv, SharedType, Tick
  <1>2. ASSUME NEW c \in Calls
        PROVE  Good(call'[c], hist[c])
    <2> DEFINE k   == call[c]
               t   == AtLeast(k.sleep - 1, 0)
               new == [k EXCEPT !.sleep = t]
    <2>1. Good(k, hist[c]) /\ k \in CallState
      BY DEF IInv, Good
    <2>2. t \in Int
      <3>1. k.sleep \in Int
        BY <2>1 DEF CallState
      <3> HIDE DEF k
      <3>2. QED
        BY <3>1, SMT DEF AtLeast
    <2>3. call'[c] = new
      BY DEF Tick
    <2> HIDE DEF t
    <2>4. /\ new \in CallState /\ Kept(new, k) /\ new.pc = k.pc
          /\ new.attempt = k.attempt /\ new.cursor = k.cursor
      BY <2>1, <2>2 DEF CallState, Kept, Lasting
    <2> HIDE DEF k, new
    <2>5. Located(new) /\ Counted(new, hist[c])
      BY <2>1, <2>4 DEF Good, Located, Counted, Kept, Lasting
    <2>6. QED
      BY <2>1, <2>3, <2>4, <2>5 DEF Good
  <1>3. call' \in [Calls -> CallState]
    <2>1. call' = [c \in Calls |-> call'[c]]
      BY DEF Tick
    <2>2. QED
      BY <1>2, <2>1 DEF Good
  <1>4. QED
    BY <1>1, <1>2, <1>3 DEF IInv, Tick

LEMMA BackgroundUpdateStep ==
  ASSUME IInv, BackgroundUpdate
  PROVE  IInv'
  <1>1. PICK book \in AddressBooks : updateNodeAccountIds(book)
    BY DEF BackgroundUpdate
  <1>2. account' \in [Nodes -> Accounts]
    BY <1>1, ExecutableAssumption DEF updateNodeAccountIds, IInv, SharedType
  <1>3. QED
    BY <1>2, FrameShared DEF BackgroundUpdate, IInv, SharedType

LEMMA CloseChannelStep ==
  ASSUME IInv, NEW n \in Nodes, CloseChannel(n)
  PROVE  IInv'
  <1>1. /\ closeChannel(node[n]) \in NodeState
        /\ node' = [node EXCEPT ![n] = closeChannel(node[n])]
    BY NodeOperationsType DEF CloseChannel, IInv, SharedType
  <1>2. SharedType'
    BY <1>1, NodeChanged DEF CloseChannel, IInv, SharedType
  <1>3. QED
    BY <1>2, FrameShared DEF CloseChannel

-----------------------------------------------------------------------------
(***************************************************************************)
(* The invariant, and what follows from it.                                *)
(***************************************************************************)
LEMMA Initially == Init => IInv
  <1> SUFFICES ASSUME Init
               PROVE  IInv
    OBVIOUS
  <1>1. SharedType
    BY NewNodeType, ExecutableAssumption DEF Init, SharedType
  <1>2. IdleCall \in CallState
    <2>1. /\ MinBackoff \in 0 .. MaxBackoff /\ 0 \in -1 .. MaxNodeBackoff
          /\ 0 \in Nat /\ 0 \in Int /\ 1 \in Nat \ {0} /\ <<>> \in Seq(Nodes)
      BY ExecutableAssumption, NodeAssumption, SMT
    <2>2. NoResponses \in [Nodes -> Statuses \cup {NoStatus}]
      BY DEF NoResponses
    <2>3. QED
      BY <2>1, <2>2 DEF IdleCall, CallState, Pcs, AllReplies, Statuses, Outcomes
  <1>3. NoHistory \in History
    BY SMT DEF NoHistory, History
  <1>4. Located(IdleCall)
    BY DEF Located, IdleCall, Looking, Scanning, AtNode
  <1>5. Counted(IdleCall, NoHistory)
    BY ExecutableAssumption, SMT
       DEF Counted, IdleCall, NoHistory, Scanning, AtNode, Submitted, MAX_ADDRESS_BOOK_UPDATES
  <1>6. QED
    BY <1>1, <1>2, <1>3, <1>4, <1>5 DEF IInv, Init, Good

LEMMA Inductive == IInv /\ [Next]_vars => IInv'
  <1> SUFFICES ASSUME IInv, [Next]_vars
               PROVE  IInv'
    OBVIOUS
  <1>1. CASE UNCHANGED vars
    BY <1>1 DEF IInv, SharedType, vars
  <1>2. ASSUME NEW c \in Calls, Step(c)
        PROVE  IInv'
    BY <1>2, BeginStep, FetchProxyStep, FetchDoneStep, UpdateSkippedStep,
       UpdateBeginStep, UpdateEndStep, UpdateFailsStep, RefetchDoneStep,
       AttemptsExhaustedStep, ScanBeginStep, ScanHealthyStep, ScanUnhealthyStep,
       ScanDelayStep, CheckHealthStep, TakeDelayStep, NodeWaitOverStep, ConnectStep, ConnectEndStep,
       SubmitStep, ReplyStep, PenalizeStep, HandleResponseStep,
       RetryWithAnotherNodeStep, RetryWaitOverStep DEF Step
  <1>3. CASE Tick
    BY <1>3, TickStep
  <1>4. CASE BackgroundUpdate
    BY <1>4, BackgroundUpdateStep
  <1>5. ASSUME NEW n \in Nodes, CloseChannel(n)
        PROVE  IInv'
    BY <1>5, CloseChannelStep
  <1>6. QED
    BY <1>1, <1>2, <1>3, <1>4, <1>5 DEF Next, Terminated

LEMMA Invariance == Spec => []IInv
  BY Initially, Inductive, PTL DEF Spec

\* The records of every execution and every node stay inside their types; no
\* index an execution uses leaves its list of nodes.
THEOREM TypeCorrect == Spec => []TypeOK
  <1>1. IInv => TypeOK
    BY DEF IInv, SharedType, TypeOK
  <1>2. QED
    BY <1>1, Invariance, PTL

\* No execution starts more than MaxAttempts RPCs or more than one address book
\* query, for any number of executions, nodes and accounts and any replies.
THEOREM BudgetKept == Spec => []Budget
  <1>1. IInv => Budget
    BY DEF IInv, Good, Counted, Budget
  <1>2. QED
    BY <1>1, Invariance, PTL

-----------------------------------------------------------------------------
(***************************************************************************)
(* What an execution knows of its nodes, its responses and its look-ups.   *)
(*                                                                         *)
(* None of the three properties below is inductive.  LInv says, beside     *)
(* them, how far a scan has come (Visited) and what the counter of address *)
(* book updates says about the queries (Asked).                            *)
(***************************************************************************)
Fetching == {"idle", "fetch", "refetch"}

\* An address book query was started when one was due, and no execution gives
\* up with INVALID_NODE_ACCOUNT before it.
Asked(k, h) ==
  /\ k.pc \in {"update", "refetch"} => h.updates = 1
  /\ hasMirror /\ k.addressBookUpdateCount >= 1 => h.updates = 1
  /\ k.pc # "done" => k.outcome = "none"
  /\ k.outcome = "INVALID_NODE_ACCOUNT" =>
       /\ hasMirror => h.updates = 1
       /\ \A i \in 1 .. Len(k.nodes) : k.nodes[i] \in Answered(k)

\* Only nodes in use have a response, but for the time of a second look-up.
Current(k) ==
  /\ k.pc \in {"idle", "fetch"} => k.nodeResponses = NoResponses
  /\ k.pc # "refetch" /\ k.nodes # <<>> =>
       \A n \in Answered(k) : \E i \in 1 .. Len(k.nodes) : k.nodes[i] = n

\* The turns of the attempts so far; and how this attempt takes its turn.
Visited(k, h) ==
  h.updates = 0 =>
    /\ \A i \in 1 .. Len(k.nodes) : i <= k.attempt => i \in h.considered
    /\ k.pc = "scan" /\ k.attempt < Len(k.nodes) =>
         /\ k.cursor >= k.attempt + 1
         /\ k.cursor = k.attempt + 1 \/ k.attempt + 1 \in h.considered
    /\ k.pc = "scanDelay" /\ k.attempt < Len(k.nodes) =>
         k.cursor >= k.attempt + 1 /\ k.attempt + 1 \in h.considered
    /\ k.pc \in AtNode /\ k.attempt < Len(k.nodes) =>
         k.nodeIndex = k.attempt + 1 \/ k.attempt + 1 \in h.considered
    /\ k.pc \in Submitted /\ k.attempt < Len(k.nodes) =>
         k.attempt + 1 \in h.considered

Sound(k, h) == Asked(k, h) /\ Current(k) /\ Visited(k, h)

LInv == \A c \in Calls : Sound(call[c], hist[c])

-----------------------------------------------------------------------------
(***************************************************************************)
(* A step of one call, again: only its own records matter.                 *)
(***************************************************************************)
LEMMA SoundFrame ==
  ASSUME IInv, LInv, NEW c \in Calls, NEW k, NEW h,
         Move(c, k),
         Record(c, h) \/ (UNCHANGED hist /\ h = hist[c]),
         Sound(k, h), UNCHANGED hasMirror
  PROVE  LInv'
  <1>1. ASSUME NEW d \in Calls
        PROVE  Sound(call'[d], hist'[d])
    <2>1. CASE d = c
      BY <2>1 DEF IInv, Move, Record
    <2>2. CASE d # c
      BY <2>2 DEF IInv, LInv, Move, Record
    <2>3. QED
      BY <2>1, <2>2
  <1>2. QED
    BY <1>1 DEF LInv, Sound, Asked, Current, Visited, Answered

\* The same when the step penalises node n.
LEMMA SoundFrameOvertaking ==
  ASSUME IInv, LInv, NEW c \in Calls, NEW k, NEW n, Move(c, k), Overtaken(n),
         Sound(k, hist[c]), UNCHANGED hasMirror
  PROVE  LInv'
  <1>1. \A d \in Calls : /\ hist'[d].updates = hist[d].updates
                         /\ hist'[d].considered = hist[d].considered
    BY OvertakenOnly
  <1>2. ASSUME NEW d \in Calls
        PROVE  Sound(call'[d], hist'[d])
    <2>1. Sound(call'[d], hist[d])
      <3>1. CASE d = c
        BY <3>1 DEF IInv, Move
      <3>2. CASE d # c
        BY <3>2 DEF IInv, LInv, Move
      <3>3. QED
        BY <3>1, <3>2
    <2>2. QED
      BY <1>1, <2>1 DEF Sound, Asked, Visited
  <1>3. QED
    BY <1>2 DEF LInv, Sound, Asked, Current, Visited, Answered

\* What most steps of an attempt leave alone.
Stays(k, h, new, newh) ==
  /\ new.nodes = k.nodes /\ new.nodeResponses = k.nodeResponses
  /\ new.addressBookUpdateCount = k.addressBookUpdateCount
  /\ new.outcome = k.outcome
  /\ newh.updates = h.updates
  /\ k.pc \notin Fetching \cup {"update", "done"}
  /\ new.pc \notin Fetching \cup {"update", "done"}

LEMMA StaysSound ==
  ASSUME NEW k, NEW h, NEW new, NEW newh, Sound(k, h),
         Stays(k, h, new, newh), Visited(new, newh)
  PROVE  Sound(new, newh)
  <1>1. Asked(new, newh)
    BY DEF Sound, Asked, Stays, Answered, Fetching
  <1>2. Current(new)
    BY DEF Sound, Current, Stays, Answered, Fetching
  <1>3. QED
    BY <1>1, <1>2 DEF Sound

\* An execution that ends with its nodes and their responses as they were.
LEMMA EndsSound ==
  ASSUME NEW k \in CallState, NEW h, Sound(k, h),
         k.pc \notin Fetching \/ k.nodes = <<>>,
         NEW how \in Outcomes, NEW new, new = Finish(k, how),
         how = "INVALID_NODE_ACCOUNT" =>
           /\ hasMirror => h.updates = 1
           /\ \A i \in 1 .. Len(k.nodes) : k.nodes[i] \in Answered(k)
  PROVE  Sound(new, h)
  <1>1. /\ new.nodes = k.nodes /\ new.nodeResponses = k.nodeResponses
        /\ new.addressBookUpdateCount = k.addressBookUpdateCount
        /\ new.outcome = how /\ new.attempt = k.attempt /\ new.pc = "done"
    BY DEF CallState, Finish
  <1> HIDE DEF Outcomes
  <1>2. Asked(new, h)
    BY <1>1 DEF Sound, Asked, Answered
  <1>3. Current(new)
    BY <1>1 DEF Sound, Current, Answered, Fetching
  <1>4. Visited(new, h)
    BY <1>1 DEF Sound, Visited, Scanning, AtNode, Submitted
  <1>5. QED
    BY <1>2, <1>3, <1>4 DEF Sound

\* The index this attempt owes a visit, once it has been visited, is behind
\* the next one.
LEMMA NextVisited ==
  ASSUME NEW k \in CallState, NEW h \in History, Visited(k, h), k.pc \in Submitted,
         NEW new \in CallState, new.nodes = k.nodes, new.attempt = k.attempt + 1,
         new.pc = "loop"
  PROVE  Visited(new, h)
  <1>1. k.attempt \in Nat /\ Len(k.nodes) \in Nat
    BY DEF CallState
  <1>2. \A i \in 1 .. Len(k.nodes) :
          i <= k.attempt + 1 => i <= k.attempt \/ i = k.attempt + 1
    BY <1>1, SMT
  <1>3. ASSUME h.updates = 0, NEW i \in 1 .. Len(k.nodes), i <= k.attempt + 1
        PROVE  i \in h.considered
    <2>1. CASE i <= k.attempt
      BY <1>3, <2>1 DEF Visited
    <2>2. CASE i = k.attempt + 1
      <3>1. k.attempt < Len(k.nodes)
        BY <1>1, <1>3, <2>2, SMT
      <3>2. QED
        BY <1>3, <2>2, <3>1 DEF Visited
    <2>3. QED
      BY <1>2, <1>3, <2>1, <2>2
  <1>4. QED
    BY <1>3 DEF Visited, Scanning, AtNode, Submitted

\* The step from one attempt to the next.
LEMMA TriesAgainSound ==
  ASSUME NEW k \in CallState, NEW h \in History, Sound(k, h),
         k.pc \in Submitted, NEW new \in CallState, Lasting(new, k), new.pc = "loop",
         new.attempt = k.attempt + 1, new.nodeResponses = k.nodeResponses,
         new.outcome = k.outcome
  PROVE  Sound(new, h)
  <1>1. Visited(new, h)
    BY NextVisited DEF Sound, Lasting
  <1>2. Stays(k, h, new, h)
    BY DEF Stays, Lasting, Submitted, Fetching
  <1>3. QED
    BY <1>1, <1>2, StaysSound

\* A step inside an attempt that has nothing to do with visiting its node.
LEMMA GoesOnSound ==
  ASSUME NEW k \in CallState, NEW h \in History, Sound(k, h),
         k.pc \in AtNode, NEW new \in CallState, Kept(new, k), new.pc \in AtNode,
         new.attempt = k.attempt, new.nodeResponses = k.nodeResponses,
         new.outcome = k.outcome, new.pc \in Submitted => k.pc \in Submitted
  PROVE  Sound(new, h)
  <1>1. Visited(new, h)
    BY DEF Sound, Visited, Kept, Lasting, Scanning, AtNode, Submitted
  <1>2. Stays(k, h, new, h)
    BY DEF Stays, Kept, Lasting, AtNode, Fetching
  <1>3. QED
    BY <1>1, <1>2, StaysSound

-----------------------------------------------------------------------------
(***************************************************************************)
(* The steps of a call keep it sound.                                      *)
(***************************************************************************)
LEMMA BeginSound ==
  ASSUME IInv, LInv, NEW c \in Calls, Begin(c)
  PROVE  LInv'
  <1> DEFINE k   == call[c]
             h   == hist[c]
             new == [k EXCEPT !.pc = "fetch", !.mCurrentBackoff = MinBackoff]
  <1>1. /\ Good(k, h) /\ Sound(k, h) /\ k.pc = "idle"
        /\ Move(c, new) /\ UNCHANGED <<hist, hasMirror>>
    BY DEF IInv, LInv, Begin
  <1>2. /\ new.pc = "fetch" /\ new.nodes = k.nodes
        /\ new.nodeResponses = k.nodeResponses /\ new.outcome = k.outcome
        /\ new.addressBookUpdateCount = k.addressBookUpdateCount
        /\ new.attempt = k.attempt /\ k.attempt = 0
    BY <1>1 DEF Good, CallState, Counted
  <1> HIDE DEF k, h, new
  <1>3. Asked(new, h) /\ Current(new)
    BY <1>1, <1>2 DEF Sound, Asked, Current, Answered, Fetching
  <1>4. Visited(new, h)
    BY <1>2 DEF Visited, Scanning, AtNode, Submitted
  <1>5. QED
    BY <1>1, <1>3, <1>4, SoundFrame DEF Sound, IInv, h

LEMMA FetchProxySound ==
  ASSUME IInv, LInv, NEW c \in Calls, FetchProxy(c)
  PROVE  LInv'
  <1> DEFINE k == call[c]
             h == hist[c]
  <1>1. /\ Good(k, h) /\ Sound(k, h) /\ k.pc \in {"fetch", "refetch"}
        /\ UNCHANGED <<hist, hasMirror>>
    BY DEF IInv, LInv, FetchProxy
  <1>2. /\ k.pc = "fetch" => k.attempt = 0
        /\ k.pc = "refetch" => h.updates = 1
    BY <1>1 DEF Good, Counted, Sound, Asked
  <1>3. PICK new : /\ Move(c, new)
                   /\ \/ \E n \in Nodes : new = [k EXCEPT !.cursor = @ + 1, !.nodes = Append(@, n)]
                      \/ new = [k EXCEPT !.cursor = @ + 1]
    BY DEF FetchProxy, Proxies
  <1>4. /\ new.pc = k.pc /\ new.attempt = k.attempt
        /\ new.nodeResponses = k.nodeResponses /\ new.outcome = k.outcome
        /\ new.addressBookUpdateCount = k.addressBookUpdateCount
    BY <1>1, <1>3 DEF Good, CallState
  <1> HIDE DEF k, h
  <1>5. Asked(new, h)
    BY <1>1, <1>4 DEF Sound, Asked
  <1>6. Current(new)
    BY <1>1, <1>4 DEF Sound, Current, Answered, NoResponses
  <1>7. Visited(new, h)
    BY <1>1, <1>2, <1>4 DEF Visited, AtNode, Submitted
  <1>8. QED
    BY <1>1, <1>3, <1>5, <1>6, <1>7, SoundFrame DEF Sound, IInv, k, h

LEMMA FetchDoneSound ==
  ASSUME IInv, LInv, NEW c \in Calls, FetchDone(c)
  PROVE  LInv'
  <1> DEFINE k   == call[c]
             h   == hist[c]
             new == [k EXCEPT !.pc = "loop"]
  <1>1. /\ Good(k, h) /\ k \in CallState /\ Sound(k, h) /\ k.pc = "fetch"
        /\ UNCHANGED <<hist, hasMirror>>
    BY DEF IInv, LInv, FetchDone, Good
  <1>2. CASE k.nodes = <<>> /\ Move(c, Finish(k, "IllegalState"))
    <2>1. Sound(Finish(k, "IllegalState"), h)
      BY <1>1, <1>2, EndsSound DEF Outcomes
    <2>2. QED
      BY <1>1, <1>2, <2>1, SoundFrame DEF IInv
  <1>3. CASE Move(c, new)
    <2>1. k.attempt = 0
      BY <1>1 DEF Good, Counted
    <2>2. /\ new.pc = "loop" /\ new.nodes = k.nodes /\ new.attempt = k.attempt
          /\ new.nodeResponses = k.nodeResponses /\ new.outcome = k.outcome
          /\ new.addressBookUpdateCount = k.addressBookUpdateCount
      BY <1>1 DEF CallState
    <2> HIDE DEF new, k, h
    <2>3. Asked(new, h) /\ Current(new)
      BY <1>1, <2>2 DEF Sound, Asked, Current, Answered, NoResponses
    <2>4. Visited(new, h)
      BY <2>1, <2>2 DEF Visited, Scanning, AtNode, Submitted
    <2>5. QED
      BY <1>1, <1>3, <2>3, <2>4, SoundFrame DEF Sound, IInv, k, h
  <1>4. QED
    BY <1>2, <1>3 DEF FetchDone

LEMMA UpdateSkippedSound ==
  ASSUME IInv, LInv, NEW c \in Calls, UpdateSkipped(c)
  PROVE  LInv'
  <1> DEFINE k   == call[c]
             h   == hist[c]
             new == UpdateOver(k)
  <1>1. /\ k \in CallState /\ Sound(k, h) /\ k.pc = "loop" /\ ~hasMirror
        /\ Move(c, new) /\ UNCHANGED <<hist, hasMirror>>
    BY DEF IInv, LInv, UpdateSkipped, Good
  <1>2. /\ new.pc = "loop" /\ new.nodes = k.nodes /\ new.attempt = k.attempt
        /\ new.nodeResponses = k.nodeResponses /\ new.outcome = k.outcome
    BY <1>1 DEF CallState, UpdateOver
  <1> HIDE DEF k, h, new
  <1>3. Asked(new, h) /\ Current(new)
    BY <1>1, <1>2 DEF Sound, Asked, Current, Answered
  <1>4. Visited(new, h)
    BY <1>1, <1>2 DEF Sound, Visited, Scanning, AtNode, Submitted
  <1>5. QED
    BY <1>1, <1>3, <1>4, SoundFrame DEF Sound, IInv, k, h

LEMMA UpdateBeginSound ==
  ASSUME IInv, LInv, NEW c \in Calls, UpdateBegin(c)
  PROVE  LInv'
  <1> DEFINE k    == call[c]
             h    == hist[c]
             new  == [k EXCEPT !.pc = "update"]
             newh == [h EXCEPT !.updates = @ + 1]
  <1>1. /\ Good(k, h) /\ Sound(k, h) /\ k.pc = "loop" /\ UpdateDue(k)
        /\ Move(c, new) /\ Record(c, newh) /\ UNCHANGED hasMirror
    BY DEF IInv, LInv, UpdateBegin
  <1>2. /\ new.pc = "update" /\ new.nodes = k.nodes /\ new.attempt = k.attempt
        /\ new.nodeResponses = k.nodeResponses /\ new.outcome = k.outcome
        /\ new.addressBookUpdateCount = k.addressBookUpdateCount
    BY <1>1 DEF Good, CallState
  <1>3. newh.updates = h.updates + 1
    BY <1>1 DEF Good, History
  <1>4. /\ k.addressBookUpdateCount \in Nat /\ k.addressBookUpdateCount < MAX_ADDRESS_BOOK_UPDATES
        /\ h.updates \in Nat /\ h.updates <= k.addressBookUpdateCount
    BY <1>1 DEF Good, CallState, History, Counted, UpdateDue
  <1> HIDE DEF k, h, new, newh
  <1>5. newh.updates = 1
    BY <1>3, <1>4 DEF MAX_ADDRESS_BOOK_UPDATES
  <1>6. Asked(new, newh) /\ Current(new)
    BY <1>1, <1>2, <1>5 DEF Sound, Asked, Current, Answered
  <1>7. Visited(new, newh)
    BY <1>5 DEF Visited
  <1>8. QED
    BY <1>1, <1>6, <1>7, SoundFrame DEF Sound, IInv, k, h

LEMMA UpdateEndSound ==
  ASSUME IInv, LInv, NEW c \in Calls, UpdateEnd(c)
  PROVE  LInv'
  <1> DEFINE k    == call[c]
             h    == hist[c]
             new  == [k EXCEPT !.pc = "refetch", !.cursor = 1, !.nodes = <<>>]
             newh == [h EXCEPT !.considered = {}]
  <1>1. /\ Good(k, h) /\ Sound(k, h) /\ k.pc = "update"
        /\ Move(c, new) /\ Record(c, newh) /\ UNCHANGED hasMirror
    BY DEF IInv, LInv, UpdateEnd
  <1>2. /\ new.pc = "refetch" /\ new.nodes = <<>> /\ new.cursor = 1
        /\ new.nodeResponses = k.nodeResponses /\ new.outcome = k.outcome
        /\ new.addressBookUpdateCount = k.addressBookUpdateCount
    BY <1>1 DEF Good, CallState
  <1>3. newh.updates = h.updates
    BY <1>1 DEF Good, History
  <1> HIDE DEF k, h, new, newh
  <1>4. Asked(new, newh) /\ Current(new)
    BY <1>1, <1>2, <1>3 DEF Sound, Asked, Current
  <1>5. Visited(new, newh)
    BY <1>1, <1>3 DEF Sound, Asked, Visited
  <1>6. QED
    BY <1>1, <1>4, <1>5, SoundFrame DEF Sound, IInv, k, h

LEMMA UpdateFailsSound ==
  ASSUME IInv, LInv, NEW c \in Calls, UpdateFails(c)
  PROVE  LInv'
  <1>1. /\ call[c] \in CallState /\ Sound(call[c], hist[c]) /\ call[c].pc = "update"
        /\ Move(c, Finish(call[c], "UpdateFailed")) /\ UNCHANGED <<hist, hasMirror>>
    BY DEF IInv, LInv, UpdateFails
  <1>2. Sound(Finish(call[c], "UpdateFailed"), hist[c])
    BY <1>1, EndsSound DEF Outcomes, Fetching
  <1>3. QED
    BY <1>1, <1>2, SoundFrame DEF IInv

LEMMA RefetchDoneSound ==
  ASSUME IInv, LInv, NEW c \in Calls, RefetchDone(c)
  PROVE  LInv'
  <1> DEFINE k    == call[c]
             h    == hist[c]
             over == UpdateOver(k)
             new  == [over EXCEPT !.nodeResponses = NoResponses]
  <1>1. /\ k \in CallState /\ Sound(k, h) /\ k.pc = "refetch"
        /\ UNCHANGED <<hist, hasMirror>>
    BY DEF IInv, LInv, RefetchDone
  <1>2. h.updates = 1
    BY <1>1 DEF Sound, Asked
  <1>3. CASE k.nodes = <<>> /\ Move(c, Finish(k, "INVALID_NODE_ACCOUNT"))
    <2>1. \A i \in 1 .. Len(k.nodes) : k.nodes[i] \in Answered(k)
      BY <1>3
    <2>2. Sound(Finish(k, "INVALID_NODE_ACCOUNT"), h)
      BY <1>1, <1>2, <1>3, <2>1, EndsSound DEF Outcomes
    <2>3. QED
      BY <1>1, <1>3, <2>2, SoundFrame DEF IInv
  <1>4. CASE Move(c, new)
    <2>1. over \in CallState /\ over.pc = "loop" /\ over.nodes = k.nodes /\ over.outcome = k.outcome
      BY <1>1, Updated DEF UpdateOver, CallState
    <2> HIDE DEF over
    <2>2. /\ new.pc = "loop" /\ new.nodes = k.nodes /\ new.outcome = k.outcome
          /\ new.nodeResponses = NoResponses
      BY <2>1 DEF CallState
    <2> HIDE DEF new, k, h
    <2>3. Asked(new, h) /\ Current(new)
      BY <1>1, <1>2, <2>2 DEF Sound, Asked, Current, Answered, NoResponses
    <2>4. Visited(new, h)
      BY <1>2 DEF Visited
    <2>5. QED
      BY <1>1, <1>4, <2>3, <2>4, SoundFrame DEF Sound, IInv, k, h
  <1>5. QED
    BY <1>3, <1>4 DEF RefetchDone

LEMMA AttemptsExhaustedSound ==
  ASSUME IInv, LInv, NEW c \in Calls, AttemptsExhausted(c)
  PROVE  LInv'
  <1>1. /\ call[c] \in CallState /\ Sound(call[c], hist[c]) /\ call[c].pc = "loop"
        /\ Move(c, Finish(call[c], "MaxAttemptsExceeded")) /\ UNCHANGED <<hist, hasMirror>>
    BY DEF IInv, LInv, AttemptsExhausted
  <1>2. Sound(Finish(call[c], "MaxAttemptsExceeded"), hist[c])
    BY <1>1, EndsSound DEF Outcomes, Fetching
  <1>3. QED
    BY <1>1, <1>2, SoundFrame DEF IInv

LEMMA ScanBeginSound ==
  ASSUME IInv, LInv, NEW c \in Calls, ScanBegin(c)
  PROVE  LInv'
  <1> DEFINE k   == call[c]
             h   == hist[c]
             i   == firstIndex(k)
             new == [k EXCEPT !.pc = "scan", !.cursor = i]
  <1>1. /\ k \in CallState /\ Sound(k, h) /\ k.pc = "loop"
        /\ Move(c, new) /\ UNCHANGED <<hist, hasMirror>>
    BY DEF IInv, LInv, ScanBegin
  <1>2. k.attempt < Len(k.nodes) => i = k.attempt + 1
    <2>1. k.attempt \in Nat /\ Len(k.nodes) \in Nat
      BY <1>1 DEF CallState
    <2>2. ASSUME NEW a \in Nat, NEW b \in Nat, a < b
          PROVE  a % b = a
      BY <2>2, SMT
    <2>3. QED
      BY <2>1, <2>2 DEF firstIndex
  <1> HIDE DEF i
  <1>3. /\ new.pc = "scan" /\ new.cursor = i /\ new.nodes = k.nodes
        /\ new.attempt = k.attempt /\ new.nodeResponses = k.nodeResponses
        /\ new.outcome = k.outcome
        /\ new.addressBookUpdateCount = k.addressBookUpdateCount
    BY <1>1 DEF CallState
  <1>4. k.attempt \in Nat
    BY <1>1 DEF CallState
  <1> HIDE DEF k, h, new
  <1>5. Visited(new, h)
    BY <1>1, <1>2, <1>3, <1>4 DEF Sound, Visited, Scanning, AtNode, Submitted
  <1>6. Stays(k, h, new, h)
    BY <1>1, <1>3 DEF Stays, Fetching
  <1>7. Sound(new, h)
    BY <1>1, <1>5, <1>6, StaysSound
  <1>8. QED
    BY <1>1, <1>7, SoundFrame DEF IInv, k, h

\* Choosing an index ends the scan: that index is the one whose turn it is, or
\* the scan has met that one already.
LEMMA SelectedSound ==
  ASSUME NEW k \in CallState, NEW h \in History, k.pc \in Scanning,
         Sound(k, h), NEW r \in CallState, Stays(k, h, r, h),
         r.attempt = k.attempt, NEW newh \in History,
         newh.updates = h.updates,
         h.considered \subseteq newh.considered,
         NEW i \in Nat, NEW new, new = Selected(r, i),
         h.updates = 0 /\ k.attempt < Len(k.nodes) =>
           i = k.attempt + 1 \/ k.attempt + 1 \in newh.considered
  PROVE  Sound(new, newh)
  <1>1. /\ new.pc = "selected" /\ new.nodeIndex = i /\ new.nodes = r.nodes
        /\ new.attempt = r.attempt /\ new.nodeResponses = r.nodeResponses
        /\ new.outcome = r.outcome
        /\ new.addressBookUpdateCount = r.addressBookUpdateCount
    BY DEF CallState, Selected
  <1>2. Stays(k, h, new, newh)
    BY <1>1 DEF Stays, Fetching
  <1>3. Visited(new, newh)
    BY <1>1 DEF Sound, Visited, Stays, Scanning, AtNode, Submitted
  <1>4. QED
    BY <1>2, <1>3, StaysSound

LEMMA ScanHealthySound ==
  ASSUME IInv, LInv, NEW c \in Calls, ScanHealthy(c)
  PROVE  LInv'
  <1> DEFINE k   == call[c]
             h   == hist[c]
             new == Selected(k, k.cursor)
  <1>1. /\ k \in CallState /\ h \in History /\ Sound(k, h) /\ k.pc = "scan"
        /\ Move(c, new) /\ UNCHANGED <<hist, hasMirror>>
    BY DEF IInv, LInv, ScanHealthy
  <1>2. h.updates = 0 /\ k.attempt < Len(k.nodes) =>
          k.cursor = k.attempt + 1 \/ k.attempt + 1 \in h.considered
    BY <1>1 DEF Sound, Visited
  <1>3. k.cursor \in Nat
    BY <1>1 DEF CallState
  <1> HIDE DEF k, h
  <1>4. Stays(k, h, k, h)
    BY <1>1 DEF Stays, Fetching
  <1>5. Sound(new, h)
    BY <1>1, <1>2, <1>3, <1>4, SelectedSound DEF Scanning
  <1>6. QED
    BY <1>1, <1>5, SoundFrame DEF IInv, k, h

LEMMA ScanUnhealthySound ==
  ASSUME IInv, LInv, NEW c \in Calls, ScanUnhealthy(c)
  PROVE  LInv'
  <1> DEFINE k    == call[c]
             h    == hist[c]
             new  == [k EXCEPT !.pc = "scanDelay"]
             newh == [h EXCEPT !.considered = @ \cup {k.cursor}]
  <1>1. /\ k \in CallState /\ h \in History /\ Sound(k, h) /\ k.pc = "scan"
        /\ Move(c, new) /\ Record(c, newh) /\ UNCHANGED hasMirror
    BY DEF IInv, LInv, ScanUnhealthy
  <1>2. /\ new.pc = "scanDelay" /\ new.nodes = k.nodes /\ new.cursor = k.cursor
        /\ new.attempt = k.attempt /\ new.nodeResponses = k.nodeResponses
        /\ new.outcome = k.outcome
        /\ new.addressBookUpdateCount = k.addressBookUpdateCount
    BY <1>1 DEF CallState
  <1>3. newh.updates = h.updates /\ newh.considered = h.considered \cup {k.cursor}
    BY <1>1 DEF History
  <1> HIDE DEF k, h, new, newh
  <1>4. Stays(k, h, new, newh)
    BY <1>1, <1>2, <1>3 DEF Stays, Fetching
  <1>5. Visited(new, newh)
    BY <1>1, <1>2, <1>3 DEF Sound, Visited, AtNode, Submitted
  <1>6. Sound(new, newh)
    BY <1>1, <1>4, <1>5, StaysSound
  <1>7. QED
    BY <1>1, <1>6, SoundFrame DEF IInv, k, h

LEMMA ScanDelaySound ==
  ASSUME IInv, LInv, NEW c \in Calls, ScanDelay(c)
  PROVE  LInv'
  <1> DEFINE k     == call[c]
             h     == hist[c]
             delay == getRemainingTimeForBackoff(node[k.nodes[k.cursor]])
  <1>1. /\ k.pc = "scanDelay" /\ UNCHANGED <<hist, hasMirror>> /\ Sound(k, h)
        /\ k \in CallState /\ h \in History /\ k.cursor \in Nat \ {0}
        /\ Len(k.nodes) \in Nat /\ k.cursor <= Len(k.nodes)
        /\ k.candidate <= Len(k.nodes) /\ delay \in -1 .. MaxNodeBackoff
    BY DelayAsked DEF IInv, LInv, ScanDelay
  <1>2. PICK r \in Candidates(k, delay) :
          \/ Move(c, [r EXCEPT !.pc = "scan", !.cursor = @ + 1])
          \/ Move(c, Selected(r, r.candidate))
    BY DEF ScanDelay
  <1> HIDE DEF delay
  <1>3. /\ r \in CallState /\ r.pc = "scanDelay" /\ r.nodes = k.nodes
        /\ r.attempt = k.attempt /\ r.cursor = k.cursor
        /\ r.addressBookUpdateCount = k.addressBookUpdateCount
        /\ r.nodeResponses = k.nodeResponses /\ r.outcome = k.outcome
    BY <1>1, CandidatesType
  <1> HIDE DEF k, h
  <1>4. Stays(k, h, r, h)
    BY <1>1, <1>3 DEF Stays, Fetching
  <1>5. h.updates = 0 /\ k.attempt < Len(k.nodes) =>
          k.cursor >= k.attempt + 1 /\ k.attempt + 1 \in h.considered
    BY <1>1 DEF Sound, Visited
  <1>6. ASSUME Move(c, [r EXCEPT !.pc = "scan", !.cursor = @ + 1])
        PROVE  LInv'
    <2> DEFINE new == [r EXCEPT !.pc = "scan", !.cursor = @ + 1]
    <2>1. /\ new.pc = "scan" /\ new.nodes = r.nodes /\ new.attempt = r.attempt
          /\ new.nodeResponses = r.nodeResponses /\ new.outcome = r.outcome
          /\ new.addressBookUpdateCount = r.addressBookUpdateCount
          /\ new.cursor = r.cursor + 1
      BY <1>3 DEF CallState
    <2>2. k.attempt \in Nat
      BY <1>1 DEF CallState
    <2> HIDE DEF new
    <2>3. Stays(k, h, new, h)
      BY <1>4, <2>1 DEF Stays, Fetching
    <2>4. Visited(new, h)
      BY <1>1, <1>3, <1>5, <2>1, <2>2 DEF Sound, Visited, AtNode, Submitted
    <2>5. Sound(new, h)
      BY <1>1, <2>3, <2>4, StaysSound
    <2>6. QED
      BY <1>1, <1>6, <2>5, SoundFrame DEF IInv, new, k, h
  <1>7. ASSUME Move(c, Selected(r, r.candidate))
        PROVE  LInv'
    <2>1. r.candidate \in Nat
      BY <1>3 DEF CallState
    <2>2. Sound(Selected(r, r.candidate), h)
      BY <1>1, <1>3, <1>4, <1>5, <2>1, SelectedSound DEF Scanning
    <2>3. QED
      BY <1>1, <1>7, <2>2, SoundFrame DEF IInv, k, h
  <1>8. QED
    BY <1>2, <1>6, <1>7

\* A step that sets the program counter.
LEMMA OnlyMoved ==
  ASSUME NEW k \in CallState, NEW p \in Pcs, NEW new, new = [k EXCEPT !.pc = p]
  PROVE  /\ new \in CallState /\ Kept(new, k) /\ new.pc = p
         /\ new.attempt = k.attempt /\ new.nodeResponses = k.nodeResponses
         /\ new.outcome = k.outcome
  BY DEF CallState, Kept, Lasting

LEMMA CheckHealthSound ==
  ASSUME IInv, LInv, NEW c \in Calls, CheckHealth(c)
  PROVE  LInv'
  <1> DEFINE k   == call[c]
             h   == hist[c]
             p   == IF isHealthy(node[Chosen(k)]) THEN "connect" ELSE "delay"
             new == [k EXCEPT !.pc = p]
  <1>1. /\ k \in CallState /\ h \in History /\ Sound(k, h) /\ k.pc = "selected"
        /\ Move(c, new) /\ UNCHANGED <<hist, hasMirror>>
    BY DEF IInv, LInv, CheckHealth
  <1>2. p \in {"connect", "delay"} /\ p \in Pcs
    BY DEF Pcs
  <1> HIDE DEF p
  <1>3. /\ new \in CallState /\ Kept(new, k) /\ new.pc = p
        /\ new.attempt = k.attempt /\ new.nodeResponses = k.nodeResponses
        /\ new.outcome = k.outcome
    BY <1>1, <1>2, OnlyMoved
  <1> HIDE DEF k, h, new
  <1>4. Sound(new, h)
    BY <1>1, <1>2, <1>3, GoesOnSound DEF AtNode, Submitted
  <1>5. QED
    BY <1>1, <1>4, SoundFrame DEF IInv, k, h

LEMMA TakeDelaySound ==
  ASSUME IInv, LInv, NEW c \in Calls, TakeDelay(c)
  PROVE  LInv'
  <1> DEFINE k   == call[c]
             h   == hist[c]
             t   == getRemainingTimeForBackoff(node[Chosen(k)])
             new == [k EXCEPT !.pc = "nodeWait", !.sleep = t]
  <1>1. /\ k \in CallState /\ h \in History /\ Sound(k, h) /\ k.pc = "delay"
        /\ Move(c, new) /\ UNCHANGED <<hist, hasMirror>>
    BY DEF IInv, LInv, TakeDelay
  <1>2. t \in Int
    BY <1>1, PenaltyType DEF AtNode
  <1> HIDE DEF t
  <1>3. /\ new \in CallState /\ Kept(new, k) /\ new.pc = "nodeWait"
        /\ new.attempt = k.attempt /\ new.nodeResponses = k.nodeResponses
        /\ new.outcome = k.outcome
    BY <1>1, <1>2 DEF CallState, Kept, Lasting, Pcs
  <1> HIDE DEF k, h, new
  <1>4. Sound(new, h)
    BY <1>1, <1>3, GoesOnSound DEF AtNode, Submitted
  <1>5. QED
    BY <1>1, <1>4, SoundFrame DEF IInv, k, h

LEMMA NodeWaitOverSound ==
  ASSUME IInv, LInv, NEW c \in Calls, NodeWaitOver(c)
  PROVE  LInv'
  <1> DEFINE k   == call[c]
             h   == hist[c]
             new == [k EXCEPT !.pc = "connect"]
  <1>1. /\ k \in CallState /\ h \in History /\ Sound(k, h) /\ k.pc = "nodeWait"
        /\ Move(c, new) /\ UNCHANGED <<hist, hasMirror>>
    BY DEF IInv, LInv, NodeWaitOver
  <1>2. /\ new \in CallState /\ Kept(new, k) /\ new.pc = "connect"
        /\ new.attempt = k.attempt /\ new.nodeResponses = k.nodeResponses
        /\ new.outcome = k.outcome
    BY <1>1 DEF CallState, Kept, Lasting, Pcs
  <1> HIDE DEF k, h, new
  <1>3. Sound(new, h)
    BY <1>1, <1>2, GoesOnSound DEF AtNode, Submitted
  <1>4. QED
    BY <1>1, <1>3, SoundFrame DEF IInv, k, h

LEMMA ConnectSound ==
  ASSUME IInv, LInv, NEW c \in Calls, Connect(c)
  PROVE  LInv'
  <1> DEFINE k == call[c]
             h == hist[c]
  <1>1. /\ k \in CallState /\ h \in History /\ Sound(k, h) /\ k.pc = "connect"
        /\ UNCHANGED <<hist, hasMirror>>
    BY DEF IInv, LInv, Connect
  <1>2. PICK new : /\ Move(c, new)
                   /\ \/ new = [k EXCEPT !.pc = "submit"]
                      \/ new = [k EXCEPT !.pc = "connecting"]
    BY DEF Connect
  <1>3. /\ new \in CallState /\ Kept(new, k) /\ new.pc \in {"submit", "connecting"}
        /\ new.attempt = k.attempt /\ new.nodeResponses = k.nodeResponses
        /\ new.outcome = k.outcome
    <2>1. CASE new = [k EXCEPT !.pc = "submit"]
      BY <1>1, <2>1, OnlyMoved DEF Pcs
    <2>2. CASE new = [k EXCEPT !.pc = "connecting"]
      BY <1>1, <2>2, OnlyMoved DEF Pcs
    <2>3. QED
      BY <1>2, <2>1, <2>2
  <1> HIDE DEF k, h
  <1>4. Sound(new, h)
    BY <1>1, <1>3, GoesOnSound DEF AtNode, Submitted
  <1>5. QED
    BY <1>1, <1>2, <1>4, SoundFrame DEF IInv, k, h

\* A step that visits the chosen node: its index is noted.
LEMMA VisitSound ==
  ASSUME NEW k \in CallState, NEW h \in History, Sound(k, h),
         k.pc \in AtNode, NEW new \in CallState, Kept(new, k), new.pc \in AtNode,
         new.attempt = k.attempt, new.nodeResponses = k.nodeResponses,
         new.outcome = k.outcome, NEW newh \in History,
         newh.updates = h.updates,
         newh.considered = h.considered \cup {k.nodeIndex}
  PROVE  Sound(new, newh)
  <1>1. Visited(new, newh)
    BY DEF Sound, Visited, Kept, Lasting, Scanning, AtNode, Submitted
  <1>2. Stays(k, h, new, newh)
    BY DEF Stays, Kept, Lasting, AtNode, Fetching
  <1>3. QED
    BY <1>1, <1>2, StaysSound

LEMMA ConnectEndSound ==
  ASSUME IInv, LInv, NEW c \in Calls, ConnectEnd(c)
  PROVE  LInv'
  <1> DEFINE k == call[c]
             h == hist[c]
  <1>1. /\ k \in CallState /\ h \in History /\ Sound(k, h) /\ k.pc = "connecting"
        /\ UNCHANGED hasMirror
    BY DEF IInv, LInv, ConnectEnd
  <1>2. PICK up \in BOOLEAN :
          /\ Move(c, [k EXCEPT !.pc = IF up THEN "submit" ELSE "penalize"])
          /\ Record(c, IF up THEN h
                       ELSE [h EXCEPT !.considered = @ \cup {k.nodeIndex},
                                      !.overtaken = FALSE])
    BY DEF ConnectEnd
  <1>3. CASE up
    <2> DEFINE new == [k EXCEPT !.pc = "submit"]
    <2>1. Move(c, new) /\ Record(c, h)
      BY <1>2, <1>3
    <2>2. /\ new \in CallState /\ Kept(new, k) /\ new.pc = "submit"
          /\ new.attempt = k.attempt /\ new.nodeResponses = k.nodeResponses
          /\ new.outcome = k.outcome
      BY <1>1 DEF CallState, Kept, Lasting, Pcs
    <2> HIDE DEF k, h, new
    <2>3. Sound(new, h)
      BY <1>1, <2>2, GoesOnSound DEF AtNode, Submitted
    <2>4. QED
      BY <1>1, <2>1, <2>3, SoundFrame DEF IInv, k, h
  <1>4. CASE ~up
    <2> DEFINE new  == [k EXCEPT !.pc = "penalize"]
               newh == [h EXCEPT !.considered = @ \cup {k.nodeIndex}, !.overtaken = FALSE]
    <2>1. Move(c, new) /\ Record(c, newh)
      BY <1>2, <1>4
    <2>2. /\ new \in CallState /\ Kept(new, k) /\ new.pc = "penalize"
          /\ new.attempt = k.attempt /\ new.nodeResponses = k.nodeResponses
          /\ new.outcome = k.outcome
      BY <1>1 DEF CallState, Kept, Lasting, Pcs
    <2>3. /\ newh \in History /\ newh.updates = h.updates
          /\ newh.considered = h.considered \cup {k.nodeIndex}
      <3>1. h.considered \cup {k.nodeIndex} \in SUBSET Nat
        BY <1>1 DEF History, CallState
      <3>2. QED
        BY <1>1, <3>1 DEF History
    <2> HIDE DEF k, h, new, newh
    <2>4. Sound(new, newh)
      BY <1>1, <2>2, <2>3, VisitSound DEF AtNode
    <2>5. QED
      BY <1>1, <2>1, <2>4, SoundFrame DEF IInv, k, h
  <1>5. QED
    BY <1>3, <1>4

LEMMA SubmitSound ==
  ASSUME IInv, LInv, NEW c \in Calls, Submit(c)
  PROVE  LInv'
  <1> DEFINE k    == call[c]
             h    == hist[c]
             new  == [k EXCEPT !.pc = "rpc"]
             newh == [h EXCEPT !.submissions = @ + 1,
                               !.considered = @ \cup {k.nodeIndex},
                               !.overtaken = FALSE]
  <1>1. /\ k \in CallState /\ h \in History /\ Sound(k, h) /\ k.pc = "submit"
        /\ UNCHANGED hasMirror
    BY DEF IInv, LInv, Submit
  <1>2. CASE Move(c, new) /\ Record(c, newh)
    <2>1. /\ new \in CallState /\ Kept(new, k) /\ new.pc = "rpc"
          /\ new.attempt = k.attempt /\ new.nodeResponses = k.nodeResponses
          /\ new.outcome = k.outcome
      BY <1>1 DEF CallState, Kept, Lasting, Pcs
    <2>2. /\ newh \in History /\ newh.updates = h.updates
          /\ newh.considered = h.considered \cup {k.nodeIndex}
      <3>1. h.considered \cup {k.nodeIndex} \in SUBSET Nat
        BY <1>1 DEF History, CallState
      <3>2. h.submissions + 1 \in Nat
        BY <1>1 DEF History
      <3>3. QED
        BY <1>1, <3>1, <3>2 DEF History
    <2> HIDE DEF k, h, new, newh
    <2>3. Sound(new, newh)
      BY <1>1, <2>1, <2>2, VisitSound DEF AtNode
    <2>4. QED
      BY <1>1, <1>2, <2>3, SoundFrame DEF IInv, k, h
  <1>3. CASE Move(c, Finish(k, "Crashed")) /\ UNCHANGED hist
    <2>1. Sound(Finish(k, "Crashed"), h)
      BY <1>1, EndsSound DEF Outcomes, Fetching
    <2>2. QED
      BY <1>1, <1>3, <2>1, SoundFrame DEF IInv
  <1>4. QED
    BY <1>2, <1>3 DEF Submit

LEMMA ReplySound ==
  ASSUME IInv, LInv, NEW c \in Calls, Reply(c)
  PROVE  LInv'
  <1> DEFINE k == call[c]
             h == hist[c]
  <1>1. /\ k \in CallState /\ h \in History /\ Sound(k, h) /\ k.pc = "rpc"
        /\ UNCHANGED <<hist, hasMirror>>
    BY DEF IInv, LInv, Reply
  <1>2. PICK r \in Replies :
          Move(c, [k EXCEPT !.reply = r,
                     !.pc = IF r = "UNAVAILABLE" THEN "penalize" ELSE "answered"])
    BY DEF Reply
  <1> DEFINE p   == IF r = "UNAVAILABLE" THEN "penalize" ELSE "answered"
             new == [k EXCEPT !.reply = r, !.pc = p]
  <1>3. p \in Pcs /\ p \in AtNode /\ p \in Submitted
    BY DEF Pcs, AtNode, Submitted
  <1>4. Move(c, new)
    BY <1>2
  <1>5. r \in AllReplies
    BY ExecutableAssumption
  <1> HIDE DEF p
  <1>6. /\ new \in CallState /\ Kept(new, k) /\ new.pc = p
        /\ new.attempt = k.attempt /\ new.nodeResponses = k.nodeResponses
        /\ new.outcome = k.outcome
    BY <1>1, <1>3, <1>5 DEF CallState, Kept, Lasting
  <1> HIDE DEF k, h, new
  <1>7. Sound(new, h)
    BY <1>1, <1>3, <1>6, GoesOnSound DEF AtNode, Submitted
  <1>8. QED
    BY <1>1, <1>4, <1>7, SoundFrame DEF IInv, k, h

LEMMA PenalizeSound ==
  ASSUME IInv, LInv, NEW c \in Calls, Penalize(c)
  PROVE  LInv'
  <1> DEFINE k   == call[c]
             h   == hist[c]
             new == NextAttempt(k)
  <1>1. /\ k \in CallState /\ h \in History /\ Sound(k, h) /\ k.pc = "penalize"
        /\ Move(c, new) /\ UNCHANGED hasMirror /\ Overtaken(Chosen(k))
    BY DEF IInv, LInv, Penalize
  <1>2. /\ new \in CallState /\ Lasting(new, k) /\ new.pc = "loop"
        /\ new.attempt = k.attempt + 1
    BY <1>1, Advanced
  <1>3. new.nodeResponses = k.nodeResponses /\ new.outcome = k.outcome
    BY <1>1 DEF CallState, NextAttempt
  <1> HIDE DEF k, h, new
  <1>4. Sound(new, h)
    BY <1>1, <1>2, <1>3, TriesAgainSound DEF Submitted
  <1>5. QED
    BY <1>1, <1>4, SoundFrameOvertaking DEF IInv, k, h

-----------------------------------------------------------------------------
(***************************************************************************)
(* A response.                                                             *)
(***************************************************************************)
LEMMA DecisionSound ==
  ASSUME NEW k \in CallState, NEW h \in History, Sound(k, h),
         k.pc = "answered", NEW s \in Statuses
  PROVE  Sound(Decision(k, s), h)
  <1> DEFINE new == Decision(k, s)
  <1>1. \/ new = NextAttempt(k)
        \/ new = [k EXCEPT !.pc = "invalid", !.nodeResponses = NoResponses]
        \/ new = [k EXCEPT !.pc = "invalid"]
        \/ new = [k EXCEPT !.pc = "retryWait", !.sleep = k.mCurrentBackoff]
        \/ new = Finish(k, "REJECTED")
        \/ new = Finish(k, "success")
    BY DEF Decision
  <1> SUFFICES Sound(new, h)
    OBVIOUS
  <1> HIDE DEF new
  <1>2. CASE new = NextAttempt(k)
    <2>1. /\ new \in CallState /\ Lasting(new, k) /\ new.pc = "loop"
          /\ new.attempt = k.attempt + 1
      BY <1>2, Advanced
    <2>2. new.nodeResponses = k.nodeResponses /\ new.outcome = k.outcome
      BY <1>2 DEF CallState, NextAttempt
    <2>3. QED
      BY <2>1, <2>2, TriesAgainSound DEF Submitted
  <1>3. CASE new = [k EXCEPT !.pc = "invalid", !.nodeResponses = NoResponses]
    <2>1. /\ new.nodes = k.nodes /\ new.nodeResponses = NoResponses
          /\ new.addressBookUpdateCount = k.addressBookUpdateCount
          /\ new.outcome = k.outcome /\ new.attempt = k.attempt
          /\ new.nodeIndex = k.nodeIndex /\ new.pc = "invalid"
      BY <1>3 DEF CallState
    <2>2. Asked(new, h)
      BY <2>1 DEF Sound, Asked
    <2>3. Current(new)
      BY <2>1 DEF Current, Answered, NoResponses
    <2>4. Visited(new, h)
      BY <2>1 DEF Sound, Visited, Scanning, AtNode, Submitted
    <2>5. QED
      BY <2>2, <2>3, <2>4 DEF Sound
  <1>4. CASE \/ new = [k EXCEPT !.pc = "invalid"]
             \/ new = [k EXCEPT !.pc = "retryWait", !.sleep = k.mCurrentBackoff]
    <2>1. k.mCurrentBackoff \in Int
      <3>1. k.mCurrentBackoff \in 0 .. MaxBackoff
        BY DEF CallState
      <3>2. QED
        BY <3>1, ExecutableAssumption, SMT
    <2>2. /\ new \in CallState /\ Kept(new, k) /\ new.pc \in {"invalid", "retryWait"}
          /\ new.attempt = k.attempt /\ new.nodeResponses = k.nodeResponses
          /\ new.outcome = k.outcome
      <3>1. CASE new = [k EXCEPT !.pc = "invalid"]
        BY <3>1, OnlyMoved DEF Pcs
      <3>2. CASE new = [k EXCEPT !.pc = "retryWait", !.sleep = k.mCurrentBackoff]
        BY <2>1, <3>2 DEF CallState, Kept, Lasting, Pcs
      <3>3. QED
        BY <1>4, <3>1, <3>2
    <2>3. QED
      BY <2>2, GoesOnSound DEF AtNode, Submitted
  <1>5. CASE new = Finish(k, "REJECTED") \/ new = Finish(k, "success")
    BY <1>5, EndsSound DEF Outcomes, Fetching
  <1>6. QED
    BY <1>1, <1>2, <1>3, <1>4, <1>5

LEMMA HandleResponseSound ==
  ASSUME IInv, LInv, NEW c \in Calls, HandleResponse(c)
  PROVE  LInv'
  <1> DEFINE k == call[c]
             h == hist[c]
             n == Chosen(k)
             s == mapResponseStatus(k.reply)
             noted == [k EXCEPT !.nodeResponses[n] = s]
  <1>1. /\ Good(k, h) /\ k \in CallState /\ h \in History /\ Sound(k, h)
        /\ k.pc = "answered" /\ Move(c, Decision(noted, s)) /\ UNCHANGED <<hist, hasMirror>>
    BY DEF IInv, LInv, HandleResponse, Good
  <1>2. n \in Nodes
    BY <1>1, ChosenIsNode DEF AtNode
  <1>3. s \in Statuses
    BY DEF mapResponseStatus, Statuses
  <1>4. k.nodeIndex \in 1 .. Len(k.nodes) /\ n = k.nodes[k.nodeIndex]
    BY <1>1 DEF Good, Located, Scanning, AtNode, Chosen
  <1> HIDE DEF s, n
  <1>5. /\ noted \in CallState /\ noted.pc = "answered" /\ noted.nodes = k.nodes
        /\ noted.nodeResponses = [k.nodeResponses EXCEPT ![n] = s]
        /\ noted.addressBookUpdateCount = k.addressBookUpdateCount
        /\ noted.outcome = k.outcome /\ noted.attempt = k.attempt
        /\ noted.nodeIndex = k.nodeIndex
    BY <1>1, <1>2, <1>3 DEF CallState
  <1>6. k.nodeResponses \in [Nodes -> Statuses \cup {NoStatus}]
    BY <1>1 DEF CallState
  <1> HIDE DEF k, h, noted
  <1>7. Asked(noted, h)
    <2>1. noted.outcome = "none"
      BY <1>1, <1>5 DEF Sound, Asked
    <2>2. QED
      BY <1>1, <1>5, <2>1 DEF Sound, Asked
  <1>8. Current(noted)
    <2>1. Answered(noted) \subseteq Answered(k) \cup {n}
      BY <1>5, <1>6 DEF Answered
    <2>2. \A m \in Answered(k) : \E i \in 1 .. Len(k.nodes) : k.nodes[i] = m
      <3>1. k.nodes # <<>>
        BY <1>4
      <3>2. QED
        BY <1>1, <3>1 DEF Sound, Current
    <2>3. QED
      BY <1>4, <1>5, <2>1, <2>2 DEF Current
  <1>9. Visited(noted, h)
    BY <1>1, <1>5 DEF Sound, Visited, Scanning, AtNode, Submitted
  <1>10. Sound(Decision(noted, s), h)
    BY <1>1, <1>3, <1>5, <1>7, <1>8, <1>9, DecisionSound DEF Sound
  <1>11. QED
    BY <1>1, <1>10, SoundFrame DEF IInv, k, h

\* As many responses as there are nodes, all from nodes in use, are responses
\* of every node in use.
LEMMA EveryNodeAnswered ==
  ASSUME NEW k \in CallState, k.nodes # <<>>,
         \A n \in Answered(k) : \E i \in 1 .. Len(k.nodes) : k.nodes[i] = n,
         Cardinality(Answered(k)) >= Len(k.nodes)
  PROVE  \A i \in 1 .. Len(k.nodes) : k.nodes[i] \in Answered(k)
  <1> DEFINE used == {k.nodes[i] : i \in 1 .. Len(k.nodes)}
  <1>1. Len(k.nodes) \in Nat
    BY DEF CallState
  <1>2. IsFiniteSet(1 .. Len(k.nodes)) /\ Cardinality(1 .. Len(k.nodes)) = Len(k.nodes)
    <2>1. ASSUME NEW m \in Nat
          PROVE  IsFiniteSet(1 .. m) /\ Cardinality(1 .. m) = m
      <3>1. /\ IsFiniteSet(1 .. m)
            /\ Cardinality(1 .. m) = IF 1 > m THEN 0 ELSE m - 1 + 1
        BY FS_Interval
      <3>2. QED
        BY <3>1, SMT
    <2>2. QED
      BY <1>1, <2>1
  <1>3. IsFiniteSet(used) /\ Cardinality(used) <= Len(k.nodes)
    <2>1. k.nodes \in Surjection(1 .. Len(k.nodes), used)
      <3>1. k.nodes \in [1 .. Len(k.nodes) -> used]
        BY DEF CallState
      <3>2. \A n \in used : \E i \in 1 .. Len(k.nodes) : k.nodes[i] = n
        OBVIOUS
      <3>3. QED
        BY <3>1, <3>2 DEF Surjection
    <2>2. QED
      BY <1>2, <2>1, FS_Surjection
  <1>4. Answered(k) \in SUBSET used
    OBVIOUS
  <1>5. /\ Cardinality(Answered(k)) <= Cardinality(used)
        /\ Cardinality(used) = Cardinality(Answered(k)) => used = Answered(k)
    BY <1>3, <1>4, FS_Subset
  <1>6. Cardinality(used) \in Nat /\ Cardinality(Answered(k)) \in Nat
    BY <1>3, <1>4, FS_CardinalityType, FS_Subset
  <1> HIDE DEF used
  <1>7. used = Answered(k)
    BY <1>1, <1>3, <1>5, <1>6
  <1>8. QED
    BY <1>7 DEF used

LEMMA RetryWithAnotherNodeSound ==
  ASSUME IInv, LInv, NEW c \in Calls, RetryWithAnotherNode(c)
  PROVE  LInv'
  <1> DEFINE k   == call[c]
             h   == hist[c]
             new == [NextAttempt(k) EXCEPT !.needsAddressBookUpdate = TRUE]
  <1>1. /\ Good(k, h) /\ k \in CallState /\ h \in History /\ Sound(k, h)
        /\ k.pc = "invalid" /\ UNCHANGED hasMirror /\ Overtaken(Chosen(k))
    BY DEF IInv, LInv, RetryWithAnotherNode, Good
  <1>2. CASE AllTried(k) /\ Move(c, Finish(k, "INVALID_NODE_ACCOUNT"))
    <2>1. k.nodes # <<>>
      BY <1>1 DEF Good, Located, Looking
    <2>2. \A n \in Answered(k) : \E i \in 1 .. Len(k.nodes) : k.nodes[i] = n
      BY <1>1, <2>1 DEF Sound, Current
    <2>3. \A i \in 1 .. Len(k.nodes) : k.nodes[i] \in Answered(k)
      BY <1>1, <1>2, <2>1, <2>2, EveryNodeAnswered DEF AllTried
    <2>4. hasMirror => h.updates = 1
      BY <1>1, <1>2 DEF Sound, Asked, AllTried, MAX_ADDRESS_BOOK_UPDATES
    <2>5. Sound(Finish(k, "INVALID_NODE_ACCOUNT"), h)
      BY <1>1, <2>3, <2>4, EndsSound DEF Outcomes, Fetching
    <2>6. QED
      BY <1>1, <1>2, <2>5, SoundFrameOvertaking DEF IInv
  <1>3. CASE Move(c, new)
    <2>1. /\ new \in CallState /\ Lasting(new, k) /\ new.pc = "loop"
          /\ new.attempt = k.attempt + 1
      BY <1>1, Flagged
    <2>2. new.nodeResponses = k.nodeResponses /\ new.outcome = k.outcome
      BY <1>1 DEF CallState, NextAttempt
    <2> HIDE DEF k, h, new
    <2>3. Sound(new, h)
      BY <1>1, <2>1, <2>2, TriesAgainSound DEF Submitted
    <2>4. QED
      BY <1>1, <1>3, <2>3, SoundFrameOvertaking DEF IInv, k, h
  <1>4. QED
    BY <1>2, <1>3 DEF RetryWithAnotherNode

LEMMA RetryWaitOverSound ==
  ASSUME IInv, LInv, NEW c \in Calls, RetryWaitOver(c)
  PROVE  LInv'
  <1> DEFINE k   == call[c]
             h   == hist[c]
             new == [NextAttempt(k) EXCEPT !.mCurrentBackoff = AtMost(2 * @, MaxBackoff)]
  <1>1. /\ k \in CallState /\ h \in History /\ Sound(k, h) /\ k.pc = "retryWait"
        /\ Move(c, new) /\ UNCHANGED <<hist, hasMirror>>
    BY DEF IInv, LInv, RetryWaitOver
  <1>2. /\ new \in CallState /\ Lasting(new, k) /\ new.pc = "loop"
        /\ new.attempt = k.attempt + 1
    BY <1>1, BackedOff
  <1>3. new.nodeResponses = k.nodeResponses /\ new.outcome = k.outcome
    BY <1>1 DEF CallState, NextAttempt
  <1> HIDE DEF k, h, new
  <1>4. Sound(new, h)
    BY <1>1, <1>2, <1>3, TriesAgainSound DEF Submitted
  <1>5. QED
    BY <1>1, <1>4, SoundFrame DEF IInv, k, h

-----------------------------------------------------------------------------
(***************************************************************************)
(* The environment, and what follows.                                      *)
(***************************************************************************)
LEMMA TickSound ==
  ASSUME IInv, LInv, Tick
  PROVE  LInv'
  <1>1. ASSUME NEW c \in Calls
        PROVE  Sound(call'[c], hist[c])
    <2> DEFINE k   == call[c]
               h   == hist[c]
               t   == AtLeast(k.sleep - 1, 0)
               new == [k EXCEPT !.sleep = t]
    <2>1. k \in CallState /\ Sound(k, h) /\ call'[c] = new
      BY DEF IInv, LInv, Tick
    <2> HIDE DEF t
    <2>2. /\ new.pc = k.pc /\ new.nodes = k.nodes /\ new.cursor = k.cursor
          /\ new.attempt = k.attempt /\ new.nodeIndex = k.nodeIndex
          /\ new.nodeResponses = k.nodeResponses /\ new.outcome = k.outcome
          /\ new.addressBookUpdateCount = k.addressBookUpdateCount
      BY <2>1 DEF CallState
    <2> HIDE DEF k, h, new
    <2>3. Asked(new, h) /\ Current(new)
      BY <2>1, <2>2 DEF Sound, Asked, Current, Answered
    <2>4. Visited(new, h)
      BY <2>1, <2>2 DEF Sound, Visited
    <2>5. QED
      BY <2>1, <2>3, <2>4 DEF Sound, h
  <1>2. UNCHANGED <<hist, hasMirror>>
    BY DEF Tick
  <1>3. QED
    BY <1>1, <1>2 DEF LInv, Sound, Asked, Current, Visited, Answered

LEMMA InitiallySound == Init => LInv
  <1> SUFFICES ASSUME Init
               PROVE  Sound(IdleCall, NoHistory)
    BY DEF Init, LInv
  <1>1. Asked(IdleCall, NoHistory) /\ Current(IdleCall)
    BY DEF Asked, Current, IdleCall, NoHistory
  <1>2. Visited(IdleCall, NoHistory)
    BY DEF Visited, IdleCall, NoHistory, AtNode, Submitted
  <1>3. QED
    BY <1>1, <1>2 DEF Sound

LEMMA SoundInductive == IInv /\ LInv /\ [Next]_vars => LInv'
  <1> SUFFICES ASSUME IInv, LInv, [Next]_vars
               PROVE  LInv'
    OBVIOUS
  <1>1. CASE UNCHANGED <<call, hist, hasMirror>>
    BY <1>1 DEF LInv, Sound, Asked, Current, Visited, Answered
  <1>2. ASSUME NEW c \in Calls, Step(c)
        PROVE  LInv'
    BY <1>2, BeginSound, FetchProxySound, FetchDoneSound, UpdateSkippedSound,
       UpdateBeginSound, UpdateEndSound, UpdateFailsSound, RefetchDoneSound,
       AttemptsExhaustedSound, ScanBeginSound, ScanHealthySound, ScanUnhealthySound,
       ScanDelaySound, CheckHealthSound, TakeDelaySound, NodeWaitOverSound, ConnectSound, ConnectEndSound,
       SubmitSound, ReplySound, PenalizeSound, HandleResponseSound,
       RetryWithAnotherNodeSound, RetryWaitOverSound DEF Step
  <1>3. CASE Tick
    BY <1>3, TickSound
  <1>4. QED
    BY <1>1, <1>2, <1>3
       DEF Next, vars, BackgroundUpdate, CloseChannel, Terminated

LEMMA AlwaysSound == Spec => []LInv
  BY Invariance, InitiallySound, SoundInductive, PTL DEF Spec

\* A response counts only as long as its node is in use, for any look-ups and
\* any renaming of accounts.
THEOREM ResponsesCurrent == Spec => []ResponsesAreCurrent
  <1>1. LInv => ResponsesAreCurrent
    BY DEF LInv, Sound, Current, ResponsesAreCurrent
  <1>2. QED
    BY <1>1, AlwaysSound, PTL

\* INVALID_NODE_ACCOUNT is never reported before the address book was asked for
\* and every node in use has answered, for any number of nodes and accounts.
THEOREM InvalidEarned == Spec => []InvalidNodeAccountEarned
  <1>1. LInv => InvalidNodeAccountEarned
    BY DEF LInv, Sound, Asked, InvalidNodeAccountEarned
  <1>2. QED
    BY <1>1, AlwaysSound, PTL

\* The rotation of the attempts passes over no node, however often the healthy
\* nodes before it fail.
THEOREM NobodyOverlooked == Spec => []NoNodeOverlooked
  <1>1. LInv => NoNodeOverlooked
    BY DEF LInv, Sound, Visited, NoNodeOverlooked
  <1>2. QED
    BY <1>1, AlwaysSound, PTL

-----------------------------------------------------------------------------
(***************************************************************************)
(* Who holds the mutex of a node.  NodeSerialises is inductive as it is:   *)
(* taking a mutex needs it free, and giving it back takes its holder.      *)
(***************************************************************************)
Holding == {"connecting", "rpc"}

\* No other call moves.
Alone(c) == \A d \in Calls \ {c} : call'[d] = call[d]

\* A step after which the call holds nothing, and that takes nothing away.
LEMMA HoldsNothing ==
  ASSUME IInv, NodeSerialises, NEW c \in Calls, Alone(c),
         call'[c].pc \notin Holding, UNCHANGED nodeLock,
         \A n \in Nodes : node[n].mChannel => node'[n].mChannel
  PROVE  NodeSerialises'
  <1> SUFFICES ASSUME NEW d \in Calls, call'[d].pc \in Holding
               PROVE  /\ nodeLock'[Chosen(call'[d])] = d
                      /\ node'[Chosen(call'[d])].mChannel
    BY DEF NodeSerialises, Holding
  <1>1. d # c /\ call'[d] = call[d]
    BY DEF Alone
  <1>2. nodeLock[Chosen(call[d])] = d /\ node[Chosen(call[d])].mChannel
    BY <1>1 DEF NodeSerialises, Holding
  <1>3. Chosen(call[d]) \in Nodes
    BY <1>1, ChosenIsNode DEF IInv, Holding, AtNode
  <1>4. QED
    BY <1>1, <1>2, <1>3

\* Taking the mutex of the chosen node, which was free and has a channel now.
LEMMA TakesNode ==
  ASSUME IInv, NodeSerialises, NEW c \in Calls, Alone(c),
         Chosen(call'[c]) = Chosen(call[c]),
         call[c].pc \in AtNode, Free(Chosen(call[c])),
         nodeLock' = [nodeLock EXCEPT ![Chosen(call[c])] = c],
         \A n \in Nodes : node[n].mChannel => node'[n].mChannel,
         node'[Chosen(call[c])].mChannel
  PROVE  NodeSerialises'
  <1> SUFFICES ASSUME NEW d \in Calls, call'[d].pc \in Holding
               PROVE  /\ nodeLock'[Chosen(call'[d])] = d
                      /\ node'[Chosen(call'[d])].mChannel
    BY DEF NodeSerialises, Holding
  <1>1. Chosen(call[c]) \in Nodes
    BY ChosenIsNode DEF IInv
  <1>2. CASE d = c
    BY <1>1, <1>2 DEF IInv, SharedType
  <1>3. CASE d # c
    <2>1. call'[d] = call[d]
      BY <1>3 DEF Alone
    <2>2. nodeLock[Chosen(call[d])] = d /\ node[Chosen(call[d])].mChannel
      BY <2>1 DEF NodeSerialises, Holding
    <2>3. Chosen(call[d]) \in Nodes
      BY <2>1, ChosenIsNode DEF IInv, Holding, AtNode
    <2>4. Chosen(call[d]) # Chosen(call[c])
      BY <2>2, ExecutableAssumption DEF Free
    <2>5. QED
      BY <2>1, <2>2, <2>3, <2>4 DEF IInv, SharedType
  <1>4. QED
    BY <1>2, <1>3

\* Giving it back.
LEMMA GivesNodeBack ==
  ASSUME IInv, NodeSerialises, NEW c \in Calls, Alone(c),
         call[c].pc \in Holding, call'[c].pc \notin Holding,
         nodeLock' = [nodeLock EXCEPT ![Chosen(call[c])] = NoCall],
         \A n \in Nodes : node[n].mChannel => node'[n].mChannel
  PROVE  NodeSerialises'
  <1> SUFFICES ASSUME NEW d \in Calls, call'[d].pc \in Holding
               PROVE  /\ nodeLock'[Chosen(call'[d])] = d
                      /\ node'[Chosen(call'[d])].mChannel
    BY DEF NodeSerialises, Holding
  <1>1. d # c /\ call'[d] = call[d]
    BY DEF Alone
  <1>2. /\ nodeLock[Chosen(call[d])] = d /\ node[Chosen(call[d])].mChannel
        /\ nodeLock[Chosen(call[c])] = c
    BY <1>1 DEF NodeSerialises, Holding
  <1>3. Chosen(call[d]) \in Nodes /\ Chosen(call[d]) # Chosen(call[c])
    BY <1>1, <1>2, ChosenIsNode DEF IInv, Holding, AtNode
  <1>4. QED
    BY <1>1, <1>2, <1>3 DEF IInv, SharedType

\* A node keeps its channel through everything but close().
LEMMA KeepsChannel ==
  ASSUME NEW n \in NodeState, NEW up \in BOOLEAN
  PROVE  /\ increaseBackoff(n).mChannel = n.mChannel
         /\ decreaseBackoff(n).mChannel = n.mChannel
         /\ WaitForConnected(n, up).mChannel = n.mChannel
         /\ Elapse(n).mChannel = n.mChannel
         /\ getChannel(n).mChannel
  BY DEF NodeState, increaseBackoff, decreaseBackoff, WaitForConnected, Elapse, getChannel

LEMMA PcAtEnd ==
  ASSUME IInv, NEW c \in Calls, NEW how, Move(c, Finish(call[c], how))
  PROVE  call'[c].pc = "done"
  <1>1. Finish(call[c], how).pc = "done"
    BY DEF IInv, CallState, Finish
  <1>2. QED
    BY <1>1 DEF IInv, Move

\* Where a step of a call leaves its program counter.
LEMMA PcBeforeAttempt ==
  ASSUME IInv, NEW c \in Calls
  PROVE  /\ Begin(c)             => call'[c].pc = "fetch"
         /\ FetchProxy(c)        => call'[c].pc \in {"fetch", "refetch"}
         /\ FetchDone(c)         => call'[c].pc \in {"loop", "done"}
         /\ UpdateSkipped(c)     => call'[c].pc = "loop"
         /\ UpdateBegin(c)       => call'[c].pc = "update"
         /\ UpdateEnd(c)         => call'[c].pc = "refetch"
         /\ UpdateFails(c)       => call'[c].pc = "done"
         /\ RefetchDone(c)       => call'[c].pc \in {"loop", "done"}
         /\ AttemptsExhausted(c) => call'[c].pc = "done"
         /\ ScanBegin(c)         => call'[c].pc = "scan"
         /\ ScanHealthy(c)       => call'[c].pc = "selected"
         /\ ScanUnhealthy(c)     => call'[c].pc = "scanDelay"
         /\ ScanDelay(c)         => call'[c].pc \in {"scan", "selected"}
  <1> DEFINE k == call[c]
  <1>0. k \in CallState /\ call \in [Calls -> CallState]
    BY DEF IInv
  <1>1. Begin(c) => call'[c].pc = "fetch"
    BY <1>0 DEF Begin, Move, CallState
  <1>2. FetchProxy(c) => call'[c].pc \in {"fetch", "refetch"}
    <2>1. ASSUME NEW n \in Nodes, k.pc \in {"fetch", "refetch"},
                 Move(c, [k EXCEPT !.cursor = @ + 1, !.nodes = Append(@, n)])
          PROVE  call'[c].pc \in {"fetch", "refetch"}
      BY <1>0, <2>1 DEF Move, CallState
    <2>2. ASSUME k.pc \in {"fetch", "refetch"}, Move(c, [k EXCEPT !.cursor = @ + 1])
          PROVE  call'[c].pc \in {"fetch", "refetch"}
      BY <1>0, <2>2 DEF Move, CallState
    <2>3. QED
      BY <2>1, <2>2 DEF FetchProxy, Proxies
  <1>3. FetchDone(c) => call'[c].pc \in {"loop", "done"}
    <2>1. ASSUME Move(c, [k EXCEPT !.pc = "loop"])
          PROVE  call'[c].pc = "loop"
      BY <1>0, <2>1 DEF Move, CallState
    <2>2. QED
      BY <2>1, PcAtEnd DEF FetchDone
  <1>4. UpdateSkipped(c) => call'[c].pc = "loop"
    BY <1>0 DEF UpdateSkipped, UpdateOver, Move, CallState
  <1>5. UpdateBegin(c) => call'[c].pc = "update"
    BY <1>0 DEF UpdateBegin, Move, CallState
  <1>6. UpdateEnd(c) => call'[c].pc = "refetch"
    BY <1>0 DEF UpdateEnd, Move, CallState
  <1>7. UpdateFails(c) => call'[c].pc = "done"
    BY PcAtEnd DEF UpdateFails
  <1>8. RefetchDone(c) => call'[c].pc \in {"loop", "done"}
    <2> DEFINE over == UpdateOver(k)
    <2>1. over \in CallState /\ over.pc = "loop"
      BY <1>0, Updated
    <2>2. [over EXCEPT !.nodeResponses = NoResponses].pc = "loop"
      <3> HIDE DEF over
      <3>1. QED
        BY <2>1 DEF CallState
    <2>3. ASSUME Move(c, [over EXCEPT !.nodeResponses = NoResponses])
          PROVE  call'[c].pc = "loop"
      BY <1>0, <2>2, <2>3 DEF Move
    <2>4. QED
      BY <2>3, PcAtEnd DEF RefetchDone
  <1>9. AttemptsExhausted(c) => call'[c].pc = "done"
    BY PcAtEnd DEF AttemptsExhausted
  <1>10. ScanBegin(c) => call'[c].pc = "scan"
    BY <1>0 DEF ScanBegin, Move, CallState
  <1>11. ScanHealthy(c) => call'[c].pc = "selected"
    BY <1>0 DEF ScanHealthy, Selected, Move, CallState
  <1>12. ScanUnhealthy(c) => call'[c].pc = "scanDelay"
    BY <1>0 DEF ScanUnhealthy, Move, CallState
  <1>13. ScanDelay(c) => call'[c].pc \in {"scan", "selected"}
    <2> DEFINE delay == getRemainingTimeForBackoff(node[k.nodes[k.cursor]])
    <2> SUFFICES ASSUME ScanDelay(c)
                 PROVE  call'[c].pc \in {"scan", "selected"}
      OBVIOUS
    <2>1. PICK r \in Candidates(k, delay) :
            \/ Move(c, [r EXCEPT !.pc = "scan", !.cursor = @ + 1])
            \/ Move(c, Selected(r, r.candidate))
      BY DEF ScanDelay
    <2>2. "pc" \in DOMAIN r /\ "cursor" \in DOMAIN r
      BY <1>0 DEF Candidates, CallState
    <2> HIDE DEF delay
    <2>3. /\ [r EXCEPT !.pc = "scan", !.cursor = @ + 1].pc = "scan"
          /\ Selected(r, r.candidate).pc = "selected"
      BY <2>2 DEF Selected
    <2>4. QED
      BY <1>0, <2>1, <2>3 DEF Move
  <1>14. QED
    BY <1>1, <1>2, <1>3, <1>4, <1>5, <1>6, <1>7, <1>8, <1>9, <1>10, <1>11, <1>12, <1>13

LEMMA PcInAttempt ==
  ASSUME IInv, NEW c \in Calls
  PROVE  /\ CheckHealth(c)          => call'[c].pc \in {"connect", "delay"}
         /\ TakeDelay(c)            => call'[c].pc = "nodeWait"
         /\ NodeWaitOver(c)         => call'[c].pc = "connect"
         /\ Connect(c)              => call'[c].pc \in {"submit", "connecting"}
         /\ ConnectEnd(c)           => call'[c].pc \in {"submit", "penalize"}
         /\ Submit(c)               => call'[c].pc \in {"rpc", "done"}
         /\ Reply(c)                => call'[c].pc \in {"penalize", "answered"}
         /\ Penalize(c)             => call'[c].pc = "loop"
         /\ HandleResponse(c)       => call'[c].pc \in {"loop", "invalid", "retryWait", "done"}
         /\ RetryWithAnotherNode(c) => call'[c].pc \in {"loop", "done"}
         /\ RetryWaitOver(c)        => call'[c].pc = "loop"
  <1> DEFINE k == call[c]
  <1>0. k \in CallState /\ call \in [Calls -> CallState]
    BY DEF IInv
  <1>1. CheckHealth(c) => call'[c].pc \in {"connect", "delay"}
    BY <1>0 DEF CheckHealth, Move, CallState
  <1>11. TakeDelay(c) => call'[c].pc = "nodeWait"
    BY <1>0 DEF TakeDelay, Move, CallState
  <1>2. NodeWaitOver(c) => call'[c].pc = "connect"
    BY <1>0 DEF NodeWaitOver, Move, CallState
  <1>3. Connect(c) => call'[c].pc \in {"submit", "connecting"}
    BY <1>0 DEF Connect, Move, CallState
  <1>4. ConnectEnd(c) => call'[c].pc \in {"submit", "penalize"}
    BY <1>0 DEF ConnectEnd, Move, CallState
  <1>5. Submit(c) => call'[c].pc \in {"rpc", "done"}
    <2>1. ASSUME Move(c, [k EXCEPT !.pc = "rpc"])
          PROVE  call'[c].pc = "rpc"
      BY <1>0, <2>1 DEF Move, CallState
    <2>2. QED
      BY <2>1, PcAtEnd DEF Submit
  <1>6. Reply(c) => call'[c].pc \in {"penalize", "answered"}
    BY <1>0 DEF Reply, Move, CallState
  <1>7. Penalize(c) => call'[c].pc = "loop"
    BY <1>0 DEF Penalize, NextAttempt, Move, CallState
  <1>8. HandleResponse(c) => call'[c].pc \in {"loop", "invalid", "retryWait", "done"}
    <2> DEFINE s     == mapResponseStatus(k.reply)
               noted == [k EXCEPT !.nodeResponses[Chosen(k)] = s]
               new   == Decision(noted, s)
    <2>1. /\ "pc" \in DOMAIN noted /\ "attempt" \in DOMAIN noted
          /\ "nodeResponses" \in DOMAIN noted /\ "sleep" \in DOMAIN noted
          /\ "outcome" \in DOMAIN noted
      BY <1>0 DEF CallState
    <2>2. \/ new = NextAttempt(noted)
          \/ new = [noted EXCEPT !.pc = "invalid", !.nodeResponses = NoResponses]
          \/ new = [noted EXCEPT !.pc = "invalid"]
          \/ new = [noted EXCEPT !.pc = "retryWait", !.sleep = noted.mCurrentBackoff]
          \/ new = Finish(noted, "REJECTED")
          \/ new = Finish(noted, "success")
      BY DEF Decision
    <2> HIDE DEF noted
    <2>3. new.pc \in {"loop", "invalid", "retryWait", "done"}
      <3> HIDE DEF new
      <3>1. QED
        BY <2>1, <2>2 DEF NextAttempt, Finish
    <2> HIDE DEF new
    <2>4. QED
      BY <1>0, <2>3 DEF HandleResponse, Move, new, noted
  <1>9. RetryWithAnotherNode(c) => call'[c].pc \in {"loop", "done"}
    <2> DEFINE new == [NextAttempt(k) EXCEPT !.needsAddressBookUpdate = TRUE]
    <2>1. new.pc = "loop"
      BY <1>0, Flagged
    <2>2. ASSUME Move(c, new)
          PROVE  call'[c].pc = "loop"
      <3> HIDE DEF new
      <3>1. QED
        BY <1>0, <2>1, <2>2 DEF Move
    <2>3. QED
      BY <2>2, PcAtEnd DEF RetryWithAnotherNode
  <1>10. RetryWaitOver(c) => call'[c].pc = "loop"
    <2> DEFINE new == [NextAttempt(k) EXCEPT !.mCurrentBackoff = AtMost(2 * @, MaxBackoff)]
    <2>1. new.pc = "loop"
      BY <1>0, BackedOff
    <2> HIDE DEF new
    <2>2. QED
      BY <1>0, <2>1 DEF RetryWaitOver, Move, new
  <1>12. QED
    BY <1>1, <1>2, <1>3, <1>4, <1>5, <1>6, <1>7, <1>8, <1>9, <1>10, <1>11

\* The steps of one call.
LEMMA StepSerialises ==
  ASSUME IInv, NodeSerialises, NEW c \in Calls, Step(c)
  PROVE  NodeSerialises'
  <1> DEFINE k == call[c]
             n == Chosen(k)
  <1>1. /\ k \in CallState /\ Good(k, hist[c]) /\ node \in [Nodes -> NodeState]
        /\ k.pc \in AtNode => n \in Nodes /\ node[n] \in NodeState
    BY ChosenIsNode DEF IInv, SharedType
  <1>2. Alone(c)
    BY DEF IInv, Alone, Step, Move, Begin, FetchProxy, FetchDone, UpdateSkipped,
       UpdateBegin, UpdateEnd, UpdateFails, RefetchDone, AttemptsExhausted, ScanBegin,
       ScanHealthy, ScanUnhealthy, ScanDelay, CheckHealth, TakeDelay, NodeWaitOver,
       Connect, ConnectEnd, Submit, Reply, Penalize, HandleResponse, RetryWithAnotherNode, RetryWaitOver
  <1>3. ASSUME call'[c].pc \notin Holding, UNCHANGED <<node, nodeLock>>
        PROVE  NodeSerialises'
    BY <1>2, <1>3, HoldsNothing
  <1>4. ASSUME \/ Begin(c) \/ FetchProxy(c) \/ FetchDone(c) \/ UpdateSkipped(c)
               \/ UpdateBegin(c) \/ UpdateEnd(c) \/ UpdateFails(c) \/ RefetchDone(c)
               \/ AttemptsExhausted(c) \/ ScanBegin(c) \/ ScanHealthy(c) \/ ScanUnhealthy(c)
               \/ ScanDelay(c)
        PROVE  NodeSerialises'
    <2>1. UNCHANGED <<node, nodeLock>>
      BY <1>4 DEF Begin, FetchProxy, FetchDone, UpdateSkipped, UpdateBegin, UpdateEnd,
                  UpdateFails, RefetchDone, AttemptsExhausted, ScanBegin, ScanHealthy,
                  ScanUnhealthy, ScanDelay
    <2>2. call'[c].pc \notin Holding
      BY <1>4, PcBeforeAttempt DEF Holding
    <2>3. QED
      BY <1>3, <2>1, <2>2
  <1>5. ASSUME CheckHealth(c) \/ TakeDelay(c) \/ NodeWaitOver(c) \/ RetryWaitOver(c)
        PROVE  NodeSerialises'
    <2>1. UNCHANGED <<node, nodeLock>>
      BY <1>5 DEF CheckHealth, TakeDelay, NodeWaitOver, RetryWaitOver
    <2>2. call'[c].pc \notin Holding
      BY <1>5, PcInAttempt DEF Holding
    <2>3. QED
      BY <1>3, <2>1, <2>2
  <1>6. ASSUME Penalize(c) \/ HandleResponse(c) \/ RetryWithAnotherNode(c)
        PROVE  NodeSerialises'
    <2>1. n \in Nodes /\ node[n] \in NodeState
      BY <1>1, <1>6 DEF Penalize, HandleResponse, RetryWithAnotherNode, AtNode
    <2>2. /\ UNCHANGED nodeLock
          /\ \/ node' = [node EXCEPT ![n] = increaseBackoff(@)]
             \/ node' = [node EXCEPT ![n] = decreaseBackoff(@)]
      BY <1>6 DEF Penalize, HandleResponse, RetryWithAnotherNode
    <2>3. \A m \in Nodes : node[m].mChannel => node'[m].mChannel
      BY <1>1, <2>1, <2>2, KeepsChannel
    <2>4. call'[c].pc \notin Holding
      BY <1>6, PcInAttempt DEF Holding
    <2>5. QED
      BY <1>2, <2>2, <2>3, <2>4, HoldsNothing
  <1>7. CASE Connect(c)
    <2>1. n \in Nodes /\ node[n] \in NodeState /\ k.pc \in AtNode /\ Free(n)
      BY <1>1, <1>7 DEF Connect, AtNode
    <2>2. CASE Move(c, [k EXCEPT !.pc = "submit"]) /\ UNCHANGED <<node, nodeLock>>
      <3>1. call'[c].pc \notin Holding
        BY <1>1, <2>2 DEF Move, IInv, CallState, Holding
      <3>2. QED
        BY <1>3, <2>2, <3>1
    <2>3. CASE /\ Move(c, [k EXCEPT !.pc = "connecting"])
               /\ node' = [node EXCEPT ![n] = getChannel(@)]
               /\ nodeLock' = [nodeLock EXCEPT ![n] = c]
      <3>1. /\ \A m \in Nodes : node[m].mChannel => node'[m].mChannel
            /\ node'[n].mChannel
        BY <1>1, <2>1, <2>3, KeepsChannel
      <3>2. Chosen(call'[c]) = n
        BY <1>1, <2>3 DEF Move, IInv, CallState, Chosen
      <3> HIDE DEF n
      <3>3. QED
        BY <1>2, <2>1, <2>3, <3>1, <3>2, TakesNode DEF n
    <2>4. QED
      BY <1>7, <2>2, <2>3 DEF Connect
  <1>8. CASE Submit(c)
    <2>1. n \in Nodes /\ node[n] \in NodeState /\ k.pc \in AtNode /\ Free(n)
      BY <1>1, <1>8 DEF Submit, AtNode
    <2>2. CASE /\ node[n].mChannel /\ Move(c, [k EXCEPT !.pc = "rpc"])
               /\ nodeLock' = [nodeLock EXCEPT ![n] = c] /\ UNCHANGED node
      <3>1. Chosen(call'[c]) = n
        BY <1>1, <2>2 DEF Move, IInv, CallState, Chosen
      <3> HIDE DEF n
      <3>2. QED
        BY <1>2, <2>1, <2>2, <3>1, TakesNode DEF n
    <2>3. CASE Move(c, Finish(k, "Crashed")) /\ UNCHANGED <<node, nodeLock>>
      <3>1. call'[c].pc \notin Holding
        BY <2>3, PcAtEnd DEF Holding
      <3>2. QED
        BY <1>3, <2>3, <3>1
    <2>4. QED
      BY <1>8, <2>2, <2>3 DEF Submit
  <1>9. CASE ConnectEnd(c)
    <2>1. n \in Nodes /\ node[n] \in NodeState /\ k.pc \in Holding
      BY <1>1, <1>9 DEF ConnectEnd, AtNode, Holding
    <2>2. \A m \in Nodes : node[m].mChannel => node'[m].mChannel
      <3>1. PICK up \in BOOLEAN : node' = [node EXCEPT ![n] = WaitForConnected(@, up)]
        BY <1>9 DEF ConnectEnd
      <3>2. QED
        BY <1>1, <2>1, <3>1, KeepsChannel
    <2>3. nodeLock' = [nodeLock EXCEPT ![n] = NoCall]
      BY <1>9 DEF ConnectEnd
    <2>4. call'[c].pc \notin Holding
      BY <1>9, PcInAttempt DEF Holding
    <2>5. QED
      BY <1>2, <2>1, <2>2, <2>3, <2>4, GivesNodeBack
  <1>10. CASE Reply(c)
    <2>1. k.pc \in Holding /\ UNCHANGED node /\ nodeLock' = [nodeLock EXCEPT ![n] = NoCall]
      BY <1>10 DEF Reply, Holding
    <2>2. call'[c].pc \notin Holding
      BY <1>10, PcInAttempt DEF Holding
    <2>3. QED
      BY <1>2, <2>1, <2>2, GivesNodeBack
  <1>11. QED
    BY <1>4, <1>5, <1>6, <1>7, <1>8, <1>9, <1>10 DEF Step

\* Time passes, or the client's owner closes the channel of a free node.
LEMMA EnvironmentSerialises ==
  ASSUME IInv, NodeSerialises, Tick \/ \E n \in Nodes : CloseChannel(n)
  PROVE  NodeSerialises'
  <1> SUFFICES ASSUME NEW d \in Calls, call'[d].pc \in Holding
               PROVE  /\ nodeLock'[Chosen(call'[d])] = d
                      /\ node'[Chosen(call'[d])].mChannel
    BY DEF NodeSerialises, Holding
  <1>1. CASE Tick
    <2>1. call'[d].pc = call[d].pc /\ Chosen(call'[d]) = Chosen(call[d])
      BY <1>1 DEF Tick, IInv, CallState, Chosen
    <2>2. Chosen(call[d]) \in Nodes
      BY <2>1, ChosenIsNode DEF IInv, Holding, AtNode
    <2>3. nodeLock[Chosen(call[d])] = d /\ node[Chosen(call[d])].mChannel
      BY <2>1 DEF NodeSerialises, Holding
    <2>4. node'[Chosen(call[d])] = Elapse(node[Chosen(call[d])])
      BY <1>1, <2>2 DEF Tick
    <2>5. node'[Chosen(call[d])].mChannel
      BY <2>2, <2>3, <2>4, KeepsChannel, TRUE \in BOOLEAN DEF IInv, SharedType
    <2>6. QED
      BY <1>1, <2>1, <2>3, <2>5 DEF Tick
  <1>2. ASSUME NEW n \in Nodes, CloseChannel(n)
        PROVE  /\ nodeLock'[Chosen(call'[d])] = d
               /\ node'[Chosen(call'[d])].mChannel
    <2>1. nodeLock[Chosen(call[d])] = d /\ node[Chosen(call[d])].mChannel
      BY <1>2 DEF CloseChannel, NodeSerialises, Holding
    <2>2. Chosen(call[d]) # n
      BY <1>2, <2>1, ExecutableAssumption DEF CloseChannel, Free
    <2>3. QED
      BY <1>2, <2>1, <2>2 DEF CloseChannel, IInv, SharedType
  <1>3. QED
    BY <1>1, <1>2

\* Whoever waits on a node for a connection or a response holds its mutex
\* alone and keeps its channel, for any number of executions and closers.
THEOREM RequestsSerialised == Spec => []NodeSerialises
  <1>1. Init => NodeSerialises
    BY DEF Init, NodeSerialises, IdleCall
  <1>2. IInv /\ NodeSerialises /\ [Next]_vars => NodeSerialises'
    <2> SUFFICES ASSUME IInv, NodeSerialises, [Next]_vars
                 PROVE  NodeSerialises'
      OBVIOUS
    <2>1. CASE UNCHANGED <<node, nodeLock, call>>
      BY <2>1 DEF NodeSerialises, Chosen
    <2>2. QED
      BY <2>1, StepSerialises, EnvironmentSerialises
         DEF Next, vars, BackgroundUpdate, Terminated
  <1>3. QED
    BY <1>1, <1>2, Invariance, PTL DEF Spec

-----------------------------------------------------------------------------
(***************************************************************************)
(* The penalty of a node against who is on the way to it.                  *)
(***************************************************************************)
Late(k)  == getRemainingTimeForBackoff(node[Chosen(k)])
Turned   == {"connect", "connecting", "submit"}

\* Nobody has penalised its node since the call asked.
Clear(h) == h.overtaken = FALSE

\* What the chosen node owes the execution, unless another one came between;
\* and an execution nobody is beside is not overtaken.
Served(c) ==
  /\ Clear(hist[c]) /\ call[c].pc = "nodeWait" => Late(call[c]) <= AtLeast(call[c].sleep, 0)
  /\ Clear(hist[c]) /\ call[c].pc \in Turned => Late(call[c]) <= 0
  /\ Calls = {c} => Clear(hist[c])

\* Most operations on a node leave its readmit time alone.
LEMMA ReadmitTimes ==
  ASSUME NEW n \in NodeState, NEW up \in BOOLEAN
  PROVE  /\ WaitForConnected(n, up).readmitIn = n.readmitIn
         /\ getChannel(n).readmitIn = n.readmitIn
         /\ closeChannel(n).readmitIn = n.readmitIn
         /\ decreaseBackoff(n).readmitIn = n.readmitIn
         /\ Elapse(n).readmitIn = AtLeast(n.readmitIn - 1, -1)
  BY DEF NodeState, WaitForConnected, getChannel, closeChannel, decreaseBackoff, Elapse

Penalising(c) == Penalize(c) \/ RetryWithAnotherNode(c)

\* A step that penalises no node.
LEMMA PenaltiesStay ==
  ASSUME IInv, NEW c \in Calls, Step(c), ~Penalising(c)
  PROVE  \A n \in Nodes : node'[n].readmitIn = node[n].readmitIn
  <1> DEFINE n == Chosen(call[c])
             m == node[n]
  <1>1. node \in [Nodes -> NodeState] /\ TRUE \in BOOLEAN
    BY DEF IInv, SharedType
  <1>2. CASE UNCHANGED node
    BY <1>2
  <1>3. ASSUME NEW new, node' = [node EXCEPT ![n] = new], new.readmitIn = m.readmitIn,
               call[c].pc \in AtNode
        PROVE  \A x \in Nodes : node'[x].readmitIn = node[x].readmitIn
    BY <1>1, <1>3
  <1>4. call[c].pc \in AtNode => m \in NodeState
    BY <1>1, PenaltyType
  <1>5. CASE Connect(c)
    <2>1. call[c].pc \in AtNode
      BY <1>5 DEF Connect, AtNode
    <2>2. UNCHANGED node \/ node' = [node EXCEPT ![n] = getChannel(m)]
      BY <1>5 DEF Connect
    <2> HIDE DEF m, n
    <2>3. QED
      BY <1>1, <1>2, <1>3, <1>4, <2>1, <2>2, ReadmitTimes
  <1>6. CASE ConnectEnd(c)
    <2>1. call[c].pc \in AtNode
      BY <1>6 DEF ConnectEnd, AtNode
    <2>2. PICK up \in BOOLEAN : node' = [node EXCEPT ![n] = WaitForConnected(m, up)]
      BY <1>6 DEF ConnectEnd
    <2> HIDE DEF m, n
    <2>3. QED
      BY <1>3, <1>4, <2>1, <2>2, ReadmitTimes
  <1>7. CASE HandleResponse(c)
    <2>1. call[c].pc \in AtNode
      BY <1>7 DEF HandleResponse, AtNode
    <2>2. node' = [node EXCEPT ![n] = decreaseBackoff(m)]
      BY <1>7 DEF HandleResponse
    <2> HIDE DEF m, n
    <2>3. QED
      BY <1>1, <1>3, <1>4, <2>1, <2>2, ReadmitTimes
  <1>8. QED
    BY <1>2, <1>5, <1>6, <1>7
       DEF Step, Penalising, Begin, FetchProxy, FetchDone, UpdateSkipped, UpdateBegin,
           UpdateEnd, UpdateFails, RefetchDone, AttemptsExhausted, ScanBegin, ScanHealthy,
           ScanUnhealthy, ScanDelay, CheckHealth, TakeDelay, NodeWaitOver, Submit, Reply,
           RetryWaitOver

\* Only another execution can come between: no step of its own makes an
\* execution overtaken.
LEMMA StaysClear ==
  ASSUME IInv, NEW c \in Calls, Step(c), Clear(hist[c])
  PROVE  Clear(hist'[c])
  <1> DEFINE h == hist[c]
  <1>1. h \in History /\ hist \in [Calls -> History]
    BY DEF IInv
  <1>2. CASE UNCHANGED hist
    BY <1>2
  <1>3. ASSUME NEW new \in {[h EXCEPT !.updates = @ + 1], [h EXCEPT !.considered = {}],
                            [h EXCEPT !.considered = @ \cup {call[c].cursor}]},
               Record(c, new)
        PROVE  Clear(hist'[c])
    <2>1. new.overtaken = h.overtaken
      BY <1>1, <1>3 DEF History
    <2> HIDE DEF h
    <2>2. QED
      BY <1>1, <1>3, <2>1 DEF Record, Clear, h
  <1>4. CASE UpdateBegin(c) \/ UpdateEnd(c) \/ ScanUnhealthy(c)
    BY <1>3, <1>4 DEF UpdateBegin, UpdateEnd, ScanUnhealthy
  <1>5. CASE ConnectEnd(c)
    <2> DEFINE newh == [h EXCEPT !.considered = @ \cup {call[c].nodeIndex}, !.overtaken = FALSE]
    <2>1. Record(c, h) \/ Record(c, newh)
      BY <1>5 DEF ConnectEnd
    <2>2. newh.overtaken = FALSE
      BY <1>1 DEF History
    <2> HIDE DEF newh
    <2>3. QED
      BY <1>1, <2>1, <2>2 DEF Record, Clear
  <1>6. CASE Submit(c)
    <2> DEFINE newh == [h EXCEPT !.submissions = @ + 1,
                                 !.considered = @ \cup {call[c].nodeIndex},
                                 !.overtaken = FALSE]
    <2>1. UNCHANGED hist \/ Record(c, newh)
      BY <1>6 DEF Submit
    <2>2. newh.overtaken = FALSE
      BY <1>1 DEF History
    <2> HIDE DEF newh
    <2>3. QED
      BY <1>1, <1>2, <2>1, <2>2 DEF Record, Clear
  <1>7. CASE Penalising(c)
    BY <1>7 DEF Penalising, Penalize, RetryWithAnotherNode, Overtaken, Approaching
  <1>8. QED
    BY <1>2, <1>4, <1>5, <1>6, <1>7
       DEF Step, Penalising, Begin, FetchProxy, FetchDone, UpdateSkipped, UpdateFails,
           RefetchDone, AttemptsExhausted, ScanBegin, ScanHealthy, ScanDelay, CheckHealth,
           TakeDelay, NodeWaitOver, Connect, Reply, HandleResponse, RetryWaitOver

\* An execution asks for the penalty of the node it turns to, and sleeps it off.
LEMMA StepServed ==
  ASSUME IInv, NEW c \in Calls, Served(c), Step(c)
  PROVE  Served(c)'
  <1> DEFINE k == call[c]
             n == Chosen(k)
             t == Late(k)
  <1>1. /\ k \in CallState /\ call \in [Calls -> CallState]
        /\ k.pc \in AtNode => n \in Nodes /\ t \in Int
        /\ Calls = {c} => Clear(hist'[c])
    BY PenaltyType, StaysClear DEF IInv, Served, Late
  <1>2. ASSUME call'[c].pc \notin Approaching
        PROVE  Served(c)'
    BY <1>1, <1>2 DEF Served, Approaching, Turned
  <1>3. ASSUME \/ Begin(c) \/ FetchProxy(c) \/ FetchDone(c) \/ UpdateSkipped(c)
               \/ UpdateBegin(c) \/ UpdateEnd(c) \/ UpdateFails(c) \/ RefetchDone(c)
               \/ AttemptsExhausted(c) \/ ScanBegin(c) \/ ScanHealthy(c) \/ ScanUnhealthy(c)
               \/ ScanDelay(c)
        PROVE  Served(c)'
    BY <1>2, <1>3, PcBeforeAttempt DEF Approaching
  <1>4. ASSUME \/ Submit(c) \/ Reply(c) \/ Penalize(c) \/ HandleResponse(c)
               \/ RetryWithAnotherNode(c) \/ RetryWaitOver(c)
        PROVE  Served(c)'
    BY <1>2, <1>4, PcInAttempt DEF Approaching
  <1>5. CASE CheckHealth(c)
    <2>1. n \in Nodes /\ t \in Int /\ UNCHANGED node
      BY <1>1, <1>5 DEF CheckHealth, AtNode
    <2>2. CASE ~isHealthy(node[n])
      <3>1. call'[c].pc = "delay"
        BY <1>1, <1>5, <2>2 DEF CheckHealth, Move, CallState
      <3>2. QED
        BY <1>2, <3>1 DEF Approaching
    <2>3. CASE isHealthy(node[n])
      <3>1. call'[c].pc = "connect" /\ Chosen(call'[c]) = n
        BY <1>1, <1>5, <2>3 DEF CheckHealth, Move, CallState, Chosen
      <3>2. t <= 0
        <4>1. t < 0
          BY <2>3 DEF isHealthy, getRemainingTimeForBackoff, Late
        <4> HIDE DEF t
        <4>2. QED
          BY <2>1, <4>1, SMT
      <3>3. QED
        BY <1>1, <2>1, <3>1, <3>2 DEF Served, Late, Turned
    <2>4. QED
      BY <2>2, <2>3
  <1>6. CASE TakeDelay(c)
    <2>1. n \in Nodes /\ t \in Int /\ UNCHANGED node
      BY <1>1, <1>6 DEF TakeDelay, AtNode
    <2>2. call'[c].pc = "nodeWait" /\ Chosen(call'[c]) = n /\ call'[c].sleep = t
      BY <1>1, <1>6 DEF TakeDelay, Move, CallState, Chosen, Late
    <2>3. t <= AtLeast(t, 0)
      <3> HIDE DEF t
      <3>1. QED
        BY <2>1, SMT DEF AtLeast
    <2>4. QED
      BY <1>1, <2>1, <2>2, <2>3 DEF Served, Late, Turned
  <1>7. CASE NodeWaitOver(c)
    <2>1. /\ call'[c].pc = "connect" /\ Chosen(call'[c]) = n /\ UNCHANGED <<node, hist>>
          /\ k.pc = "nodeWait" /\ k.sleep <= 0 /\ k.sleep \in Int
      BY <1>1, <1>7 DEF NodeWaitOver, Move, CallState, Chosen
    <2>2. Clear(hist[c]) => t <= AtLeast(k.sleep, 0)
      BY <2>1 DEF Served
    <2>3. t \in Int
      BY <1>1, <2>1 DEF AtNode
    <2>4. Clear(hist[c]) => t <= 0
      <3> HIDE DEF t, k
      <3>1. QED
        BY <2>1, <2>2, <2>3, SMT DEF AtLeast
    <2>5. QED
      BY <1>1, <2>1, <2>4 DEF Served, Late
  <1>8. ASSUME Connect(c) \/ ConnectEnd(c)
        PROVE  Served(c)'
    <2>1. n \in Nodes /\ k.pc \in Turned /\ ~Penalising(c)
      BY <1>1, <1>8 DEF Connect, ConnectEnd, AtNode, Turned, Penalising, Penalize,
                        RetryWithAnotherNode
    <2>2. Clear(hist[c]) => Late(k) <= 0
      BY <2>1 DEF Served
    <2>3. node'[n].readmitIn = node[n].readmitIn
      BY <2>1, PenaltiesStay
    <2>4. PICK p \in {"submit", "connecting", "penalize"} : Move(c, [k EXCEPT !.pc = p])
      <3>1. CASE Connect(c)
        BY <3>1 DEF Connect
      <3>2. CASE ConnectEnd(c)
        <4>1. PICK up \in BOOLEAN :
                Move(c, [k EXCEPT !.pc = IF up THEN "submit" ELSE "penalize"])
          BY <3>2 DEF ConnectEnd
        <4>2. QED
          BY <4>1
      <3>3. QED
        BY <1>8, <3>1, <3>2
    <2>5. Chosen(call'[c]) = n /\ call'[c].pc = p
      BY <1>1, <2>4 DEF Move, CallState, Chosen
    <2>6. CASE p = "penalize"
      BY <1>2, <2>5, <2>6 DEF Approaching
    <2>7. CASE p # "penalize"
      <3>1. UNCHANGED hist
        <4>1. CASE Connect(c)
          BY <4>1 DEF Connect
        <4>2. CASE ConnectEnd(c)
          <5>1. PICK up \in BOOLEAN :
                  /\ Move(c, [k EXCEPT !.pc = IF up THEN "submit" ELSE "penalize"])
                  /\ up => Record(c, hist[c])
            BY <4>2 DEF ConnectEnd
          <5>2. up
            BY <1>1, <2>5, <2>7, <5>1 DEF Move, CallState
          <5>3. QED
            BY <5>1, <5>2 DEF Record, IInv
        <4>3. QED
          BY <1>8, <4>1, <4>2
      <3>2. QED
        BY <1>1, <2>2, <2>3, <2>5, <3>1 DEF Served, Late, getRemainingTimeForBackoff
    <2>8. QED
      BY <2>6, <2>7
  <1>9. QED
    BY <1>3, <1>4, <1>5, <1>6, <1>7, <1>8 DEF Step

\* Another execution penalises the node only by coming between.
LEMMA OthersServed ==
  ASSUME IInv, NEW c \in Calls, Served(c), NEW d \in Calls \ {c}, Step(d)
  PROVE  Served(c)'
  <1> DEFINE k == call[c]
             n == Chosen(k)
  <1>1. call'[c] = k /\ Calls # {c}
    BY DEF IInv, Step, Move, Begin, FetchProxy, FetchDone, UpdateSkipped,
       UpdateBegin, UpdateEnd, UpdateFails, RefetchDone, AttemptsExhausted, ScanBegin,
       ScanHealthy, ScanUnhealthy, ScanDelay, CheckHealth, TakeDelay, NodeWaitOver,
       Connect, ConnectEnd, Submit, Reply, Penalize, HandleResponse,
       RetryWithAnotherNode, RetryWaitOver
  <1>2. k.pc \in Approaching => n \in Nodes
    BY PenaltyType DEF Approaching, AtNode
  <1>3. CASE Penalising(d)
    <2> DEFINE m == Chosen(call[d])
    <2>1. node' = [node EXCEPT ![m] = increaseBackoff(@)] /\ Overtaken(m)
      BY <1>3 DEF Penalising, Penalize, RetryWithAnotherNode
    <2>2. CASE k.pc \in Approaching /\ n = m
      <3>1. hist'[c] = [hist[c] EXCEPT !.overtaken = TRUE]
        BY <2>1, <2>2 DEF Overtaken
      <3>2. ~Clear(hist'[c])
        BY <3>1 DEF Clear, IInv, History
      <3>3. QED
        BY <1>1, <3>2 DEF Served
    <2>3. CASE k.pc \in Approaching /\ n # m
      <3>1. hist'[c] = hist[c] /\ node'[n] = node[n]
        BY <1>2, <2>1, <2>3 DEF Overtaken, IInv, SharedType
      <3>2. QED
        BY <1>1, <3>1 DEF Served, Late
    <2>4. CASE k.pc \notin Approaching
      BY <1>1, <2>4 DEF Served, Approaching, Turned
    <2>5. QED
      BY <2>2, <2>3, <2>4
  <1>4. CASE ~Penalising(d)
    <2>1. k.pc \in Approaching => node'[n].readmitIn = node[n].readmitIn
      BY <1>2, <1>4, PenaltiesStay
    <2>2. hist'[c] = hist[c]
      BY <1>4 DEF IInv, Penalising, Record, Step, Begin, FetchProxy, FetchDone, UpdateSkipped,
         UpdateBegin, UpdateEnd, UpdateFails, RefetchDone, AttemptsExhausted, ScanBegin,
         ScanHealthy, ScanUnhealthy, ScanDelay, CheckHealth, TakeDelay, NodeWaitOver,
         Connect, ConnectEnd, Submit, Reply, HandleResponse, RetryWaitOver
    <2>3. QED
      BY <1>1, <2>1, <2>2
         DEF Served, Late, getRemainingTimeForBackoff, Approaching, Turned
  <1>5. QED
    BY <1>3, <1>4

\* Time runs as fast for the node as for the call that waits for it.
LEMMA EnvironmentServed ==
  ASSUME IInv, NEW c \in Calls, Served(c), Tick \/ \E n \in Nodes : CloseChannel(n)
  PROVE  Served(c)'
  <1> DEFINE k == call[c]
             n == Chosen(k)
             t == node[n].readmitIn
  <1>1. call'[c].pc = k.pc /\ Chosen(call'[c]) = n /\ UNCHANGED hist
    BY DEF Tick, CloseChannel, IInv, CallState, Chosen
  <1> SUFFICES ASSUME k.pc \in Approaching
               PROVE  Served(c)'
    BY <1>1 DEF Served, Approaching, Turned
  <1>2. n \in Nodes /\ node[n] \in NodeState /\ t \in Int /\ k.sleep \in Int
    BY PenaltyType DEF IInv, CallState, Approaching, AtNode, getRemainingTimeForBackoff
  <1>3. CASE Tick
    <2>1. /\ node'[n].readmitIn = AtLeast(t - 1, -1)
          /\ call'[c].sleep = AtLeast(k.sleep - 1, 0)
      BY <1>2, <1>3, ReadmitTimes, TRUE \in BOOLEAN DEF Tick, IInv, CallState
    <2>2. /\ Clear(hist[c]) /\ k.pc = "nodeWait" => t <= AtLeast(k.sleep, 0)
          /\ Clear(hist[c]) /\ k.pc \in Turned => t <= 0
      BY DEF Served, Late, getRemainingTimeForBackoff
    <2> HIDE DEF k, n, t
    <2>3. /\ t <= AtLeast(k.sleep, 0) =>
               AtLeast(t - 1, -1) <= AtLeast(AtLeast(k.sleep - 1, 0), 0)
          /\ t <= 0 => AtLeast(t - 1, -1) <= 0
      BY <1>2, SMT DEF AtLeast
    <2>4. QED
      BY <1>1, <2>1, <2>2, <2>3 DEF Served, Late, getRemainingTimeForBackoff
  <1>4. ASSUME NEW m \in Nodes, CloseChannel(m)
        PROVE  Served(c)'
    <2>1. node'[n].readmitIn = t /\ call'[c] = k
      BY <1>2, <1>4, ReadmitTimes, TRUE \in BOOLEAN DEF CloseChannel, IInv, SharedType
    <2>2. QED
      BY <1>1, <2>1 DEF Served, Late, getRemainingTimeForBackoff
  <1>5. QED
    BY <1>3, <1>4

LEMMA AllServed == Spec => [](\A c \in Calls : Served(c))
  <1> DEFINE All == \A c \in Calls : Served(c)
  <1>1. Init => All
    BY DEF Init, Served, IdleCall, NoHistory, Clear, Turned
  <1>2. IInv /\ All /\ [Next]_vars => All'
    <2> SUFFICES ASSUME IInv, All, [Next]_vars, NEW c \in Calls
                 PROVE  Served(c)'
      OBVIOUS
    <2>1. CASE UNCHANGED <<node, call, hist>>
      BY <2>1 DEF Served, Late, Chosen
    <2>2. ASSUME NEW d \in Calls, Step(d)
          PROVE  Served(c)'
      BY <2>2, StepServed, OthersServed
    <2>3. QED
      BY <2>1, <2>2, EnvironmentServed DEF Next, vars, BackgroundUpdate, Terminated
  <1>3. QED
    BY <1>1, <1>2, Invariance, PTL DEF Spec

\* Among any number of executions, one turns to a node before the node's
\* readmit time only if another one penalised the node after it asked.
THEOREM EarlyIfOvertaken == Spec => []EarlyOnlyIfOvertaken
  <1>1. IInv /\ (\A c \in Calls : Served(c)) => EarlyOnlyIfOvertaken
    <2> SUFFICES ASSUME IInv, NEW c \in Calls, Served(c), call[c].pc \in Turned,
                        ~hist[c].overtaken
                 PROVE  Late(call[c]) <= 0
      BY DEF EarlyOnlyIfOvertaken, Late, Turned
    <2>1. hist[c].overtaken \in BOOLEAN
      BY DEF IInv, History
    <2>2. Clear(hist[c])
      BY <2>1 DEF Clear
    <2>3. QED
      BY <2>2 DEF Served
  <1>2. QED
    BY <1>1, Invariance, AllServed, PTL

\* A lone execution turns to no node before the node's readmit time, whatever
\* its backoffs and however many nodes it has.
THEOREM PenaltiesServed == Spec => []PenaltyServed
  <1>1. (\A c \in Calls : Served(c)) => PenaltyServed
    BY DEF Served, PenaltyServed, Late, Turned
  <1>2. QED
    BY <1>1, AllServed, PTL

=============================================================================
