------------------------------ MODULE BaseNode ------------------------------
(***************************************************************************)
(* One node of a network as the SDK sees it (src/impl/BaseNode.cc,         *)
(* src/impl/Node.cc): its health, its backoff and its gRPC channel.        *)
(*                                                                         *)
(* The code only ever compares time points with "now", so a node keeps     *)
(* readmitIn = mReadmitTime - now instead of the time point, and the       *)
(* clock is the operator Elapse, which brings readmitIn one unit down.     *)
(* Every negative value behaves alike (mReadmitTime < now) and is -1: the  *)
(* state is finite without any bound on the clock.                         *)
(*                                                                         *)
(* An operator stands for one critical section under the node's own mutex. *)
(***************************************************************************)
EXTENDS Integers

CONSTANTS
  MinNodeBackoff,     \* mMinNodeBackoff, DEFAULT_MIN_NODE_BACKOFF
  MaxNodeBackoff,     \* mMaxNodeBackoff, DEFAULT_MAX_NODE_BACKOFF
  MaxBadStatus        \* bound: mBadGrpcStatusCount saturates here

ASSUME NodeAssumption ==
  /\ MinNodeBackoff \in Nat \ {0}
  /\ MaxNodeBackoff \in Nat
  /\ MinNodeBackoff <= MaxNodeBackoff
  /\ MaxBadStatus \in Nat

NodeState ==
  [ readmitIn           : -1 .. MaxNodeBackoff,
    mCurrentBackoff     : MinNodeBackoff .. MaxNodeBackoff,
    mBadGrpcStatusCount : 0 .. MaxBadStatus,
    mIsConnected        : BOOLEAN,
    mChannel            : BOOLEAN ]     \* the channel and the stubs exist

\* A node as constructed: mReadmitTime is the time of its construction.
NewNode ==
  [ readmitIn |-> 0, mCurrentBackoff |-> MinNodeBackoff,
    mBadGrpcStatusCount |-> 0, mIsConnected |-> FALSE, mChannel |-> FALSE ]

AtMost(x, bound)  == IF x > bound THEN bound ELSE x
AtLeast(x, bound) == IF x < bound THEN bound ELSE x

\* Mutant: the cap is forgotten.
increaseBackoffUncapped(n) ==
  [n EXCEPT !.readmitIn = n.mCurrentBackoff, !.mCurrentBackoff = 2 * @]

increaseBackoff(n) ==
  [n EXCEPT !.mBadGrpcStatusCount = AtMost(@ + 1, MaxBadStatus),
            !.readmitIn = n.mCurrentBackoff,
            !.mCurrentBackoff = AtMost(2 * @, MaxNodeBackoff)]

decreaseBackoff(n) ==
  [n EXCEPT !.mCurrentBackoff = AtLeast(@ \div 2, MinNodeBackoff)]

isHealthy(n) == n.readmitIn < 0

getRemainingTimeForBackoff(n) == n.readmitIn

\* channelFailedToConnect: nothing to do for a node that connected once; the
\* others create channel and stubs, then wait (GET_STATE_TIMEOUT at most).
needsConnection(n)   == ~n.mIsConnected
getChannel(n)        == [n EXCEPT !.mChannel = TRUE]
WaitForConnected(n, up) == [n EXCEPT !.mIsConnected = up]

\* close() and setAddress(): stubs and channel go, mIsConnected stays.
closeChannel(n) == [n EXCEPT !.mChannel = FALSE]

\* One unit of time passes.
Elapse(n) == [n EXCEPT !.readmitIn = AtLeast(@ - 1, -1)]

=============================================================================
