-------------------------------- MODULE Client --------------------------------
(***************************************************************************)
(* The life of a Client (src/Client.cc): its network update thread, which  *)
(* asks a mirror node for the address book (src/AddressBookQuery.cc) and   *)
(* renames the nodes of the network, and the application that sets the     *)
(* period, closes the client or moves it while the thread waits, asks or   *)
(* updates.  The mutex of the client is held for one step, so a critical   *)
(* section is an action.  One thread of the application uses the clients.  *)
(* What an update does to the network is module Network.                   *)
(***************************************************************************)
EXTENDS Integers

CONSTANTS
  Clients,         \* the Client objects
  First,           \* the one constructed first
  InitialDelay,    \* DEFAULT_NETWORK_UPDATE_INITIAL_DELAY
  DefaultPeriod,   \* DEFAULT_NETWORK_UPDATE_PERIOD
  Periods,         \* periods the user sets
  Addresses,       \* how many addresses the mirror node has
  MaxAttempts,     \* attempts of an address book query
  Checksums,       \* whether the operator's account ID may have a checksum
  MaxTime,         \* bound on the clock
  MaxCalls         \* bound on the calls of the user

ASSUME ClientAssumption ==
  /\ First \in Clients /\ Checksums \subseteq BOOLEAN
  /\ {InitialDelay, DefaultPeriod, Addresses, MaxAttempts, MaxTime, MaxCalls} \subseteq Nat
  /\ Periods \subseteq Nat

VARIABLES
  now,
  impl,     \* [Clients -> the state of the client, its thread included]
  call,     \* what the user is in: [op, on, from, period]
  calls,
  set,      \* history: the period the user set on a client, -1 before
  updated,  \* history: when the network of a client was updated, and with what
  promised  \* history: by when it would be updated next if nobody moved the client

userVars == <<call, calls, set>>
histories == <<updated, promised>>
vars == <<now, impl, userVars, histories>>

Idle    == [op |-> "idle", on |-> "none", from |-> "none", period |-> 0]
NoUpdate == [at |-> -1, due |-> -1, book |-> 0]
Never    == -1

\* Threads that have been started and not joined.
Running == {"waiting", "woken", "querying", "answered"}

NewImpl ==
  [ network |-> FALSE, mirror |-> FALSE, period |-> DefaultPeriod, made |-> FALSE,
    cancel |-> FALSE, waitFrom |-> 0, moved |-> FALSE,
    thread |-> "none", deadline |-> 0, attempt |-> 0, read |-> 0, book |-> 0 ]

\* The thread begins to wait at once.
startNetworkUpdateThread(m, period, time) ==
  [m EXCEPT !.waitFrom = time, !.period = period,
            !.thread = "waiting", !.deadline = time + period]

Constructed == startNetworkUpdateThread(NewImpl, InitialDelay, 0)

\* One client has been constructed, with the networks its maker (forName,
\* forNetwork, forMirrorNetwork) gives it; the others are about to be moved to.
Init ==
  /\ now = 0
  /\ \E network, mirror \in BOOLEAN :
       impl = [d \in Clients |->
                 IF d = First THEN [Constructed EXCEPT !.network = network, !.mirror = mirror]
                 ELSE NewImpl]
  /\ call = Idle /\ calls = 0
  /\ set = [c \in Clients |-> -1] /\ updated = [c \in Clients |-> NoUpdate]
  /\ promised = [c \in Clients |-> IF c = First THEN InitialDelay ELSE Never]

\* The period a client would have if it was never moved.
PeriodOf(m, period) ==
  IF period # -1 THEN period ELSE IF m.made THEN DefaultPeriod ELSE InitialDelay

-----------------------------------------------------------------------------
(***************************************************************************)
(* The user.                                                               *)
(***************************************************************************)
Call == call.op = "idle" /\ calls < MaxCalls /\ calls' = calls + 1

setNetwork(c) ==
  /\ Call /\ impl' = [impl EXCEPT ![c].network = TRUE]
  /\ UNCHANGED <<now, call, set, histories>>

setMirrorNetwork(c) ==
  /\ Call /\ impl' = [impl EXCEPT ![c].mirror = TRUE]
  /\ UNCHANGED <<now, call, set, histories>>

\* On a known network a checksum is validated with the ledger ID, for which the
\* client locks the mutex that this call holds: it never returns.
setOperator(c) ==
  /\ Call
  /\ \E checksum \in Checksums :
       call' = IF impl[c].network /\ checksum
               THEN [Idle EXCEPT !.op = "stuck", !.on = c] ELSE Idle
  /\ UNCHANGED <<now, impl, set, histories>>

Begin(op, c, d, period) ==
  /\ Call
  /\ call' = [op |-> op, on |-> c, from |-> d, period |-> period]
  /\ UNCHANGED <<now, impl, set, histories>>

\* Every one of these cancels the update thread first.
close(c) == Begin("close", c, c, 0)

setNetworkUpdatePeriod(c) == \E p \in Periods : Begin("period", c, c, p)

moveClient(c, d) == c # d /\ Begin("move", c, d, 0)

\* Mutant: the flag is reset before the thread has seen it.
cancelSignalReset(c) == impl' = [impl EXCEPT ![c].cancel = FALSE]

\* cancelScheduledNetworkUpdate: the flag is set under the mutex.
cancelSignal(c) == impl' = [impl EXCEPT ![c].cancel = TRUE]

Cancelling(c) ==
  /\ call.op # "idle" /\ call.op # "stuck"
  /\ c \in {call.on, call.from} /\ impl[c].thread # "none"
  /\ c = call.from => call.from = call.on \/ impl[call.on].thread = "none"

Cancel(c) ==
  /\ Cancelling(c) /\ impl[c].thread \in Running /\ ~impl[c].cancel
  /\ cancelSignal(c)
  /\ UNCHANGED <<now, userVars, histories>>

\* The join of a thread that has ended; a handle of a thread that has ended
\* before, after a failure, is joined too.  After it the flag is reset.
Join(c) ==
  /\ Cancelling(c) /\ impl[c].thread = "ended"
  /\ impl' = [impl EXCEPT ![c].thread = IF call.op = "move" /\ c = call.from THEN "joined" ELSE "none",
                          ![c].cancel = FALSE]
  /\ UNCHANGED <<now, userVars, histories>>

Return == call' = Idle /\ UNCHANGED <<now, calls, updated>>

closed ==
  /\ call.op = "close" /\ impl[call.on].thread = "none"
  /\ promised' = [promised EXCEPT ![call.on] = Never]
  /\ Return /\ UNCHANGED <<impl, set>>

periodSet ==
  /\ call.op = "period" /\ impl[call.on].thread = "none"
  /\ impl' = [impl EXCEPT ![call.on] =
                startNetworkUpdateThread([@ EXCEPT !.made = TRUE], call.period, now)]
  /\ set' = [set EXCEPT ![call.on] = call.period]
  /\ promised' = [promised EXCEPT ![call.on] = now + call.period]
  /\ Return

\* Mutant: the moved client waits for its whole period again.
movedAnew ==
  /\ call.op = "move" /\ impl[call.on].thread = "none" /\ impl[call.from].thread \in {"none", "joined"}
  /\ LET m == [impl[call.from] EXCEPT !.thread = "none", !.moved = TRUE]
         t == IF impl[call.from].thread = "joined"
              THEN startNetworkUpdateThread(m, m.period, now) ELSE m
     IN impl' = [impl EXCEPT ![call.on] = t, ![call.from] = NewImpl]
  /\ set' = [set EXCEPT ![call.on] = set[call.from], ![call.from] = -1]
  /\ promised' = [promised EXCEPT ![call.on] = promised[call.from], ![call.from] = Never]
  /\ Return

\* The thread of the other client starts here again, for the time that is left.
moved ==
  /\ call.op = "move" /\ impl[call.on].thread = "none" /\ impl[call.from].thread \in {"none", "joined"}
  /\ LET m == [impl[call.from] EXCEPT !.thread = "none", !.moved = TRUE]
         t == IF impl[call.from].thread = "joined"
              THEN startNetworkUpdateThread(m, m.waitFrom + m.period - now, now) ELSE m
     IN impl' = [impl EXCEPT ![call.on] = t, ![call.from] = NewImpl]
  /\ set' = [set EXCEPT ![call.on] = set[call.from], ![call.from] = -1]
  /\ promised' = [promised EXCEPT ![call.on] = promised[call.from], ![call.from] = Never]
  /\ Return

\* The rest of the call, after its first step.
Calling == (\E c \in Clients : Cancel(c) \/ Join(c)) \/ closed \/ periodSet \/ moved

User ==
  \/ \E c \in Clients :
       \/ setNetwork(c) \/ setMirrorNetwork(c) \/ setOperator(c)
       \/ close(c) \/ setNetworkUpdatePeriod(c)
       \/ \E d \in Clients : moveClient(c, d)
  \/ Calling

-----------------------------------------------------------------------------
(***************************************************************************)
(* The update thread of client c: scheduleNetworkUpdate.                   *)
(***************************************************************************)
\* The mutex can be had.
Unlocked(c) == ~(call.op = "stuck" /\ call.on = c)

Step(c, new) == impl' = [impl EXCEPT ![c] = new] /\ UNCHANGED <<now, userVars>>

Waits(m) ==
  [m EXCEPT !.thread = "waiting", !.deadline = now + m.period, !.attempt = 0,
            !.read = 0, !.book = 0]

Ended(m) == [m EXCEPT !.thread = "ended", !.attempt = 0, !.read = 0, !.book = 0]

Cancelled(c) ==
  /\ impl[c].thread = "waiting" /\ impl[c].cancel /\ Unlocked(c)
  /\ Step(c, Ended(impl[c])) /\ UNCHANGED histories

TimedOut(c) ==
  /\ impl[c].thread = "waiting" /\ ~impl[c].cancel /\ Unlocked(c)
  /\ now >= impl[c].deadline
  /\ Step(c, [impl[c] EXCEPT !.thread = "woken"]) /\ UNCHANGED histories

Skip(c) ==
  /\ impl[c].thread = "woken" /\ Unlocked(c) /\ ~(impl[c].mirror /\ impl[c].network)
  /\ Step(c, Waits(impl[c])) /\ UNCHANGED updated
  /\ promised' = [promised EXCEPT ![c] = now + PeriodOf(impl[c], set[c])]

Query(c) ==
  /\ impl[c].thread = "woken" /\ Unlocked(c) /\ impl[c].mirror /\ impl[c].network
  /\ Step(c, [impl[c] EXCEPT !.thread = "querying"]) /\ UNCHANGED histories

\* AddressBookQuery::execute reads the stream of one mirror node.
Read(c) ==
  /\ impl[c].thread = "querying" /\ impl[c].attempt < MaxAttempts /\ impl[c].read < Addresses
  /\ Step(c, [impl[c] EXCEPT !.read = @ + 1, !.book = @ + 1]) /\ UNCHANGED histories

\* Mutant: the addresses are collected outside the loop of the attempts.
RetryCollecting(c) ==
  /\ impl[c].thread = "querying" /\ impl[c].attempt < MaxAttempts
  /\ Step(c, [impl[c] EXCEPT !.attempt = @ + 1, !.read = 0]) /\ UNCHANGED histories

\* UNAVAILABLE, RESOURCE_EXHAUSTED or INTERNAL.
Retry(c) ==
  /\ impl[c].thread = "querying" /\ impl[c].attempt < MaxAttempts
  /\ Step(c, [impl[c] EXCEPT !.attempt = @ + 1, !.read = 0, !.book = 0])
  /\ UNCHANGED histories

\* Any other status is an answer, with the addresses read until then.
Finish(c) ==
  /\ impl[c].thread = "querying" /\ impl[c].attempt < MaxAttempts
  /\ Step(c, [impl[c] EXCEPT !.thread = "answered"]) /\ UNCHANGED histories

\* MaxAttemptsExceededException: the thread is over.
Fails(c) ==
  /\ impl[c].thread = "querying" /\ impl[c].attempt = MaxAttempts /\ Unlocked(c)
  /\ Step(c, Ended(impl[c])) /\ UNCHANGED updated
  /\ promised' = [promised EXCEPT ![c] = Never]

\* What one update does to the client.
Updated(m) ==
  [Waits([m EXCEPT !.period = IF m.made THEN @ ELSE DefaultPeriod])
     EXCEPT !.made = TRUE, !.waitFrom = now]

Applied(c) ==
  /\ Step(c, Updated(impl[c]))
  /\ updated' = [updated EXCEPT ![c] =
       [at |-> now, due |-> impl[c].waitFrom + impl[c].period, book |-> impl[c].book]]
  /\ promised' = [promised EXCEPT ![c] = now + PeriodOf(Updated(impl[c]), set[c])]

\* Mutant: the flag is not looked at again after the query.
UpdateUnchecked(c) == impl[c].thread = "answered" /\ Unlocked(c) /\ Applied(c)

Update(c) ==
  /\ impl[c].thread = "answered" /\ Unlocked(c)
  /\ \/ ~impl[c].cancel /\ Applied(c)
     \/ /\ impl[c].cancel /\ UNCHANGED histories
        /\ Step(c, Ended(impl[c]))

scheduleNetworkUpdate(c) ==
  \/ Cancelled(c) \/ TimedOut(c) \/ Skip(c) \/ Query(c) \/ Read(c) \/ Retry(c)
  \/ Finish(c) \/ Fails(c) \/ Update(c)

Tick == now < MaxTime /\ now' = now + 1 /\ UNCHANGED <<impl, userVars, histories>>

\* The bounds end here.
Rest == call.op \in {"idle", "stuck"} /\ now = MaxTime /\ UNCHANGED vars

Next ==
  \/ User \/ Tick \/ Rest
  \/ \E c \in Clients : scheduleNetworkUpdate(c)

Spec == Init /\ [][Next]_vars

\* Threads run, and a mirror node can be reached at last: a connection that
\* always fails keeps a query, and whoever joins it, for ever.
FairSpec ==
  /\ Spec /\ WF_vars(Calling)
  /\ \A c \in Clients : WF_vars(scheduleNetworkUpdate(c))

-----------------------------------------------------------------------------
\* Once a call has told the thread to stop, the network is left alone: also by
\* a query that was under way (Client::scheduleNetworkUpdate looks again).
NoUpdateOnceCancelled ==
  [][\A c \in Clients : impl[c].cancel => updated'[c] = updated[c]]_vars

\* A network is not updated before its time, whatever wakes the thread.
UpdatedInTime ==
  \A c \in Clients : updated[c].at >= updated[c].due

\* Moves neither lose nor put off an update, however many there are and whatever
\* the thread was doing (Client::moveClient restarts it with the time that is
\* left, which is also its period then): a client that is not closed, and no
\* query of which has failed, has a thread, and it waits no longer than that of
\* a client that was never moved.  It may wait less long.
PromiseKept ==
  \A c \in Clients :
    promised[c] # Never =>
      /\ call.op \in {"idle", "stuck"} => impl[c].thread \in Running
      /\ impl[c].thread = "waiting" => impl[c].deadline <= promised[c]

\* A period that the user has set is not replaced by the initial update; only a
\* move changes it (Client::setNetworkUpdatePeriod).
UserPeriodKept ==
  \A c \in Clients : set[c] # -1 /\ ~impl[c].moved => impl[c].period = set[c]

\* A book is what one attempt of the query has read, not a mixture of two.
BookOfOneAttempt ==
  \A c \in Clients : updated[c].book <= Addresses

\* An update comes in its time, of the period its user wants, with one attempt's
\* book.
SoundUpdates == UpdatedInTime /\ UserPeriodKept /\ BookOfOneAttempt

\* Whoever closes a client, sets its period or moves it gets back: the thread
\* sees the flag, waiting or asking, and is joined.  Only setOperator, which
\* locks the mutex it holds to check a checksum, may be stuck.
CallsReturn == call.op # "idle" ~> call.op \in {"idle", "stuck"}

=============================================================================
