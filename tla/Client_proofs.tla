---------------------------- MODULE Client_proofs ----------------------------
(***************************************************************************)
(* The update thread keeps to its time and to its client's wishes, for any *)
(* clients, periods, delays, addresses and attempts.                       *)
(***************************************************************************)
EXTENDS Client, TLAPS

-----------------------------------------------------------------------------
(***************************************************************************)
(* The inductive invariant.                                                *)
(***************************************************************************)
\* What a client keeps.  A moved client may have a negative period.
Threads == {"none", "waiting", "woken", "querying", "answered", "ended", "joined"}

ImplState ==
  [ network : BOOLEAN, mirror : BOOLEAN, period : Int, made : BOOLEAN,
    cancel : BOOLEAN, waitFrom : Int, moved : BOOLEAN,
    thread : Threads, deadline : Int, attempt : Nat, read : Nat, book : Nat ]

Typed ==
  /\ now \in Nat
  /\ impl \in [Clients -> ImplState]
  /\ call \in [op : {"idle", "stuck", "close", "period", "move"},
               on : Clients \cup {"none"}, from : Clients \cup {"none"}, period : Nat]
  /\ set \in [Clients -> Int]
  /\ updated \in [Clients -> [at : Int, due : Int, book : Int]]

\* A call that cancels is about one client, and a move about two.
Called ==
  /\ call.op \in {"close", "period", "move"} => call.on \in Clients /\ call.from \in Clients
  /\ call.op = "move" => call.on # call.from

\* A thread waits until its period has passed since the last update at least,
\* and asks only then; and a client never waits since a later time than now.
InTime(m, time) ==
  /\ m.waitFrom <= time
  /\ m.thread = "waiting" => m.waitFrom + m.period <= m.deadline
  /\ m.thread \in {"woken", "querying", "answered"} => m.waitFrom + m.period <= time

\* What was read is part of what one attempt has read.
OfOneAttempt(m) == m.book <= m.read /\ m.read <= Addresses

\* A period that the user set counts as set after the initial update.
Wanted(m, period) == period # -1 => m.made /\ (m.moved \/ m.period = period)

Sound(m, time, period) == InTime(m, time) /\ OfOneAttempt(m) /\ Wanted(m, period)

IInv ==
  /\ Typed /\ Called /\ SoundUpdates
  /\ \A c \in Clients : Sound(impl[c], now, set[c])

-----------------------------------------------------------------------------
(***************************************************************************)
(* What the operations on one client give.                                 *)
(***************************************************************************)
\* What the constants are.
LEMMA Numbers ==
  /\ First \in Clients
  /\ InitialDelay \in Nat /\ DefaultPeriod \in Nat /\ Addresses \in Nat /\ Periods \subseteq Nat
  BY ClientAssumption

\* A client that is about to be moved to has no thread and no period of its user.
LEMMA NewSound ==
  ASSUME NEW time \in Nat
  PROVE  NewImpl \in ImplState /\ Sound(NewImpl, time, -1)
  BY Numbers, SMT DEF NewImpl, ImplState, Threads, Sound, InTime, OfOneAttempt, Wanted

\* A thread that is started waits for its period.
LEMMA StartedSound ==
  ASSUME NEW m \in ImplState, NEW time \in Nat, NEW p \in Int, NEW wanted \in Int,
         OfOneAttempt(m), wanted # -1 => m.made /\ (m.moved \/ p = wanted)
  PROVE  /\ startNetworkUpdateThread(m, p, time) \in ImplState
         /\ Sound(startNetworkUpdateThread(m, p, time), time, wanted)
         /\ startNetworkUpdateThread(m, p, time).deadline = time + p
  <1> DEFINE s == startNetworkUpdateThread(m, p, time)
  <1>1. s = [m EXCEPT !.waitFrom = time, !.period = p, !.thread = "waiting", !.deadline = time + p]
    BY DEF startNetworkUpdateThread
  <1>2. time \in Int /\ time + p \in Int
    OBVIOUS
  <1> HIDE DEF s
  <1>3. s \in ImplState
    BY <1>1, <1>2 DEF ImplState, Threads
  <1>4. s.waitFrom = time /\ s.period = p /\ s.thread = "waiting" /\ s.deadline = time + p
        /\ s.read = m.read /\ s.book = m.book /\ s.made = m.made /\ s.moved = m.moved
    BY <1>1, <1>2 DEF ImplState
  <1>5. InTime(s, time)
    BY <1>4, SMT DEF InTime
  <1>6. QED
    BY <1>3, <1>4, <1>5 DEF s, Sound, OfOneAttempt, Wanted

\* The first client waits for the initial delay.
LEMMA InitIInv == Init => IInv
  <1> SUFFICES ASSUME Init PROVE IInv
    OBVIOUS
  <1>1. NewImpl \in ImplState /\ Sound(NewImpl, 0, -1)
    BY NewSound
  <1>2. Constructed \in ImplState /\ Sound(Constructed, 0, -1)
    BY <1>1, StartedSound, Numbers DEF Constructed, Sound
  <1>3. \A n, m \in BOOLEAN :
          /\ [Constructed EXCEPT !.network = n, !.mirror = m] \in ImplState
          /\ Sound([Constructed EXCEPT !.network = n, !.mirror = m], 0, -1)
    BY <1>2 DEF ImplState, Sound, InTime, OfOneAttempt, Wanted
  <1> HIDE DEF Constructed
  <1>4. now = 0 /\ \A c \in Clients : set[c] = -1
    BY DEF Init
  <1>5. \A c \in Clients : impl[c] \in ImplState /\ Sound(impl[c], now, set[c])
    BY <1>1, <1>3, <1>4 DEF Init
  <1>6. Typed
    BY <1>5 DEF Init, Typed, Idle, NoUpdate
  <1>7. Called
    BY DEF Init, Called, Idle
  <1>8. SoundUpdates
    BY Numbers, SMT DEF Init, SoundUpdates, UpdatedInTime, UserPeriodKept, BookOfOneAttempt, NoUpdate
  <1>9. QED
    BY <1>5, <1>6, <1>7, <1>8 DEF IInv

-----------------------------------------------------------------------------
(***************************************************************************)
(* Each step preserves it.                                                 *)
(***************************************************************************)
\* What was said of the updates stays true while none comes and the clients stay
\* sound.
LEMMA UpdatesStay ==
  ASSUME SoundUpdates, UNCHANGED updated,
         \A c \in Clients : Sound(impl[c], now, set[c])'
  PROVE  SoundUpdates'
  BY DEF SoundUpdates, UpdatedInTime, UserPeriodKept, BookOfOneAttempt, Sound, Wanted

\* A step of the user that changes one client in nothing that time, period or
\* book depend on.
LEMMA SameImpl ==
  ASSUME NEW m \in ImplState, NEW n \in ImplState, NEW time \in Nat, NEW wanted \in Int,
         Sound(m, time, wanted), n.waitFrom = m.waitFrom, n.period = m.period,
         n.deadline = m.deadline, n.read = m.read, n.book = m.book, n.made = m.made,
         n.moved = m.moved,
         n.thread \in {"waiting", "woken", "querying", "answered"} =>
           n.thread = m.thread \/ (m.thread \in {"woken", "querying"} /\ n.thread # "waiting")
  PROVE  Sound(n, time, wanted)
  BY SMT DEF Sound, InTime, OfOneAttempt, Wanted, ImplState

\* A thread that is over has neither a deadline nor a book.
LEMMA EndedSound ==
  ASSUME NEW m \in ImplState, NEW time \in Nat, NEW wanted \in Int, Sound(m, time, wanted)
  PROVE  Ended(m) \in ImplState /\ Sound(Ended(m), time, wanted)
  <1> DEFINE e == Ended(m)
  <1>1. e = [m EXCEPT !.thread = "ended", !.attempt = 0, !.read = 0, !.book = 0]
    BY DEF Ended
  <1> HIDE DEF e
  <1>2. e \in ImplState /\ e.waitFrom = m.waitFrom /\ e.period = m.period
        /\ e.thread = "ended" /\ e.read = 0 /\ e.book = 0
        /\ e.made = m.made /\ e.moved = m.moved
    BY <1>1 DEF ImplState, Threads
  <1>3. InTime(e, time) /\ Wanted(e, wanted)
    BY <1>2 DEF Sound, InTime, Wanted
  <1>4. OfOneAttempt(e)
    BY <1>2, Numbers, SMT DEF OfOneAttempt
  <1>5. QED
    BY <1>2, <1>3, <1>4 DEF e, Sound

\* A thread that waits again is due one period from now.
LEMMA WaitsFields ==
  ASSUME NEW m \in ImplState, now + m.period \in Int
  PROVE  /\ Waits(m) \in ImplState
         /\ Waits(m).thread = "waiting" /\ Waits(m).deadline = now + m.period
         /\ Waits(m).read = 0 /\ Waits(m).book = 0
         /\ Waits(m).waitFrom = m.waitFrom /\ Waits(m).period = m.period
         /\ Waits(m).made = m.made /\ Waits(m).moved = m.moved
  BY DEF Waits, ImplState, Threads

\* The state after a step that changes client c to m.
LEMMA OneChanges ==
  ASSUME IInv, NEW c \in Clients, NEW m \in ImplState, impl' = [impl EXCEPT ![c] = m],
         UNCHANGED <<now, set>>, Sound(m, now, set[c])
  PROVE  /\ impl' \in [Clients -> ImplState]
         /\ \A d \in Clients : Sound(impl[d], now, set[d])'
  <1>1. impl' \in [Clients -> ImplState] /\ impl'[c] = m
        /\ \A d \in Clients \ {c} : impl'[d] = impl[d]
    BY DEF IInv, Typed
  <1>2. ASSUME NEW d \in Clients PROVE Sound(impl'[d], now', set'[d])
    BY <1>1 DEF IInv
  <1>3. QED
    BY <1>1, <1>2

\* A step of the thread of client c that ends in m and updates nothing.
LEMMA StepKeeps ==
  ASSUME IInv, NEW c \in Clients, NEW m \in ImplState, Step(c, m), UNCHANGED updated,
         Sound(m, now, set[c])
  PROVE  IInv'
  <1>1. impl' = [impl EXCEPT ![c] = m] /\ UNCHANGED <<now, call, set>>
    BY DEF Step, userVars
  <1>2. impl' \in [Clients -> ImplState] /\ \A d \in Clients : Sound(impl[d], now, set[d])'
    BY <1>1, OneChanges
  <1>3. SoundUpdates'
    BY <1>2, UpdatesStay DEF IInv
  <1>4. QED
    BY <1>1, <1>2, <1>3 DEF IInv, Typed, Called

\* The setters.
LEMMA SettersKeep ==
  ASSUME IInv, NEW c \in Clients, setNetwork(c) \/ setMirrorNetwork(c) \/ setOperator(c)
  PROVE  IInv'
  <1>1. CASE setNetwork(c) \/ setMirrorNetwork(c)
    <2>1. PICK a \in BOOLEAN, b \in BOOLEAN :
            impl' = [impl EXCEPT ![c] = [impl[c] EXCEPT !.network = a, !.mirror = b]]
      <3>1. impl[c] \in ImplState
        BY DEF IInv, Typed
      <3>2. /\ [impl[c] EXCEPT !.network = TRUE]
               = [impl[c] EXCEPT !.network = TRUE, !.mirror = impl[c].mirror]
            /\ [impl[c] EXCEPT !.mirror = TRUE]
               = [impl[c] EXCEPT !.network = impl[c].network, !.mirror = TRUE]
            /\ impl[c].mirror \in BOOLEAN /\ impl[c].network \in BOOLEAN
        BY <3>1 DEF ImplState
      <3>3. QED
        BY <1>1, <3>2 DEF setNetwork, setMirrorNetwork
    <2> DEFINE m == [impl[c] EXCEPT !.network = a, !.mirror = b]
    <2>2. UNCHANGED <<now, call, set, updated>>
      BY <1>1 DEF setNetwork, setMirrorNetwork, histories
    <2>3. m \in ImplState /\ Sound(m, now, set[c])
      <3>1. impl[c] \in ImplState /\ Sound(impl[c], now, set[c]) /\ now \in Nat /\ set[c] \in Int
        BY DEF IInv, Typed
      <3>2. m \in ImplState /\ m.waitFrom = impl[c].waitFrom /\ m.period = impl[c].period
            /\ m.deadline = impl[c].deadline /\ m.read = impl[c].read /\ m.book = impl[c].book
            /\ m.made = impl[c].made /\ m.moved = impl[c].moved /\ m.thread = impl[c].thread
        BY <3>1 DEF ImplState
      <3> HIDE DEF m
      <3>3. QED
        BY <3>1, <3>2, SameImpl
    <2> HIDE DEF m
    <2>6. impl' = [impl EXCEPT ![c] = m]
      BY <2>1 DEF m
    <2>4. impl' \in [Clients -> ImplState] /\ \A d \in Clients : Sound(impl[d], now, set[d])'
      BY <2>2, <2>3, <2>6, OneChanges
    <2>5. QED
      BY <2>2, <2>4, UpdatesStay DEF IInv, Typed, Called
  <1>2. CASE setOperator(c)
    <2>1. UNCHANGED <<now, impl, set, updated>>
      BY <1>2 DEF setOperator, histories
    <2>2. call' = Idle \/ call' = [op |-> "stuck", on |-> c, from |-> "none", period |-> 0]
      BY <1>2 DEF setOperator, Idle
    <2>3. /\ call' \in [op : {"idle", "stuck", "close", "period", "move"},
                        on : Clients \cup {"none"}, from : Clients \cup {"none"}, period : Nat]
          /\ call'.op \in {"idle", "stuck"}
      BY <2>2 DEF Idle
    <2>4. Typed' /\ Called'
      BY <2>1, <2>3 DEF IInv, Typed, Called
    <2>5. \A d \in Clients : Sound(impl[d], now, set[d])'
      BY <2>1 DEF IInv
    <2>6. QED
      BY <2>1, <2>4, <2>5, UpdatesStay DEF IInv
  <1>3. QED
    BY <1>1, <1>2

\* A call that cancels begins.
LEMMA BeginKeeps ==
  ASSUME IInv, NEW c \in Clients, NEW d \in Clients,
         close(c) \/ setNetworkUpdatePeriod(c) \/ moveClient(c, d)
  PROVE  IInv'
  <1>1. UNCHANGED <<now, impl, set, updated>>
    BY DEF close, setNetworkUpdatePeriod, moveClient, Begin, histories
  <1>2. PICK op \in {"close", "period", "move"}, e \in Clients, p \in Nat :
          call' = [op |-> op, on |-> c, from |-> e, period |-> p] /\ (op = "move" => c # e)
    BY Numbers DEF close, setNetworkUpdatePeriod, moveClient, Begin
  <1>3. QED
    BY <1>1, <1>2 DEF IInv, Typed, Called, SoundUpdates, UpdatedInTime,
                      UserPeriodKept, BookOfOneAttempt

\* Telling a thread to stop and joining it change neither times nor books.
LEMMA CancelKeeps ==
  ASSUME IInv, NEW c \in Clients, Cancel(c) \/ Join(c)
  PROVE  IInv'
  <1>1. UNCHANGED <<now, call, set, updated>>
    BY DEF Cancel, Join, userVars, histories
  <1>2. PICK t \in {"none", "joined", impl[c].thread}, b \in BOOLEAN :
          impl' = [impl EXCEPT ![c] = [impl[c] EXCEPT !.thread = t, !.cancel = b]]
    <2>1. CASE Cancel(c)
      <3>1. impl' = [impl EXCEPT ![c] = [impl[c] EXCEPT !.thread = impl[c].thread, !.cancel = TRUE]]
        BY <2>1 DEF Cancel, cancelSignal, IInv, Typed, ImplState
      <3>2. QED
        BY <3>1
    <2>2. CASE Join(c)
      <3>1. PICK t \in {"none", "joined"} :
              impl' = [impl EXCEPT ![c] = [impl[c] EXCEPT !.thread = t, !.cancel = FALSE]]
        BY <2>2 DEF Join, IInv, Typed, ImplState
      <3>2. QED
        BY <3>1
    <2>3. QED
      BY <2>1, <2>2
  <1> DEFINE m == [impl[c] EXCEPT !.thread = t, !.cancel = b]
  <1>3. m \in ImplState /\ Sound(m, now, set[c])
    <2>1. impl[c] \in ImplState /\ Sound(impl[c], now, set[c]) /\ now \in Nat /\ set[c] \in Int
      BY DEF IInv, Typed
    <2>2. m \in ImplState /\ m.waitFrom = impl[c].waitFrom /\ m.period = impl[c].period
          /\ m.deadline = impl[c].deadline /\ m.read = impl[c].read /\ m.book = impl[c].book
          /\ m.made = impl[c].made /\ m.moved = impl[c].moved /\ m.thread = t
      BY <1>2, <2>1 DEF ImplState, Threads
    <2> HIDE DEF m
    <2>3. QED
      BY <1>2, <2>1, <2>2, SameImpl
  <1> HIDE DEF m
  <1>4. impl' \in [Clients -> ImplState] /\ \A d \in Clients : Sound(impl[d], now, set[d])'
    BY <1>1, <1>2, <1>3, OneChanges DEF m
  <1>5. QED
    BY <1>1, <1>4, UpdatesStay DEF IInv, Typed, Called

\* A call returns.
LEMMA ReturnKeeps ==
  ASSUME IInv, closed \/ periodSet
  PROVE  IInv'
  <1>1. call' = Idle /\ UNCHANGED <<now, updated>>
    BY DEF closed, periodSet, Return
  <1>2. CASE closed
    BY <1>1, <1>2 DEF closed, IInv, Typed, Called, Idle, SoundUpdates, UpdatedInTime,
                      UserPeriodKept, BookOfOneAttempt
  <1>3. CASE periodSet
    <2> DEFINE c == call.on
               made == [impl[c] EXCEPT !.made = TRUE]
               m == startNetworkUpdateThread(made, call.period, now)
    <2>1. c \in Clients /\ call.period \in Nat /\ now \in Nat
      BY <1>3 DEF periodSet, IInv, Typed, Called
    <2>2. made \in ImplState /\ OfOneAttempt(made) /\ made.made
      <3>1. impl[c] \in ImplState /\ Sound(impl[c], now, set[c])
        BY <2>1 DEF IInv, Typed
      <3>2. made \in ImplState /\ made.made
            /\ made.book = impl[c].book /\ made.read = impl[c].read
        BY <3>1 DEF ImplState
      <3> HIDE DEF made
      <3>3. QED
        BY <3>1, <3>2 DEF Sound, OfOneAttempt
    <2>3. m \in ImplState /\ Sound(m, now, call.period)
      <3> HIDE DEF made, c
      <3>1. call.period \in Int
        BY <2>1
      <3>2. call.period # -1 => made.made /\ (made.moved \/ call.period = call.period)
        BY <2>2
      <3>3. QED
        BY <2>1, <2>2, <3>1, <3>2, StartedSound
    <2>4. impl' = [impl EXCEPT ![c] = m] /\ set' = [set EXCEPT ![c] = call.period]
      BY <1>3 DEF periodSet
    <2> HIDE DEF m, made
    <2>5. impl' \in [Clients -> ImplState] /\ set' \in [Clients -> Int]
          /\ impl'[c] = m /\ set'[c] = call.period
          /\ \A d \in Clients \ {c} : impl'[d] = impl[d] /\ set'[d] = set[d]
      BY <2>1, <2>3, <2>4 DEF IInv, Typed
    <2>6. ASSUME NEW d \in Clients PROVE Sound(impl'[d], now', set'[d])
      BY <1>1, <2>3, <2>5 DEF IInv
    <2>7. SoundUpdates'
      BY <1>1, <2>6, UpdatesStay DEF IInv
    <2>8. QED
      BY <1>1, <2>5, <2>6, <2>7 DEF IInv, Typed, Called, Idle
  <1>4. QED
    BY <1>2, <1>3

\* A move: the client moved to waits for what was left of the other's period.
LEMMA MoveKeeps ==
  ASSUME IInv, moved
  PROVE  IInv'
  <1> DEFINE c == call.on
             d == call.from
             m == [impl[d] EXCEPT !.thread = "none", !.moved = TRUE]
             started == startNetworkUpdateThread(m, m.waitFrom + m.period - now, now)
             t == IF impl[d].thread = "joined" THEN started ELSE m
  <1>1. call.op = "move" /\ c \in Clients /\ d \in Clients /\ c # d /\ now \in Nat
        /\ impl[d] \in ImplState /\ Sound(impl[d], now, set[d]) /\ set[d] \in Int
    BY DEF moved, IInv, Typed, Called
  <1>2. impl' = [impl EXCEPT ![c] = t, ![d] = NewImpl]
        /\ set' = [set EXCEPT ![c] = set[d], ![d] = -1]
        /\ call' = Idle /\ UNCHANGED <<now, updated>>
    BY DEF moved, Return
  <1>3. m \in ImplState /\ m.thread = "none" /\ m.moved /\ m.waitFrom = impl[d].waitFrom
        /\ m.made = impl[d].made /\ m.read = impl[d].read /\ m.book = impl[d].book
    BY <1>1 DEF ImplState, Threads
  <1>4. Sound(m, now, set[d])
    BY <1>1, <1>3 DEF Sound, InTime, OfOneAttempt, Wanted
  <1>5. m.waitFrom + m.period - now \in Int
    BY <1>1, <1>3 DEF ImplState
  <1>6. started \in ImplState /\ Sound(started, now, set[d])
    BY <1>1, <1>3, <1>4, <1>5, StartedSound DEF Sound, Wanted
  <1>7. t \in ImplState /\ Sound(t, now, set[d])
    BY <1>3, <1>4, <1>6
  <1>8. NewImpl \in ImplState /\ Sound(NewImpl, now, -1)
    BY <1>1, NewSound
  <1> HIDE DEF c, d, m, started, t
  <1>9. impl' \in [Clients -> ImplState] /\ set' \in [Clients -> Int]
        /\ impl'[c] = t /\ set'[c] = set[d] /\ impl'[d] = NewImpl /\ set'[d] = -1
        /\ \A e \in Clients \ {c, d} : impl'[e] = impl[e] /\ set'[e] = set[e]
    BY <1>1, <1>2, <1>7, <1>8 DEF IInv, Typed
  <1>10. ASSUME NEW e \in Clients PROVE Sound(impl'[e], now', set'[e])
    BY <1>2, <1>7, <1>8, <1>9 DEF IInv
  <1>11. SoundUpdates'
    BY <1>2, <1>10, UpdatesStay DEF IInv
  <1>12. QED
    BY <1>2, <1>9, <1>10, <1>11 DEF IInv, Typed, Called, Idle

\* The thread of a client waits, wakes and asks.
LEMMA WaitKeeps ==
  ASSUME IInv, NEW c \in Clients, Cancelled(c) \/ TimedOut(c) \/ Skip(c) \/ Query(c) \/ Fails(c)
  PROVE  IInv'
  <1> DEFINE o == impl[c]
  <1>1. o \in ImplState /\ Sound(o, now, set[c]) /\ now \in Nat /\ set[c] \in Int
    BY DEF IInv, Typed
  <1>2. CASE Cancelled(c) \/ Fails(c)
    <2>1. Ended(o) \in ImplState /\ Sound(Ended(o), now, set[c])
      BY <1>1, EndedSound
    <2>2. QED
      BY <1>2, <2>1, StepKeeps DEF Cancelled, Fails, histories
  <1>3. CASE TimedOut(c)
    <2> DEFINE m == [o EXCEPT !.thread = "woken"]
    <2>1. o.waitFrom + o.period <= o.deadline /\ o.deadline <= now
      BY <1>1, <1>3, SMT DEF TimedOut, Sound, InTime, ImplState
    <2>2. m \in ImplState /\ m.waitFrom = o.waitFrom /\ m.period = o.period /\ m.thread = "woken"
          /\ m.read = o.read /\ m.book = o.book /\ m.made = o.made /\ m.moved = o.moved
      BY <1>1 DEF ImplState, Threads
    <2>3. o.waitFrom + o.period <= now
      BY <1>1, <2>1, SMT DEF ImplState
    <2>4. Sound(m, now, set[c])
      BY <1>1, <2>2, <2>3 DEF Sound, InTime, OfOneAttempt, Wanted
    <2>5. QED
      BY <1>3, <2>2, <2>4, StepKeeps DEF TimedOut, histories
  <1>4. CASE Skip(c)
    <2> DEFINE m == Waits(o)
    <2>1. now + o.period \in Int
      BY <1>1 DEF ImplState
    <2>2. m \in ImplState /\ m.waitFrom = o.waitFrom /\ m.period = o.period
          /\ m.thread = "waiting" /\ m.deadline = now + o.period
          /\ m.read = 0 /\ m.book = 0 /\ m.made = o.made /\ m.moved = o.moved
      BY <1>1, <2>1 DEF Waits, ImplState, Threads
    <2>3. InTime(m, now)
      BY <1>1, <2>2, SMT DEF InTime, Sound, ImplState
    <2>4. Sound(m, now, set[c])
      BY <1>1, <2>2, <2>3, Numbers DEF Sound, OfOneAttempt, Wanted
    <2>5. QED
      BY <1>4, <2>2, <2>4, StepKeeps DEF Skip, histories
  <1>5. CASE Query(c)
    <2> DEFINE m == [o EXCEPT !.thread = "querying"]
    <2>1. m \in ImplState /\ Sound(m, now, set[c])
      <3>1. m \in ImplState /\ m.waitFrom = o.waitFrom /\ m.period = o.period
            /\ m.deadline = o.deadline /\ m.read = o.read /\ m.book = o.book
            /\ m.made = o.made /\ m.moved = o.moved /\ m.thread = "querying"
        BY <1>1 DEF ImplState, Threads
      <3>2. o.thread = "woken"
        BY <1>5 DEF Query
      <3> HIDE DEF m
      <3>3. QED
        BY <1>1, <3>1, <3>2, SameImpl
    <2>2. QED
      BY <1>5, <2>1, StepKeeps DEF Query, histories
  <1>6. QED
    BY <1>2, <1>3, <1>4, <1>5

\* The address book query: a new attempt begins with an empty book.
LEMMA QueryKeeps ==
  ASSUME IInv, NEW c \in Clients, Read(c) \/ Retry(c) \/ Finish(c)
  PROVE  IInv'
  <1> DEFINE o == impl[c]
  <1>1. o \in ImplState /\ Sound(o, now, set[c]) /\ now \in Nat /\ set[c] \in Int
    BY DEF IInv, Typed
  <1>2. CASE Read(c)
    <2> DEFINE m == [o EXCEPT !.read = @ + 1, !.book = @ + 1]
    <2>1. m \in ImplState /\ m.read = o.read + 1 /\ m.book = o.book + 1
          /\ m.waitFrom = o.waitFrom /\ m.period = o.period /\ m.thread = o.thread
          /\ m.deadline = o.deadline /\ m.made = o.made /\ m.moved = o.moved
      <3>1. o.read + 1 \in Nat /\ o.book + 1 \in Nat
        BY <1>1 DEF ImplState
      <3>2. QED
        BY <1>1, <3>1 DEF ImplState
    <2>2. o.read < Addresses /\ o.read \in Nat /\ o.book \in Nat
      BY <1>1, <1>2 DEF Read, ImplState
    <2>3. OfOneAttempt(m)
      BY <1>1, <2>1, <2>2, Numbers, SMT DEF OfOneAttempt, Sound
    <2>4. Sound(m, now, set[c])
      BY <1>1, <2>1, <2>3 DEF Sound, InTime, Wanted
    <2>5. QED
      BY <1>2, <2>1, <2>4, StepKeeps DEF Read, histories
  <1>3. CASE Retry(c)
    <2> DEFINE m == [o EXCEPT !.attempt = @ + 1, !.read = 0, !.book = 0]
    <2>1. m \in ImplState /\ Sound(m, now, set[c])
      <3>1. o.attempt + 1 \in Nat
        BY <1>1 DEF ImplState
      <3>2. m \in ImplState /\ m.waitFrom = o.waitFrom /\ m.period = o.period
            /\ m.deadline = o.deadline /\ m.read = 0 /\ m.book = 0
            /\ m.made = o.made /\ m.moved = o.moved /\ m.thread = o.thread
        BY <1>1, <3>1 DEF ImplState
      <3> HIDE DEF m
      <3>3. OfOneAttempt(m)
        BY <3>2, Numbers, SMT DEF OfOneAttempt
      <3>4. QED
        BY <1>1, <3>2, <3>3 DEF Sound, InTime, Wanted
    <2>2. QED
      BY <1>3, <2>1, StepKeeps DEF Retry, histories
  <1>4. CASE Finish(c)
    <2> DEFINE m == [o EXCEPT !.thread = "answered"]
    <2>1. m \in ImplState /\ Sound(m, now, set[c])
      <3>1. m \in ImplState /\ m.waitFrom = o.waitFrom /\ m.period = o.period
            /\ m.deadline = o.deadline /\ m.read = o.read /\ m.book = o.book
            /\ m.made = o.made /\ m.moved = o.moved /\ m.thread = "answered"
        BY <1>1 DEF ImplState, Threads
      <3>2. o.thread = "querying"
        BY <1>4 DEF Finish
      <3> HIDE DEF m
      <3>3. QED
        BY <1>1, <3>1, <3>2, SameImpl
    <2>2. QED
      BY <1>4, <2>1, StepKeeps DEF Finish, histories
  <1>5. QED
    BY <1>2, <1>3, <1>4

\* An update comes in its time, and the next is due one period later.
LEMMA UpdateKeeps ==
  ASSUME IInv, NEW c \in Clients, Update(c)
  PROVE  IInv'
  <1> DEFINE o == impl[c]
             m == Updated(o)
             p == IF o.made THEN o.period ELSE DefaultPeriod
  <1>1. o \in ImplState /\ Sound(o, now, set[c]) /\ now \in Nat /\ set[c] \in Int
    BY DEF IInv, Typed
  <1>2. CASE impl[c].cancel
    <2>1. Ended(o) \in ImplState /\ Sound(Ended(o), now, set[c])
      BY <1>1, EndedSound
    <2>2. QED
      BY <1>2, <2>1, StepKeeps DEF Update, histories
  <1>3. CASE ~impl[c].cancel
    <2>1. impl' = [impl EXCEPT ![c] = m] /\ UNCHANGED <<now, call, set>>
          /\ o.thread = "answered"
          /\ updated' = [updated EXCEPT ![c] =
               [at |-> now, due |-> o.waitFrom + o.period, book |-> o.book]]
      BY <1>3 DEF Update, Applied, Step, userVars
    <2>2. p \in Int /\ now + p \in Int /\ (o.made => p = o.period)
      BY <1>1, Numbers DEF ImplState
    <2>3. m \in ImplState /\ m.waitFrom = now /\ m.period = p /\ m.thread = "waiting"
          /\ m.deadline = now + p /\ m.read = 0 /\ m.book = 0 /\ m.made /\ m.moved = o.moved
      <3> DEFINE n == [o EXCEPT !.period = p]
      <3>1. n \in ImplState /\ n.period = p /\ n.moved = o.moved
        BY <1>1, <2>2 DEF ImplState
      <3> HIDE DEF n, p
      <3>2. m = [Waits(n) EXCEPT !.made = TRUE, !.waitFrom = now]
        BY DEF Updated, n, p
      <3>3. Waits(n) \in ImplState /\ Waits(n).period = p /\ Waits(n).thread = "waiting"
            /\ Waits(n).deadline = now + p /\ Waits(n).read = 0 /\ Waits(n).book = 0
            /\ Waits(n).moved = o.moved
        BY <2>2, <3>1, WaitsFields
      <3> DEFINE w == Waits(n)
      <3> HIDE DEF m, w
      <3>4. m = [w EXCEPT !.made = TRUE, !.waitFrom = now]
        BY <3>2 DEF w
      <3>5. w \in ImplState /\ w.period = p /\ w.thread = "waiting"
            /\ w.deadline = now + p /\ w.read = 0 /\ w.book = 0 /\ w.moved = o.moved
        BY <3>3 DEF w
      <3>6. m \in ImplState
        <4>1. now \in Int /\ TRUE \in BOOLEAN
          BY <1>1
        <4>2. QED
          BY <3>4, <3>5, <4>1 DEF ImplState
      <3>7. /\ m.waitFrom = now /\ m.made = TRUE
            /\ m.period = w.period /\ m.thread = w.thread /\ m.deadline = w.deadline
            /\ m.read = w.read /\ m.book = w.book /\ m.moved = w.moved
        BY <3>4, <3>5 DEF ImplState
      <3>8. QED
        BY <3>5, <3>6, <3>7
    <2> HIDE DEF p, m
    <2>4. InTime(m, now)
      BY <1>1, <2>2, <2>3, SMT DEF InTime
    <2>5. Sound(m, now, set[c])
      BY <1>1, <2>2, <2>3, <2>4, Numbers DEF Sound, OfOneAttempt, Wanted
    <2>6. impl' \in [Clients -> ImplState] /\ \A d \in Clients : Sound(impl[d], now, set[d])'
      BY <2>1, <2>3, <2>5, OneChanges
    <2>7. o.waitFrom + o.period <= now /\ o.waitFrom + o.period \in Int
          /\ o.book \in Int /\ o.book <= Addresses
      BY <1>1, <2>1, Numbers, SMT DEF Sound, InTime, OfOneAttempt, ImplState
    <2>8. updated' \in [Clients -> [at : Int, due : Int, book : Int]]
          /\ updated'[c] = [at |-> now, due |-> o.waitFrom + o.period, book |-> o.book]
          /\ \A d \in Clients \ {c} : updated'[d] = updated[d]
      BY <1>1, <2>1, <2>7 DEF IInv, Typed
    <2>9. SoundUpdates'
      <3>1. UpdatedInTime'
        BY <2>7, <2>8 DEF IInv, SoundUpdates, UpdatedInTime
      <3>2. UserPeriodKept'
        BY <2>6 DEF UserPeriodKept, Sound, Wanted
      <3>3. BookOfOneAttempt'
        BY <2>7, <2>8 DEF IInv, SoundUpdates, BookOfOneAttempt
      <3>4. QED
        BY <3>1, <3>2, <3>3 DEF SoundUpdates
    <2>10. QED
      BY <2>1, <2>6, <2>8, <2>9 DEF IInv, Typed, Called
  <1>4. QED
    BY <1>2, <1>3

\* One lemma for each kind of step; the rest changes no client.
LEMMA NextIInv == IInv /\ [Next]_vars => IInv'
  <1> SUFFICES ASSUME IInv, [Next]_vars PROVE IInv'
    OBVIOUS
  <1>1. CASE User
    BY <1>1, SettersKeep, BeginKeeps, CancelKeeps, ReturnKeeps, MoveKeeps DEF User, Calling
  <1>2. ASSUME NEW c \in Clients, scheduleNetworkUpdate(c) PROVE IInv'
    BY <1>2, WaitKeeps, QueryKeeps, UpdateKeeps DEF scheduleNetworkUpdate
  <1>3. CASE Tick
    <2>1. now' = now + 1 /\ now \in Nat /\ UNCHANGED <<impl, call, set, updated>>
      BY <1>3 DEF Tick, userVars, histories, IInv, Typed
    <2>2. ASSUME NEW c \in Clients PROVE Sound(impl'[c], now', set'[c])
      <3>1. impl[c] \in ImplState /\ InTime(impl[c], now)
        BY DEF IInv, Typed, Sound
      <3>2. InTime(impl[c], now + 1)
        BY <2>1, <3>1, SMT DEF InTime, ImplState
      <3>3. QED
        BY <2>1, <3>2 DEF IInv, Sound
    <2>3. QED
      BY <2>1, <2>2, UpdatesStay DEF IInv, Typed, Called
  <1>4. CASE Rest \/ UNCHANGED vars
    BY <1>4 DEF Rest, vars, userVars, histories, IInv, Typed, Called, SoundUpdates, UpdatedInTime,
                UserPeriodKept, BookOfOneAttempt
  <1>5. QED
    BY <1>1, <1>2, <1>3, <1>4 DEF Next

\* It holds in every reachable state.
LEMMA Invariant == Spec => []IInv
  BY InitIInv, NextIInv, PTL DEF Spec

-----------------------------------------------------------------------------
(***************************************************************************)
(* The theorems.                                                           *)
(***************************************************************************)
\* An update comes in its time, of the period its user wants, with the book of
\* one attempt, through any cancels, moves and failed attempts
\* (Client::scheduleNetworkUpdate).
THEOREM UpdatesSound == Spec => []SoundUpdates
  BY Invariant, PTL DEF IInv

\* The network is left alone once a call has told the thread to stop, also by a
\* query that was under way (Client::cancelScheduledNetworkUpdate).
THEOREM NothingOnceCancelled == Spec => NoUpdateOnceCancelled
  <1> DEFINE A == \A c \in Clients : impl[c].cancel => updated'[c] = updated[c]
  <1>1. ASSUME IInv, [Next]_vars PROVE [A]_vars
    <2> SUFFICES ASSUME Next PROVE A
      BY <1>1
    <2>1. ASSUME NEW c \in Clients, ~impl[c].cancel, Applied(c) PROVE A
      BY <1>1, <2>1 DEF Applied, IInv, Typed
    <2>2. CASE updated' = updated
      BY <2>2
    <2>3. updated' = updated \/ \E c \in Clients : ~impl[c].cancel /\ Applied(c)
      BY DEF Next, User, Calling, Tick, Rest, setNetwork, setMirrorNetwork, setOperator, close,
             setNetworkUpdatePeriod, moveClient, Begin, Cancel, Join, closed, periodSet, moved,
             Return, scheduleNetworkUpdate, Cancelled, TimedOut, Skip, Query, Read, Retry,
             Finish, Fails, Update, histories, vars
    <2>4. QED
      BY <2>1, <2>2, <2>3
  <1>2. QED
    BY <1>1, Invariant, PTL DEF Spec, NoUpdateOnceCancelled

-----------------------------------------------------------------------------
(***************************************************************************)
(* Promises: a second invariant, on top of the first.                      *)
(***************************************************************************)
\* The call under way tells the thread of client c to stop.
Stopping(c) == call.op \in {"close", "period", "move"} /\ c \in {call.on, call.from}

\* How far it has come with a client m that had a thread.
Stopped(m, c) ==
  \/ m.thread = "ended"
  \/ m.thread = "joined" /\ call.op = "move" /\ c = call.from
  \/ m.thread = "none" /\ c = call.on

\* The period is no longer than that of a client that was never moved, and what
\* the time since the last update leaves of it, or the wait, ends as promised.
Timely(m, promise, period) ==
  /\ m.thread # "none" => m.period <= PeriodOf(m, period)
  /\ promise # Never /\ m.thread # "none" => m.waitFrom + m.period <= promise
  /\ promise # Never /\ m.thread = "waiting" => m.deadline <= promise

\* A flag is set by a call that is under way, and a thread whose update is
\* promised runs unless such a call has stopped it.
Alive(m, promise, c) ==
  /\ m.cancel => Stopping(c) /\ m.thread \in Running \cup {"ended"}
  /\ promise # Never => m.thread \in Running \/ (Stopping(c) /\ Stopped(m, c))

Kept ==
  /\ promised \in [Clients -> Int]
  /\ call.op \in {"close", "period"} => call.on = call.from
  /\ \A c \in Clients : Timely(impl[c], promised[c], set[c]) /\ Alive(impl[c], promised[c], c)

\* The period of a client that was never moved.
LEMMA PeriodType ==
  ASSUME NEW m \in ImplState, NEW wanted \in Int
  PROVE  PeriodOf(m, wanted) \in Int
  BY Numbers DEF PeriodOf

LEMMA InitKept == Init => Kept
  <1> SUFFICES ASSUME Init PROVE Kept
    OBVIOUS
  <1>1. NewImpl.thread = "none" /\ NewImpl.cancel = FALSE
    BY DEF NewImpl
  <1>2. \A n, m \in BOOLEAN :
          LET o == [Constructed EXCEPT !.network = n, !.mirror = m]
          IN  /\ o.thread = "waiting" /\ o.cancel = FALSE /\ o.made = FALSE
              /\ o.period = InitialDelay /\ o.waitFrom = 0 /\ o.deadline = 0 + InitialDelay
    BY DEF Constructed, startNetworkUpdateThread, NewImpl
  <1>3. PICK n \in BOOLEAN, m \in BOOLEAN :
          impl = [d \in Clients |->
                    IF d = First THEN [Constructed EXCEPT !.network = n, !.mirror = m] ELSE NewImpl]
    BY DEF Init
  <1> DEFINE o == [Constructed EXCEPT !.network = n, !.mirror = m]
  <1>4. /\ o.thread = "waiting" /\ o.cancel = FALSE /\ o.made = FALSE
        /\ o.period = InitialDelay /\ o.waitFrom = 0 /\ o.deadline = InitialDelay
    BY <1>2, Numbers
  <1> HIDE DEF o
  <1>5. Timely(o, InitialDelay, -1) /\ Alive(o, InitialDelay, First)
    BY <1>4, Numbers, SMT DEF Timely, Alive, PeriodOf, Running
  <1>6. \A c \in Clients : Timely(NewImpl, Never, -1) /\ Alive(NewImpl, Never, c)
    BY <1>1 DEF Timely, Alive
  <1>7. promised \in [Clients -> Int] /\ call.op = "idle"
    BY Numbers DEF Init, Never, Idle
  <1>8. \A c \in Clients : /\ impl[c] = IF c = First THEN o ELSE NewImpl
                           /\ promised[c] = IF c = First THEN InitialDelay ELSE Never
                           /\ set[c] = -1
    BY <1>3 DEF Init, o
  <1>9. QED
    BY <1>5, <1>6, <1>7, <1>8 DEF Kept

\* A step that changes client c, and what is promised of it.
LEMMA OneKept ==
  ASSUME IInv, Kept, NEW c \in Clients, NEW m, NEW promise \in Int,
         impl' = [impl EXCEPT ![c] = m], promised' = [promised EXCEPT ![c] = promise],
         UNCHANGED <<call, set>>, Timely(m, promise, set[c]), Alive(m, promise, c)
  PROVE  Kept'
  <1>1. /\ promised' \in [Clients -> Int] /\ impl'[c] = m /\ promised'[c] = promise
        /\ \A d \in Clients \ {c} : impl'[d] = impl[d] /\ promised'[d] = promised[d]
    BY DEF IInv, Typed, Kept
  <1>2. ASSUME NEW d \in Clients
        PROVE  Timely(impl'[d], promised'[d], set'[d])
    <2>1. Timely(impl[d], promised[d], set[d])
      BY DEF Kept
    <2>2. CASE d = c
      BY <1>1, <2>2
    <2>3. CASE d # c
      BY <1>1, <2>1, <2>3
    <2>4. QED
      BY <2>2, <2>3
  <1>3. ASSUME NEW d \in Clients
        PROVE  Alive(impl[d], promised[d], d)'
    <2>1. Alive(impl[d], promised[d], d)
      BY DEF Kept
    <2>2. CASE d = c
      BY <1>1, <2>2 DEF Alive, Stopping, Stopped
    <2>3. CASE d # c
      BY <1>1, <2>1, <2>3 DEF Alive, Stopping, Stopped
    <2>4. QED
      BY <2>2, <2>3
  <1>4. ASSUME NEW d \in Clients
        PROVE  Timely(impl[d], promised[d], set[d])'
    BY <1>2 DEF Timely, PeriodOf
  <1>5. QED
    BY <1>1, <1>3, <1>4 DEF Kept

\* A step that changes nothing of client c that the promise depends on, but that
\* a running thread runs on.
LEMMA SameKept ==
  ASSUME IInv, Kept, NEW c \in Clients, NEW m,
         impl' = [impl EXCEPT ![c] = m], UNCHANGED <<call, set, promised>>,
         m.waitFrom = impl[c].waitFrom, m.period = impl[c].period, m.made = impl[c].made,
         m.deadline = impl[c].deadline, m.cancel = impl[c].cancel,
         \/ m.thread = impl[c].thread
         \/ impl[c].thread \in Running /\ m.thread \in Running \ {"waiting"}
  PROVE  Kept'
  <1>1. Timely(impl[c], promised[c], set[c]) /\ Alive(impl[c], promised[c], c)
        /\ promised[c] \in Int /\ promised' = [promised EXCEPT ![c] = promised[c]]
    BY DEF Kept
  <1>2. Timely(m, promised[c], set[c])
    BY <1>1 DEF Timely, PeriodOf, Running
  <1>3. Alive(m, promised[c], c)
    BY <1>1 DEF Alive, Stopped, Running
  <1>4. QED
    BY <1>1, <1>2, <1>3, OneKept

\* A thread that was told to stop ends.
LEMMA EndKept ==
  ASSUME IInv, Kept, NEW c \in Clients, impl[c].cancel, impl[c].thread \in Running,
         impl' = [impl EXCEPT ![c] = Ended(impl[c])], UNCHANGED <<call, set, promised>>
  PROVE  Kept'
  <1> DEFINE m == Ended(impl[c])
  <1>1. Timely(impl[c], promised[c], set[c]) /\ Alive(impl[c], promised[c], c)
        /\ promised[c] \in Int /\ promised' = [promised EXCEPT ![c] = promised[c]]
        /\ impl[c] \in ImplState
    BY DEF Kept, IInv, Typed
  <1>2. /\ m.thread = "ended" /\ m.period = impl[c].period /\ m.waitFrom = impl[c].waitFrom
        /\ m.made = impl[c].made /\ m.cancel = impl[c].cancel
    BY <1>1 DEF Ended, ImplState
  <1> HIDE DEF m
  <1>3. Timely(m, promised[c], set[c])
    BY <1>1, <1>2 DEF Timely, PeriodOf, Running
  <1>4. Alive(m, promised[c], c)
    BY <1>1, <1>2 DEF Alive, Stopped
  <1>5. QED
    BY <1>1, <1>3, <1>4, OneKept DEF m

\* A setter begins and ends, or a call that cancels begins: no call was under way.
LEMMA CallKept ==
  ASSUME IInv, Kept, NEW c \in Clients, NEW d \in Clients,
         \/ setNetwork(c) \/ setMirrorNetwork(c) \/ setOperator(c)
         \/ close(c) \/ setNetworkUpdatePeriod(c) \/ moveClient(c, d)
  PROVE  Kept'
  <1>1. impl[c] \in ImplState
    BY DEF IInv, Typed
  <1>2. CASE setNetwork(c)
    <2> DEFINE m == [impl[c] EXCEPT !.network = TRUE]
    <2>1. impl' = [impl EXCEPT ![c] = m] /\ UNCHANGED <<call, set, promised>>
      BY <1>2 DEF setNetwork, histories
    <2>2. /\ m.waitFrom = impl[c].waitFrom /\ m.period = impl[c].period /\ m.made = impl[c].made
          /\ m.deadline = impl[c].deadline /\ m.cancel = impl[c].cancel /\ m.thread = impl[c].thread
      BY <1>1 DEF ImplState
    <2> HIDE DEF m
    <2>3. QED
      BY <2>1, <2>2, SameKept
  <1>3. CASE setMirrorNetwork(c)
    <2> DEFINE m == [impl[c] EXCEPT !.mirror = TRUE]
    <2>1. impl' = [impl EXCEPT ![c] = m] /\ UNCHANGED <<call, set, promised>>
      BY <1>3 DEF setMirrorNetwork, histories
    <2>2. /\ m.waitFrom = impl[c].waitFrom /\ m.period = impl[c].period /\ m.made = impl[c].made
          /\ m.deadline = impl[c].deadline /\ m.cancel = impl[c].cancel /\ m.thread = impl[c].thread
      BY <1>1 DEF ImplState
    <2> HIDE DEF m
    <2>3. QED
      BY <2>1, <2>2, SameKept
  <1>4. CASE setOperator(c) \/ close(c) \/ setNetworkUpdatePeriod(c) \/ moveClient(c, d)
    <2>1. UNCHANGED <<impl, set, promised>> /\ call.op = "idle"
      BY <1>4 DEF setOperator, close, setNetworkUpdatePeriod, moveClient, Begin, Call, histories
    <2>2. call'.op \in {"close", "period"} => call'.on = call'.from
      <3>1. CASE setOperator(c)
        <4>1. call' = Idle \/ call' = [op |-> "stuck", on |-> c, from |-> "none", period |-> 0]
          BY <3>1 DEF setOperator, Idle
        <4>2. QED
          BY <4>1 DEF Idle
      <3>2. CASE close(c) \/ setNetworkUpdatePeriod(c) \/ moveClient(c, d)
        BY <3>2 DEF close, setNetworkUpdatePeriod, moveClient, Begin
      <3>3. QED
        BY <1>4, <3>1, <3>2
    <2>3. ASSUME NEW e \in Clients
          PROVE  Timely(impl[e], promised[e], set[e])' /\ Alive(impl[e], promised[e], e)'
      <3>1. Timely(impl[e], promised[e], set[e]) /\ Alive(impl[e], promised[e], e)
        BY DEF Kept
      <3>2. ~Stopping(e)
        BY <2>1 DEF Stopping
      <3>3. QED
        BY <2>1, <3>1, <3>2 DEF Timely, PeriodOf, Alive
    <2>4. QED
      BY <2>1, <2>2, <2>3 DEF Kept
  <1>5. QED
    BY <1>2, <1>3, <1>4

\* A call tells a thread to stop, and joins it.
LEMMA StopKept ==
  ASSUME IInv, Kept, NEW c \in Clients, Cancel(c) \/ Join(c)
  PROVE  Kept'
  <1>1. /\ impl[c] \in ImplState /\ promised[c] \in Int
        /\ Timely(impl[c], promised[c], set[c]) /\ Alive(impl[c], promised[c], c)
        /\ UNCHANGED <<call, set>> /\ promised' = [promised EXCEPT ![c] = promised[c]]
    BY DEF IInv, Typed, Kept, Cancel, Join, userVars, histories
  <1>2. Stopping(c) /\ (c # call.on => call.op = "move" /\ c = call.from)
    BY DEF Cancel, Join, Cancelling, Stopping, IInv, Typed, Kept
  <1>3. CASE Cancel(c)
    <2> DEFINE m == [impl[c] EXCEPT !.cancel = TRUE]
    <2>1. impl' = [impl EXCEPT ![c] = m] /\ impl[c].thread \in Running
      BY <1>3 DEF Cancel, cancelSignal
    <2>2. /\ m.waitFrom = impl[c].waitFrom /\ m.period = impl[c].period /\ m.made = impl[c].made
          /\ m.deadline = impl[c].deadline /\ m.thread = impl[c].thread
      BY <1>1 DEF ImplState
    <2> HIDE DEF m
    <2>3. Timely(m, promised[c], set[c]) /\ Alive(m, promised[c], c)
      BY <1>1, <1>2, <2>1, <2>2 DEF Timely, PeriodOf, Alive
    <2>4. QED
      BY <1>1, <2>1, <2>3, OneKept
  <1>4. CASE Join(c)
    <2> DEFINE t == IF call.op = "move" /\ c = call.from THEN "joined" ELSE "none"
               m == [impl[c] EXCEPT !.thread = t, !.cancel = FALSE]
    <2>1. impl' = [impl EXCEPT ![c] = m] /\ impl[c].thread = "ended"
      BY <1>4 DEF Join
    <2>2. /\ m.waitFrom = impl[c].waitFrom /\ m.period = impl[c].period /\ m.made = impl[c].made
          /\ m.thread = t /\ m.cancel = FALSE
      BY <1>1 DEF ImplState
    <2> HIDE DEF m
    <2>3. Timely(m, promised[c], set[c]) /\ Alive(m, promised[c], c)
      BY <1>1, <1>2, <2>1, <2>2 DEF Timely, PeriodOf, Alive, Stopped
    <2>4. QED
      BY <1>1, <2>1, <2>3, OneKept
  <1>5. QED
    BY <1>3, <1>4

\* A call returns that was about one client.
LEMMA ReturnKept ==
  ASSUME IInv, Kept, closed \/ periodSet
  PROVE  Kept'
  <1> DEFINE c == call.on
  <1>1. /\ c \in Clients /\ call.from = c /\ call'.op = "idle" /\ impl[c].thread = "none"
        /\ impl[c] \in ImplState /\ now \in Nat /\ call.period \in Nat
    BY DEF closed, periodSet, Return, Idle, IInv, Typed, Called, Kept
  <1>2. ~impl[c].cancel
    BY <1>1 DEF Kept, Alive, Running
  <1>3. ASSUME NEW e \in Clients, e # c
        PROVE  /\ Timely(impl[e], promised[e], set[e]) /\ Alive(impl[e], promised[e], e)
               /\ ~Stopping(e)
    BY <1>1, <1>3 DEF Kept, Stopping
  <1>4. CASE closed
    <2>1. /\ UNCHANGED <<impl, set>> /\ promised' \in [Clients -> Int] /\ promised'[c] = Never
          /\ \A e \in Clients \ {c} : promised'[e] = promised[e]
      BY <1>1, <1>4 DEF closed, Kept, Never
    <2>2. impl'[c].thread = "none" /\ ~impl'[c].cancel /\ promised'[c] = Never
      BY <1>1, <1>2, <2>1
    <2>3. ASSUME NEW e \in Clients, e # c
          PROVE  Timely(impl[e], promised[e], set[e])' /\ Alive(impl[e], promised[e], e)'
      BY <1>3, <2>1, <2>3 DEF Timely, PeriodOf, Alive
    <2> HIDE DEF c
    <2>4. ASSUME NEW e \in Clients
          PROVE  Timely(impl[e], promised[e], set[e])' /\ Alive(impl[e], promised[e], e)'
      <3>1. CASE e # c
        BY <2>3, <3>1
      <3>2. CASE e = c
        BY <2>2, <3>2 DEF Timely, Alive
      <3>3. QED
        BY <3>1, <3>2
    <2>5. QED
      BY <1>1, <2>1, <2>4 DEF Kept
  <1>5. CASE periodSet
    <2> DEFINE made == [impl[c] EXCEPT !.made = TRUE]
               m == startNetworkUpdateThread(made, call.period, now)
    <2>1. /\ impl' = [impl EXCEPT ![c] = m] /\ set' = [set EXCEPT ![c] = call.period]
          /\ promised' = [promised EXCEPT ![c] = now + call.period]
      BY <1>5 DEF periodSet
    <2>2. /\ m.thread = "waiting" /\ m.cancel = impl[c].cancel /\ m.period = call.period
          /\ m.waitFrom = now /\ m.deadline = now + call.period
      BY <1>1 DEF startNetworkUpdateThread, ImplState
    <2>3. Timely(m, now + call.period, call.period)
      BY <1>1, <2>2, SMT DEF Timely, PeriodOf
    <2> HIDE DEF m
    <2>4. /\ promised' \in [Clients -> Int] /\ impl'[c] = m /\ promised'[c] = now + call.period
          /\ set'[c] = call.period
          /\ \A e \in Clients \ {c} :
               impl'[e] = impl[e] /\ promised'[e] = promised[e] /\ set'[e] = set[e]
      <3>1. now + call.period \in Int
        BY <1>1
      <3>2. QED
        BY <1>1, <2>1, <3>1 DEF IInv, Typed, Kept
    <2>5. ASSUME NEW e \in Clients
          PROVE  Timely(impl'[e], promised'[e], set'[e]) /\ Alive(impl[e], promised[e], e)'
      <3>1. CASE e # c
        BY <1>3, <2>4, <3>1 DEF Alive
      <3>2. CASE e = c
        <4>1. impl'[e] = m /\ promised'[e] = now + call.period /\ set'[e] = call.period
          BY <2>4, <3>2
        <4>2. QED
          BY <1>2, <2>2, <2>3, <4>1 DEF Alive, Running
      <3>3. QED
        BY <3>1, <3>2
    <2>6. QED
      BY <1>1, <2>4, <2>5 DEF Kept, Timely, PeriodOf
  <1>6. QED
    BY <1>4, <1>5

\* A move takes over what was promised, with a thread that is due no later.
LEMMA MoveKept ==
  ASSUME IInv, Kept, moved
  PROVE  Kept'
  <1> DEFINE c == call.on
             d == call.from
             m == [impl[d] EXCEPT !.thread = "none", !.moved = TRUE]
             left == m.waitFrom + m.period - now
             started == startNetworkUpdateThread(m, left, now)
             t == IF impl[d].thread = "joined" THEN started ELSE m
  <1>1. /\ call.op = "move" /\ c \in Clients /\ d \in Clients /\ c # d /\ now \in Nat
        /\ impl[d] \in ImplState /\ set[d] \in Int /\ promised[d] \in Int
        /\ impl[c].thread = "none" /\ impl[d].thread \in {"none", "joined"}
    BY DEF moved, IInv, Typed, Called, Kept
  <1>2. /\ Timely(impl[d], promised[d], set[d]) /\ Alive(impl[d], promised[d], d)
        /\ impl[d].waitFrom <= now
    BY <1>1 DEF Kept, IInv, Sound, InTime
  <1>3. ~impl[d].cancel /\ (impl[d].thread = "none" => promised[d] = Never)
    BY <1>1, <1>2 DEF Alive, Stopped, Running
  <1>4. /\ m \in ImplState /\ m.thread = "none" /\ m.cancel = impl[d].cancel
        /\ m.waitFrom = impl[d].waitFrom /\ m.period = impl[d].period /\ m.made = impl[d].made
    BY <1>1 DEF ImplState, Threads
  <1>5. left \in Int /\ now + left = impl[d].waitFrom + impl[d].period /\ left <= impl[d].period
    BY <1>1, <1>2, <1>4, SMT DEF ImplState
  <1> HIDE DEF left
  <1>6. /\ started.thread = "waiting" /\ started.cancel = impl[d].cancel
        /\ started.period = left /\ started.waitFrom = now /\ started.deadline = now + left
        /\ started.made = impl[d].made
    BY <1>4 DEF startNetworkUpdateThread, ImplState
  <1> HIDE DEF m, started
  <1>7. ~t.cancel /\ (promised[d] # Never => t.thread = "waiting")
    <2>1. CASE impl[d].thread = "joined"
      BY <1>3, <1>6, <2>1
    <2>2. CASE impl[d].thread = "none"
      BY <1>3, <1>4, <2>2
    <2>3. QED
      BY <1>1, <2>1, <2>2
  <1>8. Timely(t, promised[d], set[d])
    <2>1. CASE impl[d].thread = "joined"
      <3>1. PeriodOf(t, set[d]) = PeriodOf(impl[d], set[d]) /\ PeriodOf(impl[d], set[d]) \in Int
        BY <1>1, <1>6, <2>1, PeriodType DEF PeriodOf
      <3>2. t.period <= PeriodOf(t, set[d])
        <4>1. impl[d].period <= PeriodOf(impl[d], set[d]) /\ impl[d].period \in Int
          BY <1>1, <1>2, <2>1 DEF Timely, ImplState
        <4>2. QED
          BY <1>5, <1>6, <2>1, <3>1, <4>1, SMT
      <3>3. promised[d] # Never => t.waitFrom + t.period <= promised[d] /\ t.deadline <= promised[d]
        BY <1>2, <1>5, <1>6, <2>1 DEF Timely
      <3>4. QED
        BY <3>2, <3>3 DEF Timely
    <2>2. CASE impl[d].thread = "none"
      BY <1>3, <1>4, <2>2 DEF Timely
    <2>3. QED
      BY <1>1, <2>1, <2>2
  <1>9. /\ impl' = [impl EXCEPT ![c] = t, ![d] = NewImpl]
        /\ set' = [set EXCEPT ![c] = set[d], ![d] = -1]
        /\ promised' = [promised EXCEPT ![c] = promised[d], ![d] = Never]
        /\ call'.op = "idle"
    BY DEF moved, Return, Idle, c, d, t, started, m, left
  <1>10. NewImpl.thread = "none" /\ NewImpl.cancel = FALSE
    BY DEF NewImpl
  <1> HIDE DEF t
  <1>11. /\ promised' \in [Clients -> Int]
         /\ impl'[c] = t /\ set'[c] = set[d] /\ promised'[c] = promised[d]
         /\ impl'[d] = NewImpl /\ promised'[d] = Never
         /\ \A e \in Clients \ {c, d} :
              impl'[e] = impl[e] /\ set'[e] = set[e] /\ promised'[e] = promised[e]
    BY <1>1, <1>9 DEF IInv, Typed, Kept, Never
  <1>12. ASSUME NEW e \in Clients
         PROVE  /\ Timely(impl'[e], promised'[e], set'[e])
                /\ ~impl'[e].cancel
                /\ promised'[e] # Never => impl'[e].thread \in Running
    <2>1. CASE e = c
      BY <1>7, <1>8, <1>11, <2>1 DEF Running
    <2>2. CASE e = d
      BY <1>10, <1>11, <2>2 DEF Timely
    <2>3. CASE e # c /\ e # d
      <3>1. Timely(impl[e], promised[e], set[e]) /\ Alive(impl[e], promised[e], e) /\ ~Stopping(e)
        BY <2>3 DEF Kept, Stopping
      <3>2. QED
        BY <1>11, <2>3, <3>1 DEF Alive
    <2>4. QED
      BY <2>1, <2>2, <2>3
  <1>13. QED
    BY <1>9, <1>11, <1>12 DEF Kept, Timely, PeriodOf, Alive

\* The thread of a client waits, wakes, asks and ends.
LEMMA ThreadKept ==
  ASSUME IInv, Kept, NEW c \in Clients, scheduleNetworkUpdate(c)
  PROVE  Kept'
  <1> DEFINE o == impl[c]
             p == PeriodOf(o, set[c])
  <1>1. /\ o \in ImplState /\ now \in Nat /\ set[c] \in Int /\ promised[c] \in Int
        /\ Timely(o, promised[c], set[c]) /\ Alive(o, promised[c], c) /\ Sound(o, now, set[c])
    BY DEF IInv, Typed, Kept
  <1>2. UNCHANGED <<call, set>>
    BY DEF scheduleNetworkUpdate, Cancelled, TimedOut, Skip, Query, Read, Retry, Finish, Fails,
           Update, Applied, Step, userVars
  <1>3. CASE Cancelled(c)
    BY <1>2, <1>3, EndKept DEF Cancelled, Step, histories, Running
  <1>4. CASE TimedOut(c)
    <2> DEFINE m == [o EXCEPT !.thread = "woken"]
    <2>1. impl' = [impl EXCEPT ![c] = m] /\ UNCHANGED promised /\ o.thread = "waiting"
      BY <1>4 DEF TimedOut, Step, histories
    <2>2. /\ m.waitFrom = o.waitFrom /\ m.period = o.period /\ m.made = o.made
          /\ m.deadline = o.deadline /\ m.cancel = o.cancel /\ m.thread = "woken"
      BY <1>1 DEF ImplState
    <2> HIDE DEF m
    <2>3. QED
      BY <1>2, <2>1, <2>2, SameKept DEF Running
  <1>5. CASE Skip(c)
    <2> DEFINE m == Waits(o)
    <2>1. /\ impl' = [impl EXCEPT ![c] = m] /\ o.thread = "woken"
          /\ promised' = [promised EXCEPT ![c] = now + p]
      BY <1>5 DEF Skip, Step
    <2>2. p \in Int /\ o.period \in Int /\ o.waitFrom \in Int /\ o.waitFrom <= now /\ o.period <= p
      BY <1>1, <2>1, PeriodType DEF Sound, InTime, Timely, ImplState
    <2>3. /\ m.waitFrom = o.waitFrom /\ m.period = o.period /\ m.made = o.made
          /\ m.deadline = now + o.period /\ m.cancel = o.cancel /\ m.thread = "waiting"
      BY <1>1 DEF Waits, ImplState
    <2>4. PeriodOf(m, set[c]) = p
      BY <2>3 DEF PeriodOf
    <2> HIDE DEF m, p
    <2>5. Timely(m, now + p, set[c])
      <3>1. o.waitFrom + o.period <= now + p /\ now + o.period <= now + p
        BY <1>1, <2>2, SMT
      <3>2. QED
        BY <2>2, <2>3, <2>4, <3>1 DEF Timely
    <2>6. Alive(m, now + p, c)
      BY <1>1, <2>3 DEF Alive, Running
    <2>7. now + p \in Int
      BY <1>1, <2>2
    <2>8. QED
      BY <1>2, <2>1, <2>5, <2>6, <2>7, OneKept
  <1>6. CASE Query(c)
    <2> DEFINE m == [o EXCEPT !.thread = "querying"]
    <2>1. impl' = [impl EXCEPT ![c] = m] /\ UNCHANGED promised /\ o.thread = "woken"
      BY <1>6 DEF Query, Step, histories
    <2>2. /\ m.waitFrom = o.waitFrom /\ m.period = o.period /\ m.made = o.made
          /\ m.deadline = o.deadline /\ m.cancel = o.cancel /\ m.thread = "querying"
      BY <1>1 DEF ImplState
    <2> HIDE DEF m
    <2>3. QED
      BY <1>2, <2>1, <2>2, SameKept DEF Running
  <1>7. CASE Read(c)
    <2> DEFINE m == [o EXCEPT !.read = @ + 1, !.book = @ + 1]
    <2>1. impl' = [impl EXCEPT ![c] = m] /\ UNCHANGED promised
      BY <1>7 DEF Read, Step, histories
    <2>2. /\ m.waitFrom = o.waitFrom /\ m.period = o.period /\ m.made = o.made
          /\ m.deadline = o.deadline /\ m.cancel = o.cancel /\ m.thread = o.thread
      BY <1>1 DEF ImplState
    <2> HIDE DEF m
    <2>3. QED
      BY <1>2, <2>1, <2>2, SameKept
  <1>8. CASE Retry(c)
    <2> DEFINE m == [o EXCEPT !.attempt = @ + 1, !.read = 0, !.book = 0]
    <2>1. impl' = [impl EXCEPT ![c] = m] /\ UNCHANGED promised
      BY <1>8 DEF Retry, Step, histories
    <2>2. /\ m.waitFrom = o.waitFrom /\ m.period = o.period /\ m.made = o.made
          /\ m.deadline = o.deadline /\ m.cancel = o.cancel /\ m.thread = o.thread
      BY <1>1 DEF ImplState
    <2> HIDE DEF m
    <2>3. QED
      BY <1>2, <2>1, <2>2, SameKept
  <1>9. CASE Finish(c)
    <2> DEFINE m == [o EXCEPT !.thread = "answered"]
    <2>1. impl' = [impl EXCEPT ![c] = m] /\ UNCHANGED promised /\ o.thread = "querying"
      BY <1>9 DEF Finish, Step, histories
    <2>2. /\ m.waitFrom = o.waitFrom /\ m.period = o.period /\ m.made = o.made
          /\ m.deadline = o.deadline /\ m.cancel = o.cancel /\ m.thread = "answered"
      BY <1>1 DEF ImplState
    <2> HIDE DEF m
    <2>3. QED
      BY <1>2, <2>1, <2>2, SameKept DEF Running
  <1>10. CASE Fails(c)
    <2> DEFINE m == Ended(o)
    <2>1. impl' = [impl EXCEPT ![c] = m] /\ promised' = [promised EXCEPT ![c] = Never]
          /\ o.thread = "querying"
      BY <1>10 DEF Fails, Step
    <2>2. m.thread = "ended" /\ m.period = o.period /\ m.made = o.made /\ m.cancel = o.cancel
      BY <1>1 DEF Ended, ImplState
    <2> HIDE DEF m
    <2>3. Timely(m, Never, set[c]) /\ Alive(m, Never, c) /\ Never \in Int
      BY <1>1, <2>1, <2>2 DEF Timely, PeriodOf, Alive, Never
    <2>4. QED
      BY <1>2, <2>1, <2>3, OneKept
  <1>11. CASE Update(c)
    <2>1. CASE impl[c].cancel
      BY <1>2, <1>11, <2>1, EndKept DEF Update, Step, histories, Running
    <2>2. CASE ~impl[c].cancel
      <3> DEFINE m == Updated(o)
                 q == PeriodOf(m, set[c])
                 r == IF o.made THEN o.period ELSE DefaultPeriod
      <3>1. /\ impl' = [impl EXCEPT ![c] = m] /\ o.thread = "answered"
            /\ promised' = [promised EXCEPT ![c] = now + q]
        BY <1>11, <2>2 DEF Update, Applied, Step
      <3>2. /\ m.waitFrom = now /\ m.period = r /\ m.made = TRUE
            /\ m.deadline = now + r /\ m.cancel = o.cancel /\ m.thread = "waiting"
        BY <1>1 DEF Updated, Waits, ImplState
      <3>3. q = IF set[c] # -1 THEN set[c] ELSE DefaultPeriod
        BY <3>2 DEF PeriodOf
      <3>4. r <= q /\ r \in Int /\ q \in Int
        <4>1. CASE o.made
          <5>1. o.period <= PeriodOf(o, set[c]) /\ o.period \in Int
            BY <1>1, <3>1 DEF Timely, ImplState
          <5>2. QED
            BY <1>1, <3>3, <4>1, <5>1, Numbers DEF PeriodOf
        <4>2. CASE ~o.made
          <5>1. set[c] = -1
            BY <1>1, <4>2 DEF Sound, Wanted
          <5>2. QED
            BY <3>3, <4>2, <5>1, Numbers, SMT
        <4>3. QED
          BY <4>1, <4>2
      <3> HIDE DEF m, q, r
      <3>5. Timely(m, now + q, set[c])
        <4>1. now + r <= now + q /\ now + q \in Int
          BY <1>1, <3>4, SMT
        <4>2. QED
          BY <3>2, <3>4, <4>1 DEF Timely, q
      <3>6. Alive(m, now + q, c)
        BY <2>2, <3>2 DEF Alive, Running
      <3>7. now + q \in Int
        BY <1>1, <3>4
      <3>8. QED
        BY <1>2, <3>1, <3>5, <3>6, <3>7, OneKept
    <2>3. QED
      BY <2>1, <2>2
  <1>12. QED
    BY <1>3, <1>4, <1>5, <1>6, <1>7, <1>8, <1>9, <1>10, <1>11 DEF scheduleNetworkUpdate

\* One lemma for each kind of step again.
LEMMA NextKept == IInv /\ Kept /\ [Next]_vars => Kept'
  <1> SUFFICES ASSUME IInv, Kept, [Next]_vars PROVE Kept'
    OBVIOUS
  <1>1. CASE User
    <2>1. CASE Calling
      BY <2>1, StopKept, ReturnKept, MoveKept DEF Calling
    <2>2. CASE ~Calling
      BY <1>1, <2>2, CallKept DEF User
    <2>3. QED
      BY <2>1, <2>2
  <1>2. CASE \E c \in Clients : scheduleNetworkUpdate(c)
    BY <1>2, ThreadKept
  <1>3. CASE Tick \/ Rest \/ UNCHANGED vars
    <2>1. UNCHANGED <<impl, call, set, promised>>
      BY <1>3 DEF Tick, Rest, vars, userVars, histories
    <2>2. QED
      BY <2>1 DEF Kept, Timely, PeriodOf, Alive, Stopping, Stopped
  <1>4. QED
    BY <1>1, <1>2, <1>3 DEF Next

\* Moves neither lose nor put off an update: a client that is not closed, and no
\* query of which has failed, has a thread, and it waits no longer than if the
\* client had never been moved (Client::moveClient).
THEOREM PromisesKept == Spec => []PromiseKept
  <1>1. IInv /\ Kept => PromiseKept
    <2> SUFFICES ASSUME Kept, NEW c \in Clients, promised[c] # Never
                 PROVE  /\ call.op \in {"idle", "stuck"} => impl[c].thread \in Running
                        /\ impl[c].thread = "waiting" => impl[c].deadline <= promised[c]
      BY DEF PromiseKept
    <2>1. Timely(impl[c], promised[c], set[c]) /\ Alive(impl[c], promised[c], c)
      BY DEF Kept
    <2>2. QED
      BY <2>1 DEF Timely, Alive, Stopping
  <1>2. QED
    BY <1>1, InitKept, NextKept, Invariant, PTL DEF Spec

=============================================================================
