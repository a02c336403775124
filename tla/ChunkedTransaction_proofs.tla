---------------------- MODULE ChunkedTransaction_proofs ----------------------
(***************************************************************************)
(* A message sent in chunks, of any length and chunk size, to any nodes,   *)
(* with any number of calls and attempts: request, chunk, network and      *)
(* responses keep in step (ChunksInStep), no chunk is executed twice while *)
(* no ID expires, a topic message can be put together, and sending a file  *)
(* implements OrderedAppend.  Everything rests on how the entries of a     *)
(* frozen transaction are laid out, and on what the network has of them.   *)
(***************************************************************************)
EXTENDS ChunkedTransaction, TLAPS, FiniteSetTheorems, WellFoundedInduction

-----------------------------------------------------------------------------
(***************************************************************************)
(* The inductive invariant.                                                *)
(***************************************************************************)
Data  == Seq(Bytes)
Entry == [ id : Nat, first : Nat, number : Nat, total : Nat, data : Data,
           node : ToSet(Nodes) \cup {NoNode} ]

TransactionType ==
  [ kind : {"file", "topic"}, data : Data, chunkSize : Nat \ {0}, maxChunks : Nat,
    current : Nat, id : Nat, manual : BOOLEAN, nodes : Seq(ToSet(Nodes)),
    entries : Seq(Entry), frozen : BOOLEAN, signed : BOOLEAN ]

Count(t) == getNumberOfChunksRequired(t)

\* The chunk of an entry follows from its place, even when the data do not.
Numbered(t) ==
  \A c \in 0 .. Len(t.entries), i \in DOMAIN t.nodes :
    c * Len(t.nodes) + i <= Len(t.entries) =>
      t.entries[c * Len(t.nodes) + i].id = t.id + c

\* All chunks of the data, each for every node.
LaidOut(t) ==
  /\ Len(t.entries) = Count(t) * Len(t.nodes)
  /\ \A c \in 0 .. Count(t) - 1, i \in DOMAIN t.nodes :
       t.entries[c * Len(t.nodes) + i] = [addToChunk(t, c) EXCEPT !.node = t.nodes[i]]

\* What every method leaves of the object.
Sensible(t, way) ==
  /\ t \in TransactionType
  /\ t.signed => t.frozen
  /\ ~t.frozen => t.current = 0
  /\ t.current = 0 \/ t.current < Count(t)
  /\ t.frozen => t.id # NoId /\ t.nodes # <<>> /\ Numbered(t)
  /\ t.frozen /\ way # "other" => LaidOut(t)

Steps == {"idle", "chunk", "attempt", "waiting", "receipt"}

\* A call of executeAll() sends the chunk that is due.
Calling ==
  /\ pc \in Steps
  /\ pc # "idle" => tx.current < Count(tx)
  /\ pc \in {"attempt", "waiting", "receipt"} => tx.signed
  /\ pc \in {"waiting", "receipt"} =>
       /\ request \in Entry /\ request.id = tx.id + tx.current
       /\ restored.way # "other" => Record(request) = addToChunk(tx, tx.current)

\* The network takes no ID twice.
Apart ==
  /\ \A d, e \in pending \cup failed : d.id = e.id => d = e
  /\ pending \cap failed = {}
  /\ \A e \in pending \cup failed, i \in DOMAIN ledger : ledger[i].id # e.id
  /\ \A i, j \in DOMAIN ledger : ledger[i].id = ledger[j].id => i = j

Network ==
  /\ pending \in SUBSET Entry /\ failed \in SUBSET Entry /\ ledger \in Seq(Entry)
  /\ unheard \in SUBSET Entry
  /\ expiry \in Nat /\ lastId \in Nat /\ responses \in Seq(Nat)
  /\ Apart

Whole == restored.way # "other"

\* The user sees what the user gave, and edits nothing that was sent.
History ==
  /\ restored \in [way : {"no", "other", "whole"}, message : Messages]
  /\ restored.way = "no" => restored.message = tx.data
  /\ Whole /\ Seen # {} => tx.signed
  /\ EarlierChunksAccepted

\* Before an ID expires the network has nothing but chunks of this message, and
\* at the end all of them, or of a topic message all that were answered for.
Chunks ==
  Whole /\ expiry = NoId =>
    /\ \A e \in Seen : e.number \in 1 .. Count(tx) /\ e = addToChunk(tx, e.number - 1)
    /\ outcome = "done" => \A n \in 1 .. Count(tx) : \E e \in Passed : e.number = n

\* The file has the chunks before the current one, and perhaps that one, which
\* is then the only one on its way; or it has them all, and none is taken again.
Appending ==
  Plain /\ tx.kind = "file" =>
    /\ \A i \in DOMAIN ledger : ledger[i].number = i
    /\ \/ /\ Len(ledger) \in {tx.current, tx.current + 1}
          /\ \A e \in pending \cup failed : e.number = tx.current + 1
       \/ Len(ledger) = Count(tx) /\ pending = {} /\ failed = {}

Kept ==
  /\ Sensible(tx, restored.way) /\ Calling /\ Network /\ ResponsesNameChunks
  /\ History /\ Chunks /\ Appending

\* The chunks are answered in order, also when nobody has them, and a new ID is
\* greater than those before it.
Answers ==
  /\ tx.id <= lastId
  /\ pc # "idle" =>
       \A i \in DOMAIN responses :
         responses[i] < tx.id + tx.current + (IF pc = "receipt" THEN 1 ELSE 0)

IInv == Kept /\ Answers

-----------------------------------------------------------------------------
(***************************************************************************)
(* FlattenSeq.                                                             *)
(***************************************************************************)
\* A set that holds 0, and with each number the next, holds them all.
LEMMA AllNumbers ==
  ASSUME NEW S \in SUBSET Nat, 0 \in S, \A n \in S : n + 1 \in S
  PROVE  S = Nat
<1> SUFFICES ASSUME Nat \ S # {}  PROVE FALSE
  OBVIOUS
<1>1. PICK x \in Nat \ S : \A y \in Nat \ S : ~ (<<y, x>> \in OpToRel(<, Nat))
  BY NatLessThanWellFounded, WFMin
<1>2. \A y \in Nat \ S : ~ (y < x)
  BY <1>1 DEF OpToRel
<1>3. x # 0 /\ x - 1 \in Nat /\ x - 1 < x /\ x = (x - 1) + 1
  OBVIOUS
<1> QED
  BY <1>2, <1>3

\* The table FlattenSeq computes.
IsTable(f, s, m) ==
  f = [i \in 1 .. m |-> IF i = 1 THEN s[i] ELSE f[i - 1] \o s[i]]

LEMMA TablesAgree ==
  ASSUME NEW s, NEW m \in Nat, NEW n \in Nat, NEW f, NEW g,
         IsTable(f, s, m), IsTable(g, s, n), NEW k \in Nat, 1 <= k, k <= m, k <= n
  PROVE  f[k] = g[k]
<1> DEFINE Same == {i \in Nat : 1 <= i /\ i <= m /\ i <= n => f[i] = g[i]}
<1>1. 0 \in Same  OBVIOUS
<1>2. ASSUME NEW i \in Same  PROVE i + 1 \in Same
  <2> SUFFICES ASSUME i + 1 <= m, i + 1 <= n  PROVE f[i + 1] = g[i + 1]
    OBVIOUS
  <2> DEFINE F == [j \in 1 .. m |-> IF j = 1 THEN s[j] ELSE f[j - 1] \o s[j]]
             G == [j \in 1 .. n |-> IF j = 1 THEN s[j] ELSE g[j - 1] \o s[j]]
  <2>1. f = F /\ g = G  BY DEF IsTable
  <2>2. i + 1 \in 1 .. m /\ i + 1 \in 1 .. n /\ (i + 1) - 1 = i  OBVIOUS
  <2>3. F[i + 1] = IF i + 1 = 1 THEN s[i + 1] ELSE f[i] \o s[i + 1]  BY <2>2
  <2>4. G[i + 1] = IF i + 1 = 1 THEN s[i + 1] ELSE g[i] \o s[i + 1]  BY <2>2
  <2>5. i + 1 # 1 => f[i] = g[i]  BY <2>2
  <2> QED  BY <2>1, <2>3, <2>4, <2>5
<1> HIDE DEF Same
<1>3. Same = Nat
  <2>1. Same \in SUBSET Nat  BY DEF Same
  <2> QED  BY <1>1, <1>2, <2>1, AllNumbers
<1> QED  BY <1>3 DEF Same

LEMMA TableExists ==
  ASSUME NEW s, NEW n \in Nat
  PROVE  \E f : IsTable(f, s, n)
<1> DEFINE Have == {i \in Nat : \E f : IsTable(f, s, i)}
<1>1. 0 \in Have
  <2>1. IsTable([i \in 1 .. 0 |-> s[i]], s, 0)  BY DEF IsTable
  <2> QED  BY <2>1
<1>2. ASSUME NEW m \in Have  PROVE m + 1 \in Have
  <2>1. PICK f : IsTable(f, s, m)  OBVIOUS
  <2> DEFINE g == [i \in 1 .. m + 1 |-> IF i = 1 THEN s[i] ELSE f[i - 1] \o s[i]]
  <2>2. \A i \in 1 .. m : g[i] = f[i]
    <3> SUFFICES ASSUME NEW i \in 1 .. m  PROVE g[i] = f[i]
      OBVIOUS
    <3> DEFINE F == [j \in 1 .. m |-> IF j = 1 THEN s[j] ELSE f[j - 1] \o s[j]]
    <3>1. f = F  BY <2>1 DEF IsTable
    <3>2. i \in 1 .. m + 1  OBVIOUS
    <3>3. F[i] = IF i = 1 THEN s[i] ELSE f[i - 1] \o s[i]  OBVIOUS
    <3>4. g[i] = IF i = 1 THEN s[i] ELSE f[i - 1] \o s[i]  BY <3>2
    <3> QED  BY <3>1, <3>3, <3>4
  <2>3. \A i \in 1 .. m + 1 : i # 1 => g[i - 1] = f[i - 1]
    <3> HIDE DEF g
    <3>1. \A i \in 1 .. m + 1 : i # 1 => i - 1 \in 1 .. m  OBVIOUS
    <3> QED  BY <2>2, <3>1
  <2>4. g = [i \in 1 .. m + 1 |-> IF i = 1 THEN s[i] ELSE g[i - 1] \o s[i]]
    BY <2>3
  <2>5. IsTable(g, s, m + 1)
    <3> HIDE DEF g
    <3> QED  BY <2>4 DEF IsTable
  <2> QED  BY <2>5
<1> HIDE DEF Have
<1>3. Have = Nat
  <2>1. Have \in SUBSET Nat  BY DEF Have
  <2> QED  BY <1>1, <1>2, <2>1, AllNumbers
<1> QED  BY <1>3 DEF Have

LEMMA FlattenTable ==
  ASSUME NEW s, NEW m \in Nat, NEW f, Len(s) \in Nat, Len(s) > 0, Len(s) <= m,
         IsTable(f, s, m)
  PROVE  FlattenSeq(s) = f[Len(s)]
<1> DEFINE g == CHOOSE g : g = [i \in 1 .. Len(s) |-> IF i = 1 THEN s[i] ELSE g[i - 1] \o s[i]]
<1>1. FlattenSeq(s) = g[Len(s)]  BY DEF FlattenSeq
<1>2. \E h : h = [i \in 1 .. Len(s) |-> IF i = 1 THEN s[i] ELSE h[i - 1] \o s[i]]
  BY TableExists DEF IsTable
<1>3. g = [i \in 1 .. Len(s) |-> IF i = 1 THEN s[i] ELSE g[i - 1] \o s[i]]
  BY <1>2
<1> HIDE DEF g
<1>4. IsTable(g, s, Len(s))  BY <1>3 DEF IsTable
<1>5. g[Len(s)] = f[Len(s)]  BY <1>4, TablesAgree
<1> QED  BY <1>1, <1>5

\* One more sequence at the end.
LEMMA FlattenAppend ==
  ASSUME NEW S, NEW s \in Seq(S), NEW x \in S
  PROVE  FlattenSeq(Append(s, x)) = IF s = <<>> THEN x ELSE FlattenSeq(s) \o x
<1> DEFINE long == Append(s, x)
           n    == Len(s)
<1>1. n \in Nat /\ Len(long) = n + 1 /\ long[n + 1] = x /\ \A i \in 1 .. n : long[i] = s[i]
  OBVIOUS
<1>7. n + 1 \in Nat /\ n + 1 > 0 /\ n + 1 <= n + 1 /\ Len(long) \in Nat  BY <1>1
<1> HIDE DEF long, n
<1>2. PICK f : IsTable(f, long, n + 1)  BY <1>7, TableExists
<1>3. FlattenSeq(long) = f[n + 1]  BY <1>1, <1>7, <1>2, FlattenTable
<1>4. f[n + 1] = IF n + 1 = 1 THEN x ELSE f[n] \o x
  <2> DEFINE F == [i \in 1 .. n + 1 |-> IF i = 1 THEN long[i] ELSE f[i - 1] \o long[i]]
  <2>1. f = F  BY <1>2 DEF IsTable
  <2>2. n + 1 \in 1 .. n + 1 /\ (n + 1) - 1 = n  BY <1>1
  <2>3. F[n + 1] = IF n + 1 = 1 THEN long[n + 1] ELSE f[n] \o long[n + 1]  BY <2>2
  <2> QED  BY <1>1, <2>1, <2>3
<1> USE DEF long, n
<1>5. CASE s = <<>>  BY <1>1, <1>3, <1>4, <1>5
<1>6. CASE s # <<>>
  <2>1. n > 0  BY <1>6
  <2> DEFINE g == [i \in 1 .. n |-> f[i]]
  <2>2. \A i \in 1 .. n : f[i] = IF i = 1 THEN s[i] ELSE f[i - 1] \o s[i]
    <3> DEFINE F == [i \in 1 .. n + 1 |-> IF i = 1 THEN long[i] ELSE f[i - 1] \o long[i]]
    <3>1. f = F  BY <1>2 DEF IsTable
    <3>2. \A i \in 1 .. n : F[i] = IF i = 1 THEN s[i] ELSE f[i - 1] \o s[i]  BY <1>1
    <3> QED  BY <3>1, <3>2
  <2>3. \A i \in 1 .. n : g[i] = IF i = 1 THEN s[i] ELSE g[i - 1] \o s[i]  BY <2>2
  <2>4. g = [i \in 1 .. n |-> g[i]]  OBVIOUS
  <2> DEFINE h == g
  <2>5. g = [i \in 1 .. n |-> IF i = 1 THEN s[i] ELSE g[i - 1] \o s[i]]
    BY <2>3
  <2>6. g[n] = f[n]  BY <1>1, <2>1
  <2> HIDE DEF g
  <2>7. IsTable(g, s, n)  BY <2>5 DEF IsTable
  <2>8. FlattenSeq(s) = g[n]  BY <1>1, <2>1, <2>7, FlattenTable
  <2> QED  BY <1>3, <1>4, <1>6, <2>1, <2>6, <2>8
<1> QED  BY <1>5, <1>6

LEMMA FlattenEmpty ==
  ASSUME NEW s, s = <<>>
  PROVE  FlattenSeq(s) = <<>>
BY DEF FlattenSeq

\* The first k sequences of f.
Prefix(f, k) == [c \in 1 .. k |-> f[c]]

LEMMA FlattenStep ==
  ASSUME NEW E, NEW m \in Nat, NEW f \in [1 .. m -> Seq(E)], NEW k \in Nat, k < m,
         FlattenSeq(Prefix(f, k)) \in Seq(E)
  PROVE  /\ FlattenSeq(Prefix(f, k + 1)) = FlattenSeq(Prefix(f, k)) \o f[k + 1]
         /\ FlattenSeq(Prefix(f, k + 1)) \in Seq(E)
<1> DEFINE s == Prefix(f, k)
<1>1. s \in Seq(Seq(E)) /\ Len(s) = k /\ f[k + 1] \in Seq(E)  BY DEF Prefix
<1>2. Prefix(f, k + 1) = Append(s, f[k + 1])  BY <1>1 DEF Prefix
<1> HIDE DEF s
<1>3. FlattenSeq(Append(s, f[k + 1])) =
        IF s = <<>> THEN f[k + 1] ELSE FlattenSeq(s) \o f[k + 1]
  BY <1>1, FlattenAppend
<1>4. CASE s = <<>>
  <2>1. FlattenSeq(s) = <<>>  BY <1>4, FlattenEmpty
  <2>2. <<>> \o f[k + 1] = f[k + 1]  BY <1>1
  <2> QED  BY <1>1, <1>2, <1>3, <1>4, <2>1, <2>2 DEF s
<1>5. CASE s # <<>>
  <2>1. FlattenSeq(s) \o f[k + 1] \in Seq(E)  BY <1>1 DEF s
  <2> QED  BY <1>2, <1>3, <1>5, <2>1 DEF s
<1> QED  BY <1>4, <1>5

LEMMA FlattenNone ==
  ASSUME NEW f, NEW E
  PROVE  FlattenSeq(Prefix(f, 0)) = <<>> /\ FlattenSeq(Prefix(f, 0)) \in Seq(E)
<1>1. Prefix(f, 0) = <<>>  BY DEF Prefix
<1>2. FlattenSeq(Prefix(f, 0)) = <<>>  BY <1>1, FlattenEmpty
<1>3. <<>> \in Seq(E)  OBVIOUS
<1> QED  BY <1>2, <1>3

LEMMA FlattenType ==
  ASSUME NEW E, NEW m \in Nat, NEW f \in [1 .. m -> Seq(E)]
  PROVE  FlattenSeq(f) \in Seq(E)
<1> DEFINE Good == {k \in Nat : k <= m => FlattenSeq(Prefix(f, k)) \in Seq(E)}
<1>1. 0 \in Good  BY FlattenNone
<1>2. ASSUME NEW k \in Good  PROVE k + 1 \in Good
  <2> SUFFICES ASSUME k + 1 <= m  PROVE FlattenSeq(Prefix(f, k + 1)) \in Seq(E)
    OBVIOUS
  <2> QED  BY FlattenStep
<1> HIDE DEF Good
<1>3. Good = Nat
  <2>1. Good \in SUBSET Nat  BY DEF Good
  <2> QED  BY <1>1, <1>2, <2>1, AllNumbers
<1>4. Prefix(f, m) = f  BY DEF Prefix
<1> QED  BY <1>3, <1>4 DEF Good

\* In sequences of one length each element has its place.
Placed(s, f, n, k) ==
  /\ Len(s) = k * n
  /\ \A c \in 0 .. k - 1, i \in 1 .. n : s[c * n + i] = f[c + 1][i]

LEMMA ConcatAt ==
  ASSUME NEW E, NEW s \in Seq(E), NEW t \in Seq(E), NEW j \in Nat
  PROVE  /\ j \in 1 .. Len(s) => (s \o t)[j] = s[j]
         /\ j \in 1 .. Len(t) => (s \o t)[Len(s) + j] = t[j]
  OBVIOUS

LEMMA PlaceBound ==
  ASSUME NEW n \in Nat, NEW k \in Nat, NEW c \in 0 .. k - 1, NEW i \in 1 .. n
  PROVE  c * n + i \in 1 .. k * n
<1>1. k = c + 1 + (k - c - 1) /\ k - c - 1 \in Nat  OBVIOUS
<1>2. k * n = c * n + n + (k - c - 1) * n  BY <1>1
<1>3. (k - c - 1) * n \in Nat /\ c * n \in Nat  BY <1>1
<1> QED  BY <1>2, <1>3

LEMMA FlattenPlaces ==
  ASSUME NEW E, NEW m \in Nat, NEW n \in Nat, NEW f \in [1 .. m -> Seq(E)],
         \A c \in 1 .. m : Len(f[c]) = n
  PROVE  FlattenSeq(f) \in Seq(E) /\ Placed(FlattenSeq(f), f, n, m)
<1> DEFINE Flat(k) == FlattenSeq(Prefix(f, k))
           Good == {k \in Nat : k <= m => Flat(k) \in Seq(E) /\ Placed(Flat(k), f, n, k)}
<1>1. 0 \in Good
  <2>1. Flat(0) = <<>> /\ Flat(0) \in Seq(E)  BY FlattenNone
  <2>2. Len(Flat(0)) = 0 * n  BY <2>1
  <2> HIDE DEF Flat
  <2> QED  BY <2>1, <2>2 DEF Placed
<1>2. ASSUME NEW k \in Good  PROVE k + 1 \in Good
  <2> SUFFICES ASSUME k + 1 <= m
               PROVE  Flat(k + 1) \in Seq(E) /\ Placed(Flat(k + 1), f, n, k + 1)
    OBVIOUS
  <2>1. k \in Nat /\ k < m /\ Flat(k) \in Seq(E) /\ Placed(Flat(k), f, n, k)  OBVIOUS
  <2>2. Flat(k + 1) = Flat(k) \o f[k + 1] /\ Flat(k + 1) \in Seq(E)  BY <2>1, FlattenStep
  <2>3. f[k + 1] \in Seq(E) /\ Len(f[k + 1]) = n  BY <2>1
  <2> HIDE DEF Flat, Good
  <2>4. Len(Flat(k)) = k * n  BY <2>1 DEF Placed
  <2>5. Len(Flat(k + 1)) = k * n + n  BY <2>1, <2>2, <2>3, <2>4
  <2>6. k * n + n = (k + 1) * n /\ k * n \in Nat  BY <2>1
  <2>7. ASSUME NEW c \in 0 .. k, NEW i \in 1 .. n
        PROVE  Flat(k + 1)[c * n + i] = f[c + 1][i]
    <3>1. CASE c = k
      <4>1. Flat(k + 1)[Len(Flat(k)) + i] = f[k + 1][i]
        BY <2>1, <2>2, <2>3, ConcatAt
      <4> QED  BY <2>4, <3>1, <4>1
    <3>2. CASE c # k
      <4>1. c \in 0 .. k - 1  BY <2>1, <3>2
      <4>2. c * n + i \in 1 .. k * n  BY <2>1, <4>1, PlaceBound
      <4> DEFINE j == c * n + i
      <4>3. j \in 1 .. Len(Flat(k)) /\ j \in Nat  BY <2>4, <2>6, <4>2
      <4> HIDE DEF j
      <4>4. Flat(k + 1)[j] = Flat(k)[j]  BY <2>1, <2>2, <2>3, <4>3, ConcatAt
      <4> QED  BY <2>1, <4>1, <4>4 DEF Placed, j
    <3> QED  BY <3>1, <3>2
  <2>8. (k + 1) - 1 = k  BY <2>1
  <2> QED  BY <2>2, <2>5, <2>6, <2>7, <2>8 DEF Placed
<1> HIDE DEF Good
<1>3. Good = Nat
  <2>1. Good \in SUBSET Nat  BY DEF Good
  <2> QED  BY <1>1, <1>2, <2>1, AllNumbers
<1>4. Prefix(f, m) = f  BY DEF Prefix
<1>5. m \in Good  BY <1>3
<1>6. Flat(m) = FlattenSeq(f)  BY <1>4
<1> QED  BY <1>5, <1>6 DEF Good

-----------------------------------------------------------------------------
(***************************************************************************)
(* Chunks of the data.                                                     *)
(***************************************************************************)
\* Data that can be cut.
Cuttable(t) == t.data \in Data /\ t.chunkSize \in Nat \ {0}

LEMMA CountFacts ==
  ASSUME NEW t, Cuttable(t)
  PROVE  /\ Count(t) \in Nat /\ Len(t.data) \in Nat
         /\ Len(t.data) <= Count(t) * t.chunkSize
         /\ \A c \in 0 .. Count(t) - 1 : c * t.chunkSize < Len(t.data)
         /\ Count(t) = 0 <=> t.data = <<>>
<1> DEFINE l == Len(t.data)
           n == t.chunkSize
           N == (l + n - 1) \div n
<1>1. l \in Nat /\ n \in Nat \ {0}  BY DEF Cuttable, Data
<1>2. l = 0 <=> t.data = <<>>  BY DEF Cuttable, Data
<1>3. Count(t) = N  BY DEF Count, getNumberOfChunksRequired
<1> HIDE DEF l, n
<1>4. N \in Nat /\ N * n >= l /\ (N = 0 \/ (N - 1) * n < l)  BY <1>1
<1>5. ASSUME NEW c \in 0 .. N - 1  PROVE c * n < l
  <2>1. N - 1 = c + (N - 1 - c) /\ N - 1 - c \in Nat  BY <1>4
  <2>2. (N - 1) * n = c * n + (N - 1 - c) * n  BY <1>1, <1>4, <2>1
  <2>3. (N - 1 - c) * n \in Nat /\ c * n \in Nat  BY <1>1, <1>4, <2>1
  <2> QED  BY <1>1, <1>4, <2>2, <2>3
<1>6. N = 0 <=> l = 0
  <2>1. N = 0 => l = 0
    <3>1. N = 0 => N * n = 0  BY <1>1
    <3> QED  BY <1>1, <1>4, <3>1
  <2>2. l = 0 => N = 0
    <3>1. l = 0 /\ N # 0 => (N - 1) * n \in Nat  BY <1>1, <1>4
    <3> QED  BY <1>1, <1>4, <3>1
  <2> QED  BY <2>1, <2>2
<1> QED  BY <1>1, <1>2, <1>3, <1>4, <1>5, <1>6 DEF l, n

\* The data before chunk k.
Upto(t, k) == SubSeq(t.data, 1, Min2(k * t.chunkSize, Len(t.data)))

\* A piece of a sequence, and the one after it.
LEMMA SubSeqJoin ==
  ASSUME NEW s \in Data, NEW a \in Nat, NEW b \in Nat, a < b, b <= Len(s)
  PROVE  /\ SubSeq(s, a + 1, b) \in Data /\ SubSeq(s, a + 1, b) # <<>>
         /\ SubSeq(s, 1, a) \in Data /\ Len(SubSeq(s, 1, a)) = a
         /\ SubSeq(s, 1, a) \o SubSeq(s, a + 1, b) = SubSeq(s, 1, b)
  BY DEF Data

LEMMA PieceFacts ==
  ASSUME NEW t, Cuttable(t), NEW c \in 0 .. Count(t) - 1
  PROVE  /\ getDataForChunk(t, c) \in Data /\ getDataForChunk(t, c) # <<>>
         /\ Upto(t, c) \in Data /\ Upto(t, c + 1) \in Data
         /\ Upto(t, c) \o getDataForChunk(t, c) = Upto(t, c + 1)
<1> DEFINE l == Len(t.data)
           a == c * t.chunkSize
           b == Min2((c + 1) * t.chunkSize, l)
<1>1. t.chunkSize \in Nat \ {0} /\ t.data \in Data  BY DEF Cuttable
<1>2. l \in Nat /\ a < l  BY CountFacts
<1>3. c \in Nat  BY CountFacts
<1>4. a \in Nat /\ (c + 1) * t.chunkSize = a + t.chunkSize  BY <1>1, <1>3
<1>5. b \in Nat /\ a < b /\ b <= l  BY <1>1, <1>2, <1>4 DEF Min2
<1>6. Min2(a, l) = a  BY <1>2 DEF Min2
<1> HIDE DEF a, b, l
<1>7. SubSeq(t.data, a + 1, b) \in Data /\ SubSeq(t.data, a + 1, b) # <<>>
  BY <1>1, <1>4, <1>5, SubSeqJoin DEF l
<1>8. SubSeq(t.data, 1, a) \in Data /\ SubSeq(t.data, 1, b) \in Data
  BY <1>1, <1>4, <1>5, <1>2 DEF l, Data
<1>9. SubSeq(t.data, 1, a) \o SubSeq(t.data, a + 1, b) = SubSeq(t.data, 1, b)
  BY <1>1, <1>4, <1>5, SubSeqJoin DEF l
<1>10. getDataForChunk(t, c) = SubSeq(t.data, a + 1, b)
  BY DEF getDataForChunk, a, b, l
<1>11. Upto(t, c) = SubSeq(t.data, 1, a)  BY <1>6 DEF Upto, a, l
<1>12. Upto(t, c + 1) = SubSeq(t.data, 1, b)  BY DEF Upto, b, l
<1> QED  BY <1>7, <1>8, <1>9, <1>10, <1>11, <1>12

LEMMA UptoEnds ==
  ASSUME NEW t, Cuttable(t)
  PROVE  Upto(t, 0) = <<>> /\ Upto(t, Count(t)) = t.data
<1> DEFINE l == Len(t.data)
<1>1. t.chunkSize \in Nat \ {0} /\ t.data \in Data  BY DEF Cuttable
<1>2. l \in Nat /\ l <= Count(t) * t.chunkSize /\ Count(t) \in Nat  BY CountFacts
<1>3. 0 * t.chunkSize = 0  BY <1>1
<1>4. Min2(0, l) = 0  BY <1>2 DEF Min2
<1>5. Min2(Count(t) * t.chunkSize, l) = l
  <2> DEFINE p == Count(t) * t.chunkSize
  <2>1. p \in Nat  BY <1>1, <1>2
  <2> HIDE DEF p
  <2>2. l <= p  BY <1>2 DEF p
  <2>3. Min2(p, l) = l  BY <1>2, <2>1, <2>2 DEF Min2
  <2> QED  BY <2>3 DEF p
<1>6. SubSeq(t.data, 1, 0) = <<>> /\ SubSeq(t.data, 1, l) = t.data
  BY <1>1 DEF Data
<1> QED  BY <1>3, <1>4, <1>5, <1>6 DEF Upto

\* The pieces, one after the other, are the data.
LEMMA FlattenPieces ==
  ASSUME NEW t, Cuttable(t), NEW m \in Nat, m <= Count(t), NEW f \in [1 .. m -> Data],
         \A i \in 1 .. m : f[i] = getDataForChunk(t, i - 1)
  PROVE  FlattenSeq(f) = Upto(t, m)
<1>1. f \in [1 .. m -> Seq(Bytes)] /\ Count(t) \in Nat  BY CountFacts DEF Data
<1> DEFINE Good == {k \in Nat : k <= m => FlattenSeq(Prefix(f, k)) = Upto(t, k)}
<1>2. 0 \in Good
  BY FlattenNone, UptoEnds
<1>3. ASSUME NEW k \in Good  PROVE k + 1 \in Good
  <2> SUFFICES ASSUME k + 1 <= m  PROVE FlattenSeq(Prefix(f, k + 1)) = Upto(t, k + 1)
    OBVIOUS
  <2>1. k \in Nat /\ k < m /\ FlattenSeq(Prefix(f, k)) = Upto(t, k)  OBVIOUS
  <2>2. k \in 0 .. Count(t) - 1  BY <1>1, <2>1
  <2>3. Upto(t, k) \in Seq(Bytes)  BY <2>2, PieceFacts DEF Data
  <2>4. FlattenSeq(Prefix(f, k + 1)) = Upto(t, k) \o f[k + 1]
    BY <1>1, <2>1, <2>3, FlattenStep
  <2>5. k + 1 \in 1 .. m /\ (k + 1) - 1 = k  BY <2>1
  <2>6. f[k + 1] = getDataForChunk(t, k)  BY <2>5
  <2> QED  BY <2>2, <2>4, <2>6, PieceFacts
<1> HIDE DEF Good
<1>4. Good = Nat
  <2>1. Good \in SUBSET Nat  BY DEF Good
  <2> QED  BY <1>2, <1>3, <2>1, AllNumbers
<1>5. Prefix(f, m) = f  BY DEF Prefix
<1> QED  BY <1>4, <1>5 DEF Good

\* Chunks depend on the data, their size and the first ID.
LEMMA SameChunks ==
  ASSUME NEW t, NEW u, t.data = u.data, t.chunkSize = u.chunkSize
  PROVE  /\ Count(t) = Count(u)
         /\ \A c : getDataForChunk(t, c) = getDataForChunk(u, c)
         /\ t.id = u.id => \A c : addToChunk(t, c) = addToChunk(u, c)
  BY DEF Count, getNumberOfChunksRequired, getDataForChunk, addToChunk

LEMMA ChunkFacts ==
  ASSUME NEW t, Cuttable(t), t.id \in Nat, NEW c \in 0 .. Count(t) - 1
  PROVE  /\ addToChunk(t, c) \in Entry
         /\ addToChunk(t, c).id = t.id + c /\ addToChunk(t, c).first = t.id
         /\ addToChunk(t, c).number = c + 1 /\ addToChunk(t, c).total = Count(t)
         /\ addToChunk(t, c).data = getDataForChunk(t, c)
         /\ addToChunk(t, c).node = NoNode
<1>1. getDataForChunk(t, c) \in Data /\ Count(t) \in Nat  BY PieceFacts, CountFacts
<1>2. c \in Nat  BY <1>1
<1> QED  BY <1>1, <1>2 DEF addToChunk, Entry, Count

-----------------------------------------------------------------------------
(***************************************************************************)
(* Entries.                                                                *)
(***************************************************************************)
\* What t and u have in common when only the entries differ.
SameBut(t, u) ==
  /\ u.kind = t.kind /\ u.data = t.data /\ u.chunkSize = t.chunkSize
  /\ u.maxChunks = t.maxChunks /\ u.current = t.current /\ u.id = t.id
  /\ u.manual = t.manual /\ u.nodes = t.nodes /\ u.frozen = t.frozen
  /\ u.signed = t.signed

LEMMA TypeFacts ==
  ASSUME NEW t \in TransactionType
  PROVE  /\ Cuttable(t) /\ Count(t) \in Nat
         /\ t.kind \in {"file", "topic"} /\ t.data \in Data /\ t.chunkSize \in Nat \ {0}
         /\ t.maxChunks \in Nat /\ t.current \in Nat /\ t.id \in Nat
         /\ t.manual \in BOOLEAN /\ t.nodes \in Seq(ToSet(Nodes))
         /\ t.entries \in Seq(Entry) /\ t.frozen \in BOOLEAN /\ t.signed \in BOOLEAN
         /\ Len(t.nodes) \in Nat /\ DOMAIN t.nodes = 1 .. Len(t.nodes)
         /\ (t.nodes # <<>> => Len(t.nodes) > 0)
         /\ Len(t.entries) \in Nat
<1>1. /\ t.kind \in {"file", "topic"} /\ t.data \in Data /\ t.chunkSize \in Nat \ {0}
      /\ t.maxChunks \in Nat /\ t.current \in Nat /\ t.id \in Nat
      /\ t.manual \in BOOLEAN /\ t.nodes \in Seq(ToSet(Nodes))
      /\ t.entries \in Seq(Entry) /\ t.frozen \in BOOLEAN /\ t.signed \in BOOLEAN
  BY DEF TransactionType
<1>2. Cuttable(t)  BY <1>1 DEF Cuttable
<1>3. Count(t) \in Nat  BY <1>2, CountFacts
<1> QED  BY <1>1, <1>2, <1>3

LEMMA LaidOutNumbered ==
  ASSUME NEW t \in TransactionType, LaidOut(t)
  PROVE  Numbered(t)
<1> SUFFICES ASSUME NEW c \in 0 .. Len(t.entries), NEW i \in DOMAIN t.nodes,
                    c * Len(t.nodes) + i <= Len(t.entries)
             PROVE  t.entries[c * Len(t.nodes) + i].id = t.id + c
  BY DEF Numbered
<1> DEFINE n == Len(t.nodes)
<1>1. n \in Nat /\ i \in 1 .. n /\ Count(t) \in Nat /\ c \in Nat /\ t.id \in Nat /\ Cuttable(t)
  BY TypeFacts
<1>2. c < Count(t)
  <2> SUFFICES ASSUME c >= Count(t)  PROVE FALSE
    BY <1>1
  <2> DEFINE N == Count(t)
             d == c - N
  <2>1. d \in Nat /\ c = N + d /\ N \in Nat  BY <1>1
  <2>2. c * n + i <= N * n  BY DEF LaidOut
  <2> HIDE DEF N, d, n
  <2>3. c * n = N * n + d * n  BY <1>1, <2>1
  <2>4. d * n \in Nat /\ N * n \in Nat  BY <1>1, <2>1
  <2> QED  BY <1>1, <2>2, <2>3, <2>4
<1>3. c \in 0 .. Count(t) - 1  BY <1>1, <1>2
<1>4. t.entries[c * n + i] = [addToChunk(t, c) EXCEPT !.node = t.nodes[i]]
  BY <1>3 DEF LaidOut
<1>5. addToChunk(t, c) \in Entry /\ addToChunk(t, c).id = t.id + c
  BY <1>1, <1>3, ChunkFacts
<1>6. [addToChunk(t, c) EXCEPT !.node = t.nodes[i]].id = addToChunk(t, c).id
  BY <1>5 DEF Entry
<1> QED  BY <1>4, <1>5, <1>6

\* One entry for each node.
LEMMA ForEachNode ==
  ASSUME NEW t \in TransactionType, NEW e \in Entry
  PROVE  /\ addSignedTransactionForEachNode(t, e) \in Seq(Entry)
         /\ Len(addSignedTransactionForEachNode(t, e)) = Len(t.nodes)
         /\ \A i \in DOMAIN t.nodes :
              addSignedTransactionForEachNode(t, e)[i] = [e EXCEPT !.node = t.nodes[i]]
<1>1. t.nodes \in Seq(ToSet(Nodes)) /\ DOMAIN t.nodes = 1 .. Len(t.nodes) /\ Len(t.nodes) \in Nat
  BY TypeFacts
<1>2. \A i \in DOMAIN t.nodes : t.nodes[i] \in ToSet(Nodes)  BY <1>1
<1>3. \A a \in ToSet(Nodes) : [e EXCEPT !.node = a] \in Entry
  BY DEF Entry
<1> QED  BY <1>1, <1>2, <1>3 DEF addSignedTransactionForEachNode

LEMMA RegenerateX ==
  ASSUME NEW t \in TransactionType
  PROVE  LET u == regenerateSignedTransactions(t)
         IN /\ u \in TransactionType /\ SameBut(t, u)
            /\ t.id # NoId => LaidOut(u)
            /\ t.id = NoId =>
                 /\ Len(u.entries) = Len(t.nodes)
                 /\ \A i \in DOMAIN t.nodes : u.entries[i].id = NoId /\ u.entries[i].data = t.data
<1> DEFINE u  == regenerateSignedTransactions(t)
           es == u.entries
           N  == Count(t)
           f  == [c \in 1 .. N |-> addSignedTransactionForEachNode(t, addToChunk(t, c - 1))]
           e  == [NoEntry EXCEPT !.data = t.data]
<1>1. Cuttable(t) /\ N \in Nat /\ t.data \in Data /\ t.id \in Nat  BY TypeFacts
<1>2. \A c \in 1 .. N :
        /\ f[c] \in Seq(Entry) /\ Len(f[c]) = Len(t.nodes)
        /\ \A i \in DOMAIN t.nodes : f[c][i] = [addToChunk(t, c - 1) EXCEPT !.node = t.nodes[i]]
  <2> SUFFICES ASSUME NEW c \in 1 .. N
               PROVE  /\ f[c] \in Seq(Entry) /\ Len(f[c]) = Len(t.nodes)
                      /\ \A i \in DOMAIN t.nodes :
                           f[c][i] = [addToChunk(t, c - 1) EXCEPT !.node = t.nodes[i]]
    OBVIOUS
  <2>1. c - 1 \in 0 .. N - 1  BY <1>1
  <2>2. addToChunk(t, c - 1) \in Entry  BY <1>1, <2>1, ChunkFacts
  <2>3. f[c] = addSignedTransactionForEachNode(t, addToChunk(t, c - 1))  OBVIOUS
  <2> QED  BY <2>2, <2>3, ForEachNode
<1>3. f \in [1 .. N -> Seq(Entry)]  BY <1>2
<1>4. Len(t.nodes) \in Nat /\ DOMAIN t.nodes = 1 .. Len(t.nodes)  BY TypeFacts
<1>5. e \in Entry /\ e.id = NoId /\ e.data = t.data
  BY <1>1 DEF NoEntry, Entry, NoId
<1> HIDE DEF e, N
<1>6. /\ t.id = NoId => es = addSignedTransactionForEachNode(t, e)
      /\ t.id # NoId => es = FlattenSeq(f)
  BY DEF regenerateSignedTransactions, e, N, Count, TransactionType
<1>7. u = [t EXCEPT !.entries = es]
  BY DEF regenerateSignedTransactions, TransactionType
<1> HIDE DEF u
<1>8. t.id # NoId => es \in Seq(Entry) /\ Placed(es, f, Len(t.nodes), N)
  <2> HIDE DEF f
  <2>1. FlattenSeq(f) \in Seq(Entry) /\ Placed(FlattenSeq(f), f, Len(t.nodes), N)
    BY <1>1, <1>2, <1>3, <1>4, FlattenPlaces
  <2> QED  BY <1>6, <2>1
<1>9. t.id = NoId => es \in Seq(Entry)  BY <1>5, <1>6, ForEachNode
<1>10. es \in Seq(Entry)  BY <1>8, <1>9
<1> HIDE DEF es
<1>11. u \in TransactionType /\ SameBut(t, u) /\ u.entries = es
  BY <1>7, <1>10 DEF TransactionType, SameBut
<1>12. ASSUME t.id # NoId  PROVE LaidOut(u)
  <2>1. /\ Count(u) = N /\ \A c : addToChunk(u, c) = addToChunk(t, c)
    BY <1>11, SameChunks DEF SameBut, N
  <2>2. Len(es) = N * Len(t.nodes)  BY <1>8, <1>12 DEF Placed
  <2>3. ASSUME NEW c \in 0 .. N - 1, NEW i \in DOMAIN t.nodes
        PROVE  es[c * Len(t.nodes) + i] = [addToChunk(t, c) EXCEPT !.node = t.nodes[i]]
    <3>1. es[c * Len(t.nodes) + i] = f[c + 1][i]  BY <1>4, <1>8, <1>12 DEF Placed
    <3>2. c + 1 \in 1 .. N /\ (c + 1) - 1 = c  BY <1>1
    <3> HIDE DEF f
    <3> QED  BY <1>2, <3>1, <3>2
  <2>4. u.entries = es /\ u.nodes = t.nodes  BY <1>11 DEF SameBut
  <2>5. Len(u.entries) = Count(u) * Len(u.nodes)  BY <2>1, <2>2, <2>4
  <2>6. ASSUME NEW c \in 0 .. Count(u) - 1, NEW i \in DOMAIN u.nodes
        PROVE  u.entries[c * Len(u.nodes) + i] = [addToChunk(u, c) EXCEPT !.node = u.nodes[i]]
    <3>1. c \in 0 .. N - 1 /\ i \in DOMAIN t.nodes  BY <2>1, <2>4
    <3> QED  BY <2>1, <2>3, <2>4, <3>1
  <2> QED  BY <2>5, <2>6 DEF LaidOut
<1>13. ASSUME t.id = NoId
       PROVE  /\ Len(es) = Len(t.nodes)
              /\ \A i \in DOMAIN t.nodes : es[i].id = NoId /\ es[i].data = t.data
  <2>1. \A i \in DOMAIN t.nodes : es[i] = [e EXCEPT !.node = t.nodes[i]] /\ Len(es) = Len(t.nodes)
    BY <1>5, <1>6, <1>13, ForEachNode
  <2>2. \A a : [e EXCEPT !.node = a].id = NoId /\ [e EXCEPT !.node = a].data = t.data
    BY <1>5 DEF Entry
  <2>3. Len(es) = Len(t.nodes)  BY <1>5, <1>6, <1>13, ForEachNode
  <2> QED  BY <2>1, <2>2, <2>3
<1> QED  BY <1>11, <1>12, <1>13 DEF u

-----------------------------------------------------------------------------
(***************************************************************************)
(* Freezing, and the way through bytes.                                    *)
(***************************************************************************)
LEMMA NetworkNodes == Nodes \in Seq(ToSet(Nodes)) /\ Nodes # <<>>
  BY ChunkedAssumption

LEMMA FrozenX ==
  ASSUME NEW t, NEW way, Sensible(t, way), lastId \in Nat
  PROVE  LET u == Frozen(t)
         IN /\ Sensible(u, way) /\ u.frozen /\ u.signed = t.signed
            /\ u.kind = t.kind /\ u.data = t.data /\ u.chunkSize = t.chunkSize
            /\ u.current = t.current /\ (t.frozen => u = t)
<1> DEFINE u == Frozen(t)
           s == [t EXCEPT !.id = IF @ = NoId THEN lastId + Gap ELSE @,
                          !.nodes = IF @ = <<>> THEN Nodes ELSE @,
                          !.frozen = TRUE]
<1>1. CASE t.frozen
  BY <1>1 DEF Frozen
<1>2. CASE ~t.frozen
  <2>1. t \in TransactionType /\ t.current = 0 /\ ~t.signed
    BY <1>2 DEF Sensible
  <2>2. /\ s \in TransactionType /\ s.id # NoId /\ s.nodes # <<>> /\ s.frozen
        /\ s.current = 0 /\ ~s.signed /\ s.kind = t.kind /\ s.data = t.data
        /\ s.chunkSize = t.chunkSize
    <3> DEFINE id    == IF t.id = NoId THEN lastId + Gap ELSE t.id
               nodes == IF t.nodes = <<>> THEN Nodes ELSE t.nodes
    <3>1. id \in Nat /\ id # NoId  BY <2>1, TypeFacts DEF NoId, Gap
    <3>2. nodes \in Seq(ToSet(Nodes)) /\ nodes # <<>>  BY <2>1, TypeFacts, NetworkNodes
    <3>3. s = [t EXCEPT !.id = id, !.nodes = nodes, !.frozen = TRUE]
      BY <2>1 DEF TransactionType
    <3> HIDE DEF s, id, nodes
    <3> QED  BY <2>1, <3>1, <3>2, <3>3 DEF TransactionType
  <2>3. u = regenerateSignedTransactions(s)  BY <1>2 DEF Frozen
  <2> HIDE DEF s, u
  <2>4. u \in TransactionType /\ SameBut(s, u) /\ LaidOut(u)
    BY <2>2, <2>3, RegenerateX
  <2>5. Numbered(u)  BY <2>4, LaidOutNumbered
  <2>6. Sensible(u, way)  BY <2>2, <2>4, <2>5 DEF SameBut, Sensible
  <2>7. /\ u.frozen /\ u.signed = t.signed /\ u.kind = t.kind /\ u.data = t.data
        /\ u.chunkSize = t.chunkSize /\ u.current = t.current
    BY <2>1, <2>2, <2>4 DEF SameBut, TransactionType
  <2> QED  BY <1>2, <2>6, <2>7 DEF u
<1> QED  BY <1>1, <1>2

\* Data that are put together from entries for every node.
Together(t) ==
  [c \in 1 .. (Len(t.entries) \div Len(t.nodes)) |-> t.entries[(c - 1) * Len(t.nodes) + 1].data]

LEMMA TogetherType ==
  ASSUME NEW t \in TransactionType, t.nodes # <<>>
  PROVE  FlattenSeq(Together(t)) \in Data
<1> DEFINE n == Len(t.nodes)
           l == Len(t.entries)
           m == l \div n
           f == Together(t)
<1>1. n \in Nat \ {0} /\ l \in Nat /\ t.entries \in Seq(Entry)  BY TypeFacts
<1>2. ASSUME NEW c \in 1 .. m  PROVE t.entries[(c - 1) * n + 1].data \in Data
  <2> HIDE DEF n, l
  <2>1. m \in Nat /\ m * n <= l  BY <1>1
  <2>2. (c - 1) * n + 1 \in 1 .. m * n
    <3>1. c - 1 \in 0 .. m - 1 /\ 1 \in 1 .. n /\ n \in Nat  BY <1>1, <2>1
    <3> HIDE DEF m
    <3> QED  BY <2>1, <3>1, PlaceBound
  <2>3. (c - 1) * n + 1 \in 1 .. l
    <3> DEFINE k == (c - 1) * n + 1
               p == m * n
    <3>1. k \in 1 .. p /\ p <= l /\ p \in Nat  BY <1>1, <2>1, <2>2
    <3> HIDE DEF k, p
    <3>2. k \in 1 .. l  BY <1>1, <3>1
    <3> QED  BY <3>2 DEF k
  <2>4. \A k \in 1 .. l : t.entries[k] \in Entry  BY <1>1 DEF l
  <2>5. t.entries[(c - 1) * n + 1] \in Entry  BY <2>3, <2>4
  <2> QED  BY <2>5 DEF Entry
<1>3. m \in Nat
  <2> HIDE DEF n, l
  <2> QED  BY <1>1
<1>4. f = [c \in 1 .. m |-> t.entries[(c - 1) * n + 1].data]  BY DEF Together
<1> HIDE DEF n, l, m, f
<1>5. f \in [1 .. m -> Seq(Bytes)]  BY <1>2, <1>4 DEF Data
<1>6. FlattenSeq(f) \in Seq(Bytes)  BY <1>3, <1>5, FlattenType
<1> QED  BY <1>6 DEF f, Data

LEMMA TogetherChunks ==
  ASSUME NEW t \in TransactionType, t.nodes # <<>>, LaidOut(t)
  PROVE  FlattenSeq(Together(t)) = t.data
<1> DEFINE n == Len(t.nodes)
           N == Count(t)
           f == Together(t)
<1>1. n \in Nat \ {0} /\ N \in Nat /\ 1 \in DOMAIN t.nodes /\ Cuttable(t) /\ t.id \in Nat
  BY TypeFacts
<1>2. Len(t.entries) = N * n  BY DEF LaidOut
<1>3. (N * n) \div n = N
  <2> HIDE DEF n, N
  <2> QED  BY <1>1
<1>4. f = [c \in 1 .. N |-> t.entries[(c - 1) * n + 1].data]  BY <1>2, <1>3 DEF Together
<1>5. ASSUME NEW c \in 1 .. N  PROVE f[c] = getDataForChunk(t, c - 1)
  <2>1. c - 1 \in 0 .. N - 1  BY <1>1
  <2>2. t.entries[(c - 1) * n + 1] = [addToChunk(t, c - 1) EXCEPT !.node = t.nodes[1]]
    BY <1>1, <2>1 DEF LaidOut
  <2>3. addToChunk(t, c - 1) \in Entry /\ addToChunk(t, c - 1).data = getDataForChunk(t, c - 1)
    BY <1>1, <2>1, ChunkFacts
  <2>4. [addToChunk(t, c - 1) EXCEPT !.node = t.nodes[1]].data = getDataForChunk(t, c - 1)
    BY <2>3 DEF Entry
  <2> HIDE DEF f
  <2> QED  BY <1>4, <2>2, <2>4
<1>6. \A c \in 1 .. N : getDataForChunk(t, c - 1) \in Data
  <2>1. \A c \in 1 .. N : c - 1 \in 0 .. N - 1  BY <1>1
  <2> QED  BY <1>1, <2>1, PieceFacts
<1> HIDE DEF f
<1>7. f \in [1 .. N -> Data]
  <2>1. f = [c \in 1 .. N |-> f[c]]  BY <1>4
  <2> QED  BY <1>5, <1>6, <2>1
<1>8. FlattenSeq(f) = Upto(t, N)
  <2>1. N <= Count(t)  BY <1>1
  <2> QED  BY <1>1, <1>5, <1>7, <2>1, FlattenPieces
<1> QED  BY <1>1, <1>8, UptoEnds DEF f

LEMMA TogetherCopies ==
  ASSUME NEW t \in TransactionType, t.nodes # <<>>, Len(t.entries) = Len(t.nodes),
         t.entries[1].data = t.data
  PROVE  FlattenSeq(Together(t)) = t.data
<1> DEFINE f == Together(t)
<1>1. Len(t.nodes) \in Nat \ {0} /\ t.data \in Seq(Bytes)  BY TypeFacts DEF Data
<1>2. Len(t.nodes) \div Len(t.nodes) = 1
  <2> DEFINE n == Len(t.nodes)
  <2>1. n \in Nat \ {0}  BY <1>1
  <2> HIDE DEF n
  <2>2. n \div n = 1  BY <2>1
  <2> QED  BY <2>2 DEF n
<1>3. f = [c \in 1 .. 1 |-> t.entries[(c - 1) * Len(t.nodes) + 1].data]
  BY <1>2 DEF Together
<1>4. f = [c \in 1 .. 1 |-> t.data]
  <2>1. \A c \in 1 .. 1 : (c - 1) * Len(t.nodes) + 1 = 1  BY <1>1
  <2> QED  BY <1>3, <2>1
<1>5. f = Append(<<>>, t.data)  BY <1>4
<1>6. <<>> \in Seq(Seq(Bytes))  OBVIOUS
<1> HIDE DEF f
<1>7. FlattenSeq(f) = t.data  BY <1>1, <1>5, <1>6, FlattenAppend
<1> QED  BY <1>7 DEF f

LEMMA BlankFacts ==
  ASSUME NEW kind \in {"file", "topic"}
  PROVE  /\ Blank(kind) \in TransactionType /\ Blank(kind).kind = kind
         /\ Blank(kind).chunkSize = DefaultSize /\ Blank(kind).current = 0
         /\ ~Blank(kind).frozen /\ ~Blank(kind).signed
<1>1. <<>> \in Data /\ <<>> \in Seq(ToSet(Nodes)) /\ <<>> \in Seq(Entry)  BY DEF Data
<1>2. DefaultSize \in Nat \ {0} /\ FileSize \in Nat \ {0} /\ DefaultMax \in Nat
  BY ChunkedAssumption
<1> QED  BY <1>1, <1>2 DEF Blank, New, TransactionType, NoId

LEMMA FromEntriesX ==
  ASSUME NEW u \in TransactionType, u.nodes # <<>>, u.entries # <<>>
  PROVE  LET v == FromEntries(u)
         IN /\ v \in TransactionType /\ v.kind = u.kind /\ v.chunkSize = DefaultSize
            /\ v.current = 0 /\ v.id = u.entries[1].id /\ v.nodes = u.nodes
            /\ v.entries = u.entries /\ v.frozen = u.signed /\ v.signed = u.signed
            /\ u.kind = "topic" => v.data = FlattenSeq(Together(u))
<1> DEFINE v    == FromEntries(u)
           data == IF u.kind = "file" THEN u.entries[1].data ELSE FlattenSeq(Together(u))
<1>1. u.entries[1] \in Entry  BY TypeFacts
<1>2. u.entries[1].id \in Nat /\ u.entries[1].data \in Data  BY <1>1 DEF Entry
<1>3. data \in Data  BY <1>2, TogetherType
<1>4. u.kind = "topic" => data = FlattenSeq(Together(u))  OBVIOUS
<1>5. v = [Blank(u.kind) EXCEPT !.id = u.entries[1].id, !.nodes = u.nodes,
             !.entries = u.entries, !.frozen = u.signed, !.signed = u.signed, !.data = data]
  BY DEF FromEntries, Together
<1> HIDE DEF v, data
<1>6. Blank(u.kind) \in TransactionType /\ Blank(u.kind).kind = u.kind
      /\ Blank(u.kind).chunkSize = DefaultSize /\ Blank(u.kind).current = 0
  BY TypeFacts, BlankFacts
<1> DEFINE b == Blank(u.kind)
<1> HIDE DEF b
<1>7. /\ u.nodes \in Seq(ToSet(Nodes)) /\ u.entries \in Seq(Entry) /\ u.signed \in BOOLEAN
  BY TypeFacts
<1>8. /\ v \in TransactionType /\ v.kind = b.kind /\ v.chunkSize = b.chunkSize
      /\ v.current = b.current /\ v.id = u.entries[1].id /\ v.nodes = u.nodes
      /\ v.entries = u.entries /\ v.frozen = u.signed /\ v.signed = u.signed /\ v.data = data
  <2>1. b \in TransactionType  BY <1>6 DEF b
  <2>2. v = [b EXCEPT !.id = u.entries[1].id, !.nodes = u.nodes,
             !.entries = u.entries, !.frozen = u.signed, !.signed = u.signed, !.data = data]
    BY <1>5 DEF b
  <2> QED  BY <1>2, <1>3, <1>7, <2>1, <2>2 DEF TransactionType
<1>9. v.kind = u.kind /\ v.chunkSize = DefaultSize /\ v.current = 0  BY <1>6, <1>8 DEF b
<1>10. u.kind = "topic" => v.data = FlattenSeq(Together(u))  BY <1>4, <1>8
<1> QED  BY <1>8, <1>9, <1>10 DEF v

LEMMA FromSourceX ==
  ASSUME NEW u \in TransactionType
  PROVE  FromSource(u) \in TransactionType /\ ~FromSource(u).frozen /\ ~FromSource(u).signed
         /\ FromSource(u).current = 0 /\ FromSource(u).id = u.id
<1> DEFINE b == Blank(u.kind)
           data == IF u.kind = "file" THEN u.data ELSE <<>>
<1>1. b \in TransactionType /\ ~b.frozen /\ ~b.signed /\ b.current = 0
  BY TypeFacts, BlankFacts
<1>2. data \in Data /\ u.id \in Nat  BY TypeFacts DEF Data
<1>3. FromSource(u) = [b EXCEPT !.id = u.id, !.data = data]  BY DEF FromSource
<1> HIDE DEF b, data
<1> QED  BY <1>1, <1>2, <1>3 DEF TransactionType

LEMMA WrittenX ==
  ASSUME NEW t \in TransactionType
  PROVE  LET u == Written(t)
         IN /\ u \in TransactionType /\ SameBut(t, u)
            /\ t.frozen => u = t
            /\ ~t.frozen /\ t.nodes # <<>> /\ t.id # NoId => LaidOut(u)
            /\ ~t.frozen /\ t.nodes # <<>> /\ t.id = NoId =>
                 /\ Len(u.entries) = Len(u.nodes)
                 /\ u.entries[1].id = NoId /\ u.entries[1].data = u.data
<1> DEFINE u == Written(t)
<1>1. CASE t.nodes = <<>> \/ t.frozen
  BY <1>1 DEF Written, SameBut
<1>2. CASE ~(t.nodes = <<>> \/ t.frozen)
  <2>1. u = regenerateSignedTransactions(t)  BY <1>2 DEF Written
  <2>2. 1 \in DOMAIN t.nodes  BY <1>2, TypeFacts
  <2> HIDE DEF u
  <2>3. u \in TransactionType /\ SameBut(t, u) /\ (t.id # NoId => LaidOut(u))
    BY <2>1, RegenerateX
  <2>4. t.id = NoId => /\ Len(u.entries) = Len(t.nodes)
                       /\ u.entries[1].id = NoId /\ u.entries[1].data = t.data
    BY <2>1, <2>2, RegenerateX
  <2> QED  BY <1>2, <2>3, <2>4 DEF u, SameBut
<1> QED  BY <1>1, <1>2

\* The ID of the first entry is the ID of the transaction.
LEMMA FirstEntry ==
  ASSUME NEW u \in TransactionType, Numbered(u), u.nodes # <<>>, u.entries # <<>>
  PROVE  u.entries[1].id = u.id
<1> DEFINE n == Len(u.nodes)
<1>1. n \in Nat \ {0} /\ 1 \in DOMAIN u.nodes /\ Len(u.entries) \in Nat \ {0} /\ u.id \in Nat
  BY TypeFacts
<1>2. 0 * n + 1 = 1
  <2> HIDE DEF n
  <2> QED  BY <1>1
<1>3. 0 \in 0 .. Len(u.entries) /\ 1 <= Len(u.entries)  BY <1>1
<1>4. u.entries[0 * n + 1].id = u.id + 0  BY <1>1, <1>2, <1>3 DEF Numbered
<1> QED  BY <1>1, <1>2, <1>4

\* The transaction that is read back from its bytes.
Restored(u) == IF u.nodes = <<>> THEN FromSource(u) ELSE FromEntries(u)

LEMMA SameEntries ==
  ASSUME NEW u, NEW v, v.entries = u.entries, v.nodes = u.nodes, v.id = u.id
  PROVE  /\ Numbered(u) => Numbered(v)
         /\ /\ LaidOut(u) /\ Count(v) = Count(u)
            /\ \A c : addToChunk(v, c) = addToChunk(u, c)
            => LaidOut(v)
  BY DEF Numbered, LaidOut

LEMMA RestoredId ==
  ASSUME NEW t, NEW way, Sensible(t, way),
         Written(t).nodes # <<>> => Written(t).entries # <<>>
  PROVE  Restored(Written(t)).id = t.id
<1> DEFINE u == Written(t)
<1>1. t \in TransactionType /\ u \in TransactionType /\ SameBut(t, u) /\ (t.frozen => u = t)
      /\ (~t.frozen /\ t.nodes # <<>> /\ t.id # NoId => LaidOut(u))
      /\ (~t.frozen /\ t.nodes # <<>> /\ t.id = NoId => u.entries[1].id = NoId)
  BY WrittenX DEF Sensible
<1>2. u.id = t.id /\ u.nodes = t.nodes  BY <1>1 DEF SameBut
<1>3. CASE u.nodes = <<>>  BY <1>1, <1>2, <1>3, FromSourceX DEF Restored
<1>4. CASE u.nodes # <<>>
  <2>1. u.entries # <<>>  BY <1>4
  <2> HIDE DEF u
  <2>2. Restored(u).id = u.entries[1].id  BY <1>1, <1>4, <2>1, FromEntriesX DEF Restored
  <2>3. CASE ~t.frozen /\ t.id = NoId  BY <1>1, <1>2, <1>4, <2>2, <2>3 DEF u
  <2>4. CASE ~(~t.frozen /\ t.id = NoId)
    <3>1. Numbered(u)  BY <1>1, <1>2, <1>4, <2>4, LaidOutNumbered DEF Sensible
    <3>2. u.entries[1].id = u.id  BY <1>1, <1>4, <2>1, <3>1, FirstEntry
    <3> QED  BY <1>2, <2>2, <3>2 DEF u
  <2> QED  BY <2>3, <2>4
<1> QED  BY <1>3, <1>4

LEMMA RestoredX ==
  ASSUME NEW t, NEW way, Sensible(t, way),
         Written(t).nodes # <<>> => Written(t).entries # <<>>
  PROVE  /\ Sensible(Restored(Written(t)), "other")
         /\ t.kind = "topic" /\ t.nodes # <<>> /\ t.chunkSize = DefaultSize /\ way # "other" =>
              LET v == Restored(Written(t))
              IN /\ Sensible(v, "whole") /\ v.data = t.data /\ v.id = t.id
                 /\ v.chunkSize = t.chunkSize /\ v.kind = t.kind /\ v.current = 0
                 /\ v.signed = t.signed
<1> DEFINE u == Written(t)
           v == Restored(u)
<1>1. t \in TransactionType /\ u \in TransactionType /\ SameBut(t, u) /\ (t.frozen => u = t)
  BY WrittenX DEF Sensible
<1>2. u.signed => t.frozen /\ u = t  BY <1>1 DEF SameBut, Sensible
<1>3. CASE u.nodes = <<>>
  <2>1. v = FromSource(u)  BY <1>3 DEF Restored
  <2>2. v \in TransactionType /\ ~v.frozen /\ ~v.signed /\ v.current = 0
    BY <1>1, <2>1, FromSourceX
  <2>3. t.nodes = <<>>  BY <1>1, <1>3 DEF SameBut
  <2> HIDE DEF v
  <2>4. Sensible(v, "other")  BY <2>2 DEF Sensible
  <2> QED  BY <2>3, <2>4 DEF v
<1>4. CASE u.nodes # <<>>
  <2>1. v = FromEntries(u) /\ u.entries # <<>>  BY <1>4 DEF Restored
  <2> HIDE DEF v, u
  <2>2. /\ v \in TransactionType /\ v.kind = u.kind /\ v.chunkSize = DefaultSize
        /\ v.current = 0 /\ v.id = u.entries[1].id /\ v.nodes = u.nodes
        /\ v.entries = u.entries /\ v.frozen = u.signed /\ v.signed = u.signed
        /\ u.kind = "topic" => v.data = FlattenSeq(Together(u))
    BY <1>1, <1>4, <2>1, FromEntriesX
  <2>3. u.signed => Numbered(u) /\ u.id # NoId  BY <1>2 DEF Sensible
  <2>4. u.signed => v.id = u.id  BY <1>1, <1>4, <2>1, <2>2, <2>3, FirstEntry
  <2>5. v.frozen => v.id # NoId /\ v.nodes # <<>> /\ Numbered(v)
    BY <1>4, <2>2, <2>3, <2>4, SameEntries
  <2>6. Sensible(v, "other")  BY <2>2, <2>5 DEF Sensible
  <2>7. ASSUME t.kind = "topic", t.nodes # <<>>, t.chunkSize = DefaultSize, way # "other"
        PROVE  /\ Sensible(v, "whole") /\ v.data = t.data /\ v.id = t.id
               /\ v.chunkSize = t.chunkSize /\ v.kind = t.kind /\ v.current = 0
               /\ v.signed = t.signed
    <3>1. CASE LaidOut(u)
      <4>1. Numbered(u)  BY <1>1, <3>1, LaidOutNumbered
      <4>2. v.id = u.id  BY <1>1, <1>4, <2>1, <2>2, <4>1, FirstEntry
      <4>3. FlattenSeq(Together(u)) = u.data  BY <1>1, <1>4, <3>1, TogetherChunks
      <4>4. u.kind = "topic" /\ u.chunkSize = DefaultSize  BY <1>1, <2>7 DEF SameBut
      <4>5. v.data = u.data  BY <2>2, <4>3, <4>4
      <4>6. Count(v) = Count(u) /\ \A c : addToChunk(v, c) = addToChunk(u, c)
        BY <2>2, <4>2, <4>4, <4>5, SameChunks
      <4>7. LaidOut(v)  BY <2>2, <3>1, <4>2, <4>6, SameEntries
      <4>8. Sensible(v, "whole")  BY <2>6, <4>7 DEF Sensible
      <4> QED  BY <1>1, <2>2, <2>7, <4>2, <4>5, <4>8 DEF SameBut
    <3>2. CASE ~LaidOut(u)
      <4>1. ~t.frozen /\ t.id = NoId
        BY <1>1, <2>7, <3>2, WrittenX DEF Sensible, u
      <4>2. Len(u.entries) = Len(u.nodes) /\ u.entries[1].id = NoId /\ u.entries[1].data = u.data
        BY <1>1, <2>7, <4>1, WrittenX DEF u
      <4>3. FlattenSeq(Together(u)) = u.data  BY <1>1, <1>4, <4>2, TogetherCopies
      <4>4. ~v.frozen  BY <1>1, <2>2, <4>1 DEF SameBut, Sensible
      <4>5. Sensible(v, "whole")  BY <2>6, <4>4 DEF Sensible
      <4> QED  BY <1>1, <2>2, <2>7, <4>1, <4>2, <4>3, <4>5 DEF SameBut
    <3> QED  BY <3>1, <3>2
  <2> QED  BY <2>6, <2>7 DEF v, u
<1> QED  BY <1>3, <1>4

-----------------------------------------------------------------------------
(***************************************************************************)
(* The first state, and steps that send nothing.                           *)
(***************************************************************************)
USE DEF histVars

LEMMA InitIInv ==
  ASSUME Init
  PROVE  IInv
<1>1. PICK kind \in Kinds, m \in Messages : tx = New(kind, m)  BY DEF Init
<1>2. /\ lastId = NoId /\ pc = "idle" /\ responses = <<>> /\ outcome = "none"
      /\ pending = {} /\ ledger = <<>> /\ failed = {} /\ expiry = NoId
      /\ restored = [way |-> "no", message |-> tx.data] /\ unheard = {}
  BY DEF Init
<1>3. kind \in {"file", "topic"} /\ m \in Data /\ DefaultMax \in Nat
      /\ DefaultSize \in Nat \ {0} /\ FileSize \in Nat \ {0}
  BY ChunkedAssumption DEF Data
<1>4. <<>> \in Seq(ToSet(Nodes)) /\ <<>> \in Seq(Entry)  OBVIOUS
<1>5. /\ tx \in TransactionType /\ ~tx.frozen /\ ~tx.signed /\ tx.current = 0 /\ tx.data = m
      /\ tx.id = NoId
  BY <1>1, <1>3, <1>4 DEF New, TransactionType, NoId
<1>6. Sensible(tx, restored.way)  BY <1>5 DEF Sensible
<1>7. Calling  BY <1>2 DEF Calling, Steps
<1>8. Network  BY <1>2 DEF Network, Apart, NoId
<1>9. ResponsesNameChunks  BY <1>2 DEF ResponsesNameChunks
<1>10. Seen = {}  BY <1>2 DEF Seen, Taken, ToSet
<1>11. History  BY <1>2, <1>5, <1>10 DEF History, EarlierChunksAccepted
<1>12. Chunks  BY <1>2, <1>10 DEF Chunks
<1>13. Appending  BY <1>2, <1>5 DEF Appending
<1>14. Answers  BY <1>2, <1>5 DEF Answers, NoId
<1> QED  BY <1>6, <1>7, <1>8, <1>9, <1>11, <1>12, <1>13, <1>14 DEF IInv, Kept

\* Steps of a call that leave the object and the network as they are.
LEMMA CallX ==
  ASSUME IInv, UNCHANGED <<tx, lastId, netVars, unheard, restored>>, Calling',
         responses' = responses \/ responses' = <<>>,
         outcome' = "done" => outcome = "done"
  PROVE  Kept'
<1> USE DEF netVars
<1>1. Seen' = Seen /\ Passed' = Passed  BY DEF Seen, Passed, Taken
<1>2. Sensible(tx, restored.way)'  BY DEF IInv, Kept
<1>3. Network'
  <2>1. responses' \in Seq(Nat)
    <3>1. responses \in Seq(Nat) /\ <<>> \in Seq(Nat)  BY DEF IInv, Kept, Network
    <3> QED  BY <3>1
  <2> QED  BY <2>1 DEF IInv, Kept, Network, Apart
<1>4. ResponsesNameChunks'  BY <1>1 DEF IInv, Kept, ResponsesNameChunks
<1>5. History'  BY <1>1 DEF IInv, Kept, History, EarlierChunksAccepted, Whole
<1>6. Chunks'  BY <1>1 DEF IInv, Kept, Chunks, Whole
<1>7. Appending'  BY DEF IInv, Kept, Appending, Plain
<1> QED  BY <1>2, <1>3, <1>4, <1>5, <1>6, <1>7 DEF IInv, Kept

\* Nothing of a transaction that can be edited was sent.
LEMMA NothingSent ==
  ASSUME IInv, Whole, ~tx.frozen
  PROVE  /\ Seen = {} /\ pending = {} /\ failed = {} /\ ledger = <<>>
<1>1. Seen = {}  BY DEF IInv, Kept, History, Sensible
<1>2. pending = {} /\ failed = {} /\ ToSet(ledger) = {}  BY <1>1 DEF Seen, Taken
<1>3. ledger \in Seq(Entry)  BY DEF IInv, Kept, Network
<1>4. ledger = <<>>
  <2> SUFFICES ASSUME ledger # <<>>  PROVE FALSE
    OBVIOUS
  <2>1. 1 \in DOMAIN ledger  BY <1>3
  <2>2. ledger[1] \in ToSet(ledger)  BY <2>1 DEF ToSet
  <2> QED  BY <1>2, <2>2
<1> QED  BY <1>1, <1>2, <1>4

LEMMA EditX ==
  ASSUME IInv, pc = "idle", ~tx.frozen,
         UNCHANGED <<pc, request, responses, netVars, unheard>>, lastId' \in Nat,
         Sensible(tx', restored.way), tx'.current = 0,
         restored'.way = restored.way, restored'.message \in Messages,
         restored' \in [way : {"no", "other", "whole"}, message : Messages],
         restored.way = "no" => restored'.message = tx'.data,
         outcome' = "done" => outcome = "done" /\ tx'.data = tx.data
  PROVE  Kept'
<1> USE DEF netVars
<1>1. Seen' = Seen  BY DEF Seen, Taken
<1>2. Sensible(tx, restored.way)'  OBVIOUS
<1>3. Calling'  BY DEF Calling, Steps
<1>4. Network'  BY DEF IInv, Kept, Network, Apart
<1>5. ResponsesNameChunks'  BY <1>1 DEF IInv, Kept, ResponsesNameChunks
<1>6. Whole => Seen' = {} /\ pending' = {} /\ failed' = {} /\ ledger' = <<>>
  BY <1>1, NothingSent
<1>7. Whole' <=> Whole  BY DEF Whole
<1>8. History'
  <2>1. restored'.way # "other" /\ Seen' # {} => tx'.signed  BY <1>6, <1>7 DEF Whole
  <2>2. EarlierChunksAccepted'
    <3>1. 1 .. tx'.current = {}
      <4>1. 1 .. 0 = {}  OBVIOUS
      <4> QED  BY <4>1
    <3> QED  BY <3>1 DEF EarlierChunksAccepted
  <2> QED  BY <2>1, <2>2 DEF History, Whole
<1>9. Chunks'
  <2>1. ASSUME Whole', expiry' = NoId
        PROVE  /\ \A e \in Seen' : e.number \in 1 .. Count(tx') /\ e = addToChunk(tx', e.number - 1)
               /\ outcome' = "done" => \A n \in 1 .. Count(tx') : \E e \in Passed' : e.number = n
    <3>1. Seen' = {} /\ Seen = {}  BY <1>1, <1>6, <1>7, <2>1
    <3>2. ASSUME outcome' = "done"  PROVE Count(tx') = 0
      <4>0. Passed = {}  BY <3>1 DEF Passed, Seen
      <4>1. 1 .. Count(tx) = {}
        BY <1>7, <2>1, <3>2, <4>0 DEF IInv, Kept, Chunks
      <4>2. tx \in TransactionType /\ tx' \in TransactionType  BY DEF IInv, Kept, Sensible
      <4>3. Count(tx) \in Nat /\ Cuttable(tx) /\ Cuttable(tx')  BY <4>2, TypeFacts
      <4>4. Count(tx) = 0
        <5>1. Count(tx) # 0 => 1 \in 1 .. Count(tx)  BY <4>3
        <5> QED  BY <4>1, <5>1
      <4>5. tx.data = <<>>  BY <4>3, <4>4, CountFacts
      <4>6. tx'.data = <<>>  BY <3>2, <4>5
      <4> QED  BY <4>3, <4>6, CountFacts
    <3>3. outcome' = "done" => 1 .. Count(tx') = {}
      <4>1. 1 .. 0 = {}  OBVIOUS
      <4> QED  BY <3>2, <4>1
    <3> QED  BY <3>1, <3>3
  <2> QED  BY <2>1 DEF Chunks
<1>10. Appending'
  <2> SUFFICES ASSUME Plain', tx'.kind = "file"
               PROVE  /\ \A i \in DOMAIN ledger' : ledger'[i].number = i
                      /\ Len(ledger') \in {tx'.current, tx'.current + 1}
                      /\ \A e \in pending' \cup failed' : e.number = tx'.current + 1
    BY DEF Appending
  <2>1. ledger' = <<>> /\ pending' = {} /\ failed' = {}
    BY <1>6, <1>7 DEF Plain, Whole
  <2>2. Len(ledger') = 0 /\ DOMAIN ledger' = {}  BY <2>1
  <2> QED  BY <2>1, <2>2
<1> QED  BY <1>2, <1>3, <1>4, <1>5, <1>8, <1>9, <1>10 DEF IInv, Kept

-----------------------------------------------------------------------------
(***************************************************************************)
(* The user.                                                               *)
(***************************************************************************)
LEMMA RestoredFacts ==
  ASSUME IInv
  PROVE  /\ restored.way \in {"no", "other", "whole"} /\ restored.message \in Messages
         /\ \A m \in Messages : [restored EXCEPT !.message = m].way = restored.way
                             /\ [restored EXCEPT !.message = m].message = m
  BY DEF IInv, Kept, History

\* An edit of one field keeps the object sensible.
LEMMA EditedX ==
  ASSUME NEW t, NEW way, Sensible(t, way), ~t.frozen, NEW u \in TransactionType,
         u.frozen = t.frozen, u.signed = t.signed, u.current = t.current
  PROVE  Sensible(u, way) /\ u.current = 0
  BY DEF Sensible

LEMMA setDataX ==
  ASSUME IInv, setData
  PROVE  Kept'
<1>1. PICK m \in Messages : tx' = [tx EXCEPT !.data = m] /\ restored' = [restored EXCEPT !.message = m]
  BY DEF setData
<1>2. m \in Data  BY ChunkedAssumption DEF Data
<1>3. /\ tx' \in TransactionType /\ tx'.frozen = tx.frozen /\ tx'.signed = tx.signed
      /\ tx'.current = tx.current /\ tx'.data = m
  BY <1>1, <1>2 DEF IInv, Kept, Sensible, TransactionType
<1>4. Sensible(tx, restored.way) /\ ~tx.frozen /\ pc = "idle" /\ lastId \in Nat
  BY DEF setData, NotExecuting, IInv, Kept, Network
<1>5. Sensible(tx', restored.way) /\ tx'.current = 0  BY <1>3, <1>4, EditedX
<1>6. /\ restored'.way = restored.way /\ restored'.message = m
      /\ restored' \in [way : {"no", "other", "whole"}, message : Messages]
  BY <1>1 DEF IInv, Kept, History
<1>7. /\ UNCHANGED <<pc, request, responses, netVars, unheard>> /\ lastId' = lastId
      /\ outcome' # "done"
  BY DEF setData
<1> QED  BY <1>3, <1>4, <1>5, <1>6, <1>7, EditX

\* Any other edit.
LEMMA OtherEdit ==
  ASSUME IInv, NotExecuting, ~tx.frozen, UNCHANGED <<callVars, netVars, unheard, restored>>,
         lastId' \in Nat, tx' \in TransactionType, tx'.data = tx.data,
         Sensible(tx', restored.way), tx'.current = 0
  PROVE  Kept'
<1>1. pc = "idle"  BY DEF NotExecuting
<1>2. /\ restored' = restored /\ restored' \in [way : {"no", "other", "whole"}, message : Messages]
      /\ restored.message \in Messages
      /\ restored.way = "no" => restored'.message = tx'.data
  BY DEF IInv, Kept, History
<1>3. UNCHANGED <<pc, request, responses, netVars, unheard, outcome>>  BY DEF callVars
<1> QED  BY <1>1, <1>2, <1>3, EditX

LEMMA FieldX ==
  ASSUME IInv, setChunkSize \/ setMaxChunks \/ setNodeAccountIds \/ setTransactionId
  PROVE  Kept'
<1>1. tx \in TransactionType /\ lastId \in Nat /\ Sensible(tx, restored.way)
  BY DEF IInv, Kept, Sensible, Network
<1>2. /\ NotExecuting /\ ~tx.frozen /\ UNCHANGED <<callVars, netVars, unheard, restored>>
      /\ lastId' \in Nat
      /\ tx' \in TransactionType /\ tx'.data = tx.data /\ tx'.frozen = tx.frozen
      /\ tx'.signed = tx.signed /\ tx'.current = tx.current
  <2>1. CASE setChunkSize
    <3>1. PICK s \in Sizes : tx' = [tx EXCEPT !.chunkSize = s]  BY <2>1 DEF setChunkSize
    <3>2. s \in Nat \ {0}  BY ChunkedAssumption
    <3>3. /\ tx' \in TransactionType /\ tx'.data = tx.data /\ tx'.frozen = tx.frozen
          /\ tx'.signed = tx.signed /\ tx'.current = tx.current
      BY <1>1, <3>1, <3>2 DEF TransactionType
    <3> QED  BY <1>1, <2>1, <3>3 DEF setChunkSize, Edit
  <2>2. CASE setMaxChunks
    <3>1. PICK n \in Limits : tx' = [tx EXCEPT !.maxChunks = n]  BY <2>2 DEF setMaxChunks
    <3>2. n \in Nat  BY ChunkedAssumption
    <3>3. /\ tx' \in TransactionType /\ tx'.data = tx.data /\ tx'.frozen = tx.frozen
          /\ tx'.signed = tx.signed /\ tx'.current = tx.current
      BY <1>1, <3>1, <3>2 DEF TransactionType
    <3> QED  BY <1>1, <2>2, <3>3 DEF setMaxChunks, Edit
  <2>3. CASE setNodeAccountIds
    <3>1. tx' = [tx EXCEPT !.nodes = Nodes]  BY <2>3 DEF setNodeAccountIds
    <3>2. /\ tx' \in TransactionType /\ tx'.data = tx.data /\ tx'.frozen = tx.frozen
          /\ tx'.signed = tx.signed /\ tx'.current = tx.current
      BY <1>1, <3>1, NetworkNodes DEF TransactionType
    <3> QED  BY <1>1, <2>3, <3>2 DEF setNodeAccountIds, Edit
  <2>4. CASE setTransactionId
    <3>1. lastId' = lastId + Gap /\ tx' = [tx EXCEPT !.id = lastId', !.manual = TRUE]
      BY <2>4 DEF setTransactionId
    <3>2. lastId' \in Nat  BY <1>1, <3>1 DEF Gap
    <3>3. /\ tx' \in TransactionType /\ tx'.data = tx.data /\ tx'.frozen = tx.frozen
          /\ tx'.signed = tx.signed /\ tx'.current = tx.current
      BY <1>1, <3>1, <3>2 DEF TransactionType
    <3> QED  BY <2>4, <3>2, <3>3 DEF setTransactionId
  <2> QED  BY <2>1, <2>2, <2>3, <2>4
<1>3. Sensible(tx', restored.way) /\ tx'.current = 0  BY <1>1, <1>2, EditedX
<1> QED  BY <1>2, <1>3, OtherEdit

LEMMA GeneratedX ==
  ASSUME IInv, NEW needed \in BOOLEAN, GenerateIf(needed)
  PROVE  lastId' \in Nat /\ lastId \in Nat /\ (needed => lastId' # NoId)
  BY DEF GenerateIf, IInv, Kept, Network, Gap, NoId

LEMMA freezeX ==
  ASSUME IInv, freeze
  PROVE  Kept'
<1>1. lastId \in Nat /\ lastId' \in Nat
  BY GeneratedX, (tx.id = NoId) \in BOOLEAN DEF freeze
<1>2. Sensible(tx, restored.way) /\ tx' = Frozen(tx) /\ NotExecuting /\ ~tx.frozen
      /\ UNCHANGED <<callVars, netVars, unheard, restored>>
  BY DEF IInv, Kept, freeze
<1>3. Sensible(tx', restored.way) /\ tx'.data = tx.data /\ tx'.current = tx.current
  BY <1>1, <1>2, FrozenX
<1>4. tx' \in TransactionType /\ tx'.current = 0  BY <1>2, <1>3 DEF Sensible
<1> QED  BY <1>1, <1>2, <1>3, <1>4, OtherEdit

\* The same chunks, and a signature more or the same.
SignedTwin(t, u) ==
  /\ u.kind = t.kind /\ u.data = t.data /\ u.chunkSize = t.chunkSize
  /\ u.current = t.current /\ u.id = t.id /\ u.nodes = t.nodes
  /\ u.entries = t.entries /\ u.frozen = t.frozen /\ u.signed

LEMMA TwinSensible ==
  ASSUME NEW t, NEW way, Sensible(t, way), NEW u \in TransactionType, SignedTwin(t, u),
         t.frozen
  PROVE  Sensible(u, way)
<1>1. Count(u) = Count(t) /\ \A c : addToChunk(u, c) = addToChunk(t, c)
  BY SameChunks DEF SignedTwin
<1>2. /\ Numbered(t) => Numbered(u)
      /\ LaidOut(t) => LaidOut(u)
  BY <1>1, SameEntries DEF SignedTwin
<1> QED  BY <1>1, <1>2 DEF Sensible, SignedTwin

\* Steps that leave the chunks and the network as they are.
LEMMA TwinX ==
  ASSUME IInv, UNCHANGED <<netVars, unheard, restored>>, lastId' \in Nat,
         tx'.kind = tx.kind, tx'.data = tx.data, tx'.chunkSize = tx.chunkSize,
         tx'.current = tx.current, Whole /\ Seen # {} => tx'.id = tx.id /\ tx'.signed,
         Sensible(tx', restored.way), Calling',
         responses' = responses, outcome' = "done" => outcome = "done"
  PROVE  Kept'
<1> USE DEF netVars
<1>1. Seen' = Seen /\ Passed' = Passed  BY DEF Seen, Passed, Taken
<1>2. Count(tx') = Count(tx) /\ (tx'.id = tx.id => \A c : addToChunk(tx', c) = addToChunk(tx, c))
  BY SameChunks
<1>3. Network'  BY DEF IInv, Kept, Network, Apart
<1>4. ResponsesNameChunks'  BY <1>1 DEF IInv, Kept, ResponsesNameChunks
<1>5. History'  BY <1>1 DEF IInv, Kept, History, EarlierChunksAccepted, Whole
<1>6. Chunks'
  <2>1. ASSUME Whole', expiry' = NoId
        PROVE  /\ \A e \in Seen' : e.number \in 1 .. Count(tx') /\ e = addToChunk(tx', e.number - 1)
               /\ outcome' = "done" => \A n \in 1 .. Count(tx') : \E e \in Passed' : e.number = n
    <3>1. Whole /\ expiry = NoId  BY <2>1 DEF Whole
    <3>2. /\ \A e \in Seen : e.number \in 1 .. Count(tx) /\ e = addToChunk(tx, e.number - 1)
          /\ outcome = "done" => \A n \in 1 .. Count(tx) : \E e \in Passed : e.number = n
      BY <3>1 DEF IInv, Kept, Chunks
    <3> QED  BY <1>1, <1>2, <3>1, <3>2
  <2> QED  BY <2>1 DEF Chunks
<1>7. Appending'  BY <1>2 DEF IInv, Kept, Appending, Plain
<1> QED  BY <1>3, <1>4, <1>5, <1>6, <1>7 DEF IInv, Kept

\* Signing changes nothing but the flag.
LEMMA signX ==
  ASSUME IInv, sign
  PROVE  Kept'
<1>1. /\ tx' = [tx EXCEPT !.signed = TRUE] /\ tx.frozen /\ pc = "idle"
      /\ UNCHANGED <<lastId, callVars, netVars, unheard, restored>>
  BY DEF sign, NotExecuting
<1>2. tx \in TransactionType /\ Sensible(tx, restored.way)  BY DEF IInv, Kept, Sensible
<1>3. /\ tx' \in TransactionType /\ SignedTwin(tx, tx')
  BY <1>1, <1>2 DEF TransactionType, SignedTwin
<1>4. UNCHANGED <<pc, request, responses, outcome, lastId, netVars, unheard, restored>>
  BY <1>1 DEF callVars
<1>5. Sensible(tx', restored.way)  BY <1>1, <1>2, <1>3, TwinSensible
<1>6. Calling'  BY <1>1, <1>4 DEF Calling, Steps
<1>7. /\ UNCHANGED <<netVars, unheard, restored>> /\ lastId' \in Nat /\ tx'.signed /\ tx'.id = tx.id
      /\ tx'.kind = tx.kind /\ tx'.data = tx.data /\ tx'.chunkSize = tx.chunkSize
      /\ tx'.current = tx.current /\ responses' = responses /\ outcome' = outcome
  BY <1>3, <1>4 DEF IInv, Kept, Network, SignedTwin
<1> QED  BY <1>5, <1>6, <1>7, TwinX

-----------------------------------------------------------------------------
(***************************************************************************)
(* A call of executeAll().                                                 *)
(***************************************************************************)
LEMMA ThrowX ==
  ASSUME IInv, Throw, UNCHANGED <<tx, lastId, netVars, unheard, restored>>
  PROVE  Kept'
<1>1. Calling' /\ responses' = <<>> /\ outcome' # "done"
  BY DEF Throw, Calling, Steps
<1> QED  BY <1>1, CallX

LEMMA tooManyChunksX ==
  ASSUME IInv, tooManyChunks
  PROVE  Kept'
<1>1. /\ UNCHANGED <<tx, lastId, netVars, unheard, restored>> /\ UNCHANGED <<pc, request, responses>>
      /\ outcome' # "done"
  BY DEF tooManyChunks
<1>2. Calling'  BY <1>1 DEF IInv, Kept, Calling
<1> QED  BY <1>1, <1>2, CallX

LEMMA executeAllX ==
  ASSUME IInv, executeAll
  PROVE  Kept'
<1>1. UNCHANGED <<lastId, netVars, unheard, restored>> /\ responses' = <<>> /\ pc = "idle"
  BY DEF executeAll, NotExecuting
<1>2. CASE tx.current < getNumberOfChunksRequired(tx)
  <2>1. pc' = "chunk" /\ outcome' = "none" /\ UNCHANGED <<tx, request>>
    <3>1. getNumberOfChunksRequired(tx) \in Nat /\ tx.current \in Nat
      BY TypeFacts DEF IInv, Kept, Sensible, Count
    <3> QED  BY <1>2, <3>1 DEF executeAll
  <2>2. Calling'  BY <1>2, <2>1 DEF Calling, Steps, Count
  <2> QED  BY <1>1, <2>1, <2>2, CallX
<1>3. CASE ~(tx.current < getNumberOfChunksRequired(tx))
  <2>1. Done  BY <1>3 DEF executeAll
  <2>2. tx \in TransactionType /\ tx.current = 0 /\ Count(tx) = 0
    <3>1. tx \in TransactionType /\ (tx.current = 0 \/ tx.current < Count(tx))
      BY DEF IInv, Kept, Sensible
    <3>2. Count(tx) \in Nat /\ tx.current \in Nat  BY <3>1, TypeFacts
    <3> QED  BY <1>3, <3>1, <3>2 DEF Count
  <2>3. tx' = tx  BY <2>1, <2>2 DEF Done, TransactionType
  <2>4. 1 .. Count(tx) = {}
    <3>1. 1 .. 0 = {}  OBVIOUS
    <3> QED  BY <2>2, <3>1
  <2>5. pc' = "idle"  BY <2>1 DEF Done
  <2>6. Calling'  BY <2>5 DEF Calling, Steps
  <2> USE DEF netVars
  <2>7. Seen' = Seen /\ Passed' = Passed  BY <1>1, <2>3 DEF Seen, Passed, Taken
  <2>8. Network'
    <3>1. <<>> \in Seq(Nat)  OBVIOUS
    <3> QED  BY <1>1, <3>1 DEF IInv, Kept, Network, Apart
  <2>9. ResponsesNameChunks'  BY <1>1 DEF ResponsesNameChunks
  <2>10. History'  BY <1>1, <2>3, <2>7 DEF IInv, Kept, History, EarlierChunksAccepted, Whole
  <2>11. Chunks'  BY <1>1, <2>3, <2>4, <2>7 DEF IInv, Kept, Chunks, Whole
  <2>12. Appending'  BY <1>1, <2>3, <2>5 DEF IInv, Kept, Appending, Plain
  <2>13. Sensible(tx, restored.way)'  BY <1>1, <2>3 DEF IInv, Kept
  <2> QED  BY <2>6, <2>8, <2>9, <2>10, <2>11, <2>12, <2>13 DEF IInv, Kept
<1> QED  BY <1>2, <1>3

LEMMA onExecuteX ==
  ASSUME IInv, onExecute
  PROVE  Kept'
<1> DEFINE u == Frozen(tx)
<1>1. /\ pc = "chunk" /\ tx' = [u EXCEPT !.signed = TRUE] /\ pc' = "attempt"
      /\ GenerateIf(~tx.frozen /\ tx.id = NoId)
      /\ UNCHANGED <<request, responses, outcome, netVars, unheard, restored>>
  BY DEF onExecute
<1>2. lastId \in Nat /\ lastId' \in Nat
  BY <1>1, GeneratedX, (~tx.frozen /\ tx.id = NoId) \in BOOLEAN
<1>3. Sensible(tx, restored.way) /\ tx.current < Count(tx)  BY <1>1 DEF IInv, Kept, Calling
<1>4. /\ Sensible(u, restored.way) /\ u.frozen /\ u.kind = tx.kind /\ u.data = tx.data
      /\ u.chunkSize = tx.chunkSize /\ u.current = tx.current /\ (tx.frozen => u = tx)
  BY <1>2, <1>3, FrozenX
<1> HIDE DEF u
<1>5. tx' \in TransactionType /\ SignedTwin(u, tx')
  BY <1>1, <1>4 DEF Sensible, TransactionType, SignedTwin
<1>6. Sensible(tx', restored.way)  BY <1>4, <1>5, TwinSensible
<1>7. /\ tx'.kind = tx.kind /\ tx'.data = tx.data /\ tx'.chunkSize = tx.chunkSize
      /\ tx'.current = tx.current /\ tx'.signed
  BY <1>4, <1>5 DEF SignedTwin
<1>8. Whole /\ Seen # {} => tx'.id = tx.id
  BY <1>4, <1>5, NothingSent DEF SignedTwin
<1>9. Count(tx') = Count(tx)  BY <1>7, SameChunks
<1>10. Calling'  BY <1>1, <1>3, <1>7, <1>9 DEF Calling, Steps
<1>11. UNCHANGED <<netVars, unheard, restored>> /\ responses' = responses /\ outcome' = outcome
  BY <1>1
<1> QED  BY <1>2, <1>6, <1>7, <1>8, <1>10, <1>11, TwinX

\* The entry that is sent is the chunk that is due, for one of the nodes.
LEMMA SendX ==
  ASSUME IInv, Send
  PROVE  Kept'
<1> DEFINE n == Len(tx.nodes)
<1>1. PICK i \in DOMAIN tx.nodes :
        makeRequest(tx, i) <= Len(tx.entries) /\ request' = tx.entries[makeRequest(tx, i)]
  BY DEF Send
<1>2. /\ pc = "attempt" /\ pc' = "waiting"
      /\ UNCHANGED <<tx, lastId, responses, outcome, netVars, unheard, restored>>
  BY DEF Send
<1>3. /\ tx \in TransactionType /\ tx.signed /\ tx.frozen /\ Numbered(tx)
      /\ tx.current < Count(tx) /\ (Whole => LaidOut(tx))
  BY <1>2 DEF IInv, Kept, Sensible, Calling, Whole
<1>4. /\ n \in Nat /\ i \in 1 .. n /\ tx.current \in Nat /\ Count(tx) \in Nat /\ Cuttable(tx)
      /\ tx.entries \in Seq(Entry) /\ Len(tx.entries) \in Nat /\ tx.id \in Nat
      /\ tx.nodes[i] \in ToSet(Nodes)
  <2>1. tx.nodes \in Seq(ToSet(Nodes))  BY <1>3, TypeFacts
  <2>2. tx.nodes[i] \in ToSet(Nodes)  BY <2>1
  <2> QED  BY <1>3, <2>2, TypeFacts
<1> DEFINE k == tx.current
<1>5. makeRequest(tx, i) = k * n + i  BY DEF makeRequest
<1>6. k * n + i \in 1 .. Len(tx.entries) /\ k \in 0 .. Len(tx.entries)
  <2>1. k * n + i <= Len(tx.entries)  BY <1>1, <1>5
  <2>2. n > 0 /\ k \in Nat  BY <1>4
  <2> HIDE DEF n, k
  <2>3. k * n \in Nat /\ k * n >= k
    <3>1. k * n \in Nat  BY <1>4, <2>2
    <3>2. n - 1 \in Nat /\ k * (n - 1) \in Nat  BY <1>4, <2>2
    <3>3. k * n = k * (n - 1) + k  BY <1>4, <2>2
    <3> QED  BY <2>2, <3>1, <3>2, <3>3
  <2> QED  BY <1>4, <2>1, <2>2, <2>3
<1>7. request' = tx.entries[k * n + i] /\ request' \in Entry
  BY <1>1, <1>4, <1>5, <1>6
<1>8. request'.id = tx.id + tx.current  BY <1>3, <1>6, <1>7 DEF Numbered
<1>9. ASSUME Whole  PROVE Record(request') = addToChunk(tx, k)
  <2>1. k \in 0 .. Count(tx) - 1  BY <1>3, <1>4
  <2>2. request' = [addToChunk(tx, k) EXCEPT !.node = tx.nodes[i]]
    BY <1>3, <1>7, <1>9, <2>1 DEF LaidOut
  <2>3. addToChunk(tx, k) \in Entry /\ addToChunk(tx, k).node = NoNode
    BY <1>4, <2>1, ChunkFacts
  <2> HIDE DEF k
  <2> QED  BY <2>2, <2>3 DEF Entry, Record
<1>10. Calling'
  BY <1>2, <1>3, <1>7, <1>8, <1>9 DEF Calling, Steps, Whole, Record
<1> QED  BY <1>2, <1>10, CallX

LEMMA ReloadX ==
  ASSUME IInv, Reload
  PROVE  Kept'
<1> DEFINE t == Written(tx)
           lost == t.kind = "file" \/ t.nodes = <<>> \/ t.chunkSize # DefaultSize \/ restored.way = "other"
<1>1. /\ pc = "idle" /\ UNCHANGED <<lastId, callVars, netVars, unheard>>
      /\ t.nodes # <<>> => t.entries # <<>>
      /\ tx' = Restored(t)
      /\ restored' = [restored EXCEPT !.way = IF lost THEN "other" ELSE "whole"]
  BY DEF Reload, NotExecuting, Restored
<1>2. UNCHANGED <<pc, request, responses, outcome, lastId, netVars, unheard>>  BY <1>1 DEF callVars
<1>3. Sensible(tx, restored.way) /\ tx \in TransactionType /\ SameBut(tx, t)
  BY WrittenX DEF IInv, Kept, Sensible
<1>4. /\ restored' \in [way : {"no", "other", "whole"}, message : Messages]
      /\ lost => restored'.way = "other"
      /\ ~lost => restored'.way = "whole"
      /\ restored'.message = restored.message
  BY <1>1 DEF IInv, Kept, History
<1>5. Sensible(tx', "other")  BY <1>1, <1>3, RestoredX
<1>6. ASSUME ~lost
      PROVE  /\ Sensible(tx', "whole") /\ tx'.data = tx.data /\ tx'.id = tx.id
             /\ tx'.chunkSize = tx.chunkSize /\ tx'.kind = tx.kind /\ tx'.current = 0
             /\ tx'.signed = tx.signed /\ Whole
  <2>1. /\ tx.kind = "topic" /\ tx.nodes # <<>> /\ tx.chunkSize = DefaultSize
        /\ restored.way # "other"
    BY <1>3, <1>6, TypeFacts DEF SameBut
  <2> HIDE DEF t, lost
  <2> QED  BY <1>1, <1>3, <2>1, RestoredX DEF Whole, t
<1> HIDE DEF t, lost
<1> USE DEF netVars
<1>7. Seen' = Seen  BY <1>2 DEF Seen, Taken
<1>8. Sensible(tx', restored'.way)  BY <1>4, <1>5, <1>6
<1>9. Calling'  BY <1>1, <1>2 DEF Calling, Steps
<1>10. Network'  BY <1>2 DEF IInv, Kept, Network, Apart
<1>11. ResponsesNameChunks'  BY <1>2, <1>7 DEF IInv, Kept, ResponsesNameChunks
<1>12. ~Plain'  BY <1>4 DEF Plain
<1>13. Whole' => ~lost /\ Whole  BY <1>4, <1>6 DEF Whole
<1>14. History'
  <2>1. restored'.way # "no"  BY <1>4
  <2>2. Whole' /\ Seen' # {} => tx'.signed
    BY <1>6, <1>7, <1>13 DEF IInv, Kept, History
  <2>3. EarlierChunksAccepted'
    <3>1. 1 .. 0 = {}  OBVIOUS
    <3> QED  BY <1>6, <1>13, <3>1 DEF EarlierChunksAccepted, Whole
  <2> QED  BY <1>4, <2>1, <2>2, <2>3 DEF History
<1>15. Chunks'
  <2>1. ASSUME Whole', expiry' = NoId
        PROVE  /\ \A e \in Seen' : e.number \in 1 .. Count(tx') /\ e = addToChunk(tx', e.number - 1)
               /\ outcome' = "done" => \A n \in 1 .. Count(tx') : \E e \in Passed' : e.number = n
    <3>1. Whole /\ expiry = NoId  BY <1>2, <1>13, <2>1
    <3>2. /\ \A e \in Seen : e.number \in 1 .. Count(tx) /\ e = addToChunk(tx, e.number - 1)
          /\ outcome = "done" => \A n \in 1 .. Count(tx) : \E e \in Passed : e.number = n
      BY <3>1 DEF IInv, Kept, Chunks
    <3>3. Count(tx') = Count(tx) /\ \A c : addToChunk(tx', c) = addToChunk(tx, c)
      BY <1>6, <1>13, <2>1, SameChunks
    <3>4. Passed' = Passed
      BY <1>2, <1>6, <1>7, <1>13, <2>1 DEF Passed, Seen, Taken
    <3> QED  BY <1>2, <1>7, <3>2, <3>3, <3>4
  <2> QED  BY <2>1 DEF Chunks
<1>16. Appending'  BY <1>12 DEF Appending
<1> QED  BY <1>8, <1>9, <1>10, <1>11, <1>14, <1>15, <1>16 DEF IInv, Kept

\* Once an ID has expired, little is left to keep.
LEMMA Expired ==
  ASSUME expiry' # NoId
  PROVE  Chunks' /\ Appending'
  BY DEF Chunks, Appending, Plain

LEMMA RegeneratedX ==
  ASSUME IInv, Regenerated
  PROVE  Kept'
<1> DEFINE t == [tx EXCEPT !.id = lastId']
<1>1. /\ pc = "waiting" /\ request.id <= expiry /\ GenerateIf(TRUE)
      /\ tx' = regenerateSignedTransactions(t) /\ pc' = "attempt"
      /\ UNCHANGED <<responses, outcome, netVars, unheard, restored>>
  BY DEF Regenerated, Again
<1>2. lastId' \in Nat /\ lastId' # NoId  BY <1>1, GeneratedX, TRUE \in BOOLEAN
<1>3. /\ Sensible(tx, restored.way) /\ tx \in TransactionType /\ tx.signed /\ tx.frozen
      /\ tx.current < Count(tx) /\ request.id = tx.id + tx.current /\ tx.id # NoId
      /\ tx.nodes # <<>>
  BY <1>1 DEF IInv, Kept, Sensible, Calling
<1>4. /\ t \in TransactionType /\ t.id = lastId' /\ t.kind = tx.kind /\ t.data = tx.data
      /\ t.chunkSize = tx.chunkSize /\ t.current = tx.current /\ t.nodes = tx.nodes
      /\ t.frozen = tx.frozen /\ t.signed = tx.signed
  BY <1>2, <1>3 DEF TransactionType
<1> HIDE DEF t
<1>5. tx' \in TransactionType /\ SameBut(t, tx') /\ LaidOut(tx')
  BY <1>1, <1>2, <1>4, RegenerateX
<1>6. Count(tx') = Count(tx)  BY <1>4, <1>5, SameChunks DEF SameBut
<1>7. Numbered(tx')  BY <1>5, LaidOutNumbered
<1>8. Sensible(tx', restored.way)
  BY <1>2, <1>3, <1>4, <1>5, <1>6, <1>7 DEF Sensible, SameBut
<1>9. expiry # NoId
  <2>1. tx.id \in Nat /\ tx.current \in Nat /\ expiry \in Nat
    BY <1>3, TypeFacts DEF IInv, Kept, Network
  <2> QED  BY <1>1, <1>3, <2>1 DEF NoId
<1>10. expiry' # NoId  BY <1>1, <1>9 DEF netVars
<1>11. Chunks' /\ Appending'  BY <1>10, Expired
<1> USE DEF netVars
<1>12. Seen' = Seen /\ Passed' = Passed
  BY <1>1, <1>4, <1>5 DEF Seen, Passed, Taken, SameBut
<1>13. Calling'  BY <1>1, <1>3, <1>4, <1>5, <1>6 DEF Calling, Steps, SameBut
<1>14. Network'  BY <1>1, <1>2 DEF IInv, Kept, Network, Apart
<1>15. ResponsesNameChunks'  BY <1>1, <1>12 DEF IInv, Kept, ResponsesNameChunks
<1>16. History'
  BY <1>1, <1>3, <1>4, <1>5, <1>12 DEF IInv, Kept, History, EarlierChunksAccepted, Whole, SameBut
<1> QED  BY <1>1, <1>8, <1>11, <1>13, <1>14, <1>15, <1>16 DEF IInv, Kept

-----------------------------------------------------------------------------
(***************************************************************************)
(* What the network takes.                                                 *)
(***************************************************************************)
LEMMA ExpireX ==
  ASSUME IInv, Expire
  PROVE  Kept'
<1>1. /\ UNCHANGED <<tx, lastId, pc, request, responses, outcome, pending, ledger, failed, unheard, restored>>
      /\ expiry' = lastId + Gap - 1
  BY DEF Expire, callVars
<1>2. lastId \in Nat  BY DEF IInv, Kept, Network
<1>3. expiry' \in Nat /\ expiry' # NoId  BY <1>1, <1>2 DEF Gap, NoId
<1>4. Seen' = Seen /\ Passed' = Passed  BY <1>1 DEF Seen, Passed, Taken
<1>5. Chunks' /\ Appending'  BY <1>3, Expired
<1>6. Network'  BY <1>1, <1>3 DEF IInv, Kept, Network, Apart
<1>7. Calling'  BY <1>1 DEF IInv, Kept, Calling
<1>8. ResponsesNameChunks'  BY <1>1, <1>4 DEF IInv, Kept, ResponsesNameChunks
<1>9. History'  BY <1>1, <1>4 DEF IInv, Kept, History, EarlierChunksAccepted, Whole
<1> QED  BY <1>1, <1>5, <1>6, <1>7, <1>8, <1>9 DEF IInv, Kept

LEMMA LedgerAppend ==
  ASSUME NEW S, NEW s \in Seq(S), NEW e \in S
  PROVE  /\ Append(s, e) \in Seq(S) /\ Len(Append(s, e)) = Len(s) + 1 /\ Len(s) \in Nat
         /\ DOMAIN s = 1 .. Len(s) /\ DOMAIN Append(s, e) = 1 .. Len(s) + 1
         /\ \A i \in DOMAIN s : Append(s, e)[i] = s[i]
         /\ Append(s, e)[Len(s) + 1] = e
         /\ ToSet(Append(s, e)) = ToSet(s) \cup {e}
         /\ \A i \in DOMAIN Append(s, e) : \/ i \in DOMAIN s /\ Append(s, e)[i] = s[i]
                                           \/ i = Len(s) + 1 /\ Append(s, e)[i] = e
<1>1. /\ Append(s, e) \in Seq(S) /\ Len(Append(s, e)) = Len(s) + 1 /\ Len(s) \in Nat
      /\ DOMAIN s = 1 .. Len(s) /\ DOMAIN Append(s, e) = 1 .. Len(s) + 1
      /\ \A i \in DOMAIN s : Append(s, e)[i] = s[i]
      /\ Append(s, e)[Len(s) + 1] = e
  OBVIOUS
<1>2. \A i \in 1 .. Len(s) + 1 : i \in 1 .. Len(s) \/ i = Len(s) + 1  BY <1>1
<1>3. \A i \in 1 .. Len(s) : i \in 1 .. Len(s) + 1  BY <1>1
<1>4. Len(s) + 1 \in 1 .. Len(s) + 1  BY <1>1
<1>5. ToSet(Append(s, e)) \subseteq ToSet(s) \cup {e}  BY <1>1, <1>2 DEF ToSet
<1>6. ToSet(s) \cup {e} \subseteq ToSet(Append(s, e))
  <2>1. e \in ToSet(Append(s, e))  BY <1>1, <1>4 DEF ToSet
  <2>2. ASSUME NEW x \in ToSet(s)  PROVE x \in ToSet(Append(s, e))
    <3>1. PICK i \in DOMAIN s : x = s[i]  BY DEF ToSet
    <3>2. i \in DOMAIN Append(s, e) /\ Append(s, e)[i] = x  BY <1>1, <1>3, <3>1
    <3> QED  BY <3>2 DEF ToSet
  <2> QED  BY <2>1, <2>2
<1>7. \A i \in DOMAIN Append(s, e) : \/ i \in DOMAIN s /\ Append(s, e)[i] = s[i]
                                     \/ i = Len(s) + 1 /\ Append(s, e)[i] = e
  <2> DEFINE t == Append(s, e)
  <2>1. /\ DOMAIN s = 1 .. Len(s) /\ DOMAIN t = 1 .. Len(s) + 1 /\ t[Len(s) + 1] = e
        /\ \A i \in DOMAIN s : t[i] = s[i]
    BY <1>1
  <2> HIDE DEF t
  <2>2. \A i \in DOMAIN t : \/ i \in DOMAIN s /\ t[i] = s[i]
                            \/ i = Len(s) + 1 /\ t[i] = e
    BY <1>2, <2>1
  <2> QED  BY <2>2 DEF t
<1> QED  BY <1>1, <1>5, <1>6, <1>7

LEMMA ConsensusX ==
  ASSUME IInv, Consensus
  PROVE  Kept'
<1>0. PICK e \in pending :
        /\ pending' = pending \ {e}
        /\ \/ ledger' = Append(ledger, e) /\ UNCHANGED failed
           \/ failed' = failed \cup {e} /\ UNCHANGED ledger
  BY DEF Consensus
<1> DEFINE L == Append(ledger, e)
<1>1. /\ e \in pending /\ pending' = pending \ {e}
      /\ \/ ledger' = L /\ UNCHANGED failed
         \/ failed' = failed \cup {e} /\ UNCHANGED ledger
  BY <1>0
<1>2. UNCHANGED <<tx, lastId, pc, request, responses, outcome, expiry, unheard, restored>>
  BY DEF Consensus, callVars
<1>3. /\ pending \in SUBSET Entry /\ failed \in SUBSET Entry /\ ledger \in Seq(Entry)
      /\ e \in Entry /\ Apart
  BY <1>1 DEF IInv, Kept, Network
<1>4. /\ L \in Seq(Entry) /\ Len(L) = Len(ledger) + 1
      /\ Len(ledger) \in Nat /\ DOMAIN ledger = 1 .. Len(ledger)
      /\ DOMAIN L = 1 .. Len(ledger) + 1
      /\ \A i \in DOMAIN ledger : L[i] = ledger[i]
      /\ L[Len(ledger) + 1] = e
      /\ ToSet(L) = ToSet(ledger) \cup {e}
      /\ \A i \in DOMAIN L :
           \/ i \in DOMAIN ledger /\ L[i] = ledger[i]
           \/ i = Len(ledger) + 1 /\ L[i] = e
  BY <1>3, LedgerAppend
<1> HIDE DEF L
<1>5. Seen' = Seen /\ Passed' = Passed  BY <1>1, <1>2, <1>4 DEF Seen, Passed, Taken
<1>6. Network'
  <2>1. /\ pending' \in SUBSET Entry /\ failed' \in SUBSET Entry /\ ledger' \in Seq(Entry)
    BY <1>1, <1>3, <1>4
  <2>2. e \notin failed /\ (\A d \in pending \cup failed : d.id = e.id => d = e)
        /\ \A i \in DOMAIN ledger : ledger[i].id # e.id
    BY <1>1, <1>3 DEF Apart
  <2>3. CASE ledger' = L /\ UNCHANGED failed
    <3>1. \A i \in DOMAIN ledger' : \/ i \in DOMAIN ledger /\ ledger'[i] = ledger[i]
                                    \/ i = Len(ledger) + 1 /\ ledger'[i] = e
      BY <1>4, <2>3
    <3>2. pending' \cup failed' \subseteq pending \cup failed /\ e \notin pending' \cup failed'
      BY <1>1, <2>2, <2>3
    <3>3. pending' \cap failed' = {}  BY <1>1, <1>3, <2>3 DEF Apart
    <3>4. \A d \in pending' \cup failed', i \in DOMAIN ledger' : ledger'[i].id # d.id
      BY <1>3, <2>2, <3>1, <3>2 DEF Apart
    <3>5. \A i, j \in DOMAIN ledger' : ledger'[i].id = ledger'[j].id => i = j
      BY <1>3, <2>2, <3>1 DEF Apart
    <3>6. \A c, d \in pending' \cup failed' : c.id = d.id => c = d
      BY <1>3, <3>2 DEF Apart
    <3>7. Apart'  BY <3>3, <3>4, <3>5, <3>6 DEF Apart
    <3> QED  BY <1>2, <2>1, <3>7 DEF IInv, Kept, Network
  <2>4. CASE failed' = failed \cup {e} /\ UNCHANGED ledger
    <3>1. pending' \cup failed' = pending \cup failed  BY <1>1, <2>4
    <3>2. pending' \cap failed' = {}  BY <1>1, <1>3, <2>4 DEF Apart
    <3>3. Apart'  BY <1>3, <2>4, <3>1, <3>2 DEF Apart
    <3> QED  BY <1>2, <2>1, <3>3 DEF IInv, Kept, Network
  <2> QED  BY <1>1, <2>3, <2>4
<1>7. Calling' /\ Sensible(tx, restored.way)'  BY <1>2 DEF IInv, Kept, Calling
<1>8. ResponsesNameChunks'  BY <1>2, <1>5 DEF IInv, Kept, ResponsesNameChunks
<1>9. History'  BY <1>2, <1>5 DEF IInv, Kept, History, EarlierChunksAccepted, Whole
<1>10. Chunks'  BY <1>2, <1>5 DEF IInv, Kept, Chunks, Whole
<1>11. Appending'
  <2> SUFFICES ASSUME Plain', tx'.kind = "file"
               PROVE  /\ \A i \in DOMAIN ledger' : ledger'[i].number = i
                      /\ Len(ledger') \in {tx.current, tx.current + 1}
                      /\ \A d \in pending' \cup failed' : d.number = tx.current + 1
    BY <1>2 DEF Appending
  <2>1. Plain /\ Whole /\ expiry = NoId /\ tx.kind = "file"  BY <1>2 DEF Plain, Whole
  <2>2. /\ \A i \in DOMAIN ledger : ledger[i].number = i
        /\ Len(ledger) \in {tx.current, tx.current + 1}
        /\ \A d \in pending \cup failed : d.number = tx.current + 1
    BY <1>1, <2>1 DEF IInv, Kept, Appending
  <2>3. CASE ledger' = L /\ UNCHANGED failed
    <3>1. Len(ledger) = tx.current
      <4> SUFFICES ASSUME Len(ledger) = tx.current + 1  PROVE FALSE
        BY <2>2
      <4>1. tx.current + 1 \in DOMAIN ledger
        <5>1. tx.current \in Nat  BY TypeFacts DEF IInv, Kept, Sensible
        <5> QED  BY <1>4, <5>1
      <4> DEFINE d == ledger[tx.current + 1]
      <4>2. d \in ToSet(ledger)  BY <4>1 DEF ToSet
      <4>3. d \in Seen /\ e \in Seen  BY <1>1, <4>2 DEF Seen, Taken
      <4>4. d.number = e.number  BY <1>1, <2>2, <4>1
      <4>5. d = addToChunk(tx, d.number - 1) /\ e = addToChunk(tx, e.number - 1)
        BY <2>1, <4>3 DEF IInv, Kept, Chunks
      <4>6. d.id = e.id  BY <4>4, <4>5
      <4> QED  BY <1>1, <1>3, <4>1, <4>6 DEF Apart
    <3>2. \A i \in DOMAIN ledger' : ledger'[i].number = i
      <4>1. \A i \in DOMAIN ledger' : \/ i \in DOMAIN ledger /\ ledger'[i] = ledger[i]
                                      \/ i = Len(ledger) + 1 /\ ledger'[i] = e
        BY <1>4, <2>3
      <4> QED  BY <1>1, <2>2, <3>1, <4>1
    <3>3. Len(ledger') = tx.current + 1  BY <1>4, <2>3, <3>1
    <3> QED  BY <1>1, <2>2, <2>3, <3>2, <3>3
  <2>4. CASE failed' = failed \cup {e} /\ UNCHANGED ledger
    BY <1>1, <2>2, <2>4
  <2> QED  BY <1>1, <2>3, <2>4
<1> QED  BY <1>6, <1>7, <1>8, <1>9, <1>10, <1>11 DEF IInv, Kept

\* A fresh chunk has an ID of its own, and goes on its way.
LEMMA FreshApart ==
  ASSUME IInv, NEW e \in Entry, Fresh(e), pending' = pending \cup {Record(e)},
         UNCHANGED <<ledger, failed, expiry>>
  PROVE  /\ pending' \in SUBSET Entry /\ Apart'
         /\ Taken' = Taken \cup {Record(e)} /\ Record(e) \in Entry
         /\ Record(e).id = e.id /\ e.id > expiry /\ \A d \in Taken : d.id # e.id
<1>1. Record(e) \in Entry /\ Record(e).id = e.id  BY DEF Entry, Record
<1>2. e.id > expiry /\ \A d \in Taken : d.id # e.id  BY DEF Fresh
<1>3. Taken' = Taken \cup {Record(e)}  BY DEF Taken
<1>4. pending \in SUBSET Entry /\ Apart  BY DEF IInv, Kept, Network
<1>5. /\ \A d \in pending \cup failed : d.id # Record(e).id
      /\ \A i \in DOMAIN ledger : ledger[i].id # Record(e).id
  BY <1>1, <1>2 DEF Taken, ToSet
<1> DEFINE r == Record(e)
<1> HIDE DEF r
<1>6. Apart'
  <2>1. pending' = pending \cup {r} /\ failed' = failed /\ ledger' = ledger  BY DEF r
  <2>2. /\ \A d \in pending \cup failed : d.id # r.id
        /\ \A i \in DOMAIN ledger : ledger[i].id # r.id
    BY <1>5 DEF r
  <2>3. \A c, d \in pending' \cup failed' : c.id = d.id => c = d
    BY <1>4, <2>1, <2>2 DEF Apart
  <2>4. pending' \cap failed' = {}  BY <1>4, <2>1, <2>2 DEF Apart
  <2>5. \A d \in pending' \cup failed', i \in DOMAIN ledger' : ledger'[i].id # d.id
    BY <1>4, <2>1, <2>2 DEF Apart
  <2>6. \A i, j \in DOMAIN ledger' : ledger'[i].id = ledger'[j].id => i = j
    BY <1>4, <2>1 DEF Apart
  <2> QED  BY <2>3, <2>4, <2>5, <2>6 DEF Apart
<1> QED  BY <1>1, <1>2, <1>3, <1>4, <1>6

\* What the network takes is the chunk that is due, and it has not got it yet.
LEMMA DueX ==
  ASSUME IInv, pc \in {"waiting", "receipt"}
  PROVE  /\ request \in Entry /\ tx \in TransactionType /\ tx.current \in Nat
         /\ Count(tx) \in Nat /\ tx.current < Count(tx) /\ tx.signed
         /\ request.id = tx.id + tx.current
         /\ Whole => /\ Record(request) = addToChunk(tx, tx.current)
                     /\ Record(request).number = tx.current + 1
                     /\ Record(request).number \in 1 .. Count(tx)
                     /\ Record(request).number - 1 = tx.current
<1>1. /\ request \in Entry /\ tx \in TransactionType /\ tx.current < Count(tx) /\ tx.signed
      /\ request.id = tx.id + tx.current
      /\ Whole => Record(request) = addToChunk(tx, tx.current)
  BY DEF IInv, Kept, Calling, Sensible, Whole
<1>2. tx.current \in Nat /\ Count(tx) \in Nat /\ Cuttable(tx) /\ tx.id \in Nat
  BY <1>1, TypeFacts
<1>3. tx.current \in 0 .. Count(tx) - 1  BY <1>1, <1>2
<1>4. addToChunk(tx, tx.current).number = tx.current + 1  BY <1>2, <1>3, ChunkFacts
<1> QED  BY <1>1, <1>2, <1>4

LEMMA FreshDue ==
  ASSUME IInv, pc = "waiting", Fresh(request), Plain, tx.kind = "file"
  PROVE  /\ Len(ledger) = tx.current /\ pending = {} /\ failed = {}
         /\ \A i \in DOMAIN ledger : ledger[i].number = i
<1> DEFINE k == tx.current
<1>1. /\ Whole /\ expiry = NoId  BY DEF Plain, Whole
<1>2. /\ request \in Entry /\ k \in Nat /\ Count(tx) \in Nat /\ k < Count(tx)
      /\ Record(request) = addToChunk(tx, k)
  BY <1>1, DueX
<1>3. ledger \in Seq(Entry) /\ Len(ledger) \in Nat /\ DOMAIN ledger = 1 .. Len(ledger)
  BY DEF IInv, Kept, Network
<1>4. \A d \in Taken : d.number # k + 1
  <2> SUFFICES ASSUME NEW d \in Taken, d.number = k + 1  PROVE FALSE
    OBVIOUS
  <2>1. d = addToChunk(tx, d.number - 1)  BY <1>1 DEF IInv, Kept, Chunks, Seen
  <2>2. d.number - 1 = k  BY <1>2
  <2>3. d = Record(request)  BY <1>2, <2>1, <2>2
  <2>4. d.id = request.id  BY <1>2, <2>3 DEF Record, Entry
  <2> QED  BY <2>4 DEF Fresh
<1>5. \A i \in DOMAIN ledger : ledger[i] \in Taken  BY DEF Taken, ToSet
<1>6. \A i \in DOMAIN ledger : ledger[i].number = i  BY DEF IInv, Kept, Appending
<1>7. k + 1 \notin DOMAIN ledger  BY <1>4, <1>5, <1>6
<1>8. Len(ledger) < k + 1  BY <1>2, <1>3, <1>7
<1>9. /\ Len(ledger) \in {k, k + 1}
      /\ \A d \in pending \cup failed : d.number = k + 1
  <2>1. Len(ledger) # Count(tx)  BY <1>2, <1>3, <1>8
  <2> QED  BY <2>1 DEF IInv, Kept, Appending
<1>10. Len(ledger) = k  BY <1>2, <1>3, <1>8, <1>9
<1>11. pending = {} /\ failed = {}  BY <1>4, <1>9 DEF Taken
<1> QED  BY <1>6, <1>10, <1>11

\* The node takes the chunk that is due, or does not.
LEMMA SubmitX ==
  ASSUME IInv, pc = "waiting", UNCHANGED <<ledger, failed, expiry>>,
         \/ UNCHANGED pending
         \/ Fresh(request) /\ pending' = pending \cup {Record(request)}
  PROVE  /\ pending' \in SUBSET Entry /\ Apart' /\ Taken \subseteq Taken'
         /\ Taken' \subseteq Taken \cup {Record(request)}
         /\ UNCHANGED <<tx, restored>> => Appending'
<1>1. CASE UNCHANGED pending
  <2>1. Taken' = Taken  BY <1>1 DEF Taken
  <2>2. pending' \in SUBSET Entry /\ Apart'  BY <1>1 DEF IInv, Kept, Network, Apart
  <2>3. UNCHANGED <<tx, restored>> => Appending'
    BY <1>1 DEF IInv, Kept, Appending, Plain
  <2> QED  BY <2>1, <2>2, <2>3
<1>2. CASE Fresh(request) /\ pending' = pending \cup {Record(request)}
  <2>1. pending' \in SUBSET Entry /\ Apart' /\ Taken' = Taken \cup {Record(request)}
    BY <1>2, DueX, FreshApart
  <2>2. ASSUME UNCHANGED <<tx, restored>>, Plain, tx.kind = "file"
        PROVE  /\ \A i \in DOMAIN ledger : ledger[i].number = i
               /\ Len(ledger) = tx.current
               /\ \A e \in pending' \cup failed' : e.number = tx.current + 1
    <3>1. Whole  BY <2>2 DEF Plain, Whole
    <3>2. /\ Len(ledger) = tx.current /\ pending = {} /\ failed = {}
          /\ \A i \in DOMAIN ledger : ledger[i].number = i
      BY <1>2, <2>2, FreshDue
    <3>3. pending' \cup failed' = {Record(request)}  BY <1>2, <3>2
    <3>4. Record(request).number = tx.current + 1  BY <3>1, DueX
    <3> QED  BY <3>2, <3>3, <3>4
  <2>3. UNCHANGED <<tx, restored>> => Appending'  BY <2>2 DEF Appending, Plain
  <2> QED  BY <2>1, <2>3
<1> QED  BY <1>1, <1>2

\* A chunk more is seen, the one that is due.
LEMMA SeenX ==
  ASSUME IInv, pc = "waiting", Whole, expiry = NoId, NEW e, e \in Seen \cup {Record(request)}
  PROVE  e.number \in 1 .. Count(tx) /\ e = addToChunk(tx, e.number - 1)
<1>1. CASE e \in Seen  BY <1>1 DEF IInv, Kept, Chunks
<1>2. CASE e = Record(request)  BY <1>2, DueX
<1> QED  BY <1>1, <1>2

LEMMA AnswerLostX ==
  ASSUME IInv, AnswerLost
  PROVE  Kept'
<1>1. /\ pc = "waiting" /\ pc' = "attempt" /\ UNCHANGED <<responses, outcome>>
      /\ UNCHANGED <<tx, lastId, ledger, failed, expiry, unheard, restored>>
      /\ \/ UNCHANGED pending
         \/ Fresh(request) /\ pending' = pending \cup {Record(request)}
  BY DEF AnswerLost, Fails, Again
<1>2. Calling'  BY <1>1 DEF IInv, Kept, Calling, Steps
<1>3. /\ pending' \in SUBSET Entry /\ Apart' /\ Taken \subseteq Taken'
      /\ Taken' \subseteq Taken \cup {Record(request)}
      /\ Appending'
  BY <1>1, SubmitX
<1>4. tx.signed  BY <1>1, DueX
<1>5. Seen \subseteq Seen' /\ Seen' \subseteq Seen \cup {Record(request)} /\ Passed \subseteq Passed'
  BY <1>1, <1>3 DEF Seen, Passed
<1>6. Network'  BY <1>1, <1>3 DEF IInv, Kept, Network
<1>7. ResponsesNameChunks'  BY <1>1, <1>5 DEF IInv, Kept, ResponsesNameChunks
<1>8. History'  BY <1>1, <1>4, <1>5 DEF IInv, Kept, History, EarlierChunksAccepted, Whole
<1>9. Chunks'
  <2> SUFFICES ASSUME Whole, expiry = NoId
               PROVE  /\ \A e \in Seen' : e.number \in 1 .. Count(tx) /\ e = addToChunk(tx, e.number - 1)
                      /\ outcome = "done" => \A n \in 1 .. Count(tx) : \E e \in Passed' : e.number = n
    BY <1>1 DEF Chunks, Whole
  <2>1. \A e \in Seen' : e.number \in 1 .. Count(tx) /\ e = addToChunk(tx, e.number - 1)
    BY <1>1, <1>5, SeenX
  <2>2. outcome = "done" => \A n \in 1 .. Count(tx) : \E e \in Passed : e.number = n
    BY DEF IInv, Kept, Chunks
  <2> QED  BY <1>5, <2>1, <2>2
<1>10. Sensible(tx, restored.way)'  BY <1>1 DEF IInv, Kept
<1> QED  BY <1>2, <1>3, <1>6, <1>7, <1>8, <1>9, <1>10 DEF Kept

\* The chunk is over, and the network has it, or nobody answered for it.
LEMMA NextChunkX ==
  ASSUME IInv, pc \in {"waiting", "receipt"}, NextChunk,
         UNCHANGED <<lastId, expiry, restored, failed, ledger>>,
         pending' \in SUBSET Entry, unheard' \in SUBSET Entry, Apart',
         Taken \subseteq Taken', Seen \subseteq Seen',
         responses' \in Seq(Nat), ResponsesNameChunks',
         Whole => \E e \in (IF tx.kind = "topic" THEN Seen' ELSE Taken') :
                    e.number = tx.current + 1,
         Whole /\ expiry = NoId =>
           \A e \in Seen' : e.number \in 1 .. Count(tx) /\ e = addToChunk(tx, e.number - 1),
         Plain /\ tx.kind = "file" =>
           /\ \A i \in DOMAIN ledger : ledger[i].number = i
           /\ Len(ledger) \in {tx.current + 1, Count(tx)} /\ pending' = {} /\ failed' = {}
  PROVE  Kept'
<1> DEFINE k == tx.current
           N == Count(tx)
           last == ~(k + 1 < N)
           after == IF last THEN 0 ELSE k + 1
<1>1. /\ tx \in TransactionType /\ k \in Nat /\ N \in Nat /\ k < N /\ tx.signed
      /\ Sensible(tx, restored.way)
  BY DueX DEF IInv, Kept
<1>2. /\ tx' = [tx EXCEPT !.current = after]
      /\ ~last => pc' = "chunk" /\ outcome' = outcome
      /\ last => pc' = "idle"
  BY <1>1 DEF NextChunk, Done, Count
<1>3. after \in Nat /\ (after = 0 \/ after < N) /\ (last => N = k + 1)  BY <1>1
<1>4. ~last => after = k + 1 /\ after < N  BY <1>1
<1>5. last => after = 0  OBVIOUS
<1> HIDE DEF after, last
<1>6. /\ tx' \in TransactionType /\ tx'.current = after /\ tx'.kind = tx.kind
      /\ tx'.data = tx.data /\ tx'.chunkSize = tx.chunkSize /\ tx'.id = tx.id
      /\ tx'.nodes = tx.nodes /\ tx'.entries = tx.entries /\ tx'.frozen = tx.frozen
      /\ tx'.signed = tx.signed
  BY <1>1, <1>2, <1>3 DEF TransactionType
<1>7. Count(tx') = N /\ \A c : addToChunk(tx', c) = addToChunk(tx, c)
  BY <1>6, SameChunks
<1>8. Sensible(tx', restored.way)
  <2>1. (Numbered(tx) => Numbered(tx')) /\ (LaidOut(tx) => LaidOut(tx'))
    BY <1>6, <1>7, SameEntries
  <2> QED  BY <1>1, <1>3, <1>6, <1>7, <2>1 DEF Sensible
<1>9. Calling'
  <2>1. CASE last  BY <1>2, <2>1 DEF Calling, Steps
  <2>2. CASE ~last  BY <1>2, <1>4, <1>6, <1>7, <2>2 DEF Calling, Steps
  <2> QED  BY <2>1, <2>2
<1>10. Network'  BY DEF IInv, Kept, Network
<1>11. Whole' <=> Whole  BY DEF Whole
<1>16. Passed \subseteq Passed' /\ Passed' = IF tx.kind = "topic" THEN Seen' ELSE Taken'
  BY <1>6 DEF Passed
<1>12. ASSUME Whole, NEW n \in 1 .. k + 1  PROVE \E e \in Passed' : e.number = n
  <2>1. CASE n = k + 1  BY <1>12, <1>16, <2>1
  <2>2. CASE n # k + 1
    <3>1. n \in 1 .. k  BY <1>1, <2>2
    <3>2. \E e \in Passed : e.number = n
      BY <1>12, <3>1 DEF IInv, Kept, History, EarlierChunksAccepted, Whole
    <3> QED  BY <1>16, <3>2
  <2> QED  BY <2>1, <2>2
<1>13. History'
  <2>1. EarlierChunksAccepted'
    <3> SUFFICES ASSUME Whole, NEW n \in 1 .. after  PROVE \E e \in Passed' : e.number = n
      BY <1>6, <1>11 DEF EarlierChunksAccepted, Whole
    <3>1. n \in 1 .. k + 1  BY <1>1, <1>3, <1>4, <1>5
    <3> QED  BY <1>12, <3>1
  <2> QED  BY <1>1, <1>6, <2>1 DEF IInv, Kept, History, Whole
<1>14. Chunks'
  <2> SUFFICES ASSUME Whole, expiry = NoId
               PROVE  /\ \A e \in Seen' : e.number \in 1 .. Count(tx') /\ e = addToChunk(tx', e.number - 1)
                      /\ outcome' = "done" => \A n \in 1 .. Count(tx') : \E e \in Passed' : e.number = n
    BY <1>11 DEF Chunks
  <2>1. \A e \in Seen' : e.number \in 1 .. Count(tx') /\ e = addToChunk(tx', e.number - 1)
    BY <1>7
  <2>2. ASSUME outcome' = "done", NEW n \in 1 .. Count(tx')
        PROVE  \E e \in Passed' : e.number = n
    <3>1. CASE last  BY <1>3, <1>7, <1>12, <2>2, <3>1
    <3>2. CASE ~last
      <4>1. outcome = "done" /\ n \in 1 .. N  BY <1>2, <1>7, <2>2, <3>2
      <4>2. \E e \in Passed : e.number = n  BY <4>1 DEF IInv, Kept, Chunks
      <4> QED  BY <1>16, <4>2
    <3> QED  BY <3>1, <3>2
  <2> QED  BY <2>1, <2>2
<1>15. Appending'
  <2> SUFFICES ASSUME Plain, tx.kind = "file"  PROVE Appending'
    BY <1>6 DEF Appending, Plain
  <2>1. /\ \A i \in DOMAIN ledger' : ledger'[i].number = i
        /\ Len(ledger') \in {k + 1, N} /\ pending' = {} /\ failed' = {}
    OBVIOUS
  <2>2. CASE last
    <3>1. Len(ledger') = Count(tx')  BY <1>3, <1>7, <2>1, <2>2
    <3> QED  BY <2>1, <3>1 DEF Appending
  <2>3. CASE ~last
    <3>1. Len(ledger') = tx'.current \/ Len(ledger') = Count(tx')
      BY <1>4, <1>6, <1>7, <2>1, <2>3
    <3> QED  BY <2>1, <3>1 DEF Appending
  <2> QED  BY <2>2, <2>3
<1> QED  BY <1>8, <1>9, <1>10, <1>13, <1>14, <1>15 DEF IInv, Kept

\* The responses name what was seen: one more.
LEMMA ResponseX ==
  ASSUME IInv, NEW x \in Nat, responses' = Append(responses, x), Seen \subseteq Seen',
         NEW r \in Seen', r.id = x, \A i \in DOMAIN responses : responses[i] # x
  PROVE  responses' \in Seq(Nat) /\ ResponsesNameChunks'
<1> DEFINE L == Append(responses, x)
<1>1. responses \in Seq(Nat)  BY DEF IInv, Kept, Network
<1>2. /\ L \in Seq(Nat) /\ DOMAIN responses = 1 .. Len(responses)
      /\ \A i \in DOMAIN L : \/ i \in DOMAIN responses /\ L[i] = responses[i]
                             \/ i = Len(responses) + 1 /\ L[i] = x
  BY <1>1, LedgerAppend
<1>3. responses' = L  OBVIOUS
<1> HIDE DEF L
<1>4. \A i \in DOMAIN responses :
        /\ \E e \in Seen : e.id = responses[i]
        /\ \A j \in DOMAIN responses : responses[i] = responses[j] => i = j
  BY DEF IInv, Kept, ResponsesNameChunks
<1>5. \A i \in DOMAIN L : \E e \in Seen' : e.id = L[i]  BY <1>2, <1>4
<1>6. \A i, j \in DOMAIN L : L[i] = L[j] => i = j  BY <1>2, <1>4
<1> QED  BY <1>2, <1>3, <1>5, <1>6 DEF ResponsesNameChunks

\* execute() returns a response, and the chunk that is due is seen.
LEMMA RespondX ==
  ASSUME IInv, pc = "waiting", Respond,
         pending' \in SUBSET Entry, unheard' \in SUBSET Entry, Apart',
         Taken \subseteq Taken', Seen' = Seen \cup {Record(request)},
         UNCHANGED <<tx, restored>> => Appending'
  PROVE  Kept'
<1>1. /\ responses' = Append(responses, tx.id + tx.current)
      /\ UNCHANGED <<lastId, ledger, failed, expiry, restored>>
  BY DEF Respond, getCurrentTransactionId
<1>2. /\ request \in Entry /\ tx \in TransactionType /\ tx.current < Count(tx) /\ tx.signed
      /\ request.id = tx.id + tx.current
      /\ Whole => Record(request) = addToChunk(tx, tx.current)
      /\ Whole => Record(request).number = tx.current + 1
  BY DueX
<1>3. Record(request).id = request.id /\ Record(request) \in Seen'
  BY <1>2 DEF Entry, Record
<1>4. tx.id + tx.current \in Nat
  BY <1>2, TypeFacts
<1>5. responses' \in Seq(Nat) /\ ResponsesNameChunks'
  <2> DEFINE x == tx.id + tx.current
             r == Record(request)
  <2>1. \A i \in DOMAIN responses : responses[i] < x
    <3>1. x + 0 = x  BY <1>4
    <3> QED  BY <1>4, <3>1 DEF IInv, Answers
  <2>2. \A i \in DOMAIN responses : responses[i] \in Nat  BY DEF IInv, Kept, Network
  <2>3. \A i \in DOMAIN responses : responses[i] # x  BY <1>4, <2>1, <2>2
  <2>4. /\ x \in Nat /\ responses' = Append(responses, x) /\ Seen \subseteq Seen'
        /\ r \in Seen' /\ r.id = x
    BY <1>1, <1>2, <1>3, <1>4
  <2> HIDE DEF x, r
  <2> QED  BY <2>3, <2>4, ResponseX
<1>6. Whole /\ expiry = NoId =>
        \A e \in Seen' : e.number \in 1 .. Count(tx) /\ e = addToChunk(tx, e.number - 1)
  BY SeenX
<1>7. CASE ShouldGetReceipt(tx)
  <2>1. pc' = "receipt" /\ UNCHANGED <<tx, request, outcome>>  BY <1>7 DEF Respond
  <2>2. Calling'  BY <1>1, <1>2, <2>1 DEF Calling, Steps, Whole, Record
  <2>3. Network'  BY <1>1, <1>5 DEF IInv, Kept, Network
  <2>4. Passed \subseteq Passed'  BY <2>1 DEF Passed
  <2>5. History'
    BY <1>1, <1>2, <2>1, <2>4 DEF IInv, Kept, History, EarlierChunksAccepted, Whole
  <2>6. Chunks'
    <3> SUFFICES ASSUME Whole, expiry = NoId, outcome = "done", NEW n \in 1 .. Count(tx)
                 PROVE  \E e \in Passed' : e.number = n
      BY <1>1, <1>6, <2>1 DEF Chunks, Whole
    <3>1. \E e \in Passed : e.number = n  BY DEF IInv, Kept, Chunks
    <3> QED  BY <2>4, <3>1
  <2>7. Appending'  BY <1>1, <2>1
  <2>8. Sensible(tx, restored.way)'  BY <1>1, <2>1 DEF IInv, Kept
  <2> QED  BY <1>5, <2>2, <2>3, <2>5, <2>6, <2>7, <2>8 DEF Kept
<1>8. CASE ~ShouldGetReceipt(tx)
  <2>1. NextChunk /\ tx.kind = "topic"
    BY <1>2, <1>8, TypeFacts DEF Respond, ShouldGetReceipt
  <2>2. Whole => \E e \in (IF tx.kind = "topic" THEN Seen' ELSE Taken') : e.number = tx.current + 1
    BY <1>2, <1>3, <2>1
  <2> QED  BY <1>1, <1>5, <1>6, <2>1, <2>2, NextChunkX
<1> QED  BY <1>7, <1>8

LEMMA AcceptedX ==
  ASSUME IInv, Accepted
  PROVE  Kept'
<1>1. /\ pc = "waiting" /\ Fresh(request) /\ pending' = pending \cup {Record(request)}
      /\ Respond /\ UNCHANGED <<ledger, failed, expiry, unheard>>
  BY DEF Accepted, Respond
<1>2. /\ pending' \in SUBSET Entry /\ Apart' /\ Taken \subseteq Taken'
      /\ UNCHANGED <<tx, restored>> => Appending'
  BY <1>1, SubmitX
<1>3. Seen' = Seen \cup {Record(request)}  BY <1>1 DEF Seen, Taken
<1>4. unheard' \in SUBSET Entry  BY <1>1 DEF IInv, Kept, Network
<1> QED  BY <1>1, <1>2, <1>3, <1>4, RespondX

LEMMA UnansweredX ==
  ASSUME IInv, Unanswered
  PROVE  Kept'
<1>1. /\ pc = "waiting" /\ Respond /\ UNCHANGED <<ledger, failed, expiry>>
      /\ \/ UNCHANGED pending
         \/ Fresh(request) /\ pending' = pending \cup {Record(request)}
      /\ unheard' = unheard \cup ({Record(request)} \ Taken')
  BY DEF Unanswered, Fails, Respond
<1>2. /\ pending' \in SUBSET Entry /\ Apart' /\ Taken \subseteq Taken'
      /\ Taken' \subseteq Taken \cup {Record(request)}
      /\ UNCHANGED <<tx, restored>> => Appending'
  BY <1>1, SubmitX
<1>3. Seen' = Seen \cup {Record(request)}  BY <1>1, <1>2 DEF Seen
<1>4. unheard' \in SUBSET Entry
  <2>1. request \in Entry  BY <1>1, DueX
  <2>2. Record(request) \in Entry  BY <2>1 DEF Entry, Record
  <2> QED  BY <1>1, <2>2 DEF IInv, Kept, Network
<1> QED  BY <1>1, <1>2, <1>3, <1>4, RespondX

\* A file waits until the chunk that is due is the last of the ledger.
LEMMA ReceiptDue ==
  ASSUME IInv, pc = "receipt", Record(request) \in ToSet(ledger), Plain, tx.kind = "file"
  PROVE  /\ \A i \in DOMAIN ledger : ledger[i].number = i
         /\ Len(ledger) \in {tx.current + 1, Count(tx)} /\ pending = {} /\ failed = {}
<1> DEFINE r == Record(request)
           k == tx.current
<1>1. Whole /\ expiry = NoId  BY DEF Plain, Whole
<1>2. /\ k \in Nat /\ Count(tx) \in Nat /\ k < Count(tx)
      /\ r = addToChunk(tx, k) /\ r.number = k + 1
  BY <1>1, DueX
<1>3. ledger \in Seq(Entry) /\ Apart  BY DEF IInv, Kept, Network
<1>4. /\ \A i \in DOMAIN ledger : ledger[i].number = i
      /\ \/ Len(ledger) = Count(tx) /\ pending = {} /\ failed = {}
         \/ /\ Len(ledger) \in {k, k + 1}
            /\ \A e \in pending \cup failed : e.number = k + 1
  BY DEF IInv, Kept, Appending
<1>11. CASE Len(ledger) = Count(tx) /\ pending = {} /\ failed = {}  BY <1>4, <1>11
<1>12. CASE Len(ledger) \in {k, k + 1} /\ \A e \in pending \cup failed : e.number = k + 1
  <2>5. PICK i \in DOMAIN ledger : ledger[i] = r  BY DEF ToSet
  <2>6. i = k + 1  BY <1>2, <1>4, <2>5
  <2>7. i <= Len(ledger) /\ Len(ledger) \in Nat  BY <1>3, <2>5
  <2>8. Len(ledger) = k + 1  BY <1>2, <1>12, <2>6, <2>7
  <2>9. \A e \in pending \cup failed : FALSE
    <3> SUFFICES ASSUME NEW e \in pending \cup failed  PROVE FALSE
      OBVIOUS
    <3>1. e \in Seen  BY DEF Seen, Taken
    <3>2. e = addToChunk(tx, e.number - 1)  BY <1>1, <3>1 DEF IInv, Kept, Chunks
    <3>3. e.number - 1 = k  BY <1>2, <1>12
    <3>4. e = r  BY <1>2, <3>2, <3>3
    <3> QED  BY <1>3, <2>5, <3>4 DEF Apart
  <2>10. pending = {} /\ failed = {}  BY <2>9
  <2> QED  BY <1>4, <2>8, <2>10
<1> QED  BY <1>4, <1>11, <1>12

LEMMA ReceiptFoundX ==
  ASSUME IInv, ReceiptFound
  PROVE  Kept'
<1>1. /\ pc = "receipt" /\ Record(request) \in ToSet(ledger) /\ NextChunk
      /\ UNCHANGED <<lastId, responses, pending, ledger, failed, expiry, unheard, restored>>
  BY DEF ReceiptFound, netVars
<1> DEFINE r == Record(request)
           k == tx.current
<1>2. /\ k \in Nat /\ Count(tx) \in Nat /\ k < Count(tx)
      /\ Whole => r = addToChunk(tx, k) /\ r.number = k + 1
  BY <1>1, DueX
<1>3. Taken' = Taken /\ Seen' = Seen /\ r \in Taken' /\ r \in Seen'  BY <1>1 DEF Seen, Taken
<1>4. Whole => \E e \in (IF tx.kind = "topic" THEN Seen' ELSE Taken') : e.number = k + 1
  BY <1>2, <1>3
<1>5. Whole /\ expiry = NoId =>
        \A e \in Seen' : e.number \in 1 .. Count(tx) /\ e = addToChunk(tx, e.number - 1)
  BY <1>3 DEF IInv, Kept, Chunks
<1>6. /\ pending \in SUBSET Entry /\ unheard \in SUBSET Entry /\ failed \in SUBSET Entry /\ ledger \in Seq(Entry)
      /\ responses \in Seq(Nat) /\ Apart
  BY DEF IInv, Kept, Network
<1>7. Apart' /\ pending' \in SUBSET Entry /\ unheard' \in SUBSET Entry /\ responses' \in Seq(Nat)
  BY <1>1, <1>6 DEF Apart
<1>8. ResponsesNameChunks'  BY <1>1, <1>3 DEF IInv, Kept, ResponsesNameChunks
<1>9. Plain /\ tx.kind = "file" =>
        /\ \A i \in DOMAIN ledger : ledger[i].number = i
        /\ Len(ledger) \in {k + 1, Count(tx)} /\ pending' = {} /\ failed' = {}
  BY <1>1, ReceiptDue
<1> QED  BY <1>1, <1>3, <1>4, <1>5, <1>7, <1>8, <1>9, NextChunkX

-----------------------------------------------------------------------------
(***************************************************************************)
(* The order of the answers.                                               *)
(***************************************************************************)
\* The IDs that are left to answer for do not fall behind.
Due == tx.id + tx.current + (IF pc = "receipt" THEN 1 ELSE 0)

LEMMA LaterX ==
  ASSUME IInv, tx'.id <= lastId',
         \/ pc' = "idle" \/ responses' = <<>>
         \/ /\ pc # "idle" /\ Due \in Nat /\ Due' \in Nat /\ Due <= Due'
            /\ responses' = responses
         \/ /\ pc # "idle" /\ Due \in Nat /\ Due' \in Nat /\ Due < Due'
            /\ responses' = Append(responses, Due)
  PROVE  Answers'
<1> SUFFICES ASSUME pc' # "idle", NEW i \in DOMAIN responses'
             PROVE  responses'[i] < Due'
  BY DEF Answers, Due
<1>1. /\ responses \in Seq(Nat)
      /\ pc # "idle" => \A j \in DOMAIN responses : responses[j] < Due
  BY DEF IInv, Kept, Network, Answers, Due
<1>2. responses' # <<>>  OBVIOUS
<1> DEFINE a == Due
           b == Due'
<1>3. /\ \A j \in DOMAIN responses : responses[j] < a
      /\ responses[i] \in Nat \/ i \notin DOMAIN responses
      /\ a \in Nat /\ b \in Nat
      /\ \/ a <= b /\ responses' = responses
         \/ a < b /\ responses' = Append(responses, a)
  BY <1>1, <1>2
<1> HIDE DEF a, b
<1>4. CASE a <= b /\ responses' = responses  BY <1>3, <1>4 DEF b
<1>5. CASE a < b /\ responses' = Append(responses, a)
  <2>1. \/ i \in DOMAIN responses /\ responses'[i] = responses[i]
        \/ responses'[i] = a
    BY <1>1, <1>3, <1>5, LedgerAppend
  <2> QED  BY <1>3, <1>5, <2>1 DEF b
<1> QED  BY <1>3, <1>4, <1>5

\* The chunk is over.
LEMMA NextDue ==
  ASSUME IInv, pc \in {"waiting", "receipt"}, NextChunk
  PROVE  /\ tx'.id = tx.id
         /\ \/ pc' = "idle"
            \/ /\ Due \in Nat /\ Due' = tx.id + tx.current + 1 /\ Due' \in Nat
<1>1. tx \in TransactionType /\ tx.current \in Nat /\ tx.id \in Nat
  BY DueX, TypeFacts
<1>2. CASE tx.current + 1 < getNumberOfChunksRequired(tx)
  <2>1. tx' = [tx EXCEPT !.current = @ + 1] /\ pc' = "chunk"  BY <1>2 DEF NextChunk
  <2>2. tx'.id = tx.id /\ tx'.current = tx.current + 1  BY <1>1, <2>1 DEF TransactionType
  <2> QED  BY <1>1, <2>1, <2>2 DEF Due
<1>3. CASE ~(tx.current + 1 < getNumberOfChunksRequired(tx))
  <2>1. tx' = [tx EXCEPT !.current = 0] /\ pc' = "idle"  BY <1>3 DEF NextChunk, Done
  <2> QED  BY <1>1, <2>1 DEF TransactionType
<1> QED  BY <1>2, <1>3

LEMMA RespondAnswers ==
  ASSUME IInv, pc = "waiting", Respond
  PROVE  Answers'
<1>1. tx \in TransactionType /\ tx.current \in Nat /\ tx.id \in Nat
  BY DueX, TypeFacts
<1>2. Due = tx.id + tx.current /\ Due \in Nat  BY <1>1 DEF Due
<1>3. responses' = Append(responses, Due) /\ lastId' = lastId /\ tx.id <= lastId
  BY <1>2 DEF Respond, getCurrentTransactionId, IInv, Answers
<1>4. CASE ShouldGetReceipt(tx)
  <2>1. pc' = "receipt" /\ tx' = tx  BY <1>4 DEF Respond
  <2>2. Due' = Due + 1  BY <1>1, <1>2, <2>1 DEF Due
  <2> QED  BY <1>2, <1>3, <2>1, <2>2, LaterX
<1>5. CASE ~ShouldGetReceipt(tx)
  <2>1. NextChunk  BY <1>5 DEF Respond
  <2>2. tx'.id = tx.id /\ (pc' = "idle" \/ Due' = Due + 1)  BY <1>2, <2>1, NextDue
  <2> QED  BY <1>2, <1>3, <2>2, LaterX
<1> QED  BY <1>4, <1>5

\* freezeWith takes the ID of the user or the next one.
LEMMA FrozenId ==
  ASSUME NEW t \in TransactionType, lastId \in Nat, t.id <= lastId,
         GenerateIf(~t.frozen /\ t.id = NoId)
  PROVE  /\ Frozen(t).id \in Nat /\ t.id <= Frozen(t).id /\ Frozen(t).id <= lastId'
         /\ Frozen(t).current = t.current
<1> DEFINE s == [t EXCEPT !.id = IF @ = NoId THEN lastId + Gap ELSE @,
                          !.nodes = IF @ = <<>> THEN Nodes ELSE @,
                          !.frozen = TRUE]
<1>1. t.id \in Nat  BY TypeFacts
<1>2. CASE t.frozen  BY <1>1, <1>2 DEF Frozen, GenerateIf
<1>3. CASE ~t.frozen
  <2> DEFINE id    == IF t.id = NoId THEN lastId + Gap ELSE t.id
             nodes == IF t.nodes = <<>> THEN Nodes ELSE t.nodes
  <2>1. id \in Nat /\ t.id <= id /\ id <= lastId'
    BY <1>1, <1>3 DEF GenerateIf, Gap, NoId
  <2>2. nodes \in Seq(ToSet(Nodes))  BY TypeFacts, NetworkNodes
  <2>3. s = [t EXCEPT !.id = id, !.nodes = nodes, !.frozen = TRUE]
    BY DEF TransactionType
  <2>4. Frozen(t) = regenerateSignedTransactions(s)  BY <1>3 DEF Frozen
  <2> HIDE DEF s, id, nodes
  <2>5. s \in TransactionType /\ s.id = id /\ s.current = t.current
    BY <2>1, <2>2, <2>3 DEF TransactionType
  <2>6. SameBut(s, Frozen(t))  BY <2>4, <2>5, RegenerateX
  <2> QED  BY <2>1, <2>5, <2>6 DEF SameBut
<1> QED  BY <1>2, <1>3

LEMMA AnswersX ==
  ASSUME IInv, [Next]_vars
  PROVE  Answers'
<1>1. /\ tx \in TransactionType /\ tx.id \in Nat /\ tx.current \in Nat /\ lastId \in Nat
      /\ tx.id <= lastId /\ Sensible(tx, restored.way)
  BY TypeFacts DEF IInv, Kept, Sensible, Network, Answers
<1>2. Due \in Nat  BY <1>1 DEF Due
<1>3. ASSUME tx' = tx, lastId' = lastId, Due <= Due', Due' \in Nat,
             pc' = "idle" \/ responses' = <<>> \/ (pc # "idle" /\ responses' = responses)
      PROVE  Answers'
  BY <1>1, <1>2, <1>3, LaterX
<1>4. CASE setData \/ setChunkSize \/ setMaxChunks \/ setNodeAccountIds \/ sign
  <2>1. tx'.id = tx.id /\ lastId' = lastId /\ pc' = "idle"
    BY <1>1, <1>4 DEF setData, setChunkSize, setMaxChunks, setNodeAccountIds, sign, Edit,
       NotExecuting, callVars, TransactionType
  <2> QED  BY <1>1, <2>1, LaterX
<1>5. CASE setTransactionId
  <2>1. tx'.id = lastId' /\ lastId' \in Nat /\ pc' = "idle"
    BY <1>1, <1>5 DEF setTransactionId, NotExecuting, callVars, TransactionType, Gap
  <2> QED  BY <2>1, LaterX
<1>6. CASE freeze
  <2>1. tx' = Frozen(tx) /\ GenerateIf(~tx.frozen /\ tx.id = NoId) /\ pc' = "idle"
    BY <1>6 DEF freeze, NotExecuting, callVars
  <2>2. tx'.id <= lastId'  BY <1>1, <2>1, FrozenId
  <2> QED  BY <2>1, <2>2, LaterX
<1>7. CASE Reload
  <2>1. /\ Written(tx).nodes # <<>> => Written(tx).entries # <<>>
        /\ tx' = Restored(Written(tx)) /\ lastId' = lastId /\ pc' = "idle"
    BY <1>7 DEF Reload, NotExecuting, Restored, callVars
  <2>2. tx'.id = tx.id  BY <1>1, <2>1, RestoredId
  <2> QED  BY <1>1, <2>1, <2>2, LaterX
<1>8. CASE executeAll
  <2>1. responses' = <<>> /\ lastId' = lastId /\ tx'.id = tx.id
    BY <1>1, <1>8 DEF executeAll, Done, TransactionType
  <2> QED  BY <1>1, <2>1, LaterX
<1>9. CASE tooManyChunks \/ NoSuchEntry \/ OutOfAttempts \/ Refused \/ NoReceipt
  <2>1. tx' = tx /\ lastId' = lastId /\ pc' = "idle"
    BY <1>9 DEF tooManyChunks, NotExecuting, NoSuchEntry, OutOfAttempts, Refused, NoReceipt, Throw
  <2> QED  BY <1>1, <2>1, LaterX
<1>10. CASE onExecute
  <2>1. /\ tx' = [Frozen(tx) EXCEPT !.signed = TRUE] /\ GenerateIf(~tx.frozen /\ tx.id = NoId)
        /\ pc = "chunk" /\ pc' = "attempt" /\ responses' = responses
    BY <1>10 DEF onExecute
  <2>2. /\ Frozen(tx).id \in Nat /\ tx.id <= Frozen(tx).id /\ Frozen(tx).id <= lastId'
        /\ Frozen(tx).current = tx.current
    BY <1>1, <2>1, FrozenId
  <2>3. Frozen(tx) \in TransactionType  BY <1>1, FrozenX DEF Sensible
  <2> DEFINE u == Frozen(tx)
  <2> HIDE DEF u
  <2>4. tx'.id = u.id /\ tx'.current = u.current
    BY <2>1, <2>3 DEF TransactionType, u
  <2>5. Due' \in Nat /\ Due <= Due'  BY <1>1, <2>1, <2>2, <2>4 DEF Due, u
  <2> QED  BY <1>2, <2>1, <2>2, <2>4, <2>5, LaterX DEF u
<1>11. CASE Send \/ AnswerLost
  <2>1. /\ tx' = tx /\ lastId' = lastId /\ pc # "idle" /\ pc # "receipt" /\ pc' # "receipt"
        /\ responses' = responses
    BY <1>11 DEF Send, AnswerLost, Fails, Again
  <2>2. Due' = Due  BY <2>1 DEF Due
  <2> QED  BY <1>2, <1>3, <2>1, <2>2
<1>12. CASE Accepted \/ Unanswered
  BY <1>12, RespondAnswers DEF Accepted, Unanswered, Fails
<1>13. CASE Regenerated
  <2> DEFINE t == [tx EXCEPT !.id = lastId']
  <2>1. /\ pc = "waiting" /\ pc' = "attempt" /\ responses' = responses /\ GenerateIf(TRUE)
        /\ tx' = regenerateSignedTransactions(t)
    BY <1>13 DEF Regenerated, Again
  <2>2. lastId' \in Nat /\ tx.id <= lastId'  BY <1>1, <2>1 DEF GenerateIf, Gap
  <2>3. t \in TransactionType /\ t.id = lastId' /\ t.current = tx.current
    BY <1>1, <2>2 DEF TransactionType
  <2> HIDE DEF t
  <2>4. tx'.id = lastId' /\ tx'.current = tx.current
    BY <2>1, <2>3, RegenerateX DEF SameBut
  <2>5. Due' \in Nat /\ Due <= Due'  BY <1>1, <2>1, <2>2, <2>4 DEF Due
  <2> QED  BY <1>2, <2>1, <2>2, <2>4, <2>5, LaterX
<1>14. CASE ReceiptFound
  <2>1. pc = "receipt" /\ NextChunk /\ responses' = responses /\ lastId' = lastId
    BY <1>14 DEF ReceiptFound
  <2>2. Due = tx.id + tx.current + 1  BY <2>1 DEF Due
  <2>3. tx'.id = tx.id /\ (pc' = "idle" \/ (Due' = Due /\ Due' \in Nat))
    BY <2>1, <2>2, NextDue
  <2> QED  BY <1>1, <1>2, <2>1, <2>3, LaterX
<1>15. CASE Consensus \/ Expire \/ Rest \/ UNCHANGED vars
  <2>1. UNCHANGED <<tx, lastId, pc, responses>>
    BY <1>15 DEF Consensus, Expire, Rest, vars, callVars
  <2>2. Due' = Due  BY <2>1 DEF Due
  <2> QED  BY <1>2, <1>3, <2>1, <2>2
<1> QED
  BY <1>4, <1>5, <1>6, <1>7, <1>8, <1>9, <1>10, <1>11, <1>12, <1>13, <1>14, <1>15
  DEF Next, User, executing

-----------------------------------------------------------------------------
(***************************************************************************)
(* Every step.                                                             *)
(***************************************************************************)
LEMMA NextIInv ==
  ASSUME IInv, [Next]_vars
  PROVE  IInv'
<1> SUFFICES Kept'  BY AnswersX DEF IInv
<1>1. CASE User
  BY <1>1, setDataX, FieldX, freezeX, signX, ReloadX DEF User
<1>2. CASE executeAll  BY <1>2, executeAllX
<1>3. CASE tooManyChunks  BY <1>3, tooManyChunksX
<1>4. CASE executing
  <2>1. CASE NoSuchEntry \/ OutOfAttempts \/ Refused \/ NoReceipt
    BY <2>1, ThrowX DEF NoSuchEntry, OutOfAttempts, Refused, NoReceipt
  <2> QED
    BY <1>4, <2>1, onExecuteX, SendX, AcceptedX, UnansweredX, RegeneratedX, AnswerLostX, ReceiptFoundX
    DEF executing
<1>5. CASE Consensus  BY <1>5, ConsensusX
<1>6. CASE Expire  BY <1>6, ExpireX
<1>7. CASE Rest \/ UNCHANGED vars
  <2>1. /\ UNCHANGED <<tx, lastId, netVars, unheard, restored>>
        /\ UNCHANGED <<pc, request, responses, outcome>>
    BY <1>7 DEF Rest, vars, callVars
  <2>2. Calling'  BY <2>1 DEF IInv, Kept, Calling
  <2> QED  BY <2>1, <2>2, CallX
<1> QED  BY <1>1, <1>2, <1>3, <1>4, <1>5, <1>6, <1>7 DEF Next

\* The object stays sensible, the call sends the chunk that is due, and the
\* network has each ID once and, while none expires, nothing but chunks of the
\* message (ChunkedTransaction::executeAll, Transaction::onExecute, makeRequest).
THEOREM Inductive == Spec => []IInv
<1>1. Init => IInv  BY InitIInv
<1>2. IInv /\ [Next]_vars => IInv'  BY NextIInv
<1> QED  BY <1>1, <1>2, PTL DEF Spec

-----------------------------------------------------------------------------
(***************************************************************************)
(* What it shows.                                                          *)
(***************************************************************************)
\* The execution keeps in step: request, current chunk, what the network has
\* accepted and the responses tell of the same chunks, with any number of calls,
\* retries, new IDs and exceptions, and through bytes
\* (ChunkedTransaction::executeAll, makeRequest, getCurrentTransactionId).
THEOREM ChunksKeepStep == Spec => []ChunksInStep
<1>1. ASSUME IInv  PROVE ChunksInStep
  <2>1. RequestIsCurrentChunk
    <3> SUFFICES ASSUME pc = "waiting", Whole
                 PROVE  /\ request.number = tx.current + 1
                        /\ request.id = getCurrentTransactionId(tx)
                        /\ request.data = getDataForChunk(tx, tx.current)
      BY DEF RequestIsCurrentChunk, Whole
    <3>1. /\ request \in Entry /\ request.id = tx.id + tx.current
          /\ Record(request) = addToChunk(tx, tx.current)
          /\ Record(request).number = tx.current + 1
      BY <1>1, DueX
    <3>2. Record(request).number = request.number /\ Record(request).data = request.data
      BY <3>1 DEF Record, Entry
    <3>3. addToChunk(tx, tx.current).data = getDataForChunk(tx, tx.current)
      BY DEF addToChunk
    <3> QED  BY <3>1, <3>2, <3>3 DEF getCurrentTransactionId
  <2> QED  BY <1>1, <2>1 DEF ChunksInStep, IInv, Kept, History
<1>2. IInv => ChunksInStep  BY <1>1
<1> QED  BY <1>2, Inductive, PTL

\* However often answers and receipts are lost and executeAll() is called again,
\* no chunk is executed twice while no ID expires: all attempts at a chunk carry
\* its one ID (Transaction::onExecute, Executable::execute).
THEOREM NeverTwice == Spec => []TwiceOnlyIfExpired
<1>1. ASSUME IInv, expiry = NoId, restored.way = "no",
             NEW i \in DOMAIN ledger, NEW j \in DOMAIN ledger,
             ledger[i].number = ledger[j].number
      PROVE  i = j
  <2>1. Whole  BY <1>1 DEF Whole
  <2>2. ledger[i] \in Seen /\ ledger[j] \in Seen  BY DEF Seen, Taken, ToSet
  <2>3. /\ ledger[i] = addToChunk(tx, ledger[i].number - 1)
        /\ ledger[j] = addToChunk(tx, ledger[j].number - 1)
    BY <1>1, <2>1, <2>2 DEF IInv, Kept, Chunks
  <2>4. ledger[i].id = ledger[j].id  BY <1>1, <2>3
  <2> QED  BY <1>1, <2>4 DEF IInv, Kept, Network, Apart
<1>2. IInv => TwiceOnlyIfExpired  BY <1>1 DEF TwiceOnlyIfExpired
<1> QED  BY <1>2, Inductive, PTL

\* The data of the first chunks, one after the other.
LEMMA FileOf ==
  ASSUME NEW t, Cuttable(t), NEW L \in Seq(Entry), Len(L) <= Count(t),
         \A i \in DOMAIN L : L[i].data = getDataForChunk(t, i - 1)
  PROVE  FlattenSeq([i \in DOMAIN L |-> L[i].data]) = Upto(t, Len(L))
<1> DEFINE m == Len(L)
           f == [i \in 1 .. m |-> L[i].data]
<1>1. m \in Nat /\ DOMAIN L = 1 .. m  OBVIOUS
<1>2. \A i \in 1 .. m : L[i] \in Entry  BY <1>1
<1>3. \A i \in 1 .. m : L[i].data \in Data  BY <1>2 DEF Entry
<1>4. f \in [1 .. m -> Data] /\ \A i \in 1 .. m : f[i] = getDataForChunk(t, i - 1)
  BY <1>1, <1>3
<1>5. f = [i \in DOMAIN L |-> L[i].data]  BY <1>1
<1> HIDE DEF f
<1>6. FlattenSeq(f) = Upto(t, m)  BY <1>1, <1>4, FlattenPieces
<1> QED  BY <1>5, <1>6

\* As many entries as they have numbers, when each number is there once.
LEMMA AsManyAsNumbers ==
  ASSUME NEW L \in Seq(Entry), NEW N \in Nat,
         \A i \in DOMAIN L : L[i].number \in 1 .. N,
         \A i, j \in DOMAIN L : L[i].number = L[j].number => i = j,
         \A n \in 1 .. N : \E i \in DOMAIN L : L[i].number = n
  PROVE  Cardinality(DOMAIN L) = N /\ {L[i].number : i \in DOMAIN L} = 1 .. N
<1> DEFINE f == [i \in DOMAIN L |-> L[i].number]
<1>1. f \in Bijection(DOMAIN L, 1 .. N)
  BY DEF Bijection, Injection, Surjection, IsInjective
<1>2. ExistsBijection(DOMAIN L, 1 .. N)  BY <1>1 DEF ExistsBijection
<1>3. DOMAIN L = 1 .. Len(L) /\ Len(L) \in Nat  OBVIOUS
<1>4. IsFiniteSet(DOMAIN L)  BY <1>3, FS_Interval
<1>5. Cardinality(1 .. N) = Cardinality(DOMAIN L)  BY <1>2, <1>4, FS_Bijection
<1>6. Cardinality(1 .. N) = N
  <2>1. Cardinality(1 .. N) = IF 1 > N THEN 0 ELSE N - 1 + 1  BY FS_Interval
  <2> QED  BY <2>1
<1> QED  BY <1>5, <1>6

\* A topic message of which every chunk has been executed can be put together
\* again, in whatever order consensus came: its chunks name one first ID and
\* their number, and hold the message (ChunkedTransaction::addToChunk,
\* TopicMessageSubmitTransaction::addToChunk, fromBytes).
THEOREM MessageWhole == Spec => []TopicMessageWhole
<1>1. ASSUME IInv, outcome = "done", pending = {}, failed = {}, Whole, expiry = NoId,
             tx.data # <<>>, unheard \subseteq ToSet(ledger)
      PROVE  LET total == Cardinality(Found(tx.id))
             IN /\ tx.id \in {e.first : e \in ToSet(ledger)}
                /\ \A i \in Found(tx.id) : ledger[i].total = total
                /\ {ledger[i].number : i \in Found(tx.id)} = 1 .. total
                /\ FlattenSeq([n \in 1 .. total |-> Part(tx.id, n).data]) = tx.data
  <2> DEFINE N == Count(tx)
  <2>1. /\ tx \in TransactionType /\ Cuttable(tx) /\ N \in Nat /\ tx.id \in Nat
        /\ ledger \in Seq(Entry) /\ Apart
    BY <1>1, TypeFacts DEF IInv, Kept, Sensible, Network
  <2>2. N # 0  BY <1>1, <2>1, CountFacts
  <2>3. Taken = ToSet(ledger) /\ Seen = Taken /\ Passed = Taken
    BY <1>1 DEF Passed, Seen, Taken
  <2>4. \A i \in DOMAIN ledger : ledger[i] \in Taken  BY <2>3 DEF ToSet
  <2>5. /\ \A e \in Taken : e.number \in 1 .. N /\ e = addToChunk(tx, e.number - 1)
        /\ \A n \in 1 .. N : \E e \in Taken : e.number = n
    BY <1>1, <2>3 DEF IInv, Kept, Chunks
  <2>6. \A e \in Taken : /\ e.first = tx.id /\ e.total = N
                         /\ e.data = getDataForChunk(tx, e.number - 1)
    <3> SUFFICES ASSUME NEW e \in Taken
                 PROVE  /\ e.first = tx.id /\ e.total = N
                        /\ e.data = getDataForChunk(tx, e.number - 1)
      OBVIOUS
    <3>1. e.number \in 1 .. N /\ e = addToChunk(tx, e.number - 1)  BY <2>5
    <3>2. e.number - 1 \in 0 .. N - 1  BY <2>1, <3>1
    <3> QED  BY <2>1, <3>1, <3>2, ChunkFacts
  <2>7. Found(tx.id) = DOMAIN ledger  BY <2>4, <2>6 DEF Found
  <2>8. \A n \in 1 .. N : \E i \in DOMAIN ledger : ledger[i].number = n
    BY <2>3, <2>5 DEF ToSet
  <2>9. \A i, j \in DOMAIN ledger : ledger[i].number = ledger[j].number => i = j
    BY <2>1, <2>4, <2>5 DEF Apart
  <2>10. /\ Cardinality(DOMAIN ledger) = N
         /\ {ledger[i].number : i \in DOMAIN ledger} = 1 .. N
    <3>1. \A i \in DOMAIN ledger : ledger[i].number \in 1 .. N  BY <2>4, <2>5
    <3> HIDE DEF N
    <3> QED  BY <2>1, <2>8, <2>9, <3>1, AsManyAsNumbers
  <2>11. tx.id \in {e.first : e \in ToSet(ledger)}
    <3>1. 1 \in 1 .. N  BY <2>1, <2>2
    <3>2. PICK e \in Taken : e.number = 1  BY <2>5, <3>1
    <3> QED  BY <2>3, <2>6, <3>2
  <2> DEFINE f == [n \in 1 .. N |-> Part(tx.id, n).data]
  <2>12. ASSUME NEW n \in 1 .. N  PROVE f[n] = getDataForChunk(tx, n - 1) /\ f[n] \in Data
    <3>1. \E e \in ToSet(ledger) : e.first = tx.id /\ e.number = n
      BY <2>3, <2>5, <2>6
    <3>2. Part(tx.id, n) \in Taken /\ Part(tx.id, n).number = n
      BY <2>3, <3>1 DEF Part
    <3>3. Part(tx.id, n).data = getDataForChunk(tx, n - 1)  BY <2>6, <3>2
    <3>4. n - 1 \in 0 .. N - 1  BY <2>1
    <3>5. getDataForChunk(tx, n - 1) \in Data  BY <2>1, <3>4, PieceFacts
    <3> QED  BY <3>3, <3>5
  <2>13. f \in [1 .. N -> Data] /\ \A n \in 1 .. N : f[n] = getDataForChunk(tx, n - 1)
    BY <2>12
  <2>14. FlattenSeq(f) = tx.data
    <3> HIDE DEF f
    <3>1. FlattenSeq(f) = Upto(tx, N)  BY <2>1, <2>13, FlattenPieces
    <3> QED  BY <2>1, <3>1, UptoEnds
  <2>15. \A i \in DOMAIN ledger : ledger[i].total = N  BY <2>4, <2>6
  <2> QED  BY <2>7, <2>10, <2>11, <2>14, <2>15
<1>2. IInv => TopicMessageWhole  BY <1>1 DEF TopicMessageWhole, Whole
<1> QED  BY <1>2, Inductive, PTL

-----------------------------------------------------------------------------
(***************************************************************************)
(* Sending a file implements OrderedAppend.                                *)
(***************************************************************************)
ReaderNext == [Reader!Next]_<<restored.message, File, (outcome = "done"),
                              ~Plain \/ tx.kind # "file">>

Appends == Plain /\ tx.kind = "file"

LEMMA VoidX ==
  ASSUME ~Appends'
  PROVE  ReaderNext
<1>1. (~Plain \/ tx.kind # "file")' = TRUE  BY DEF Appends
<1>2. Reader!Void  BY <1>1 DEF Reader!Void
<1> QED  BY <1>2 DEF Reader!Next, ReaderNext

\* Steps that the reader of the file does not see.
LEMMA UnseenX ==
  ASSUME Appends, Appends', UNCHANGED <<restored, ledger>>
  PROVE  /\ outcome' = outcome => ReaderNext
         /\ outcome' # "done" => ReaderNext
         /\ outcome' = "done" /\ File = restored.message => ReaderNext
<1>1. File' = File /\ restored'.message = restored.message  BY DEF File
<1>2. (~Plain \/ tx.kind # "file")' = (~Plain \/ tx.kind # "file")
  BY DEF Appends
<1>3. ASSUME outcome' = outcome  PROVE ReaderNext
  BY <1>1, <1>2, <1>3 DEF ReaderNext
<1>4. ASSUME outcome' # "done"  PROVE ReaderNext
  <2>1. (outcome = "done")' = FALSE  BY <1>4
  <2>2. Reader!Restart  BY <1>1, <1>2, <2>1 DEF Reader!Restart
  <2> QED  BY <2>2 DEF Reader!Next, ReaderNext
<1>5. ASSUME outcome' = "done", File = restored.message  PROVE ReaderNext
  <2>1. (outcome = "done")' = TRUE  BY <1>5
  <2>2. Reader!Report  BY <1>1, <1>2, <1>5, <2>1 DEF Reader!Report
  <2> QED  BY <2>2 DEF Reader!Next, ReaderNext
<1> QED  BY <1>3, <1>4, <1>5

\* The file is the first chunks of the data.
LEMMA FileIs ==
  ASSUME IInv, Appends
  PROVE  /\ tx \in TransactionType /\ Cuttable(tx) /\ Count(tx) \in Nat
         /\ Len(ledger) \in Nat /\ Len(ledger) <= Count(tx)
         /\ File = Upto(tx, Len(ledger)) /\ restored.message = tx.data
<1>1. tx \in TransactionType /\ Cuttable(tx) /\ Count(tx) \in Nat
  BY TypeFacts DEF IInv, Kept, Sensible
<1>2. ledger \in Seq(Entry) /\ Len(ledger) \in Nat /\ DOMAIN ledger = 1 .. Len(ledger)
  BY DEF IInv, Kept, Network
<1>3. Whole /\ expiry = NoId /\ restored.way = "no" /\ tx.kind = "file"
  BY DEF Appends, Plain, Whole
<1>4. restored.message = tx.data  BY <1>3 DEF IInv, Kept, History
<1>5. \A i \in DOMAIN ledger : ledger[i].number = i
  BY DEF IInv, Kept, Appending, Appends
<1>6. \A i \in DOMAIN ledger : i \in 1 .. Count(tx) /\ ledger[i] = addToChunk(tx, i - 1)
  <2> SUFFICES ASSUME NEW i \in DOMAIN ledger
               PROVE  i \in 1 .. Count(tx) /\ ledger[i] = addToChunk(tx, i - 1)
    OBVIOUS
  <2>1. ledger[i] \in Seen  BY DEF Seen, Taken, ToSet
  <2> QED  BY <1>3, <1>5, <2>1 DEF IInv, Kept, Chunks
<1>7. \A i \in DOMAIN ledger : ledger[i].data = getDataForChunk(tx, i - 1)
  BY <1>6 DEF addToChunk
<1>8. Len(ledger) <= Count(tx)
  <2>1. Len(ledger) > 0 => Len(ledger) \in DOMAIN ledger  BY <1>2
  <2> QED  BY <1>1, <1>2, <1>6, <2>1
<1>9. File = Upto(tx, Len(ledger))  BY <1>1, <1>2, <1>7, <1>8, FileOf DEF File
<1> QED  BY <1>1, <1>2, <1>4, <1>8, <1>9

\* Consensus appends the next chunk, or none.
LEMMA ConsensusAppends ==
  ASSUME IInv, IInv', Consensus, Appends, Appends'
  PROVE  ReaderNext
<1>1. PICK e \in pending :
        \/ ledger' = Append(ledger, e) /\ UNCHANGED failed
        \/ failed' = failed \cup {e} /\ UNCHANGED ledger
  BY DEF Consensus
<1>2. UNCHANGED <<tx, restored, outcome>>  BY DEF Consensus, callVars
<1>3. CASE UNCHANGED ledger  BY <1>2, <1>3, UnseenX
<1>4. CASE ledger' = Append(ledger, e)
  <2> DEFINE k == Len(ledger)
             L == Append(ledger, e)
  <2>1. /\ tx \in TransactionType /\ Cuttable(tx) /\ Count(tx) \in Nat
        /\ k \in Nat /\ File = Upto(tx, k) /\ restored.message = tx.data
    BY FileIs
  <2>2. /\ L \in Seq(Entry) /\ Len(L) = k + 1 /\ DOMAIN L = 1 .. k + 1 /\ ledger' = L
    <3>1. ledger \in Seq(Entry) /\ e \in Entry  BY DEF IInv, Kept, Network
    <3> QED  BY <1>4, <3>1, LedgerAppend
  <2>3. Whole' /\ expiry' = NoId /\ tx'.kind = "file" /\ Plain'
    BY DEF Appends, Plain, Whole
  <2> HIDE DEF L, k
  <2>4. \A i \in DOMAIN L : L[i].number = i
    BY <2>2, <2>3 DEF IInv, Kept, Appending
  <2>5. \A i \in DOMAIN L : i \in 1 .. Count(tx) /\ L[i] = addToChunk(tx, i - 1)
    <3> SUFFICES ASSUME NEW i \in DOMAIN L
                 PROVE  i \in 1 .. Count(tx) /\ L[i] = addToChunk(tx, i - 1)
      OBVIOUS
    <3>1. L[i] \in Seen'  BY <2>2 DEF Seen, Taken, ToSet
    <3>2. L[i].number \in 1 .. Count(tx) /\ L[i] = addToChunk(tx, L[i].number - 1)
      BY <1>2, <2>3, <3>1 DEF IInv, Kept, Chunks
    <3> QED  BY <2>4, <3>2
  <2>6. k + 1 \in 1 .. Count(tx) /\ k \in 0 .. Count(tx) - 1
    <3>1. k + 1 \in DOMAIN L  BY <2>1, <2>2
    <3>2. k + 1 \in 1 .. Count(tx)  BY <2>5, <3>1
    <3> QED  BY <2>1, <3>2
  <2>7. File' = Upto(tx, k + 1)
    <3>1. \A i \in DOMAIN L : L[i].data = getDataForChunk(tx, i - 1)
      BY <2>5 DEF addToChunk
    <3>2. L \in Seq(Entry) /\ Cuttable(tx) /\ Len(L) <= Count(tx) /\ Len(L) = k + 1
      BY <2>1, <2>2, <2>6
    <3>3. FlattenSeq([i \in DOMAIN L |-> L[i].data]) = Upto(tx, Len(L))
      BY <3>1, <3>2, FileOf
    <3> QED  BY <2>2, <3>2, <3>3 DEF File
  <2>8. \E n \in (Len(File) + 1) .. Len(restored.message) : File' = SubSeq(restored.message, 1, n)
    <3> DEFINE n == Min2((k + 1) * tx.chunkSize, Len(tx.data))
               a == Min2(k * tx.chunkSize, Len(tx.data))
               p == getDataForChunk(tx, k)
               U == Upto(tx, k)
               V == Upto(tx, k + 1)
    <3>1. U \in Data /\ V \in Data /\ p \in Data /\ p # <<>> /\ U \o p = V
      BY <2>1, <2>6, PieceFacts
    <3>2. V = SubSeq(tx.data, 1, n)  BY DEF Upto
    <3>3. n \in 0 .. Len(tx.data)
      <4>1. Len(tx.data) \in Nat /\ tx.chunkSize \in Nat /\ k + 1 \in Nat
        BY <2>1, CountFacts DEF Cuttable
      <4>2. (k + 1) * tx.chunkSize \in Nat  BY <4>1
      <4> QED  BY <4>1, <4>2 DEF Min2
    <3> HIDE DEF n, p, U, V
    <3>4. Len(V) = n
      <4>1. tx.data \in Seq(Bytes)  BY <2>1 DEF Cuttable, Data
      <4> QED  BY <3>2, <3>3, <4>1
    <3>5. Len(V) = Len(U) + Len(p) /\ Len(p) > 0 /\ Len(U) \in Nat
      BY <3>1 DEF Data
    <3>6. n \in (Len(U) + 1) .. Len(tx.data)  BY <3>1, <3>3, <3>4, <3>5
    <3> QED  BY <2>1, <2>7, <3>2, <3>6 DEF U, V
  <2>9. (~Plain \/ tx.kind # "file")' = (~Plain \/ tx.kind # "file")  BY DEF Appends
  <2>10. Reader!Append_  BY <1>2, <2>8, <2>9 DEF Reader!Append_
  <2> QED  BY <2>10 DEF Reader!Next, ReaderNext
<1> QED  BY <1>1, <1>3, <1>4

LEMMA setDataChooses ==
  ASSUME IInv, setData, Appends, Appends'
  PROVE  ReaderNext
<1>1. PICK m \in Messages : restored' = [restored EXCEPT !.message = m]
  BY DEF setData
<1>2. restored'.message \in Messages  BY <1>1, RestoredFacts
<1>3. ledger = <<>> /\ ledger' = <<>> /\ outcome' = "none"  BY DEF setData, netVars
<1>4. File = <<>> /\ File' = <<>>
  <2>1. \A s : s = <<>> => FlattenSeq([i \in DOMAIN s |-> s[i].data]) = <<>>
    <3> SUFFICES ASSUME NEW s, s = <<>>  PROVE FlattenSeq([i \in DOMAIN s |-> s[i].data]) = <<>>
      OBVIOUS
    <3>1. [i \in DOMAIN s |-> s[i].data] = <<>>  OBVIOUS
    <3> QED  BY <3>1, FlattenEmpty
  <2> QED  BY <1>3, <2>1 DEF File
<1>5. (outcome = "done")' = FALSE  BY <1>3
<1>6. (~Plain \/ tx.kind # "file")' = (~Plain \/ tx.kind # "file")  BY DEF Appends
<1>7. Reader!Choose  BY <1>2, <1>4, <1>5, <1>6 DEF Reader!Choose
<1> QED  BY <1>7 DEF Reader!Next, ReaderNext

\* The end of executeAll() finds the whole message in the file.
LEMMA EndAppends ==
  ASSUME IInv, Appends, Len(ledger) >= Count(tx)
  PROVE  File = restored.message
<1>1. /\ Cuttable(tx) /\ Count(tx) \in Nat /\ Len(ledger) \in Nat /\ Len(ledger) <= Count(tx)
      /\ File = Upto(tx, Len(ledger)) /\ restored.message = tx.data
  BY FileIs
<1>2. Len(ledger) = Count(tx)  BY <1>1
<1> QED  BY <1>1, <1>2, UptoEnds

LEMMA executeAllAppends ==
  ASSUME IInv, executeAll, Appends, Appends'
  PROVE  ReaderNext
<1>1. UNCHANGED <<restored, ledger>>  BY DEF executeAll, netVars
<1>2. tx \in TransactionType /\ Count(tx) \in Nat /\ tx.current \in Nat
      /\ (tx.current = 0 \/ tx.current < Count(tx)) /\ Len(ledger) \in Nat
  BY TypeFacts DEF IInv, Kept, Sensible, Network
<1>3. CASE tx.current < Count(tx)
  <2>1. outcome' = "none"  BY <1>2, <1>3 DEF executeAll, Count
  <2> QED  BY <1>1, <2>1, UnseenX
<1>4. CASE ~(tx.current < Count(tx))
  <2>1. outcome' = "done"  BY <1>4 DEF executeAll, Done, Count
  <2>2. Len(ledger) >= Count(tx)  BY <1>2, <1>4
  <2> QED  BY <1>1, <2>1, <2>2, EndAppends, UnseenX
<1> QED  BY <1>3, <1>4

LEMMA ReceiptFoundAppends ==
  ASSUME IInv, ReceiptFound, Appends, Appends'
  PROVE  ReaderNext
<1>1. /\ UNCHANGED <<restored, ledger>> /\ NextChunk /\ pc = "receipt"
      /\ Record(request) \in ToSet(ledger)
  BY DEF ReceiptFound, netVars
<1>2. Len(ledger) \in {tx.current + 1, Count(tx)}  BY <1>1, ReceiptDue DEF Appends
<1>3. CASE tx.current + 1 < Count(tx)
  <2>1. outcome' = outcome  BY <1>1, <1>3 DEF NextChunk, Count
  <2> QED  BY <1>1, <2>1, UnseenX
<1>4. CASE ~(tx.current + 1 < Count(tx))
  <2>1. outcome' = "done"  BY <1>1, <1>4 DEF NextChunk, Done, Count
  <2>2. Len(ledger) >= Count(tx)  BY <1>1, <1>2, <1>4, DueX
  <2> QED  BY <1>1, <2>1, <2>2, EndAppends, UnseenX
<1> QED  BY <1>3, <1>4

\* A transaction that is Plain was so before, and of the same kind.
LEMMA StillAppends ==
  ASSUME IInv, [Next]_vars, Appends'
  PROVE  Appends /\ ~Reload /\ ~Regenerated /\ ~Expire
<1>1. restored'.way = "no" /\ expiry' = NoId /\ tx'.kind = "file"
  BY DEF Appends, Plain
<1>2. ~Reload
  <2> SUFFICES ASSUME Reload  PROVE FALSE
    OBVIOUS
  <2>1. PICK w \in {"other", "whole"} : restored' = [restored EXCEPT !.way = w]
    BY DEF Reload
  <2>2. restored'.way = w  BY <2>1 DEF IInv, Kept, History
  <2> QED  BY <1>1, <2>2
<1>3. tx \in TransactionType /\ Sensible(tx, restored.way) /\ lastId \in Nat /\ expiry \in Nat
  BY DEF IInv, Kept, Sensible, Network
<1>4. ~Expire
  BY <1>1, <1>3 DEF Expire, Gap, NoId
<1>5. ~Regenerated
  <2> SUFFICES ASSUME Regenerated  PROVE FALSE
    OBVIOUS
  <2>1. pc = "waiting" /\ request.id <= expiry /\ expiry' = expiry  BY DEF Regenerated, netVars
  <2>2. tx.id \in Nat \ {0} /\ tx.current \in Nat
    <3>1. tx.signed  BY <2>1, DueX
    <3> QED  BY <1>3, <3>1, TypeFacts DEF Sensible, NoId
  <2>3. request.id = tx.id + tx.current  BY <2>1, DueX
  <2> QED  BY <1>1, <2>1, <2>2, <2>3 DEF NoId
<1>6. expiry = NoId
  <2>1. expiry' = expiry
    BY <1>4 DEF Next, User, setData, setChunkSize, setMaxChunks, setNodeAccountIds, setTransactionId,
       freeze, sign, Reload, Edit, executeAll, tooManyChunks, executing, onExecute, NoSuchEntry, Send,
       OutOfAttempts, Accepted, Respond, Refused, Regenerated, AnswerLost,
       Unanswered, Fails, ReceiptFound, NoReceipt, Consensus,
       Rest, vars, netVars
  <2> QED  BY <1>1, <2>1
<1>7. restored.way = "no"
  <2>1. CASE setData
    <3>1. PICK m \in Messages : restored' = [restored EXCEPT !.message = m]  BY <2>1 DEF setData
    <3> QED  BY <1>1, <3>1, RestoredFacts
  <2>2. CASE ~setData
    <3>1. restored' = restored
      BY <1>2, <2>2 DEF Next, User, setChunkSize, setMaxChunks, setNodeAccountIds, setTransactionId,
         freeze, sign, Edit, executeAll, tooManyChunks, executing, onExecute, NoSuchEntry, Send,
         OutOfAttempts, Accepted, Respond, Refused, Regenerated, AnswerLost,
       Unanswered, Fails, ReceiptFound, NoReceipt, Consensus,
         Expire, Rest, vars, netVars
    <3> QED  BY <1>1, <3>1
  <2> QED  BY <2>1, <2>2
<1>8. tx'.kind = tx.kind
  <2>1. CASE freeze \/ onExecute
    <3>1. Frozen(tx) \in TransactionType /\ Frozen(tx).kind = tx.kind
      BY <1>3, FrozenX DEF Sensible
    <3>2. tx' = Frozen(tx) \/ tx' = [Frozen(tx) EXCEPT !.signed = TRUE]
      BY <2>1 DEF freeze, onExecute
    <3> HIDE DEF Frozen
    <3> QED  BY <3>1, <3>2 DEF TransactionType
  <2>2. CASE setData \/ setChunkSize \/ setMaxChunks \/ setNodeAccountIds \/ setTransactionId \/ sign
    BY <1>3, <2>2 DEF setData, setChunkSize, setMaxChunks, setNodeAccountIds, setTransactionId, sign,
       TransactionType
  <2>3. CASE executeAll \/ Accepted \/ Unanswered \/ ReceiptFound
    BY <1>3, <2>3 DEF executeAll, Accepted, Unanswered, Respond, ReceiptFound, NextChunk, Done, TransactionType
  <2>4. CASE tooManyChunks \/ NoSuchEntry \/ Send \/ OutOfAttempts \/ Refused \/ AnswerLost
             \/ NoReceipt \/ Consensus \/ Rest \/ UNCHANGED vars
    BY <2>4 DEF tooManyChunks, NoSuchEntry, Send, OutOfAttempts, Refused, AnswerLost, NoReceipt,
       Consensus, Rest, vars
  <2> QED  BY <1>2, <1>4, <1>5, <2>1, <2>2, <2>3, <2>4 DEF Next, User, executing
<1> QED  BY <1>1, <1>2, <1>4, <1>5, <1>6, <1>7, <1>8 DEF Appends, Plain

LEMMA NextAppends ==
  ASSUME IInv, IInv', [Next]_vars
  PROVE  ReaderNext
<1>1. CASE ~Appends'  BY <1>1, VoidX
<1>2. CASE Appends'
  <2>1. Appends /\ ~Reload /\ ~Regenerated /\ ~Expire  BY <1>2, StillAppends
  <2>2. CASE setData  BY <1>2, <2>1, <2>2, setDataChooses
  <2>3. CASE executeAll  BY <1>2, <2>1, <2>3, executeAllAppends
  <2>4. CASE ReceiptFound  BY <1>2, <2>1, <2>4, ReceiptFoundAppends
  <2>5. CASE Consensus  BY <1>2, <2>1, <2>5, ConsensusAppends
  <2>6. CASE NoSuchEntry \/ OutOfAttempts \/ Refused \/ NoReceipt \/ tooManyChunks
    <3>1. UNCHANGED <<restored, ledger>> /\ outcome' # "done"
      BY <2>6 DEF NoSuchEntry, OutOfAttempts, Refused, NoReceipt, tooManyChunks, Throw, netVars
    <3> QED  BY <1>2, <2>1, <3>1, UnseenX
  <2>7. CASE \/ setChunkSize \/ setMaxChunks \/ setNodeAccountIds \/ setTransactionId \/ freeze
             \/ sign \/ onExecute \/ Send \/ AnswerLost \/ Rest \/ UNCHANGED vars
    <3>1. UNCHANGED <<restored, ledger, outcome>>
      BY <2>7 DEF setChunkSize, setMaxChunks, setNodeAccountIds, setTransactionId, freeze, sign,
         Edit, onExecute, Send, AnswerLost, Again, Rest, vars, callVars, netVars
    <3> QED  BY <1>2, <2>1, <3>1, UnseenX
  <2>8. CASE Accepted \/ Unanswered
    <3>1. ShouldGetReceipt(tx)  BY <2>1 DEF Appends, ShouldGetReceipt
    <3>2. UNCHANGED <<restored, ledger, outcome>>  BY <2>8, <3>1 DEF Accepted, Unanswered, Respond
    <3> QED  BY <1>2, <2>1, <3>2, UnseenX
  <2> QED
    BY <2>1, <2>2, <2>3, <2>4, <2>5, <2>6, <2>7, <2>8 DEF Next, User, executing
<1> QED  BY <1>1, <1>2

\* Sending a file in chunks is an ordered append, for every message, chunk size
\* and number of attempts and calls: the pieces reach the file in order and each
\* once, and success is only reported for the whole message, while the message
\* has not been through bytes and no ID expires (FileAppendTransaction,
\* ChunkedTransaction::executeAll).
THEOREM ImplementsAppend == Spec => AppendsInOrder
<1>1. Init => Reader!Init
  <2> SUFFICES ASSUME Init  PROVE Reader!Init
    OBVIOUS
  <2>1. PICK kind \in Kinds, m \in Messages : tx = New(kind, m)  BY DEF Init
  <2>2. restored = [way |-> "no", message |-> tx.data] /\ ledger = <<>> /\ outcome = "none"
    BY DEF Init
  <2>3. restored.message \in Messages  BY <2>1, <2>2 DEF New
  <2>4. File = <<>>
    <3>1. [i \in DOMAIN ledger |-> ledger[i].data] = <<>>  BY <2>2
    <3> QED  BY <3>1, FlattenEmpty DEF File
  <2>5. (outcome = "done") = FALSE  BY <2>2
  <2> QED  BY <2>3, <2>4, <2>5 DEF Reader!Init
<1>2. IInv /\ IInv' /\ [Next]_vars => ReaderNext  BY NextAppends
<1> QED  BY <1>1, <1>2, Inductive, PTL DEF Spec, AppendsInOrder, Reader!Spec, ReaderNext
=============================================================================
