------------------------- MODULE Transaction_proofs -------------------------
(***************************************************************************)
(* What a transaction sends, who has signed it and what its response says, *)
(* for all keys, nodes, IDs, attempts and executions.  Everything rests on *)
(* Whole: the signed and the built transactions hold what the object       *)
(* shows, signed by its signatories, in every state the methods leave; on  *)
(* Vouching, which says the same of signatures from outside; and on what a *)
(* call of execute() may rely on.                                          *)
(***************************************************************************)
EXTENDS Transaction, TLAPS, FiniteSetTheorems

-----------------------------------------------------------------------------
(***************************************************************************)
(* The inductive invariant.                                                *)
(***************************************************************************)
Accounts == {Nodes[i] : i \in DOMAIN Nodes} \cup {Dummy}
Id       == Ids \cup {NoId}
Signatures == [AllKeys -> Nat]
SignedTransaction == [body : Body, node : Accounts \cup {NoNode}, sigs : Signatures]

TransactionType ==
  [ id : Id, manual : BOOLEAN, policy : Policies, content : Contents,
    batchKey : BOOLEAN, source : Body, nodes : Seq(Accounts),
    signed : Seq(SignedTransaction), built : Seq(SignedTransaction \cup {NotBuilt}),
    signers : SUBSET AllKeys, externals : SUBSET AllKeys, frozen : BOOLEAN,
    index : Nat \ {0} ]

\* The nodes that the network picked have different accounts.
DistinctNodes == \A i, j \in DOMAIN Nodes : Nodes[i] = Nodes[j] => i = j

\* What the getters show.
Shown(t) == [id |-> t.id, content |-> t.content, batch |-> t.batchKey]

\* Every signed transaction holds the source body, and one for the dummy node
\* is the only one; if the picked nodes are distinct, so are those here.
Uniform(t) ==
  \A i \in DOMAIN t.signed :
    /\ t.signed[i].body = t.source /\ t.signed[i].node \in Accounts
    /\ t.signed[i].node = Dummy => Len(t.signed) = 1

Separate(s) ==
  /\ \A i \in DOMAIN s : s[i] = Dummy => Len(s) = 1
  /\ DistinctNodes => \A i, j \in DOMAIN s : s[i] = s[j] => i = j

Apart(t) ==
  /\ Separate(t.nodes)
  /\ DistinctNodes =>
       \A i, j \in DOMAIN t.signed : t.signed[i].node = t.signed[j].node => i = j

\* What is built is what is signed, and then all that sign here have signed.
BuiltFromSigned(t) ==
  /\ \A i \in DOMAIN t.signed :
       /\ i \in DOMAIN t.built
       /\ t.built[i] # NotBuilt =>
            /\ t.built[i] = t.signed[i]
            /\ \A k \in t.signers : t.signed[i].sigs[k] > 0
  /\ \A i \in DOMAIN t.built : t.built[i] = NotBuilt => i \in DOMAIN t.signed

\* Only signatories have signed.  A signature from outside is in the first
\* signed transaction if it is in any.
ByItsKeys(t) ==
  \A i \in DOMAIN t.signed : \A k \in AllKeys : t.signed[i].sigs[k] > 0 =>
    /\ k \in Signatories(t)
    /\ k \in t.externals => t.signed[1].sigs[k] > 0

\* Nobody signs twice over, and nobody what is not frozen.
Signing(t) ==
  /\ t.signers \cap t.externals = {}
  /\ ~t.frozen => t.signers = {} /\ t.externals = {}

\* What the source body holds of the fields that are set later.
Sourced(t) ==
  /\ t.id = NoId => t.source.id = NoId
  /\ t.source.batch => t.batchKey
  /\ t.nodes = <<>> => ~t.frozen /\ t.signed = <<>>

\* A frozen transaction is what it shows, unless batchify came after the
\* freeze: then it goes to no node.
AsShown(t) ==
  /\ t.signed # <<>> /\ t.id = t.source.id
  /\ t.nodes # <<Dummy>> =>
       /\ t.source = Shown(t) /\ DOMAIN t.nodes = DOMAIN t.signed
       /\ \A i \in DOMAIN t.nodes : t.nodes[i] = t.signed[i].node

Settled(t) == t.frozen => AsShown(t) /\ DOMAIN t.built = DOMAIN t.signed

Whole(t) ==
  /\ t \in TransactionType /\ Uniform(t) /\ Apart(t) /\ BuiltFromSigned(t)
  /\ ByItsKeys(t) /\ Signing(t) /\ Sourced(t) /\ Settled(t)

\* Signatures from outside: those for the ID of t and a node that exists are
\* in the signed transaction for the node.
Present(t, x) ==
  /\ t.frozen /\ x[1] \in t.externals
  /\ \E i \in DOMAIN t.signed : t.signed[i].node = x[3] /\ t.signed[i].sigs[x[1]] > 0

Vouching(t, given, last) ==
  /\ last \in Nat /\ t.id <= last
  /\ given \in SUBSET (AllKeys \X Id \X Accounts)
  /\ \A x \in given : x[2] <= last
  /\ \A x \in given : x[2] = t.id /\ x[3] # Dummy => Present(t, x)

\* A call of execute() has frozen the transaction, and waits for an answer to
\* what was built last.
Calling ==
  /\ pc \in {"idle", "attempt", "waiting"} /\ executions \in Nat
  /\ pc # "idle" => tx.frozen /\ executions > 0
  /\ pc = "waiting" =>
       /\ tx.nodes # <<Dummy>> /\ tx.index \in DOMAIN tx.nodes
       /\ tx.built[tx.index] # NotBuilt /\ request = tx.built[tx.index]

\* What the first call of execute() has sent: nothing that was executed while
\* all answers arrive, and nothing under another ID if it must be kept.
Keeps(t) == t.manual \/ t.policy = "no"

FirstCall ==
  /\ executions = 0 => ledger = {} /\ delayed = {}
  /\ pc # "idle" /\ executions = 1 =>
       /\ ~lost => ledger = {} /\ delayed = {}
       /\ Keeps(tx) => \A r \in ledger \cup delayed : r.body.id = tx.id

IInv ==
  /\ Whole(tx) /\ Vouching(tx, vouched, lastId) /\ Calling /\ FirstCall
  /\ ResponseOfRequest

-----------------------------------------------------------------------------
(***************************************************************************)
(* Types and sequences.                                                    *)
(***************************************************************************)
\* Mapping a sequence entry by entry gives a sequence as long.
LEMMA Mapped ==
  ASSUME NEW S, NEW s \in Seq(S), NEW T, NEW f \in [DOMAIN s -> T]
  PROVE  f \in Seq(T) /\ Len(f) = Len(s) /\ DOMAIN f = DOMAIN s
<1>1. DOMAIN s = 1 .. Len(s) /\ Len(s) \in Nat  OBVIOUS
<1>2. f \in [1 .. Len(s) -> T]  BY <1>1
<1>3. f \in Seq(T)  BY <1>1, <1>2
<1> QED  BY <1>1, <1>2, <1>3

\* The constants have the types that the transaction needs.
LEMMA Constants ==
  /\ NoId \in Id /\ Id \subseteq Nat /\ NoBody \in Body /\ Unsigned \in Signatures
  /\ Nodes \in Seq(Accounts) /\ <<Dummy>> \in Seq(Accounts) /\ <<>> \in Seq(Accounts)
  /\ \A i \in DOMAIN Nodes : Nodes[i] # Dummy /\ <<Nodes[i]>> \in Seq(Accounts)
  /\ NoNode \notin Accounts /\ NotBuilt \notin SignedTransaction
  /\ Operator \in AllKeys /\ Keys \subseteq AllKeys /\ MaxId \in Nat
<1>1. NotBuilt \notin SignedTransaction
  <2>1. Accounts \cup {NoNode} = {Nodes[i] : i \in DOMAIN Nodes} \cup {Dummy, NoNode}
    BY DEF Accounts
  <2> QED  BY <2>1, NotBuiltAssumption DEF SignedTransaction, Signatures
<1>2. NoNode \notin Accounts  BY TransactionAssumption DEF Accounts
<1>3. Nodes \in Seq(Accounts) /\ \A i \in DOMAIN Nodes : Nodes[i] \in Accounts
  BY TransactionAssumption DEF Accounts
<1>4. <<Dummy>> \in Seq(Accounts)  BY DEF Accounts
<1>5. Operator \in AllKeys /\ Keys \subseteq AllKeys  BY DEF AllKeys
<1>6. MaxId \in Nat  BY TransactionAssumption
<1>7. NoId \in Id /\ Id \subseteq Nat /\ NoBody \in Body
  BY <1>6 DEF NoId, Id, Ids, NoBody, Body, Contents
<1>8. Unsigned \in Signatures  BY DEF Unsigned, Signatures
<1>9. \A i \in DOMAIN Nodes : Nodes[i] # Dummy  BY TransactionAssumption
<1> QED  BY <1>1, <1>2, <1>3, <1>4, <1>5, <1>6, <1>7, <1>8, <1>9

\* A transaction of its type, field by field.
LEMMA Fields ==
  ASSUME NEW t \in TransactionType
  PROVE  /\ t.id \in Id /\ t.manual \in BOOLEAN /\ t.policy \in Policies
         /\ t.content \in Contents /\ t.batchKey \in BOOLEAN /\ t.source \in Body
         /\ t.nodes \in Seq(Accounts) /\ t.signed \in Seq(SignedTransaction)
         /\ t.built \in Seq(SignedTransaction \cup {NotBuilt})
         /\ t.signers \subseteq AllKeys /\ t.externals \subseteq AllKeys
         /\ t.frozen \in BOOLEAN /\ t.index \in Nat \ {0}
         /\ t.source.id \in Id /\ t.source.content \in Contents /\ t.source.batch \in BOOLEAN
  BY DEF TransactionType, Body, Id

-----------------------------------------------------------------------------
(***************************************************************************)
(* What the methods do to a transaction.                                   *)
(***************************************************************************)
\* updateSourceTransactionBody sets the source body and nothing else; if the
\* rest was sourced, it becomes what the getters show.
LEMMA UpdateSource ==
  ASSUME NEW t \in TransactionType, NEW u, u = updateSourceTransactionBody(t)
  PROVE  /\ u \in TransactionType /\ u = [t EXCEPT !.source = u.source]
         /\ u.source.id = IF t.id = NoId THEN t.source.id ELSE t.id
         /\ Sourced(t) => u.source = Shown(t) /\ Sourced(u)
<1>1. u.source \in Body /\ u = [t EXCEPT !.source = u.source]
      /\ u.source = [ id      |-> IF t.id = NoId THEN t.source.id ELSE t.id,
                      content |-> t.content,
                      batch   |-> t.batchKey \/ t.source.batch ]
  BY Fields DEF updateSourceTransactionBody, TransactionType, Body, Id
<1>2. u \in TransactionType  BY <1>1 DEF TransactionType
<1>3. u.source.id = IF t.id = NoId THEN t.source.id ELSE t.id  BY <1>1
<1>4. ASSUME Sourced(t)  PROVE u.source = Shown(t) /\ Sourced(u)
  <2>1. (t.batchKey \/ t.source.batch) = t.batchKey
    BY <1>4, Fields DEF Sourced
  <2>2. (IF t.id = NoId THEN t.source.id ELSE t.id) = t.id
    BY <1>4 DEF Sourced
  <2>3. u.source = Shown(t)  BY <1>1, <2>1, <2>2 DEF Shown
  <2>4. u.id = t.id /\ u.batchKey = t.batchKey /\ u.nodes = t.nodes
        /\ u.frozen = t.frozen /\ u.signed = t.signed
    BY <1>1 DEF TransactionType
  <2>5. Sourced(u)  BY <1>4, <2>3, <2>4 DEF Sourced, Shown
  <2> QED  BY <2>3, <2>5
<1> QED  BY <1>1, <1>2, <1>3, <1>4

\* The signed transactions that are made for the nodes: nothing is signed or
\* built yet.
LEMMA Regenerated_ ==
  ASSUME NEW t \in TransactionType, Sourced(t),
         NEW u, u = regenerateSignedTransactions(t)
  PROVE  /\ u \in TransactionType
         /\ u.id = t.id /\ u.manual = t.manual /\ u.policy = t.policy
         /\ u.content = t.content /\ u.batchKey = t.batchKey /\ u.nodes = t.nodes
         /\ u.signers = t.signers /\ u.externals = t.externals
         /\ u.frozen = t.frozen /\ u.index = t.index
         /\ u.source = Shown(t) /\ Shown(u) = Shown(t)
         /\ DOMAIN u.signed = DOMAIN t.nodes /\ DOMAIN u.built = DOMAIN t.nodes
         /\ Len(u.signed) = Len(t.nodes)
         /\ \A i \in DOMAIN t.nodes :
              /\ u.signed[i] = [body |-> u.source, node |-> t.nodes[i], sigs |-> Unsigned]
              /\ u.built[i] = NotBuilt
<1> DEFINE a == updateSourceTransactionBody(t)
           s == [i \in DOMAIN a.nodes |->
                   [body |-> a.source, node |-> a.nodes[i], sigs |-> Unsigned]]
           b == addSignedTransactionForEachNode(a)
<1>1. a \in TransactionType /\ a = [t EXCEPT !.source = a.source] /\ a.source = Shown(t)
  BY UpdateSource
<1>2. a.nodes = t.nodes  BY <1>1 DEF TransactionType
<1>3. \A i \in DOMAIN a.nodes : s[i] \in SignedTransaction
  <2>1. a.source \in Body /\ a.nodes \in Seq(Accounts)  BY <1>1, Fields
  <2>2. \A i \in DOMAIN a.nodes : a.nodes[i] \in Accounts  BY <2>1
  <2> QED  BY <2>1, <2>2, Constants DEF SignedTransaction
<1>4. /\ s \in Seq(SignedTransaction) /\ Len(s) = Len(a.nodes) /\ DOMAIN s = DOMAIN a.nodes
  <2>1. a.nodes \in Seq(Accounts)  BY <1>1, Fields
  <2>2. s \in [DOMAIN a.nodes -> SignedTransaction]  BY <1>3
  <2> HIDE DEF s, a
  <2> QED  BY <2>1, <2>2, Mapped
<1>5. b = [a EXCEPT !.signed = s]  BY DEF addSignedTransactionForEachNode
<1>6. b \in TransactionType /\ b.signed = s
  <2> HIDE DEF s, a
  <2> QED  BY <1>1, <1>4, <1>5 DEF TransactionType
<1> DEFINE z == [i \in DOMAIN b.signed |-> NotBuilt]
<1>7. u = [b EXCEPT !.built = z]  BY DEF regenerateSignedTransactions, Unbuild
<1>8. z \in Seq(SignedTransaction \cup {NotBuilt}) /\ DOMAIN z = DOMAIN s
  <2>1. z \in [DOMAIN b.signed -> SignedTransaction \cup {NotBuilt}]  OBVIOUS
  <2>2. b.signed \in Seq(SignedTransaction)  BY <1>6, Fields
  <2> HIDE DEF z, b, s, a
  <2> QED  BY <2>1, <2>2, <1>6, Mapped
<1>9. \A i \in DOMAIN t.nodes :
        s[i] = [body |-> a.source, node |-> t.nodes[i], sigs |-> Unsigned] /\ z[i] = NotBuilt
  BY <1>2, <1>4, <1>6
<1> HIDE DEF z, b, s, a
<1>10. u \in TransactionType /\ u.signed = s /\ u.built = z /\ u.source = a.source
  BY <1>1, <1>4, <1>5, <1>6, <1>7, <1>8 DEF TransactionType
<1>11. /\ u.id = t.id /\ u.manual = t.manual /\ u.policy = t.policy
       /\ u.content = t.content /\ u.batchKey = t.batchKey /\ u.nodes = t.nodes
       /\ u.signers = t.signers /\ u.externals = t.externals
       /\ u.frozen = t.frozen /\ u.index = t.index
  BY <1>1, <1>5, <1>7 DEF TransactionType
<1>12. Shown(u) = Shown(t)  BY <1>11 DEF Shown
<1> QED  BY <1>1, <1>2, <1>4, <1>8, <1>9, <1>10, <1>11, <1>12

\* What was made for the nodes and neither signed nor built is whole.
LEMMA FreshIsWhole ==
  ASSUME NEW t \in TransactionType, t.nodes # <<>>, Separate(t.nodes), Signing(t),
         t.source = Shown(t),
         DOMAIN t.signed = DOMAIN t.nodes, DOMAIN t.built = DOMAIN t.nodes,
         \A i \in DOMAIN t.nodes :
           /\ t.signed[i] = [body |-> t.source, node |-> t.nodes[i], sigs |-> Unsigned]
           /\ t.built[i] = NotBuilt
  PROVE  Whole(t)
<1>1. /\ t.nodes \in Seq(Accounts) /\ t.signed \in Seq(SignedTransaction)
      /\ t.built \in Seq(SignedTransaction \cup {NotBuilt})
  BY Fields
<1>2. Len(t.signed) = Len(t.nodes)  BY <1>1
<1>3. \A i \in DOMAIN t.signed :
        /\ t.signed[i].body = t.source /\ t.signed[i].node = t.nodes[i]
        /\ \A k \in AllKeys : ~(t.signed[i].sigs[k] > 0)
  <2> TAKE i \in DOMAIN t.signed
  <2>1. t.signed[i] = [body |-> t.source, node |-> t.nodes[i], sigs |-> Unsigned]
    OBVIOUS
  <2>2. t.signed[i].sigs = Unsigned  BY <2>1
  <2>3. \A k \in AllKeys : ~(Unsigned[k] > 0)  BY DEF Unsigned
  <2> QED  BY <2>1, <2>2, <2>3
<1>4. \A i \in DOMAIN t.nodes : t.nodes[i] \in Accounts  BY <1>1
<1>5. Uniform(t)  BY <1>2, <1>3, <1>4 DEF Uniform, Separate
<1>6. Apart(t)  BY <1>3 DEF Apart, Separate
<1>7. BuiltFromSigned(t)  BY DEF BuiltFromSigned
<1>8. ByItsKeys(t)  BY <1>3 DEF ByItsKeys
<1>9. Sourced(t)
  <2>1. t.id = NoId => t.source.id = NoId  BY DEF Shown
  <2>2. t.source.batch = t.batchKey  BY DEF Shown
  <2> QED  BY <2>1, <2>2 DEF Sourced
<1>10. Settled(t)
  <2>1. t.signed # <<>>  BY <1>1, <1>2
  <2>2. t.id = t.source.id  BY DEF Shown
  <2> QED  BY <1>3, <2>1, <2>2 DEF Settled, AsShown
<1> QED  BY <1>5, <1>6, <1>7, <1>8, <1>9, <1>10 DEF Whole

\* Regenerating a transaction with nodes leaves it whole, frozen or not.
LEMMA RegeneratedWhole ==
  ASSUME NEW t \in TransactionType, Sourced(t), Signing(t), Separate(t.nodes),
         t.nodes # <<>>, NEW u, u = regenerateSignedTransactions(t)
  PROVE  Whole(u)
<1>1. /\ u \in TransactionType
      /\ u.nodes = t.nodes /\ u.signers = t.signers /\ u.externals = t.externals
      /\ u.frozen = t.frozen
      /\ u.source = Shown(t) /\ Shown(u) = Shown(t)
      /\ DOMAIN u.signed = DOMAIN t.nodes /\ DOMAIN u.built = DOMAIN t.nodes
  BY Regenerated_, Zenon
<1>2. \A i \in DOMAIN t.nodes :
        /\ u.signed[i] = [body |-> u.source, node |-> t.nodes[i], sigs |-> Unsigned]
        /\ u.built[i] = NotBuilt
  BY Regenerated_, Zenon
<1>3. Signing(u)  BY <1>1 DEF Signing
<1> QED  BY <1>1, <1>2, <1>3, FreshIsWhole

\* A signed transaction after the signers have signed it.
LEMMA Signed ==
  ASSUME NEW t \in TransactionType, NEW i \in DOMAIN t.signed
  PROVE  /\ WithSignatures(t, i) \in SignedTransaction
         /\ WithSignatures(t, i).body = t.signed[i].body
         /\ WithSignatures(t, i).node = t.signed[i].node
         /\ \A k \in AllKeys :
              /\ t.signed[i].sigs[k] \in Nat
              /\ k \in t.signers => WithSignatures(t, i).sigs[k] = t.signed[i].sigs[k] + 1
              /\ k \notin t.signers => WithSignatures(t, i).sigs[k] = t.signed[i].sigs[k]
<1> DEFINE s == t.signed[i]
           g == [k \in AllKeys |-> IF k \in t.signers THEN s.sigs[k] + 1 ELSE s.sigs[k]]
<1>1. s \in SignedTransaction
  <2>1. t.signed \in Seq(SignedTransaction)  BY Fields
  <2> QED  BY <2>1
<1>2. s.sigs \in Signatures  BY <1>1 DEF SignedTransaction
<1>3. \A k \in AllKeys : s.sigs[k] \in Nat  BY <1>2 DEF Signatures
<1>4. g \in Signatures  BY <1>3 DEF Signatures
<1>5. WithSignatures(t, i) = [s EXCEPT !.sigs = g]  BY DEF WithSignatures
<1>6. \A k \in AllKeys : g[k] = IF k \in t.signers THEN s.sigs[k] + 1 ELSE s.sigs[k]
  OBVIOUS
<1> HIDE DEF g, s
<1>7. /\ [s EXCEPT !.sigs = g] \in SignedTransaction
      /\ [s EXCEPT !.sigs = g].body = s.body /\ [s EXCEPT !.sigs = g].node = s.node
      /\ [s EXCEPT !.sigs = g].sigs = g
  BY <1>1, <1>4 DEF SignedTransaction
<1> USE DEF s
<1> QED  BY <1>3, <1>5, <1>6, <1>7

\* buildTransaction changes what was not built in I, signed transactions and
\* transactions alike, and leaves the rest.
LEMMA BuildFields ==
  ASSUME NEW t \in TransactionType, BuiltFromSigned(t), NEW I \in SUBSET DOMAIN t.built,
         NEW u, u = buildTransaction(t, I)
  PROVE  /\ u \in TransactionType
         /\ u.id = t.id /\ u.manual = t.manual /\ u.policy = t.policy
         /\ u.content = t.content /\ u.batchKey = t.batchKey /\ u.nodes = t.nodes
         /\ u.signers = t.signers /\ u.externals = t.externals
         /\ u.frozen = t.frozen /\ u.index = t.index /\ u.source = t.source
         /\ DOMAIN u.signed = DOMAIN t.signed /\ Len(u.signed) = Len(t.signed)
         /\ DOMAIN u.built = DOMAIN t.built
         /\ \A i \in DOMAIN t.signed :
              u.signed[i] = IF i \in I /\ t.built[i] = NotBuilt
                            THEN WithSignatures(t, i) ELSE t.signed[i]
         /\ \A i \in DOMAIN t.built :
              u.built[i] = IF i \in I /\ t.built[i] = NotBuilt
                           THEN WithSignatures(t, i) ELSE t.built[i]
<1> DEFINE missing == {i \in I : t.built[i] = NotBuilt}
           s == [i \in DOMAIN t.signed |->
                   IF i \in missing THEN WithSignatures(t, i) ELSE t.signed[i]]
           b == [i \in DOMAIN t.built |->
                   IF i \in missing THEN WithSignatures(t, i) ELSE t.built[i]]
<1>1. missing \subseteq DOMAIN t.signed  BY DEF BuiltFromSigned
<1>2. /\ t.signed \in Seq(SignedTransaction)
      /\ t.built \in Seq(SignedTransaction \cup {NotBuilt})
  BY Fields
<1>3. \A i \in missing : WithSignatures(t, i) \in SignedTransaction
  BY <1>1, Signed
<1>4. s \in [DOMAIN t.signed -> SignedTransaction]
  <2>1. \A i \in DOMAIN t.signed : t.signed[i] \in SignedTransaction  BY <1>2
  <2> HIDE DEF missing
  <2> QED  BY <1>3, <2>1
<1>5. b \in [DOMAIN t.built -> SignedTransaction \cup {NotBuilt}]
  <2>1. \A i \in DOMAIN t.built : t.built[i] \in SignedTransaction \cup {NotBuilt}  BY <1>2
  <2> HIDE DEF missing
  <2> QED  BY <1>3, <2>1
<1>6. u = [t EXCEPT !.signed = s, !.built = b]  BY DEF buildTransaction
<1>7. \A i \in DOMAIN t.signed :
        s[i] = IF i \in I /\ t.built[i] = NotBuilt THEN WithSignatures(t, i) ELSE t.signed[i]
  OBVIOUS
<1>8. \A i \in DOMAIN t.built :
        b[i] = IF i \in I /\ t.built[i] = NotBuilt THEN WithSignatures(t, i) ELSE t.built[i]
  OBVIOUS
<1> HIDE DEF s, b
<1>9. s \in Seq(SignedTransaction) /\ Len(s) = Len(t.signed) /\ DOMAIN s = DOMAIN t.signed
  BY <1>2, <1>4, Mapped
<1>10. b \in Seq(SignedTransaction \cup {NotBuilt}) /\ DOMAIN b = DOMAIN t.built
  BY <1>2, <1>5, Mapped
<1>11. /\ u \in TransactionType
       /\ u.id = t.id /\ u.manual = t.manual /\ u.policy = t.policy
       /\ u.content = t.content /\ u.batchKey = t.batchKey /\ u.nodes = t.nodes
       /\ u.signers = t.signers /\ u.externals = t.externals
       /\ u.frozen = t.frozen /\ u.index = t.index /\ u.source = t.source
       /\ u.signed = s /\ u.built = b
  BY <1>6, <1>9, <1>10 DEF TransactionType
<1> QED  BY <1>7, <1>8, <1>9, <1>10, <1>11

\* Whatever is built, a whole transaction stays whole, nothing that was signed
\* is unsigned, and what was to be built is.
LEMMA BuildWhole ==
  ASSUME NEW t, Whole(t), NEW I \in SUBSET DOMAIN t.built,
         NEW u, u = buildTransaction(t, I)
  PROVE  /\ Whole(u)
         /\ \A i \in I : i \in DOMAIN t.signed => u.built[i] # NotBuilt
         /\ \A i \in DOMAIN t.signed :
              /\ u.signed[i].body = t.signed[i].body /\ u.signed[i].node = t.signed[i].node
              /\ \A k \in AllKeys : t.signed[i].sigs[k] > 0 => u.signed[i].sigs[k] > 0
<1>1. t \in TransactionType /\ BuiltFromSigned(t)  BY DEF Whole
<1>2. /\ u \in TransactionType
      /\ u.id = t.id /\ u.manual = t.manual /\ u.policy = t.policy
      /\ u.content = t.content /\ u.batchKey = t.batchKey /\ u.nodes = t.nodes
      /\ u.signers = t.signers /\ u.externals = t.externals
      /\ u.frozen = t.frozen /\ u.index = t.index /\ u.source = t.source
      /\ DOMAIN u.signed = DOMAIN t.signed /\ Len(u.signed) = Len(t.signed)
      /\ DOMAIN u.built = DOMAIN t.built
  BY <1>1, BuildFields
<1>3. /\ \A i \in DOMAIN t.signed :
           u.signed[i] = IF i \in I /\ t.built[i] = NotBuilt
                         THEN WithSignatures(t, i) ELSE t.signed[i]
      /\ \A i \in DOMAIN t.built :
           u.built[i] = IF i \in I /\ t.built[i] = NotBuilt
                        THEN WithSignatures(t, i) ELSE t.built[i]
  BY <1>1, BuildFields
<1>4. \A i \in DOMAIN t.signed :
        /\ WithSignatures(t, i) # NotBuilt
        /\ WithSignatures(t, i).body = t.signed[i].body
        /\ WithSignatures(t, i).node = t.signed[i].node
        /\ \A k \in AllKeys :
             /\ t.signed[i].sigs[k] \in Nat
             /\ k \in t.signers => WithSignatures(t, i).sigs[k] = t.signed[i].sigs[k] + 1
             /\ k \notin t.signers => WithSignatures(t, i).sigs[k] = t.signed[i].sigs[k]
  <2> TAKE i \in DOMAIN t.signed
  <2>1. WithSignatures(t, i) \in SignedTransaction  BY <1>1, Signed, Zenon
  <2>2. WithSignatures(t, i) # NotBuilt  BY <2>1, Constants
  <2>3. /\ WithSignatures(t, i).body = t.signed[i].body
        /\ WithSignatures(t, i).node = t.signed[i].node
        /\ \A k \in AllKeys :
             /\ t.signed[i].sigs[k] \in Nat
             /\ k \in t.signers => WithSignatures(t, i).sigs[k] = t.signed[i].sigs[k] + 1
             /\ k \notin t.signers => WithSignatures(t, i).sigs[k] = t.signed[i].sigs[k]
    BY <1>1, Signed, Zenon
  <2> QED  BY <2>2, <2>3
<1>5. \A i \in DOMAIN t.signed :
        /\ u.signed[i].body = t.signed[i].body /\ u.signed[i].node = t.signed[i].node
        /\ \A k \in AllKeys :
             /\ t.signed[i].sigs[k] > 0 => u.signed[i].sigs[k] > 0
             /\ k \notin t.signers => u.signed[i].sigs[k] = t.signed[i].sigs[k]
  <2> TAKE i \in DOMAIN t.signed
  <2>1. CASE i \in I /\ t.built[i] = NotBuilt
    <3>1. u.signed[i] = WithSignatures(t, i)  BY <1>3, <2>1
    <3> QED  BY <1>4, <3>1
  <2>2. CASE ~(i \in I /\ t.built[i] = NotBuilt)
    <3>1. u.signed[i] = t.signed[i]  BY <1>3, <2>2
    <3> QED  BY <3>1
  <2> QED  BY <2>1, <2>2
<1>6. BuiltFromSigned(u)
  <2>1. ASSUME NEW i \in DOMAIN u.signed, u.built[i] # NotBuilt
        PROVE  /\ u.built[i] = u.signed[i]
               /\ \A k \in u.signers : u.signed[i].sigs[k] > 0
    <3>0. i \in DOMAIN t.signed /\ i \in DOMAIN t.built
      BY <1>1, <1>2 DEF BuiltFromSigned
    <3>1. CASE i \in I /\ t.built[i] = NotBuilt
      <4>1. u.built[i] = WithSignatures(t, i) /\ u.signed[i] = WithSignatures(t, i)
        BY <1>3, <3>0, <3>1
      <4>2. t.signers \subseteq AllKeys  BY <1>1, Fields
      <4>3. ASSUME NEW k \in t.signers  PROVE WithSignatures(t, i).sigs[k] > 0
        BY <1>4, <3>0, <4>2
      <4> QED  BY <1>2, <4>1, <4>3
    <3>2. CASE ~(i \in I /\ t.built[i] = NotBuilt)
      <4>1. u.built[i] = t.built[i] /\ u.signed[i] = t.signed[i]  BY <1>3, <3>0, <3>2
      <4> QED  BY <1>1, <1>2, <2>1, <3>0, <4>1 DEF BuiltFromSigned
    <3> QED  BY <3>1, <3>2
  <2>2. ASSUME NEW i \in DOMAIN u.built, u.built[i] = NotBuilt
        PROVE  i \in DOMAIN u.signed
    BY <1>1, <1>2, <1>3, <2>2 DEF BuiltFromSigned
  <2> QED  BY <1>1, <1>2, <2>1, <2>2 DEF BuiltFromSigned
<1>7. Uniform(u)  BY <1>2, <1>5 DEF Whole, Uniform
<1>8. Apart(u)  BY <1>2, <1>5 DEF Whole, Apart
<1>9. ByItsKeys(u)
  <2> SUFFICES ASSUME NEW i \in DOMAIN u.signed, NEW k \in AllKeys, u.signed[i].sigs[k] > 0
               PROVE  /\ k \in Signatories(u)
                      /\ k \in u.externals => u.signed[1].sigs[k] > 0
    BY DEF ByItsKeys
  <2>1. CASE k \in t.signers
    BY <1>2, <2>1 DEF Whole, Signing, Signatories
  <2>2. CASE k \notin t.signers
    <3>1. i \in DOMAIN t.signed /\ 1 \in DOMAIN t.signed
      <4>1. t.signed \in Seq(SignedTransaction)  BY <1>1, Fields
      <4> QED  BY <1>2, <4>1
    <3>2. t.signed[i].sigs[k] > 0  BY <1>5, <2>2, <3>1
    <3>3. k \in Signatories(t) /\ (k \in t.externals => t.signed[1].sigs[k] > 0)
      BY <3>1, <3>2 DEF Whole, ByItsKeys
    <3> QED  BY <1>2, <1>5, <3>1, <3>3 DEF Signatories
  <2> QED  BY <2>1, <2>2
<1>10. Signing(u)  BY <1>2 DEF Whole, Signing
<1>11. Sourced(u)
  <2>1. t.signed = <<>> => u.signed = <<>>
    <3>1. t.signed \in Seq(SignedTransaction) /\ u.signed \in Seq(SignedTransaction)
      BY <1>1, <1>2, Fields
    <3> QED  BY <1>2, <3>1
  <2> QED  BY <1>2, <2>1 DEF Whole, Sourced
<1>12. Settled(u)
  <2>1. u.signed = <<>> => t.signed = <<>>
    <3>1. t.signed \in Seq(SignedTransaction) /\ u.signed \in Seq(SignedTransaction)
      BY <1>1, <1>2, Fields
    <3> QED  BY <1>2, <3>1
  <2>2. Shown(u) = Shown(t)  BY <1>2 DEF Shown
  <2> QED  BY <1>2, <1>5, <2>1, <2>2 DEF Whole, Settled, AsShown
<1>13. \A i \in I : i \in DOMAIN t.signed => u.built[i] # NotBuilt
  BY <1>3, <1>4
<1> QED  BY <1>2, <1>5, <1>6, <1>7, <1>8, <1>9, <1>10, <1>11, <1>12, <1>13 DEF Whole

\* With nothing built any more, a frozen transaction is whole if it is apart
\* from what is built.
LEMMA UnbuiltWhole ==
  ASSUME NEW t \in TransactionType, NEW u, u = Unbuild(t),
         Uniform(t), Apart(t), ByItsKeys(t), Signing(t), Sourced(t), AsShown(t)
  PROVE  /\ Whole(u)
         /\ u.id = t.id /\ u.manual = t.manual /\ u.policy = t.policy
         /\ u.frozen = t.frozen /\ u.nodes = t.nodes
         /\ u.signers = t.signers /\ u.externals = t.externals /\ u.signed = t.signed
<1> DEFINE b == [i \in DOMAIN t.signed |-> NotBuilt]
<1>1. u = [t EXCEPT !.built = b]  BY DEF Unbuild
<1>2. b \in [DOMAIN t.signed -> SignedTransaction \cup {NotBuilt}]
      /\ \A i \in DOMAIN t.signed : b[i] = NotBuilt
  OBVIOUS
<1> HIDE DEF b
<1>3. b \in Seq(SignedTransaction \cup {NotBuilt}) /\ DOMAIN b = DOMAIN t.signed
  <2>1. t.signed \in Seq(SignedTransaction)  BY Fields
  <2> QED  BY <1>2, <2>1, Mapped
<1>4. /\ u \in TransactionType
      /\ u.id = t.id /\ u.manual = t.manual /\ u.policy = t.policy
      /\ u.content = t.content /\ u.batchKey = t.batchKey /\ u.nodes = t.nodes
      /\ u.signers = t.signers /\ u.externals = t.externals
      /\ u.frozen = t.frozen /\ u.index = t.index /\ u.source = t.source
      /\ u.signed = t.signed /\ u.built = b
  BY <1>1, <1>3 DEF TransactionType
<1>5. Shown(u) = Shown(t)  BY <1>4 DEF Shown
<1>6. Uniform(u)  BY <1>4 DEF Uniform
<1>7. Apart(u)  BY <1>4 DEF Apart
<1>8. ByItsKeys(u)  BY <1>4 DEF ByItsKeys, Signatories
<1>9. Signing(u)  BY <1>4 DEF Signing
<1>10. Sourced(u)  BY <1>4 DEF Sourced
<1>11. Settled(u)  BY <1>3, <1>4, <1>5 DEF Settled, AsShown
<1>12. BuiltFromSigned(u)  BY <1>2, <1>3, <1>4 DEF BuiltFromSigned
<1> QED  BY <1>4, <1>6, <1>7, <1>8, <1>9, <1>10, <1>11, <1>12 DEF Whole

\* A signer signs with the next build.
LEMMA SignInternal ==
  ASSUME NEW t, Whole(t), t.frozen, NEW k \in AllKeys, NEW u, u = signInternal(t, k)
  PROVE  /\ Whole(u)
         /\ u.id = t.id /\ u.manual = t.manual /\ u.policy = t.policy
         /\ u.frozen /\ u.nodes = t.nodes
         /\ u.externals = t.externals /\ u.signed = t.signed
<1>1. CASE k \in Signatories(t)
  <2>1. u = t  BY <1>1 DEF signInternal
  <2> QED  BY <2>1
<1>2. CASE k \notin Signatories(t)
  <2> DEFINE a == [t EXCEPT !.signers = t.signers \cup {k}]
  <2>1. u = Unbuild(a)  BY <1>2 DEF signInternal
  <2>2. t \in TransactionType  BY DEF Whole
  <2>3. t.signers \cup {k} \in SUBSET AllKeys  BY <2>2, Fields
  <2>4. /\ a \in TransactionType
        /\ a.id = t.id /\ a.manual = t.manual /\ a.policy = t.policy
        /\ a.content = t.content /\ a.batchKey = t.batchKey /\ a.nodes = t.nodes
        /\ a.signers = t.signers \cup {k} /\ a.externals = t.externals
        /\ a.frozen = t.frozen /\ a.source = t.source /\ a.signed = t.signed
    BY <2>2, <2>3 DEF TransactionType
  <2> HIDE DEF a
  <2>5. Shown(a) = Shown(t)  BY <2>4 DEF Shown
  <2>6. Uniform(a)  BY <2>4 DEF Whole, Uniform
  <2>7. Apart(a)  BY <2>4 DEF Whole, Apart
  <2>8. ByItsKeys(a)  BY <1>2, <2>4 DEF Whole, ByItsKeys, Signatories
  <2>9. Signing(a)  BY <1>2, <2>4 DEF Whole, Signing, Signatories
  <2>10. Sourced(a)  BY <2>4 DEF Whole, Sourced
  <2>11. AsShown(a)  BY <2>4, <2>5 DEF Whole, Settled, AsShown
  <2>12. /\ Whole(u)
         /\ u.id = a.id /\ u.manual = a.manual /\ u.policy = a.policy
         /\ u.frozen = a.frozen /\ u.nodes = a.nodes
         /\ u.signers = a.signers /\ u.externals = a.externals /\ u.signed = a.signed
    BY <2>1, <2>4, <2>6, <2>7, <2>8, <2>9, <2>10, <2>11, UnbuiltWhole
  <2> QED  BY <2>4, <2>12
<1> QED  BY <1>1, <1>2

\* The signatures of the keys in gone are gone, the others stay.
LEMMA WithoutFields ==
  ASSUME NEW t \in TransactionType, NEW gone, NEW u, u = Without(t, gone)
  PROVE  /\ u \in TransactionType
         /\ u.id = t.id /\ u.manual = t.manual /\ u.policy = t.policy
         /\ u.content = t.content /\ u.batchKey = t.batchKey /\ u.nodes = t.nodes
         /\ u.signers = t.signers /\ u.externals = t.externals
         /\ u.frozen = t.frozen /\ u.source = t.source
         /\ DOMAIN u.signed = DOMAIN t.signed /\ Len(u.signed) = Len(t.signed)
         /\ \A i \in DOMAIN t.signed :
              /\ u.signed[i].body = t.signed[i].body /\ u.signed[i].node = t.signed[i].node
              /\ \A k \in AllKeys :
                   u.signed[i].sigs[k] = IF k \in gone THEN 0 ELSE t.signed[i].sigs[k]
<1> DEFINE G(i) == [k \in AllKeys |-> IF k \in gone THEN 0 ELSE t.signed[i].sigs[k]]
           E(i) == [t.signed[i] EXCEPT !.sigs = G(i)]
           s == [i \in DOMAIN t.signed |-> E(i)]
<1>1. u = [t EXCEPT !.signed = s]  BY DEF Without
<1>2. \A i \in DOMAIN t.signed :
        /\ E(i) \in SignedTransaction
        /\ E(i).body = t.signed[i].body /\ E(i).node = t.signed[i].node
        /\ \A k \in AllKeys : E(i).sigs[k] = IF k \in gone THEN 0 ELSE t.signed[i].sigs[k]
  <2> TAKE i \in DOMAIN t.signed
  <2>1. t.signed[i] \in SignedTransaction
    <3>1. t.signed \in Seq(SignedTransaction)  BY Fields
    <3> QED  BY <3>1
  <2>2. t.signed[i].sigs \in [AllKeys -> Nat]  BY <2>1 DEF SignedTransaction, Signatures
  <2>3. G(i) \in Signatures
    BY <2>2 DEF Signatures
  <2>4. \A k \in AllKeys : G(i)[k] = IF k \in gone THEN 0 ELSE t.signed[i].sigs[k]
    OBVIOUS
  <2> HIDE DEF G
  <2>5. /\ E(i) \in SignedTransaction
        /\ E(i).body = t.signed[i].body /\ E(i).node = t.signed[i].node
        /\ E(i).sigs = G(i)
    BY <2>1, <2>3 DEF SignedTransaction
  <2> QED  BY <2>4, <2>5
<1>3. \A i \in DOMAIN t.signed : s[i] = E(i)  OBVIOUS
<1> HIDE DEF E
<1>4. s \in [DOMAIN t.signed -> SignedTransaction]
  <2>1. \A i \in DOMAIN t.signed : E(i) \in SignedTransaction  BY <1>2
  <2>2. \A i \in DOMAIN t.signed : s[i] \in SignedTransaction  BY <1>3, <2>1, Zenon
  <2> QED  BY <2>2
<1> HIDE DEF s
<1>5. s \in Seq(SignedTransaction) /\ Len(s) = Len(t.signed) /\ DOMAIN s = DOMAIN t.signed
  <2>1. t.signed \in Seq(SignedTransaction)  BY Fields
  <2> QED  BY <1>4, <2>1, Mapped
<1>6. /\ u \in TransactionType
      /\ u.id = t.id /\ u.manual = t.manual /\ u.policy = t.policy
      /\ u.content = t.content /\ u.batchKey = t.batchKey /\ u.nodes = t.nodes
      /\ u.signers = t.signers /\ u.externals = t.externals
      /\ u.frozen = t.frozen /\ u.source = t.source /\ u.signed = s
  BY <1>1, <1>5 DEF TransactionType
<1> QED  BY <1>2, <1>3, <1>5, <1>6

-----------------------------------------------------------------------------
(***************************************************************************)
(* Signatures from outside.                                                *)
(***************************************************************************)
\* They stay where they are while what is signed only gains signatures.
LEMMA VouchingStays ==
  ASSUME NEW t, NEW given, NEW last, Vouching(t, given, last),
         NEW u, u.id = t.id, t.frozen => u.frozen, t.externals \subseteq u.externals,
         DOMAIN u.signed = DOMAIN t.signed,
         \A i \in DOMAIN t.signed :
           /\ u.signed[i].node = t.signed[i].node
           /\ \A k \in AllKeys : t.signed[i].sigs[k] > 0 => u.signed[i].sigs[k] > 0
  PROVE  Vouching(u, given, last)
<1>1. ASSUME NEW x \in given, x[2] = u.id, x[3] # Dummy  PROVE Present(u, x)
  <2>1. Present(t, x)  BY <1>1 DEF Vouching
  <2>2. PICK i \in DOMAIN t.signed : t.signed[i].node = x[3] /\ t.signed[i].sigs[x[1]] > 0
    BY <2>1 DEF Present
  <2>3. x[1] \in AllKeys
    <3>1. x \in AllKeys \X Id \X Accounts  BY DEF Vouching
    <3> QED  BY <3>1
  <2>4. u.signed[i].node = x[3] /\ u.signed[i].sigs[x[1]] > 0  BY <2>2, <2>3
  <2> QED  BY <2>1, <2>2, <2>4 DEF Present
<1> QED  BY <1>1 DEF Vouching

\* Before a transaction is frozen there are none for its ID and a node.
LEMMA VouchingLoose ==
  ASSUME NEW t, NEW given, NEW last, Vouching(t, given, last), ~t.frozen,
         NEW u, u.id = t.id
  PROVE  Vouching(u, given, last)
  BY DEF Vouching, Present

\* Nor are there any for a new ID.
LEMMA VouchingFresh ==
  ASSUME NEW t, NEW given, NEW last, Vouching(t, given, last),
         NEW u, u.id = last + 1
  PROVE  Vouching(u, given, last + 1)
<1>1. last \in Nat /\ \A x \in given : x[2] \in Nat
  <2>1. \A x \in given : x \in AllKeys \X Id \X Accounts  BY DEF Vouching
  <2> QED  BY <2>1, Constants DEF Vouching
<1>2. \A x \in given : x[2] <= last  BY DEF Vouching
<1>3. \A x \in given : x[2] # u.id /\ x[2] <= last + 1
  BY <1>1, <1>2
<1> QED  BY <1>1, <1>3 DEF Vouching

-----------------------------------------------------------------------------
(***************************************************************************)
(* What the user does.                                                     *)
(***************************************************************************)
\* Outside of execute() only the transaction, the IDs and the signatures from
\* outside change.
LEMMA NotExecutingStays ==
  ASSUME IInv, NotExecuting, Whole(tx'), Vouching(tx', vouched', lastId')
  PROVE  IInv'
<1>1. Calling'  BY DEF IInv, NotExecuting, callVars, Calling
<1>2. FirstCall'  BY DEF IInv, NotExecuting, callVars, ledgerVars, FirstCall
<1>3. ResponseOfRequest'  BY DEF IInv, NotExecuting, callVars, ledgerVars, ResponseOfRequest
<1> QED  BY <1>1, <1>2, <1>3 DEF IInv

\* A new ID is an ID.
LEMMA GenerateGivesId ==
  ASSUME Generate, lastId \in Nat
  PROVE  lastId' = lastId + 1 /\ lastId' \in Id /\ lastId' \in Nat /\ lastId' # NoId
  BY Constants DEF Generate, Id, Ids, NoId

\* A setter leaves everything that a freeze or a signature made.
LEMMA EditedIsWhole ==
  ASSUME NEW t, Whole(t), ~t.frozen, NEW u \in TransactionType,
         u.source = t.source, u.signed = t.signed, u.built = t.built,
         u.signers = t.signers, u.externals = t.externals, u.frozen = t.frozen,
         Separate(u.nodes), u.id = NoId => t.id = NoId, t.batchKey => u.batchKey,
         u.nodes = <<>> => t.nodes = <<>>
  PROVE  Whole(u)
<1>1. Uniform(u)  BY DEF Whole, Uniform
<1>2. Apart(u)  BY DEF Whole, Apart
<1>3. BuiltFromSigned(u)  BY DEF Whole, BuiltFromSigned
<1>4. ByItsKeys(u)  BY DEF Whole, ByItsKeys, Signatories
<1>5. Signing(u)  BY DEF Whole, Signing
<1>6. Sourced(u)  BY DEF Whole, Sourced
<1>7. Settled(u)  BY DEF Settled
<1> QED  BY <1>1, <1>2, <1>3, <1>4, <1>5, <1>6, <1>7 DEF Whole

LEMMA SetTransactionIdX ==
  ASSUME IInv, setTransactionId
  PROVE  IInv'
<1>1. /\ tx \in TransactionType /\ ~tx.frozen /\ lastId \in Nat /\ vouched' = vouched
      /\ NotExecuting /\ Generate /\ tx' = [tx EXCEPT !.id = lastId', !.manual = TRUE]
  BY DEF IInv, Whole, Vouching, setTransactionId, requireNotFrozen
<1>2. lastId' = lastId + 1 /\ lastId' \in Id /\ lastId' # NoId  BY <1>1, GenerateGivesId
<1>3. /\ tx' \in TransactionType /\ tx'.id = lastId'
      /\ tx'.source = tx.source /\ tx'.signed = tx.signed /\ tx'.built = tx.built
      /\ tx'.signers = tx.signers /\ tx'.externals = tx.externals
      /\ tx'.frozen = tx.frozen /\ tx'.nodes = tx.nodes /\ tx'.batchKey = tx.batchKey
  BY <1>1, <1>2 DEF TransactionType
<1>4. Separate(tx'.nodes)  BY <1>3 DEF IInv, Whole, Apart
<1>5. Whole(tx) /\ Vouching(tx, vouched, lastId)  BY DEF IInv
<1>6. Whole(tx')  BY <1>1, <1>2, <1>3, <1>4, <1>5, EditedIsWhole
<1>7. Vouching(tx', vouched', lastId')  BY <1>1, <1>2, <1>3, <1>5, VouchingFresh
<1> QED  BY <1>1, <1>6, <1>7, NotExecutingStays

\* Every other setter keeps the ID, and the source body.
LEMMA EditStays ==
  ASSUME IInv, NotExecuting, requireNotFrozen, UNCHANGED <<lastId, vouched>>,
         tx' \in TransactionType, tx'.id = tx.id,
         tx'.source = tx.source, tx'.signed = tx.signed, tx'.built = tx.built,
         tx'.signers = tx.signers, tx'.externals = tx.externals, tx'.frozen = tx.frozen,
         Separate(tx'.nodes), tx.batchKey => tx'.batchKey,
         tx'.nodes = <<>> => tx.nodes = <<>>
  PROVE  IInv'
<1>1. Whole(tx) /\ Vouching(tx, vouched, lastId) /\ ~tx.frozen
  BY DEF IInv, requireNotFrozen
<1>2. Whole(tx')  BY <1>1, EditedIsWhole
<1>3. Vouching(tx', vouched', lastId')  BY <1>1, VouchingLoose
<1> QED  BY <1>2, <1>3, NotExecutingStays

\* One node is apart from itself.
LEMMA OneIsSeparate ==
  ASSUME NEW n
  PROVE  Separate(<<n>>)
  BY DEF Separate

LEMMA PickedAreSeparate == Separate(Nodes)
  BY Constants DEF Separate, DistinctNodes

LEMMA SetNodeAccountIdsX ==
  ASSUME IInv, setNodeAccountIds
  PROVE  IInv'
<1>1. PICK i \in DOMAIN Nodes : tx' = [tx EXCEPT !.nodes = <<Nodes[i]>>]
  BY DEF setNodeAccountIds
<1>2. /\ NotExecuting /\ requireNotFrozen /\ UNCHANGED <<lastId, vouched>>
      /\ tx \in TransactionType /\ <<Nodes[i]>> \in Seq(Accounts)
  BY Constants DEF IInv, Whole, setNodeAccountIds
<1>3. /\ tx' \in TransactionType /\ tx'.id = tx.id
      /\ tx'.source = tx.source /\ tx'.signed = tx.signed /\ tx'.built = tx.built
      /\ tx'.signers = tx.signers /\ tx'.externals = tx.externals
      /\ tx'.frozen = tx.frozen /\ tx'.batchKey = tx.batchKey /\ tx'.nodes = <<Nodes[i]>>
  BY <1>1, <1>2 DEF TransactionType
<1>4. Separate(tx'.nodes) /\ tx'.nodes # <<>>  BY <1>3, OneIsSeparate
<1> QED  BY <1>2, <1>3, <1>4, EditStays

LEMMA SetFieldX ==
  ASSUME IInv, setField
  PROVE  IInv'
<1>1. PICK c \in Contents : tx' = [tx EXCEPT !.content = c]
  BY DEF setField
<1>2. /\ NotExecuting /\ requireNotFrozen /\ UNCHANGED <<lastId, vouched>>
      /\ tx \in TransactionType
  BY DEF IInv, Whole, setField
<1>3. /\ tx' \in TransactionType /\ tx'.id = tx.id
      /\ tx'.source = tx.source /\ tx'.signed = tx.signed /\ tx'.built = tx.built
      /\ tx'.signers = tx.signers /\ tx'.externals = tx.externals
      /\ tx'.frozen = tx.frozen /\ tx'.batchKey = tx.batchKey /\ tx'.nodes = tx.nodes
  BY <1>1, <1>2 DEF TransactionType
<1>4. Separate(tx'.nodes)  BY <1>3 DEF IInv, Whole, Apart
<1> QED  BY <1>2, <1>3, <1>4, EditStays

LEMMA SetBatchKeyX ==
  ASSUME IInv, setBatchKey
  PROVE  IInv'
<1>1. /\ NotExecuting /\ requireNotFrozen /\ UNCHANGED <<lastId, vouched>>
      /\ tx \in TransactionType /\ tx' = [tx EXCEPT !.batchKey = TRUE]
  BY DEF IInv, Whole, setBatchKey
<1>2. /\ tx' \in TransactionType /\ tx'.id = tx.id
      /\ tx'.source = tx.source /\ tx'.signed = tx.signed /\ tx'.built = tx.built
      /\ tx'.signers = tx.signers /\ tx'.externals = tx.externals
      /\ tx'.frozen = tx.frozen /\ tx'.batchKey /\ tx'.nodes = tx.nodes
  BY <1>1 DEF TransactionType
<1>3. Separate(tx'.nodes)  BY <1>2 DEF IInv, Whole, Apart
<1> QED  BY <1>1, <1>2, <1>3, EditStays

LEMMA SetPolicyX ==
  ASSUME IInv, setRegenerateTransactionIdPolicy
  PROVE  IInv'
<1>1. PICK p \in {"yes", "no"} : tx' = [tx EXCEPT !.policy = p]
  BY DEF setRegenerateTransactionIdPolicy
<1>2. /\ NotExecuting /\ requireNotFrozen /\ UNCHANGED <<lastId, vouched>>
      /\ tx \in TransactionType
  BY DEF IInv, Whole, setRegenerateTransactionIdPolicy
<1>3. /\ tx' \in TransactionType /\ tx'.id = tx.id
      /\ tx'.source = tx.source /\ tx'.signed = tx.signed /\ tx'.built = tx.built
      /\ tx'.signers = tx.signers /\ tx'.externals = tx.externals
      /\ tx'.frozen = tx.frozen /\ tx'.batchKey = tx.batchKey /\ tx'.nodes = tx.nodes
  BY <1>1, <1>2 DEF TransactionType, Policies
<1>4. Separate(tx'.nodes)  BY <1>3 DEF IInv, Whole, Apart
<1> QED  BY <1>2, <1>3, <1>4, EditStays

\* Building keeps what was signed from outside.
LEMMA BuildStays ==
  ASSUME NEW t, Whole(t), NEW given, NEW last, Vouching(t, given, last),
         NEW I \in SUBSET DOMAIN t.built, NEW u, u = buildTransaction(t, I)
  PROVE  Whole(u) /\ Vouching(u, given, last)
<1>1. t \in TransactionType /\ BuiltFromSigned(t)  BY DEF Whole
<1>2. u.id = t.id /\ u.frozen = t.frozen /\ u.externals = t.externals
      /\ DOMAIN u.signed = DOMAIN t.signed
  BY <1>1, BuildFields
<1>3. /\ Whole(u)
      /\ \A i \in DOMAIN t.signed :
           /\ u.signed[i].node = t.signed[i].node
           /\ \A k \in AllKeys : t.signed[i].sigs[k] > 0 => u.signed[i].sigs[k] > 0
  BY BuildWhole
<1>4. Vouching(u, given, last)  BY <1>2, <1>3, VouchingStays
<1> QED  BY <1>3, <1>4

\* freezeWith, with an ID and nodes, settles a transaction.
LEMMA FrozenWithWhole ==
  ASSUME NEW t, Whole(t), ~t.frozen, NEW id \in Id, id # NoId,
         NEW nodes \in Seq(Accounts), nodes # <<>>, Separate(nodes),
         NEW u, u = FrozenWith(t, id, nodes)
  PROVE  /\ Whole(u) /\ u.frozen /\ u.id = id /\ u.nodes = nodes
         /\ u.manual = t.manual /\ u.policy = t.policy
<1> DEFINE a == [t EXCEPT !.id = id, !.nodes = nodes]
           r == regenerateSignedTransactions(a)
<1>1. t \in TransactionType  BY DEF Whole
<1>2. /\ a \in TransactionType /\ a.id = id /\ a.nodes = nodes
      /\ a.manual = t.manual /\ a.policy = t.policy /\ a.batchKey = t.batchKey
      /\ a.signers = t.signers /\ a.externals = t.externals
      /\ a.frozen = t.frozen /\ a.source = t.source /\ a.signed = t.signed
  BY <1>1 DEF TransactionType
<1>3. u = [r EXCEPT !.frozen = TRUE]  BY DEF FrozenWith
<1> HIDE DEF a
<1>4. Sourced(a) /\ Signing(a)  BY <1>2 DEF Whole, Sourced, Signing
<1>5. /\ r \in TransactionType
      /\ r.id = a.id /\ r.manual = a.manual /\ r.policy = a.policy
      /\ r.content = a.content /\ r.batchKey = a.batchKey /\ r.nodes = a.nodes
      /\ r.signers = a.signers /\ r.externals = a.externals
      /\ r.frozen = a.frozen /\ r.index = a.index
      /\ r.source = Shown(a) /\ Shown(r) = Shown(a)
      /\ DOMAIN r.signed = DOMAIN a.nodes /\ DOMAIN r.built = DOMAIN a.nodes
      /\ Len(r.signed) = Len(a.nodes)
      /\ \A i \in DOMAIN a.nodes :
           /\ r.signed[i] = [body |-> r.source, node |-> a.nodes[i], sigs |-> Unsigned]
           /\ r.built[i] = NotBuilt
  BY <1>2, <1>4, Regenerated_
<1> HIDE DEF r
<1>6. /\ u \in TransactionType /\ u.frozen
      /\ u.id = r.id /\ u.manual = r.manual /\ u.policy = r.policy
      /\ u.content = r.content /\ u.batchKey = r.batchKey /\ u.nodes = r.nodes
      /\ u.signers = r.signers /\ u.externals = r.externals
      /\ u.source = r.source /\ u.signed = r.signed /\ u.built = r.built
  BY <1>3, <1>5 DEF TransactionType
<1>7. Shown(u) = Shown(r)  BY <1>6 DEF Shown
<1>8. Signing(u)  BY <1>2, <1>5, <1>6 DEF Whole, Signing
<1>9. \A i \in DOMAIN u.nodes :
        /\ u.signed[i] = [body |-> u.source, node |-> u.nodes[i], sigs |-> Unsigned]
        /\ u.built[i] = NotBuilt
  BY <1>5, <1>6
<1>10. Whole(u)
  <2>1. u.nodes = nodes /\ u.source = Shown(u)  BY <1>2, <1>5, <1>6, <1>7
  <2>2. DOMAIN u.signed = DOMAIN u.nodes /\ DOMAIN u.built = DOMAIN u.nodes
    BY <1>5, <1>6
  <2> QED  BY <1>6, <1>8, <1>9, <2>1, <2>2, FreshIsWhole
<1> QED  BY <1>2, <1>5, <1>6, <1>10

\* Frozen freezes what is not, with a new ID if none is set.
LEMMA FrozenWhole ==
  ASSUME NEW t, Whole(t), Vouching(t, vouched, lastId), GenerateIf(NeedsId(t)),
         NEW u, u = Frozen(t)
  PROVE  /\ Whole(u) /\ u.frozen /\ Vouching(u, vouched, lastId')
         /\ u.manual = t.manual /\ u.policy = t.policy
         /\ t.nodes # <<>> => u.nodes = t.nodes
<1>1. lastId \in Nat /\ t \in TransactionType  BY DEF Vouching, Whole
<1>2. CASE t.frozen
  <2>1. u = t /\ lastId' = lastId
    BY <1>2 DEF Frozen, GenerateIf, NeedsId
  <2> QED  BY <1>2, <2>1
<1>3. CASE ~t.frozen
  <2> DEFINE id    == IF t.id = NoId THEN lastId + 1 ELSE t.id
             nodes == IF t.nodes = <<>> THEN Nodes ELSE t.nodes
  <2>1. u = FrozenWith(t, id, nodes)  BY <1>3 DEF Frozen
  <2>2. id \in Id /\ id # NoId
        /\ (t.id = NoId => lastId' = lastId + 1 /\ id = lastId + 1)
        /\ (t.id # NoId => lastId' = lastId /\ id = t.id)
    <3>1. CASE t.id = NoId
      <4>1. Generate  BY <1>3, <3>1 DEF GenerateIf, NeedsId
      <4> QED  BY <1>1, <3>1, <4>1, GenerateGivesId
    <3>2. CASE t.id # NoId
      <4>1. lastId' = lastId  BY <1>3, <3>2 DEF GenerateIf, NeedsId
      <4>2. t.id \in Id  BY <1>1, Fields
      <4> QED  BY <3>2, <4>1, <4>2
    <3> QED  BY <3>1, <3>2
  <2>3. nodes \in Seq(Accounts) /\ nodes # <<>> /\ Separate(nodes)
    <3>1. t.nodes \in Seq(Accounts)  BY <1>1, Fields
    <3>2. Separate(t.nodes)  BY DEF Whole, Apart
    <3>3. Nodes \in Seq(Accounts) /\ Nodes # <<>>  BY Constants, TransactionAssumption
    <3> QED  BY <3>1, <3>2, <3>3, PickedAreSeparate
  <2>4. t.nodes # <<>> => nodes = t.nodes  OBVIOUS
  <2> HIDE DEF id, nodes
  <2>5. /\ Whole(u) /\ u.frozen /\ u.id = id /\ u.nodes = nodes
        /\ u.manual = t.manual /\ u.policy = t.policy
    BY <1>3, <2>1, <2>2, <2>3, FrozenWithWhole
  <2>6. Vouching(u, vouched, lastId')
    <3>1. CASE t.id = NoId
      BY <2>2, <2>5, <3>1, VouchingFresh
    <3>2. CASE t.id # NoId
      BY <1>3, <2>2, <2>5, <3>2, VouchingLoose
    <3> QED  BY <3>1, <3>2
  <2> QED  BY <2>4, <2>5, <2>6
<1> QED  BY <1>2, <1>3

\* Signing here changes nothing that was signed.
LEMMA SignInternalStays ==
  ASSUME NEW t, Whole(t), t.frozen, NEW given, NEW last, Vouching(t, given, last),
         NEW k \in AllKeys, NEW u, u = signInternal(t, k)
  PROVE  /\ Whole(u) /\ Vouching(u, given, last) /\ u.frozen /\ u.nodes = t.nodes
         /\ u.id = t.id /\ u.manual = t.manual /\ u.policy = t.policy
<1>1. /\ Whole(u)
      /\ u.id = t.id /\ u.manual = t.manual /\ u.policy = t.policy
      /\ u.frozen /\ u.nodes = t.nodes
      /\ u.externals = t.externals /\ u.signed = t.signed
  BY SignInternal
<1>2. Vouching(u, given, last)  BY <1>1, VouchingStays
<1> QED  BY <1>1, <1>2

LEMMA FreezeX ==
  ASSUME IInv, freezeWith
  PROVE  IInv'
<1>1. /\ NotExecuting /\ tx' = Frozen(tx) /\ GenerateIf(NeedsId(tx)) /\ vouched' = vouched
      /\ Whole(tx) /\ Vouching(tx, vouched, lastId)
  BY DEF IInv, freezeWith
<1>2. Whole(tx') /\ Vouching(tx', vouched', lastId')
  BY <1>1, FrozenWhole
<1> QED  BY <1>1, <1>2, NotExecutingStays

LEMMA SignX ==
  ASSUME IInv, sign
  PROVE  IInv'
<1>1. PICK k \in Keys : tx' = signInternal(tx, k)  BY DEF sign
<1>2. /\ NotExecuting /\ tx.frozen /\ lastId' = lastId /\ vouched' = vouched
      /\ Whole(tx) /\ Vouching(tx, vouched, lastId) /\ k \in AllKeys
  BY Constants DEF IInv, sign
<1>3. Whole(tx') /\ Vouching(tx', vouched', lastId')
  BY <1>1, <1>2, SignInternalStays
<1> QED  BY <1>2, <1>3, NotExecutingStays

LEMMA SignWithOperatorX ==
  ASSUME IInv, signWithOperator
  PROVE  IInv'
<1>1. /\ NotExecuting /\ tx' = signInternal(Frozen(tx), Operator)
      /\ GenerateIf(NeedsId(tx)) /\ vouched' = vouched
      /\ Whole(tx) /\ Vouching(tx, vouched, lastId)
  BY DEF IInv, signWithOperator
<1>2. Whole(Frozen(tx)) /\ Frozen(tx).frozen /\ Vouching(Frozen(tx), vouched, lastId')
  BY <1>1, FrozenWhole
<1>3. Operator \in AllKeys  BY Constants
<1>4. Whole(tx') /\ Vouching(tx', vouched', lastId')
  BY <1>1, <1>2, <1>3, SignInternalStays
<1> QED  BY <1>1, <1>4, NotExecutingStays

\* A signature made elsewhere goes into the first signed transaction.
LEMMA AddSignatureX ==
  ASSUME IInv, addSignature
  PROVE  IInv'
<1>1. PICK k \in AllKeys \ Signatories(tx) :
        /\ tx' = Unbuild([tx EXCEPT !.externals = @ \cup {k}, !.signed[1].sigs[k] = @ + 1])
        /\ vouched' = vouched \cup {<<k, tx.signed[1].body.id, tx.signed[1].node>>}
  BY DEF addSignature
<1>2. /\ NotExecuting /\ tx.frozen /\ lastId' = lastId
      /\ Whole(tx) /\ Vouching(tx, vouched, lastId) /\ tx \in TransactionType
  BY DEF IInv, Whole, addSignature
<1> DEFINE s1 == tx.signed[1]
           g  == [s1.sigs EXCEPT ![k] = s1.sigs[k] + 1]
           e  == [s1 EXCEPT !.sigs = g]
           s  == [tx.signed EXCEPT ![1] = e]
           a  == [tx EXCEPT !.externals = tx.externals \cup {k}, !.signed = s]
<1>3. tx' = Unbuild(a)
  BY <1>1
<1>4. tx.signed \in Seq(SignedTransaction) /\ 1 \in DOMAIN tx.signed
  <2>1. tx.signed \in Seq(SignedTransaction)  BY <1>2, Fields
  <2>2. tx.signed # <<>>  BY <1>2 DEF Whole, Settled, AsShown
  <2> QED  BY <2>1, <2>2
<1>5. s1 \in SignedTransaction /\ s1.sigs \in [AllKeys -> Nat]
  <2>1. s1 \in SignedTransaction  BY <1>4
  <2> HIDE DEF s1
  <2> QED  BY <2>1 DEF SignedTransaction, Signatures
<1>6. g \in Signatures /\ g[k] > 0 /\ \A key \in AllKeys : key # k => g[key] = s1.sigs[key]
  <2> HIDE DEF s1
  <2> QED  BY <1>5 DEF Signatures
<1>7. e \in SignedTransaction /\ e.body = s1.body /\ e.node = s1.node /\ e.sigs = g
  <2> HIDE DEF s1, g
  <2> QED  BY <1>5, <1>6 DEF SignedTransaction
<1>8. /\ s \in Seq(SignedTransaction) /\ DOMAIN s = DOMAIN tx.signed
      /\ Len(s) = Len(tx.signed) /\ s[1] = e
      /\ \A i \in DOMAIN tx.signed : i # 1 => s[i] = tx.signed[i]
  <2> HIDE DEF e
  <2> QED  BY <1>4, <1>7
<1> HIDE DEF g
<1>9. \A i \in DOMAIN tx.signed :
        /\ s[i].body = tx.signed[i].body /\ s[i].node = tx.signed[i].node
        /\ \A key \in AllKeys :
             /\ ~(i = 1 /\ key = k) => s[i].sigs[key] = tx.signed[i].sigs[key]
             /\ i = 1 /\ key = k => s[i].sigs[key] > 0
  <2> TAKE i \in DOMAIN tx.signed
  <2>1. CASE i = 1
    <3> HIDE DEF e, s
    <3>1. s[i] = e  BY <1>8, <2>1
    <3> QED  BY <1>6, <1>7, <2>1, <3>1
  <2>2. CASE i # 1
    <3> HIDE DEF e, s
    <3>1. s[i] = tx.signed[i]  BY <1>8, <2>2
    <3> QED  BY <2>2, <3>1
  <2> QED  BY <2>1, <2>2
<1> HIDE DEF s
<1>10. /\ a \in TransactionType
       /\ a.id = tx.id /\ a.manual = tx.manual /\ a.policy = tx.policy
       /\ a.content = tx.content /\ a.batchKey = tx.batchKey /\ a.nodes = tx.nodes
       /\ a.signers = tx.signers /\ a.externals = tx.externals \cup {k}
       /\ a.frozen = tx.frozen /\ a.source = tx.source /\ a.signed = s
  <2>1. tx.externals \cup {k} \in SUBSET AllKeys  BY <1>2, Fields
  <2> QED  BY <1>2, <1>8, <2>1 DEF TransactionType
<1> HIDE DEF a
<1>11. k \in AllKeys /\ k \notin tx.signers /\ k \notin tx.externals
  BY DEF Signatories
<1>12. Shown(a) = Shown(tx)  BY <1>10 DEF Shown
<1>13. Uniform(a)  BY <1>2, <1>8, <1>9, <1>10 DEF Whole, Uniform
<1>14. Apart(a)  BY <1>2, <1>8, <1>9, <1>10 DEF Whole, Apart
<1>15. ByItsKeys(a)
  <2> SUFFICES ASSUME NEW i \in DOMAIN tx.signed, NEW key \in AllKeys, s[i].sigs[key] > 0
               PROVE  /\ key \in Signatories(a)
                      /\ key \in a.externals => s[1].sigs[key] > 0
    BY <1>8, <1>10 DEF ByItsKeys
  <2>1. CASE i = 1
    <3>1. CASE key = k
      BY <1>10, <2>1, <3>1 DEF Signatories
    <3>2. CASE key # k
      <4>1. tx.signed[i].sigs[key] > 0  BY <1>9, <3>2
      <4>2. key \in Signatories(tx)  BY <1>2, <4>1 DEF Whole, ByItsKeys
      <4> QED  BY <1>10, <2>1, <4>2 DEF Signatories
    <3> QED  BY <3>1, <3>2
  <2>2. CASE i # 1
    <3>1. tx.signed[i].sigs[key] > 0  BY <1>9, <2>2
    <3>2. key \in Signatories(tx) /\ (key \in tx.externals => tx.signed[1].sigs[key] > 0)
      BY <1>2, <3>1 DEF Whole, ByItsKeys
    <3>3. key # k  BY <3>2
    <3>4. s[1].sigs[key] = tx.signed[1].sigs[key]  BY <1>4, <1>9, <3>3
    <3> QED  BY <1>10, <3>2, <3>3, <3>4 DEF Signatories
  <2> QED  BY <2>1, <2>2
<1>16. Signing(a)  BY <1>2, <1>10, <1>11 DEF Whole, Signing
<1>17. Sourced(a)
  <2>1. a.nodes # <<>>  BY <1>2, <1>10 DEF Whole, Sourced
  <2> QED  BY <1>2, <1>10, <2>1 DEF Whole, Sourced
<1>18. AsShown(a)
  <2>1. s # <<>>  BY <1>4, <1>8
  <2> QED  BY <1>2, <1>8, <1>9, <1>10, <1>12, <2>1 DEF Whole, Settled, AsShown
<1>19. /\ Whole(tx') /\ tx'.id = a.id /\ tx'.frozen = a.frozen
       /\ tx'.externals = a.externals /\ tx'.signed = a.signed
  BY <1>3, <1>10, <1>13, <1>14, <1>15, <1>16, <1>17, <1>18, UnbuiltWhole
<1>20. Vouching(tx', vouched, lastId)
  <2>1. \A i \in DOMAIN tx.signed :
          /\ tx'.signed[i].node = tx.signed[i].node
          /\ \A key \in AllKeys : tx.signed[i].sigs[key] > 0 => tx'.signed[i].sigs[key] > 0
    BY <1>9, <1>10, <1>19
  <2>2. /\ tx'.id = tx.id /\ (tx.frozen => tx'.frozen)
        /\ tx.externals \subseteq tx'.externals /\ DOMAIN tx'.signed = DOMAIN tx.signed
    BY <1>8, <1>10, <1>19
  <2> QED  BY <1>2, <2>1, <2>2, VouchingStays
<1>21. Vouching(tx', vouched', lastId')
  <2> DEFINE y == <<k, tx.signed[1].body.id, tx.signed[1].node>>
  <2>1. tx.signed[1].body.id = tx.id /\ tx.signed[1].node \in Accounts
    BY <1>2, <1>4 DEF Whole, Uniform, Settled, AsShown
  <2>2. tx.id \in Id  BY <1>2, Fields
  <2>3. y \in AllKeys \X Id \X Accounts /\ y[1] = k /\ y[2] = tx.id
        /\ y[3] = tx.signed[1].node
    BY <1>11, <2>1, <2>2
  <2>4. Present(tx', y)
    <3>1. tx'.signed[1].node = y[3] /\ tx'.signed[1].sigs[y[1]] > 0
      BY <1>4, <1>9, <1>10, <1>11, <1>19, <2>3
    <3>2. 1 \in DOMAIN tx'.signed  BY <1>4, <1>8, <1>10, <1>19
    <3> QED  BY <1>2, <1>10, <1>19, <2>3, <3>1, <3>2 DEF Present
  <2>5. tx.id <= lastId  BY <1>2 DEF Vouching
  <2>6. vouched' = vouched \cup {y}  BY <1>1
  <2> HIDE DEF y
  <2> QED  BY <1>2, <1>20, <2>3, <2>4, <2>5, <2>6 DEF Vouching
<1> QED  BY <1>2, <1>19, <1>21, NotExecutingStays

\* What is left when S sign here, X have signed elsewhere, and nobody else.
Reduced(t, S, X) ==
  Unbuild([Without(t, AllKeys \ X) EXCEPT !.signers = S, !.externals = X])

\* Signatures of all but the externals that are left leave.
LEMMA RemovedWhole ==
  ASSUME NEW t, Whole(t), t.frozen,
         NEW S \in SUBSET t.signers, NEW X \in SUBSET t.externals,
         NEW u, u = Reduced(t, S, X)
  PROVE  /\ Whole(u) /\ u.id = t.id /\ u.frozen /\ u.externals = X
         /\ DOMAIN u.signed = DOMAIN t.signed
         /\ \A i \in DOMAIN t.signed :
              /\ u.signed[i].node = t.signed[i].node
              /\ \A k \in X : u.signed[i].sigs[k] = t.signed[i].sigs[k]
<1> DEFINE gone == AllKeys \ X
           w == Without(t, gone)
           a == [w EXCEPT !.signers = S, !.externals = X]
<1>1. t \in TransactionType  BY DEF Whole
<1>u. u = Unbuild(a)  BY DEF Reduced
<1>0. \A k \in AllKeys : k \in gone <=> k \notin X  OBVIOUS
<1> HIDE DEF gone
<1>w. w = Without(t, gone)  OBVIOUS
<1> HIDE DEF w
<1>2. t.signers \subseteq AllKeys /\ t.externals \subseteq AllKeys  BY <1>1, Fields
<1>3. /\ w \in TransactionType
      /\ w.id = t.id /\ w.manual = t.manual /\ w.policy = t.policy
      /\ w.content = t.content /\ w.batchKey = t.batchKey /\ w.nodes = t.nodes
      /\ w.signers = t.signers /\ w.externals = t.externals
      /\ w.frozen = t.frozen /\ w.source = t.source
      /\ DOMAIN w.signed = DOMAIN t.signed /\ Len(w.signed) = Len(t.signed)
  <2>0. w \in TransactionType  BY <1>1, <1>w, WithoutFields
  <2>1. w.id = t.id  BY <1>1, <1>w, WithoutFields
  <2>5. w.manual = t.manual  BY <1>1, <1>w, WithoutFields
  <2>6. w.policy = t.policy  BY <1>1, <1>w, WithoutFields
  <2>2. w.content = t.content /\ w.batchKey = t.batchKey /\ w.nodes = t.nodes
    BY <1>1, <1>w, WithoutFields
  <2>3. w.signers = t.signers /\ w.externals = t.externals  BY <1>1, <1>w, WithoutFields
  <2>7. w.frozen = t.frozen  BY <1>1, <1>w, WithoutFields
  <2>8. w.source = t.source  BY <1>1, <1>w, WithoutFields
  <2>4. DOMAIN w.signed = DOMAIN t.signed /\ Len(w.signed) = Len(t.signed)
    BY <1>1, <1>w, WithoutFields
  <2> QED  BY <2>0, <2>1, <2>2, <2>3, <2>4, <2>5, <2>6, <2>7, <2>8
<1>3a. \A i \in DOMAIN t.signed :
           /\ w.signed[i].body = t.signed[i].body /\ w.signed[i].node = t.signed[i].node
           /\ \A k \in AllKeys :
                w.signed[i].sigs[k] = IF k \in gone THEN 0 ELSE t.signed[i].sigs[k]
  BY <1>1, <1>w, WithoutFields
<1>4. /\ a \in TransactionType
      /\ a.id = t.id /\ a.content = t.content /\ a.batchKey = t.batchKey
      /\ a.nodes = t.nodes /\ a.signers = S /\ a.externals = X
      /\ a.frozen = t.frozen /\ a.source = t.source /\ a.signed = w.signed
  BY <1>2, <1>3 DEF TransactionType, a
<1>5. Shown(a) = Shown(t)  BY <1>4 DEF Shown
<1>6. Uniform(a)  BY <1>3, <1>3a, <1>4 DEF Whole, Uniform
<1>7. Apart(a)  BY <1>3, <1>3a, <1>4 DEF Whole, Apart
<1>8. ByItsKeys(a)
  <2> SUFFICES ASSUME NEW i \in DOMAIN t.signed, NEW k \in AllKeys, w.signed[i].sigs[k] > 0
               PROVE  k \in X /\ w.signed[1].sigs[k] > 0
    BY <1>3, <1>3a, <1>4 DEF ByItsKeys, Signatories
  <2>1. k \in X /\ t.signed[i].sigs[k] > 0
    <3>1. CASE k \in X
      BY <1>0, <1>3, <1>3a, <3>1
    <3>2. CASE k \notin X
      <4>1. w.signed[i].sigs[k] = 0  BY <1>0, <1>3, <1>3a, <3>2
      <4> QED  BY <4>1
    <3> QED  BY <3>1, <3>2
  <2>2. t.signed[1].sigs[k] > 0  BY <2>1 DEF Whole, ByItsKeys
  <2>3. 1 \in DOMAIN t.signed
    <3>1. t.signed \in Seq(SignedTransaction)  BY <1>1, Fields
    <3> QED  BY <3>1
  <2>4. w.signed[1].sigs[k] = t.signed[1].sigs[k]  BY <1>0, <1>3, <1>3a, <2>1, <2>3
  <2> QED  BY <2>1, <2>2, <2>4
<1>9. Signing(a)  BY <1>4 DEF Whole, Signing
<1>10. Sourced(a)
  <2>1. a.nodes # <<>>  BY <1>4 DEF Whole, Sourced
  <2> QED  BY <1>4, <2>1 DEF Whole, Sourced
<1>11. AsShown(a)
  <2>1. a.signed # <<>>
    <3>1. t.signed # <<>> /\ t.signed \in Seq(SignedTransaction)
      BY <1>1, Fields DEF Whole, Settled, AsShown
    <3>2. a.signed \in Seq(SignedTransaction)  BY <1>4, Fields
    <3> QED  BY <1>3, <1>4, <3>1, <3>2
  <2> QED  BY <1>3, <1>3a, <1>4, <1>5, <2>1 DEF Whole, Settled, AsShown
<1>12. /\ Whole(u) /\ u.id = a.id /\ u.frozen = a.frozen
       /\ u.externals = a.externals /\ u.signed = a.signed
  BY <1>u, <1>4, <1>6, <1>7, <1>8, <1>9, <1>10, <1>11, UnbuiltWhole
<1>13. \A i \in DOMAIN t.signed : \A k \in X : w.signed[i].sigs[k] = t.signed[i].sigs[k]
  BY <1>0, <1>2, <1>3, <1>3a
<1>14. u.id = t.id /\ u.frozen /\ u.externals = X /\ DOMAIN u.signed = DOMAIN t.signed
  BY <1>3, <1>4, <1>12
<1>15. \A i \in DOMAIN t.signed :
         /\ u.signed[i].node = t.signed[i].node
         /\ \A k \in X : u.signed[i].sigs[k] = t.signed[i].sigs[k]
  BY <1>3a, <1>4, <1>12, <1>13
<1> QED  BY <1>12, <1>14, <1>15

LEMMA RemoveSignatureX ==
  ASSUME IInv, removeSignature
  PROVE  IInv'
<1>1. PICK k \in Signatories(tx) :
        /\ tx' = Unbuild([Without(tx, Stale(tx, k)) EXCEPT !.signers = @ \ {k},
                                                          !.externals = @ \ {k}])
        /\ vouched' = {v \in vouched : v[1] # k}
  BY DEF removeSignature
<1>2. /\ NotExecuting /\ tx.frozen /\ lastId' = lastId
      /\ Whole(tx) /\ Vouching(tx, vouched, lastId) /\ tx \in TransactionType
  BY DEF IInv, Whole, removeSignature
<1> DEFINE X == tx.externals \ {k}
           S == tx.signers \ {k}
<1>3. Without(tx, AllKeys \ X).signers = tx.signers
      /\ Without(tx, AllKeys \ X).externals = tx.externals
  BY <1>2, WithoutFields
<1>4. tx' = Reduced(tx, S, X)  BY <1>1, <1>3 DEF Stale, Reduced
<1>5. S \in SUBSET tx.signers /\ X \in SUBSET tx.externals  OBVIOUS
<1> HIDE DEF S, X
<1>6. /\ Whole(tx') /\ tx'.id = tx.id /\ tx'.frozen /\ tx'.externals = X
      /\ DOMAIN tx'.signed = DOMAIN tx.signed
  BY <1>2, <1>4, <1>5, RemovedWhole
<1>6a. \A i \in DOMAIN tx.signed :
           /\ tx'.signed[i].node = tx.signed[i].node
           /\ \A j \in X : tx'.signed[i].sigs[j] = tx.signed[i].sigs[j]
  BY <1>2, <1>4, <1>5, RemovedWhole
<1>7. ASSUME NEW x \in vouched', x[2] = tx'.id, x[3] # Dummy  PROVE Present(tx', x)
  <2>1. x \in vouched /\ x[1] # k  BY <1>1
  <2>2. Present(tx, x)  BY <1>2, <1>6, <1>7, <2>1 DEF Vouching
  <2>3. x[1] \in X  BY <2>1, <2>2 DEF Present, X
  <2> QED  BY <1>6, <1>6a, <2>2, <2>3 DEF Present
<1>8. vouched' \subseteq vouched  BY <1>1
<1>9. Vouching(tx', vouched', lastId')  BY <1>2, <1>6, <1>7, <1>8 DEF Vouching
<1> QED  BY <1>2, <1>6, <1>9, NotExecutingStays

LEMMA RemoveAllSignaturesX ==
  ASSUME IInv, removeAllSignatures
  PROVE  IInv'
<1>1. /\ tx' = Unbuild([Without(tx, AllKeys) EXCEPT !.signers = {}, !.externals = {}])
      /\ vouched' = {} /\ NotExecuting /\ tx.frozen /\ lastId' = lastId
      /\ Whole(tx) /\ Vouching(tx, vouched, lastId)
  BY DEF IInv, removeAllSignatures
<1>2. {} \in SUBSET tx.signers /\ {} \in SUBSET tx.externals  OBVIOUS
<1>5. tx' = Reduced(tx, {}, {})
  <2>1. AllKeys \ {} = AllKeys  OBVIOUS
  <2> QED  BY <1>1, <2>1 DEF Reduced
<1>3. Whole(tx') /\ tx'.id = tx.id
  BY <1>1, <1>2, <1>5, RemovedWhole
<1>4. Vouching(tx', vouched', lastId')  BY <1>1, <1>3 DEF Vouching
<1> QED  BY <1>1, <1>3, <1>4, NotExecutingStays

LEMMA GetTransactionHashX ==
  ASSUME IInv, getTransactionHash
  PROVE  IInv'
<1>1. /\ NotExecuting /\ tx.frozen /\ tx.built # <<>> /\ tx' = buildTransaction(tx, {1})
      /\ UNCHANGED <<lastId, vouched>>
      /\ Whole(tx) /\ Vouching(tx, vouched, lastId) /\ tx \in TransactionType
  BY DEF IInv, Whole, getTransactionHash
<1>2. {1} \in SUBSET DOMAIN tx.built
  <2>1. tx.built \in Seq(SignedTransaction \cup {NotBuilt})  BY <1>1, Fields
  <2> QED  BY <1>1, <2>1
<1>3. Whole(tx') /\ Vouching(tx', vouched', lastId')
  BY <1>1, <1>2, BuildStays
<1> QED  BY <1>1, <1>3, NotExecutingStays

LEMMA GetTransactionHashPerNodeX ==
  ASSUME IInv, getTransactionHashPerNode
  PROVE  IInv'
<1>1. /\ NotExecuting /\ tx' = buildTransaction(tx, DOMAIN tx.signed)
      /\ UNCHANGED <<lastId, vouched>>
      /\ Whole(tx) /\ Vouching(tx, vouched, lastId)
  BY DEF IInv, getTransactionHashPerNode, buildAllTransactions
<1>2. DOMAIN tx.signed \in SUBSET DOMAIN tx.built
  BY <1>1 DEF Whole, BuiltFromSigned
<1>3. Whole(tx') /\ Vouching(tx', vouched', lastId')
  BY <1>1, <1>2, BuildStays
<1> QED  BY <1>1, <1>3, NotExecutingStays

\* A transaction without nodes is whole.
LEMMA NodelessIsWhole ==
  ASSUME NEW t \in TransactionType, t.nodes = <<>>, t.signed = <<>>,
         t.signers = {}, t.externals = {}, ~t.frozen,
         t.id = NoId => t.source.id = NoId, t.source.batch => t.batchKey,
         \A i \in DOMAIN t.built : t.built[i] # NotBuilt
  PROVE  Whole(t)
<1>1. DOMAIN t.signed = {} /\ DOMAIN t.nodes = {}  OBVIOUS
<1>2. Uniform(t)  BY <1>1 DEF Uniform
<1>3. Apart(t)  BY <1>1 DEF Apart, Separate
<1>4. BuiltFromSigned(t)  BY <1>1 DEF BuiltFromSigned
<1>5. ByItsKeys(t)  BY <1>1 DEF ByItsKeys
<1>6. Signing(t) /\ Sourced(t) /\ Settled(t)  BY DEF Signing, Sourced, Settled
<1> QED  BY <1>2, <1>3, <1>4, <1>5, <1>6 DEF Whole

\* Without nodes toBytes and schedule only update the source body.
LEMMA SourceUpdateStays ==
  ASSUME NEW t, Whole(t), t.nodes = <<>>, NEW given, NEW last, Vouching(t, given, last),
         NEW u, u = updateSourceTransactionBody(t)
  PROVE  /\ Whole(u) /\ Vouching(u, given, last) /\ ~u.frozen /\ u.id = t.id
         /\ u.source \in Body /\ u.source.id = u.id
<1>1. t \in TransactionType /\ Sourced(t)  BY DEF Whole
<1>2. /\ u \in TransactionType /\ u = [t EXCEPT !.source = u.source]
      /\ u.source = Shown(t) /\ Sourced(u)
  BY <1>1, UpdateSource
<1>3. /\ u.id = t.id /\ u.nodes = <<>> /\ u.signed = t.signed /\ u.built = t.built
      /\ u.signers = t.signers /\ u.externals = t.externals /\ u.frozen = t.frozen
  BY <1>1, <1>2 DEF TransactionType
<1>4. ~t.frozen /\ t.signed = <<>>  BY <1>1 DEF Sourced
<1>5. t.signers = {} /\ t.externals = {}  BY <1>4 DEF Whole, Signing
<1>6. u.source.id = u.id  BY <1>2, <1>3 DEF Shown
<1>7. \A i \in DOMAIN u.built : u.built[i] # NotBuilt
  <2>1. DOMAIN t.signed = {}  BY <1>4
  <2> QED  BY <1>3, <2>1 DEF Whole, BuiltFromSigned
<1>8. Whole(u)
  BY <1>2, <1>3, <1>4, <1>5, <1>7, NodelessIsWhole DEF Sourced
<1>9. Vouching(u, given, last)  BY <1>3, <1>4, VouchingLoose
<1>10. u.source \in Body  BY <1>2, Fields
<1> QED  BY <1>3, <1>4, <1>6, <1>8, <1>9, <1>10

\* With nodes it builds all, after it has regenerated what is not frozen.
LEMMA SerialisedWhole ==
  ASSUME NEW t, Whole(t), t.nodes # <<>>, NEW given, NEW last, Vouching(t, given, last),
         NEW u, u = AfterToBytes(t)
  PROVE  /\ Whole(u) /\ Vouching(u, given, last) /\ u.source.id = u.id
         /\ u.signed # <<>> /\ DOMAIN u.built = DOMAIN u.signed
         /\ \A i \in DOMAIN u.signed : u.built[i] # NotBuilt
<1> DEFINE a == IF t.frozen THEN t ELSE regenerateSignedTransactions(t)
<1>1. t \in TransactionType  BY DEF Whole
<1>2. /\ Whole(a) /\ Vouching(a, given, last) /\ a.source.id = a.id
      /\ a.signed # <<>> /\ DOMAIN a.built = DOMAIN a.signed
  <2>1. CASE t.frozen
    <3>1. a = t  BY <2>1
    <3>2. Settled(t)  BY DEF Whole
    <3> QED  BY <2>1, <3>1, <3>2 DEF Settled, AsShown
  <2>2. CASE ~t.frozen
    <3>1. a = regenerateSignedTransactions(t)  BY <2>2
    <3> HIDE DEF a
    <3>2. Sourced(t) /\ Signing(t) /\ Separate(t.nodes)  BY DEF Whole, Apart
    <3>3. Whole(a)  BY <1>1, <3>1, <3>2, RegeneratedWhole
    <3>4. a.id = t.id /\ a.source = Shown(t)
          /\ DOMAIN a.signed = DOMAIN t.nodes /\ DOMAIN a.built = DOMAIN t.nodes
          /\ Len(a.signed) = Len(t.nodes)
      BY <1>1, <3>1, <3>2, Regenerated_
    <3>5. a.source.id = a.id  BY <3>4 DEF Shown
    <3>6. Vouching(a, given, last)  BY <2>2, <3>4, VouchingLoose
    <3>7. a.signed # <<>>
      <4>1. t.nodes \in Seq(Accounts)  BY <1>1, Fields
      <4>2. Len(t.nodes) # 0  BY <4>1
      <4> QED  BY <3>4, <4>2
    <3> QED  BY <3>3, <3>4, <3>5, <3>6, <3>7
  <2> QED  BY <2>1, <2>2
<1>3. u = buildTransaction(a, DOMAIN a.signed)  BY DEF AfterToBytes, buildAllTransactions
<1> HIDE DEF a
<1>4. a \in TransactionType /\ BuiltFromSigned(a) /\ DOMAIN a.signed \in SUBSET DOMAIN a.built
  BY <1>2 DEF Whole
<1>5. Whole(u) /\ Vouching(u, given, last)  BY <1>2, <1>3, <1>4, BuildStays
<1>6. /\ u.id = a.id /\ u.source = a.source /\ Len(u.signed) = Len(a.signed)
      /\ DOMAIN u.signed = DOMAIN a.signed /\ DOMAIN u.built = DOMAIN a.built
  BY <1>3, <1>4, BuildFields
<1>7. \A i \in DOMAIN a.signed : u.built[i] # NotBuilt
  BY <1>2, <1>3, <1>4, BuildWhole
<1>8. u.signed # <<>>
  <2>1. a.signed \in Seq(SignedTransaction)  BY <1>4, Fields
  <2>2. Len(a.signed) # 0  BY <1>2, <2>1
  <2> QED  BY <1>6, <2>2
<1> QED  BY <1>2, <1>5, <1>6, <1>7, <1>8

LEMMA ToBytesX ==
  ASSUME IInv, toBytes
  PROVE  IInv'
<1>1. /\ NotExecuting /\ tx' = AfterToBytes(tx) /\ UNCHANGED <<lastId, vouched>>
      /\ Whole(tx) /\ Vouching(tx, vouched, lastId)
  BY DEF IInv, toBytes
<1>2. CASE tx.nodes = <<>>
  <2>1. tx' = updateSourceTransactionBody(tx)  BY <1>1, <1>2 DEF AfterToBytes
  <2> QED  BY <1>1, <1>2, <2>1, SourceUpdateStays, NotExecutingStays
<1>3. CASE tx.nodes # <<>>
  BY <1>1, <1>3, SerialisedWhole, NotExecutingStays
<1> QED  BY <1>2, <1>3

LEMMA ScheduleX ==
  ASSUME IInv, schedule
  PROVE  IInv'
<1>1. /\ NotExecuting /\ tx' = updateSourceTransactionBody(tx) /\ tx.nodes = <<>>
      /\ UNCHANGED <<lastId, vouched>>
      /\ Whole(tx) /\ Vouching(tx, vouched, lastId)
  BY DEF IInv, schedule
<1> QED  BY <1>1, SourceUpdateStays, NotExecutingStays

\* A new transaction has its type.
LEMMA NewIsTyped ==
  NewTransaction \in TransactionType
  BY Constants DEF NewTransaction, TransactionType, Policies, Contents, NoBody

\* The constructor, from a body without a node: nobody has signed it.
LEMMA FromSourceWhole ==
  ASSUME NEW list, list[1] \in SignedTransaction, NEW u, u = FromSource(list)
  PROVE  Whole(u) /\ u.id = list[1].body.id /\ ~u.frozen /\ u.signed = <<>>
<1> DEFINE body  == list[1].body
           built == IF body.batch THEN <<list[1]>> ELSE <<>>
<1>1. body \in Body  BY DEF SignedTransaction
<1>2. body.id \in Id /\ body.content \in Contents /\ body.batch \in BOOLEAN
  BY <1>1 DEF Body, Id
<1>3. built \in Seq(SignedTransaction \cup {NotBuilt})
      /\ \A i \in DOMAIN built : built[i] # NotBuilt
  <2>1. list[1] # NotBuilt  BY Constants
  <2>2. CASE body.batch
    <3>1. built = <<list[1]>>  BY <2>2
    <3> HIDE DEF built
    <3> QED  BY <2>1, <3>1
  <2>3. CASE ~body.batch
    <3>1. built = <<>>  BY <2>3
    <3> HIDE DEF built
    <3> QED  BY <3>1
  <2> QED  BY <2>2, <2>3
<1>4. u = [NewTransaction EXCEPT !.id = body.id, !.content = body.content,
             !.batchKey = body.batch, !.source = body, !.built = built]
  BY DEF FromSource
<1> HIDE DEF body, built
<1>5. /\ u \in TransactionType
      /\ u.id = body.id /\ u.batchKey = body.batch /\ u.source = body /\ u.built = built
      /\ u.nodes = NewTransaction.nodes /\ u.signed = NewTransaction.signed
      /\ u.signers = NewTransaction.signers /\ u.externals = NewTransaction.externals
      /\ u.frozen = NewTransaction.frozen
  BY <1>1, <1>2, <1>3, <1>4, NewIsTyped DEF TransactionType
<1>6. /\ u.nodes = <<>> /\ u.signed = <<>> /\ u.signers = {} /\ u.externals = {}
      /\ ~u.frozen
  BY <1>5 DEF NewTransaction
<1>7. Whole(u)
  BY <1>3, <1>5, <1>6, NodelessIsWhole
<1> USE DEF body
<1> QED  BY <1>5, <1>6, <1>7

\* The constructor, from what a whole transaction built: the signatures that
\* the first one carries are signatures from outside.
LEMMA FromSignedWhole ==
  ASSUME NEW t, Whole(t), t.signed # <<>>, DOMAIN t.built = DOMAIN t.signed,
         \A i \in DOMAIN t.signed : t.built[i] # NotBuilt,
         NEW u, u = FromSigned(t.built)
  PROVE  /\ Whole(u) /\ u.id = t.source.id /\ u.signed = t.built
         /\ (u.frozen <=> u.externals # {})
         /\ \A i \in DOMAIN t.signed : \A k \in AllKeys :
              t.signed[i].sigs[k] > 0 => k \in u.externals
<1> DEFINE list  == t.built
           body  == list[1].body
           found == {k \in AllKeys : list[1].sigs[k] > 0}
           nodes == [i \in DOMAIN list |-> list[i].node]
<1>1. t \in TransactionType  BY DEF Whole
<1>2. /\ t.signed \in Seq(SignedTransaction) /\ 1 \in DOMAIN t.signed
      /\ \A i \in DOMAIN t.signed : t.built[i] = t.signed[i]
      /\ t.built \in Seq(SignedTransaction \cup {NotBuilt})
  <2>1. t.signed \in Seq(SignedTransaction)
        /\ t.built \in Seq(SignedTransaction \cup {NotBuilt})
    BY <1>1, Fields
  <2>2. 1 \in DOMAIN t.signed  BY <2>1
  <2>3. \A i \in DOMAIN t.signed : t.built[i] = t.signed[i]
    BY DEF Whole, BuiltFromSigned
  <2> QED  BY <2>1, <2>2, <2>3
<1>3. \A i \in DOMAIN list :
        /\ list[i] = t.signed[i] /\ list[i] \in SignedTransaction
        /\ list[i].body = t.source /\ list[i].node \in Accounts
        /\ list[i].node = Dummy => Len(list) = 1
  <2>1. Len(t.built) = Len(t.signed)  BY <1>2
  <2>2. \A i \in DOMAIN t.signed : t.signed[i] \in SignedTransaction  BY <1>2
  <2> QED  BY <1>2, <2>1, <2>2 DEF Whole, Uniform
<1>4. list \in Seq(SignedTransaction) /\ 1 \in DOMAIN list
  <2>1. list \in [DOMAIN list -> SignedTransaction]  BY <1>2, <1>3
  <2> QED  BY <1>2, <2>1, Mapped
<1>5. nodes \in Seq(Accounts) /\ DOMAIN nodes = DOMAIN list /\ Len(nodes) = Len(list)
  <2>1. nodes \in [DOMAIN list -> Accounts]  BY <1>3
  <2> HIDE DEF list, nodes
  <2> QED  BY <1>4, <2>1, Mapped
<1>6. \A i \in DOMAIN list : nodes[i] = list[i].node  OBVIOUS
<1>7. body = t.source /\ body \in Body /\ body.id \in Id /\ body.content \in Contents
      /\ body.batch \in BOOLEAN
      /\ body = [id |-> body.id, content |-> body.content, batch |-> body.batch]
  <2>1. body = t.source  BY <1>3, <1>4
  <2>2. t.source \in Body /\ t.source.id \in Id /\ t.source.content \in Contents
        /\ t.source.batch \in BOOLEAN
    BY <1>1, Fields
  <2>3. t.source = [id |-> t.source.id, content |-> t.source.content,
                    batch |-> t.source.batch]
    BY <2>2 DEF Body
  <2> QED  BY <2>1, <2>2, <2>3
<1>8. \A i \in DOMAIN list : \A k \in AllKeys : list[i].sigs[k] > 0 => k \in found
  <2> SUFFICES ASSUME NEW i \in DOMAIN list, NEW k \in AllKeys, list[i].sigs[k] > 0
               PROVE  list[1].sigs[k] > 0
    OBVIOUS
  <2>1. t.signed[i].sigs[k] > 0 /\ i \in DOMAIN t.signed  BY <1>3
  <2>2. k \in Signatories(t) /\ (k \in t.externals => t.signed[1].sigs[k] > 0)
    BY <2>1 DEF Whole, ByItsKeys
  <2>3. CASE k \in t.signers
    <3>1. t.signed[1].sigs[k] > 0  BY <1>2, <2>3 DEF Whole, BuiltFromSigned
    <3> QED  BY <1>2, <3>1
  <2>4. CASE k \notin t.signers
    <3>1. t.signed[1].sigs[k] > 0  BY <2>2, <2>4 DEF Signatories
    <3> QED  BY <1>2, <3>1
  <2> QED  BY <2>3, <2>4
<1>9. found \in SUBSET AllKeys  OBVIOUS
<1>10. u = [NewTransaction EXCEPT !.id = body.id, !.content = body.content,
              !.batchKey = body.batch, !.source = body, !.nodes = nodes,
              !.signed = list, !.built = list, !.externals = found,
              !.frozen = (found # {})]
  BY DEF FromSigned
<1>11. list \in Seq(SignedTransaction \cup {NotBuilt})  BY <1>2
<1>12. (found # {}) \in BOOLEAN  OBVIOUS
<1>20. DOMAIN list = DOMAIN t.signed /\ list = t.built  OBVIOUS
<1> DEFINE f == (found # {})
<1>21. f <=> found # {}  OBVIOUS
<1> HIDE DEF body, list, nodes, found, f
<1>13. /\ u \in TransactionType
       /\ u.id = body.id /\ u.content = body.content /\ u.batchKey = body.batch
       /\ u.source = body /\ u.nodes = nodes /\ u.signed = list /\ u.built = list
       /\ u.signers = NewTransaction.signers /\ u.externals = found /\ u.frozen = f
  <2>1. u = [NewTransaction EXCEPT !.id = body.id, !.content = body.content,
              !.batchKey = body.batch, !.source = body, !.nodes = nodes,
              !.signed = list, !.built = list, !.externals = found,
              !.frozen = f]
    BY <1>10 DEF f
  <2>2. f \in BOOLEAN  BY DEF f
  <2> QED
    BY <1>4, <1>5, <1>7, <1>9, <1>11, <2>1, <2>2, NewIsTyped DEF TransactionType
<1>14. u.signers = {}  BY <1>13 DEF NewTransaction
<1>15. Uniform(u)  BY <1>3, <1>7, <1>13 DEF Uniform
<1>16. Apart(u)
  <2>1. DistinctNodes =>
          \A i, j \in DOMAIN list : list[i].node = list[j].node => i = j
    BY <1>3, <1>20 DEF Whole, Apart
  <2>2. Separate(nodes)  BY <1>3, <1>5, <1>6, <2>1 DEF Separate
  <2> QED  BY <1>13, <2>1, <2>2 DEF Apart
<1>17. BuiltFromSigned(u)  BY <1>13, <1>14 DEF BuiltFromSigned
<1>18. ByItsKeys(u)  BY <1>8, <1>13 DEF ByItsKeys, Signatories, found
<1>19. Signing(u)  BY <1>13, <1>14, <1>21 DEF Signing
<1>22. u.signed # <<>> /\ u.nodes # <<>>  BY <1>4, <1>5, <1>13
<1>23. Sourced(u)  BY <1>13, <1>22 DEF Sourced
<1>24. Settled(u)
  <2>1. u.source = Shown(u)  BY <1>7, <1>13 DEF Shown
  <2> QED  BY <1>5, <1>6, <1>13, <1>22, <2>1 DEF Settled, AsShown
<1>25. Whole(u)
  BY <1>13, <1>15, <1>16, <1>17, <1>18, <1>19, <1>23, <1>24 DEF Whole
<1>26. \A i \in DOMAIN t.signed : \A k \in AllKeys :
         t.signed[i].sigs[k] > 0 => k \in u.externals
  BY <1>3, <1>8, <1>13, <1>20
<1> QED  BY <1>7, <1>13, <1>20, <1>21, <1>25, <1>26

\* The signatures from outside that come with the bytes.
CameWith(t) ==
  UNION {{<<k, r.body.id, r.node>> : k \in {key \in AllKeys : r.sigs[key] > 0}}
           : r \in {t.signed[i] : i \in DOMAIN t.signed}}

LEMMA ReloadX ==
  ASSUME IInv, Reload
  PROVE  IInv'
<1> DEFINE after == AfterToBytes(tx)
           list  == Bytes(tx)
<1>1. /\ NotExecuting /\ lastId' = lastId
      /\ tx' = fromBytes(list) /\ vouched' = vouched \cup CameWith(tx')
      /\ Whole(tx) /\ Vouching(tx, vouched, lastId)
  BY DEF IInv, Reload, CameWith
<1>2. ASSUME list[1].node \in {NoNode, Dummy}, list[1] \in SignedTransaction,
             list[1].body.id = after.id, Vouching(after, vouched, lastId),
             \A x \in vouched : Present(after, x) => x[3] = Dummy
      PROVE  IInv'
  <2>1. tx' = FromSource(list)  BY <1>1, <1>2 DEF fromBytes
  <2>2. Whole(tx') /\ tx'.id = after.id /\ ~tx'.frozen /\ tx'.signed = <<>>
    <3> HIDE DEF list, after
    <3> QED  BY <1>2, <2>1, FromSourceWhole
  <2>3. vouched' = vouched
    <3>1. CameWith(tx') = {}
      <4>1. DOMAIN tx'.signed = {}  BY <2>2
      <4> QED  BY <4>1 DEF CameWith
    <3> QED  BY <1>1, <3>1
  <2>4. \A x \in vouched : x[2] = tx'.id => x[3] = Dummy
    BY <1>2, <2>2 DEF Vouching
  <2>5. Vouching(tx', vouched', lastId')
    BY <1>1, <1>2, <2>2, <2>3, <2>4 DEF Vouching
  <2> QED  BY <1>1, <2>2, <2>5, NotExecutingStays
<1>3. CASE tx.nodes = <<>>
  <2>1. after = updateSourceTransactionBody(tx)  BY <1>3 DEF AfterToBytes
  <2>2. /\ Vouching(after, vouched, lastId) /\ ~after.frozen /\ after.source \in Body
        /\ after.source.id = after.id
    BY <1>1, <1>3, <2>1, SourceUpdateStays
  <2>3. list = <<[body |-> after.source, node |-> NoNode, sigs |-> Unsigned]>>
    BY <1>3 DEF Bytes
  <2> HIDE DEF after
  <2>4. list[1] = [body |-> after.source, node |-> NoNode, sigs |-> Unsigned]
    BY <2>3
  <2> HIDE DEF list
  <2>5. list[1].node = NoNode /\ list[1].body.id = after.id  BY <2>2, <2>4
  <2>6. list[1] \in SignedTransaction  BY <2>2, <2>4, Constants DEF SignedTransaction
  <2>7. \A x \in vouched : ~Present(after, x)  BY <2>2 DEF Present
  <2> QED  BY <1>2, <2>2, <2>5, <2>6, <2>7
<1>4. CASE tx.nodes # <<>>
  <2>1. /\ Whole(after) /\ Vouching(after, vouched, lastId) /\ after.source.id = after.id
        /\ after.signed # <<>> /\ DOMAIN after.built = DOMAIN after.signed
        /\ \A i \in DOMAIN after.signed : after.built[i] # NotBuilt
    BY <1>1, <1>4, SerialisedWhole
  <2>2. list = after.built  BY <1>4 DEF Bytes
  <2> HIDE DEF after, list
  <2>3. /\ after.signed \in Seq(SignedTransaction) /\ 1 \in DOMAIN after.signed
        /\ \A i \in DOMAIN after.signed : list[i] = after.signed[i]
    <3>1. after.signed \in Seq(SignedTransaction)
      <4>1. after \in TransactionType  BY <2>1 DEF Whole
      <4> QED  BY <4>1, Fields
    <3>2. 1 \in DOMAIN after.signed  BY <2>1, <3>1
    <3>3. \A i \in DOMAIN after.signed : list[i] = after.signed[i]
      BY <2>1, <2>2 DEF Whole, BuiltFromSigned
    <3> QED  BY <3>1, <3>2, <3>3
  <2>4. list[1] \in SignedTransaction /\ list[1].node \in Accounts
        /\ list[1].body.id = after.id
    BY <2>1, <2>3 DEF Whole, Uniform
  <2>5. CASE list[1].node \in {NoNode, Dummy}
    <3>1. after.signed[1].node = Dummy  BY <2>3, <2>4, <2>5, Constants
    <3>2. Len(after.signed) = 1  BY <2>1, <2>3, <3>1 DEF Whole, Uniform
    <3>3. \A i \in DOMAIN after.signed : after.signed[i].node = Dummy
      BY <2>3, <3>1, <3>2
    <3>4. \A x \in vouched : Present(after, x) => x[3] = Dummy
      BY <3>3 DEF Present
    <3> QED  BY <1>2, <2>1, <2>4, <2>5, <3>4
  <2>6. CASE list[1].node \notin {NoNode, Dummy}
    <3>1. tx' = FromSigned(after.built)  BY <1>1, <2>2, <2>6 DEF fromBytes
    <3>2. /\ Whole(tx') /\ tx'.id = after.source.id /\ tx'.signed = after.built
          /\ (tx'.frozen <=> tx'.externals # {})
          /\ \A i \in DOMAIN after.signed : \A k \in AllKeys :
               after.signed[i].sigs[k] > 0 => k \in tx'.externals
      BY <2>1, <3>1, FromSignedWhole
    <3>3. \A i \in DOMAIN after.signed : tx'.signed[i] = after.signed[i]
      BY <2>2, <2>3, <3>2
    <3>4. DOMAIN tx'.signed = DOMAIN after.signed  BY <2>1, <3>2
    <3>5. ASSUME NEW x \in vouched, x[2] = tx'.id, x[3] # Dummy
          PROVE  Present(tx', x)
      <4>1. Present(after, x)  BY <2>1, <3>2, <3>5 DEF Vouching
      <4>2. PICK i \in DOMAIN after.signed :
              after.signed[i].node = x[3] /\ after.signed[i].sigs[x[1]] > 0
        BY <4>1 DEF Present
      <4>3. x[1] \in AllKeys
        <5>1. x \in AllKeys \X Id \X Accounts  BY <2>1 DEF Vouching
        <5> QED  BY <5>1
      <4>4. x[1] \in tx'.externals /\ tx'.frozen  BY <3>2, <4>2, <4>3
      <4> QED  BY <3>3, <3>4, <4>2, <4>4 DEF Present
    <3>6. ASSUME NEW x \in CameWith(tx')
          PROVE  /\ Present(tx', x) /\ x[2] = tx'.id
                 /\ x \in AllKeys \X Id \X Accounts
      <4>1. PICK i \in DOMAIN tx'.signed, k \in AllKeys :
              /\ tx'.signed[i].sigs[k] > 0
              /\ x = <<k, tx'.signed[i].body.id, tx'.signed[i].node>>
        BY DEF CameWith
      <4>2. i \in DOMAIN after.signed /\ tx'.signed[i] = after.signed[i]
        BY <3>3, <3>4
      <4>3. tx'.signed[i].body.id = tx'.id /\ tx'.signed[i].node \in Accounts
        BY <2>1, <3>2, <4>2 DEF Whole, Uniform
      <4>4. k \in tx'.externals /\ tx'.frozen  BY <3>2, <4>1, <4>2
      <4>5. tx'.id \in Id
        <5>1. tx' \in TransactionType  BY <3>2 DEF Whole
        <5> QED  BY <5>1, Fields
      <4>6. x[1] = k /\ x[2] = tx'.id /\ x[3] = tx'.signed[i].node
        BY <4>1, <4>3
      <4>7. x \in AllKeys \X Id \X Accounts  BY <4>1, <4>3, <4>5
      <4>8. Present(tx', x)  BY <4>1, <4>4, <4>6 DEF Present
      <4> QED  BY <4>6, <4>7, <4>8
    <3>7. tx'.id = after.id  BY <2>1, <3>2
    <3>8. Vouching(tx', vouched', lastId')
      BY <1>1, <2>1, <3>5, <3>6, <3>7 DEF Vouching
    <3> QED  BY <1>1, <3>2, <3>8, NotExecutingStays
  <2> QED  BY <2>5, <2>6
<1> QED  BY <1>3, <1>4

\* A batched transaction goes to the dummy node, whatever was signed before.
LEMMA BatchedWhole ==
  ASSUME NEW t, Whole(t), NEW given, NEW last, Vouching(t, given, last),
         NEW u, u = [t EXCEPT !.batchKey = TRUE, !.nodes = <<Dummy>>]
  PROVE  Whole(u) /\ Vouching(u, given, last)
<1>1. t \in TransactionType  BY DEF Whole
<1>2. /\ u \in TransactionType /\ u.id = t.id /\ u.batchKey /\ u.nodes = <<Dummy>>
      /\ u.source = t.source /\ u.signed = t.signed /\ u.built = t.built
      /\ u.signers = t.signers /\ u.externals = t.externals /\ u.frozen = t.frozen
  BY <1>1, Constants DEF TransactionType
<1>3. Uniform(u)  BY <1>2 DEF Whole, Uniform
<1>4. Apart(u)
  <2>1. Separate(u.nodes)  BY <1>2, OneIsSeparate
  <2> QED  BY <1>2, <2>1 DEF Whole, Apart
<1>5. BuiltFromSigned(u)  BY <1>2 DEF Whole, BuiltFromSigned
<1>6. ByItsKeys(u)  BY <1>2 DEF Whole, ByItsKeys, Signatories
<1>7. Signing(u)  BY <1>2 DEF Whole, Signing
<1>8. Sourced(u)  BY <1>2 DEF Whole, Sourced
<1>9. Settled(u)  BY <1>2 DEF Whole, Settled, AsShown
<1>10. Vouching(u, given, last)  BY <1>2, VouchingStays
<1> QED  BY <1>2, <1>3, <1>4, <1>5, <1>6, <1>7, <1>8, <1>9, <1>10 DEF Whole

LEMMA BatchifyX ==
  ASSUME IInv, batchify
  PROVE  IInv'
<1> DEFINE t == [tx EXCEPT !.batchKey = TRUE, !.nodes = <<Dummy>>]
           First(u) == IF u.built = <<>> THEN u ELSE buildTransaction(u, {1})
           s == signInternal(Frozen(t), Operator)
<1>1. NotExecuting /\ vouched' = vouched /\ Whole(tx) /\ Vouching(tx, vouched, lastId)
  BY DEF IInv, batchify
<1>2. Whole(t) /\ Vouching(t, vouched, lastId)
  BY <1>1, BatchedWhole
<1>3. ASSUME NEW u, NEW last, Whole(u), Vouching(u, vouched, last)
      PROVE  Whole(First(u)) /\ Vouching(First(u), vouched, last)
  <2>1. CASE u.built = <<>>
    BY <1>3, <2>1
  <2>2. CASE u.built # <<>>
    <3>1. {1} \in SUBSET DOMAIN u.built
      <4>1. u \in TransactionType  BY <1>3 DEF Whole
      <4>2. u.built \in Seq(SignedTransaction \cup {NotBuilt})  BY <4>1, Fields
      <4> QED  BY <2>2, <4>2
    <3>2. Whole(buildTransaction(u, {1}))
          /\ Vouching(buildTransaction(u, {1}), vouched, last)
      BY <1>3, <3>1, BuildStays
    <3>3. First(u) = buildTransaction(u, {1})  BY <2>2
    <3> QED  BY <3>2, <3>3
  <2> QED  BY <2>1, <2>2
<1>4. \/ tx' = First(s) /\ GenerateIf(NeedsId(t))
      \/ tx' = First(t) /\ lastId' = lastId
  BY DEF batchify
<1> HIDE DEF t, First
<1>5. CASE tx' = First(s) /\ GenerateIf(NeedsId(t))
  <2>1. /\ Whole(Frozen(t)) /\ Frozen(t).frozen
        /\ Vouching(Frozen(t), vouched, lastId')
    BY <1>2, <1>5, FrozenWhole
  <2>2. Operator \in AllKeys  BY Constants
  <2>3. Whole(s) /\ Vouching(s, vouched, lastId')
    BY <2>1, <2>2, SignInternalStays
  <2> HIDE DEF s
  <2>4. Whole(First(s)) /\ Vouching(First(s), vouched, lastId')
    BY <1>3, <2>3
  <2> QED  BY <1>1, <1>5, <2>4, NotExecutingStays
<1>6. CASE tx' = First(t) /\ lastId' = lastId
  <2>1. Whole(First(t)) /\ Vouching(First(t), vouched, lastId)
    BY <1>2, <1>3
  <2> QED  BY <1>1, <1>6, <2>1, NotExecutingStays
<1> QED  BY <1>4, <1>5, <1>6

LEMMA UserX ==
  ASSUME IInv, User
  PROVE  IInv'
  BY SetTransactionIdX, SetNodeAccountIdsX, SetFieldX, SetBatchKeyX, SetPolicyX,
     FreezeX, SignX, SignWithOperatorX, AddSignatureX, RemoveSignatureX,
     RemoveAllSignaturesX, GetTransactionHashX, GetTransactionHashPerNodeX,
     ToBytesX, ScheduleX, ReloadX, BatchifyX DEF User

-----------------------------------------------------------------------------
(***************************************************************************)
(* execute().                                                              *)
(***************************************************************************)
\* What is being waited for: the entry of the transaction that the index
\* names, made of what the getters show, for the node of the index.
LEMMA RequestSigned ==
  ASSUME IInv, pc = "waiting"
  PROVE  /\ tx.index \in DOMAIN tx.signed /\ tx.index \in DOMAIN tx.nodes
         /\ request = tx.built[tx.index] /\ request = tx.signed[tx.index]
         /\ request.body = Shown(tx) /\ request.node = tx.nodes[tx.index]
         /\ request.body.id = tx.id /\ request.node # Dummy
         /\ \A k \in tx.signers : request.sigs[k] > 0
<1>1. /\ tx.nodes # <<Dummy>> /\ tx.index \in DOMAIN tx.nodes /\ tx.frozen
      /\ tx.built[tx.index] # NotBuilt /\ request = tx.built[tx.index]
      /\ Whole(tx) /\ tx \in TransactionType
  BY DEF IInv, Calling, Whole
<1>2. /\ tx.source = Shown(tx) /\ tx.index \in DOMAIN tx.signed
      /\ tx.nodes[tx.index] = tx.signed[tx.index].node
  BY <1>1 DEF Whole, Settled, AsShown
<1>3. request = tx.signed[tx.index] /\ \A k \in tx.signers : request.sigs[k] > 0
  BY <1>1, <1>2 DEF Whole, BuiltFromSigned
<1>4. request.body = Shown(tx)  BY <1>1, <1>2, <1>3 DEF Whole, Uniform
<1>5. request.body.id = tx.id  BY <1>4 DEF Shown
<1>6. tx.nodes[tx.index] # Dummy
  <2>1. tx.nodes \in Seq(Accounts)  BY <1>1, Fields
  <2>2. SUFFICES ASSUME tx.nodes[tx.index] = Dummy  PROVE FALSE  OBVIOUS
  <2>3. Len(tx.nodes) = 1  BY <1>1, <2>2 DEF Whole, Apart, Separate
  <2>4. tx.index = 1  BY <1>1, <2>1, <2>3
  <2>5. tx.nodes = <<Dummy>>  BY <2>1, <2>2, <2>3, <2>4
  <2> QED  BY <1>1, <2>5
<1> QED  BY <1>1, <1>2, <1>3, <1>4, <1>5, <1>6

LEMMA OnExecuteX ==
  ASSUME IInv, onExecute
  PROVE  IInv'
<1>1. /\ pc = "idle" /\ executions' = executions + 1 /\ executions \in Nat
      /\ tx' = signInternal(Frozen(tx), Operator) /\ GenerateIf(NeedsId(tx))
      /\ pc' = "attempt" /\ result' = NoResult
      /\ vouched' = vouched /\ ledger' = ledger /\ delayed' = delayed
      /\ Whole(tx) /\ Vouching(tx, vouched, lastId)
  BY DEF IInv, Calling, onExecute, ledgerVars
<1>2. /\ Whole(Frozen(tx)) /\ Frozen(tx).frozen /\ Vouching(Frozen(tx), vouched, lastId')
  BY <1>1, FrozenWhole
<1>3. Operator \in AllKeys  BY Constants
<1>4. Whole(tx') /\ Vouching(tx', vouched', lastId') /\ tx'.frozen
  BY <1>1, <1>2, <1>3, SignInternalStays
<1>5. Calling'
  <2>1. executions' \in Nat /\ executions' > 0  BY <1>1
  <2> QED  BY <1>1, <1>4, <2>1 DEF Calling
<1>6. FirstCall'
  <2>1. executions' # 0 /\ (executions' = 1 => executions = 0)  BY <1>1
  <2>2. executions' = 1 => ledger' = {} /\ delayed' = {}
    BY <1>1, <2>1 DEF IInv, FirstCall
  <2> QED  BY <2>1, <2>2 DEF FirstCall
<1>7. ResponseOfRequest'  BY <1>1 DEF ResponseOfRequest, NoResult, Responses
<1> QED  BY <1>4, <1>5, <1>6, <1>7 DEF IInv

\* The call ends without a response, and the transaction stays what it is.
LEMMA FailsX ==
  ASSUME IInv, pc # "idle", UNCHANGED <<tx, lastId, userVars>>,
         pc' = "idle", result'.kind \notin Responses
  PROVE  IInv'
<1>1. Calling' /\ executions > 0 /\ executions \in Nat
  BY DEF IInv, Calling, userVars
<1>2. FirstCall'  BY <1>1 DEF FirstCall, userVars
<1>3. ResponseOfRequest'  BY DEF ResponseOfRequest
<1>4. vouched' = vouched  BY DEF userVars
<1> QED  BY <1>1, <1>2, <1>3, <1>4 DEF IInv

LEMMA FailedResult ==
  ASSUME NEW kind, kind \notin Responses, End(kind)
  PROVE  pc' = "idle" /\ result'.kind \notin Responses
  BY DEF End, NoResult

LEMMA NoNodeFoundX ==
  ASSUME IInv, NoNodeFound
  PROVE  IInv'
<1>1. pc # "idle" /\ End("unknown node") /\ UNCHANGED <<tx, lastId, userVars>>
  BY DEF NoNodeFound
<1>2. "unknown node" \notin Responses  BY DEF Responses
<1> QED  BY <1>1, <1>2, FailedResult, FailsX

LEMMA OutOfAttemptsX ==
  ASSUME IInv, OutOfAttempts
  PROVE  IInv'
<1>1. pc # "idle" /\ End("max attempts") /\ UNCHANGED <<tx, lastId, userVars>>
  BY DEF OutOfAttempts
<1>2. "max attempts" \notin Responses  BY DEF Responses
<1> QED  BY <1>1, <1>2, FailedResult, FailsX

LEMMA MakeRequestX ==
  ASSUME IInv, makeRequest
  PROVE  IInv'
<1>1. PICK i \in DOMAIN tx.nodes :
        /\ tx' = [buildTransaction(tx, {i}) EXCEPT !.index = i]
        /\ request' = tx'.built[i]
  BY DEF makeRequest
<1>2. /\ pc = "attempt" /\ tx.nodes # <<Dummy>> /\ pc' = "waiting"
      /\ UNCHANGED <<lastId, userVars, result, lost, ledgerVars>>
      /\ Whole(tx) /\ Vouching(tx, vouched, lastId) /\ tx \in TransactionType
      /\ tx.frozen /\ executions \in Nat /\ executions > 0
  BY DEF IInv, Calling, Whole, makeRequest
<1>3. i \in DOMAIN tx.signed /\ {i} \in SUBSET DOMAIN tx.built
  BY <1>2 DEF Whole, Settled, AsShown
<1> DEFINE b == buildTransaction(tx, {i})
<1>4. Whole(b) /\ Vouching(b, vouched, lastId)  BY <1>2, <1>3, BuildStays
<1>5. b.built[i] # NotBuilt
  <2> DEFINE I == {i}
  <2>1. b = buildTransaction(tx, I) /\ I \in SUBSET DOMAIN tx.built /\ i \in I  BY <1>3
  <2> HIDE DEF I, b
  <2>2. \A j \in I : j \in DOMAIN tx.signed => b.built[j] # NotBuilt
    BY <1>2, <2>1, BuildWhole
  <2> QED  BY <1>3, <2>1, <2>2
<1>6. BuiltFromSigned(tx)  BY <1>2 DEF Whole
<1>7. b.id = tx.id /\ b.manual = tx.manual /\ b.policy = tx.policy
      /\ b.nodes = tx.nodes /\ b.frozen = tx.frozen
  <2> DEFINE I == {i}
  <2>1. b = buildTransaction(tx, I) /\ I \in SUBSET DOMAIN tx.built  BY <1>3
  <2> HIDE DEF I, b
  <2>2. b.id = tx.id /\ b.manual = tx.manual  BY <1>2, <1>6, <2>1, BuildFields
  <2>3. b.policy = tx.policy /\ b.nodes = tx.nodes  BY <1>2, <1>6, <2>1, BuildFields
  <2>4. b.frozen = tx.frozen  BY <1>2, <1>6, <2>1, BuildFields
  <2> QED  BY <2>2, <2>3, <2>4
<1>8. tx' = [b EXCEPT !.index = i]  BY <1>1
<1>9. i \in Nat \ {0}
  <2>1. tx.nodes \in Seq(Accounts)  BY <1>2, Fields
  <2> QED  BY <2>1
<1> HIDE DEF b
<1>10. /\ tx' \in TransactionType /\ tx'.index = i
       /\ tx'.id = b.id /\ tx'.manual = b.manual /\ tx'.policy = b.policy
       /\ tx'.content = b.content /\ tx'.batchKey = b.batchKey /\ tx'.nodes = b.nodes
       /\ tx'.signers = b.signers /\ tx'.externals = b.externals
       /\ tx'.frozen = b.frozen /\ tx'.source = b.source
       /\ tx'.signed = b.signed /\ tx'.built = b.built
  BY <1>4, <1>8, <1>9 DEF Whole, TransactionType
<1>11. Whole(tx')
  <2>1. Shown(tx') = Shown(b)  BY <1>10 DEF Shown
  <2>2. Uniform(tx') /\ Apart(tx') /\ BuiltFromSigned(tx')
    BY <1>4, <1>10 DEF Whole, Uniform, Apart, BuiltFromSigned
  <2>3. ByItsKeys(tx') /\ Signing(tx') /\ Sourced(tx')
    BY <1>4, <1>10 DEF Whole, ByItsKeys, Signatories, Signing, Sourced
  <2>4. Settled(tx')  BY <1>4, <1>10, <2>1 DEF Whole, Settled, AsShown
  <2> QED  BY <1>10, <2>2, <2>3, <2>4 DEF Whole
<1>12. Vouching(tx', vouched', lastId')
  <2>1. Vouching(tx', vouched, lastId)  BY <1>4, <1>10, VouchingStays
  <2> QED  BY <1>2, <2>1 DEF userVars
<1>13. Calling'
  BY <1>1, <1>2, <1>5, <1>7, <1>10 DEF Calling, userVars
<1>14. FirstCall'
  <2>1. Keeps(tx') = Keeps(tx) /\ tx'.id = tx.id  BY <1>7, <1>10 DEF Keeps
  <2> QED  BY <1>2, <2>1 DEF IInv, FirstCall, userVars, ledgerVars
<1>15. ResponseOfRequest'  BY <1>2 DEF IInv, ResponseOfRequest, ledgerVars
<1> QED  BY <1>11, <1>12, <1>13, <1>14, <1>15 DEF IInv

\* The judgement decides what the ledger takes.
LEMMA Received ==
  ASSUME NEW r, Receive(r)
  PROVE  /\ ledger \subseteq ledger' /\ ledger' \subseteq ledger \cup {r}
         /\ Judgement(r) = "OK" => r \in ledger'
         /\ Judgement(r) # "OK" => ledger' = ledger
  BY DEF Receive

\* The index of the request is the index of its node.
LEMMA IndexOfNode ==
  ASSUME NEW i \in Nat \ {0}, NEW n \in Nat, i <= n
  PROVE  ((i - 1) % n) + 1 = i
  OBVIOUS

\* The call ends with the response to what was sent, whoever gave it.
LEMMA SucceedsX ==
  ASSUME IInv, pc = "waiting", NEW kind \in Responses, End(kind),
         kind = "success" => request \in ledger', UNCHANGED <<tx, lastId, userVars>>
  PROVE  IInv'
<1>1. /\ tx.index \in DOMAIN tx.nodes /\ request = tx.built[tx.index]
      /\ request.node = tx.nodes[tx.index] /\ request.body.id = tx.id
  BY RequestSigned
<1>2. ((tx.index - 1) % Len(tx.nodes)) + 1 = tx.index
  <2>1. tx.nodes \in Seq(Accounts)
    <3>1. tx \in TransactionType  BY DEF IInv, Whole
    <3> QED  BY <3>1, Fields
  <2>2. tx.index \in Nat \ {0} /\ Len(tx.nodes) \in Nat /\ tx.index <= Len(tx.nodes)
    BY <1>1, <2>1
  <2> QED  BY <2>2, IndexOfNode
<1>3. pc' = "idle"
      /\ result' = [kind |-> kind, id |-> tx.id, node |-> tx.nodes[tx.index],
                    sent |-> tx.built[tx.index], request |-> request]
  BY <1>2 DEF End
<1>5. ResponseOfRequest'  BY <1>1, <1>3 DEF ResponseOfRequest
<1>6. Calling' /\ executions > 0 /\ executions \in Nat
  BY <1>3 DEF IInv, Calling, userVars
<1>7. FirstCall'  BY <1>3, <1>6 DEF FirstCall, userVars
<1>8. vouched' = vouched  BY DEF userVars
<1> QED  BY <1>5, <1>6, <1>7, <1>8 DEF IInv

\* A new ID for an expired one: only if it may be replaced.
LEMMA RegeneratesX ==
  ASSUME IInv, pc = "waiting", NEW policy \in Policies, ShouldRegenerate(policy),
         Regenerated, UNCHANGED <<userVars, lost, ledgerVars>>
  PROVE  IInv'
<1> DEFINE a == [tx EXCEPT !.id = lastId + 1]
<1>1. /\ Whole(tx) /\ Vouching(tx, vouched, lastId) /\ tx \in TransactionType
      /\ tx.frozen /\ lastId \in Nat /\ executions \in Nat /\ executions > 0
  BY DEF IInv, Whole, Calling, Vouching
<1>2. /\ tx' = regenerateSignedTransactions(a) /\ Generate
      /\ pc' = "attempt" /\ result' = result
  BY DEF Regenerated, Again
<1>3. lastId' = lastId + 1 /\ lastId' \in Id /\ lastId' # NoId
  BY <1>1, <1>2, GenerateGivesId
<1>4. /\ a \in TransactionType /\ a.id = lastId + 1 /\ a.manual = tx.manual
      /\ a.policy = tx.policy /\ a.batchKey = tx.batchKey /\ a.nodes = tx.nodes
      /\ a.source = tx.source /\ a.signed = tx.signed /\ a.frozen = tx.frozen
      /\ a.signers = tx.signers /\ a.externals = tx.externals
  BY <1>1, <1>3 DEF TransactionType
<1> HIDE DEF a
<1>5. a.nodes # <<>>  BY <1>1, <1>4 DEF Whole, Sourced
<1>6. Sourced(a) /\ Signing(a) /\ Separate(a.nodes)
  BY <1>1, <1>3, <1>4, <1>5 DEF Whole, Sourced, Signing, Apart
<1>7. Whole(tx')  BY <1>2, <1>4, <1>5, <1>6, RegeneratedWhole
<1>8. tx'.id = a.id /\ tx'.manual = a.manual /\ tx'.policy = a.policy
      /\ tx'.frozen = a.frozen
  BY <1>2, <1>4, <1>6, Regenerated_
<1>9. Vouching(tx', vouched', lastId')
  <2>1. tx'.id = lastId + 1  BY <1>4, <1>8
  <2>2. Vouching(tx', vouched, lastId + 1)  BY <1>1, <2>1, VouchingFresh
  <2> QED  BY <1>3, <2>2 DEF userVars
<1>10. Calling'  BY <1>1, <1>2, <1>4, <1>8 DEF Calling, userVars
<1>11. ~Keeps(tx')
  BY <1>4, <1>8 DEF ShouldRegenerate, Keeps
<1>12. FirstCall'
  BY <1>1, <1>11 DEF IInv, FirstCall, userVars, ledgerVars
<1>13. ResponseOfRequest'  BY <1>2 DEF IInv, ResponseOfRequest, ledgerVars
<1> QED  BY <1>7, <1>9, <1>10, <1>12, <1>13 DEF IInv

\* Another attempt: what was sent may be executed, or still be under way, if
\* its answer is lost.
LEMMA AgainX ==
  ASSUME IInv, pc = "waiting", Again, UNCHANGED <<tx, lastId, userVars>>,
         ledger \subseteq ledger', ledger' \cup delayed' \subseteq ledger \cup delayed \cup {request},
         lost' \/ (lost' = lost /\ UNCHANGED <<ledger, delayed>>)
  PROVE  IInv'
<1>1. /\ Whole(tx) /\ Vouching(tx, vouched, lastId)
      /\ tx.frozen /\ executions \in Nat /\ executions > 0
  BY DEF IInv, Calling
<1>2. pc' = "attempt" /\ result' = result  BY DEF Again
<1>3. Calling'  BY <1>1, <1>2 DEF Calling, userVars
<1>4. FirstCall'
  <2>1. request.body.id = tx.id  BY RequestSigned
  <2>2. ASSUME executions = 1, Keeps(tx), NEW r \in ledger' \cup delayed'
        PROVE  r.body.id = tx.id
    <3>1. r \in ledger \cup delayed \/ r = request  BY <2>2
    <3>2. CASE r \in ledger \cup delayed
      BY <2>2, <3>2 DEF IInv, FirstCall
    <3>3. CASE r = request
      BY <2>1, <3>3
    <3> QED  BY <3>1, <3>2, <3>3
  <2>3. executions = 1 /\ ~lost' => ledger' = {} /\ delayed' = {}
    BY DEF IInv, FirstCall
  <2> QED  BY <1>1, <2>2, <2>3 DEF FirstCall, userVars
<1>5. ResponseOfRequest'
  BY <1>2 DEF IInv, ResponseOfRequest
<1>6. vouched' = vouched  BY DEF userVars
<1> QED  BY <1>1, <1>3, <1>4, <1>5, <1>6 DEF IInv

LEMMA AnsweredX ==
  ASSUME IInv, Answered
  PROVE  IInv'
<1>1. /\ pc = "waiting" /\ Receive(request) /\ Answer(Judgement(request))
      /\ UNCHANGED <<userVars, lost, expired, delayed>>
  BY DEF Answered
<1> DEFINE status == Judgement(request)
<1>2. CASE status = "OK" /\ End("success") /\ UNCHANGED <<tx, lastId>>
  <2>1. request \in ledger'  BY <1>1, <1>2, Received
  <2>2. "success" \in Responses  BY DEF Responses
  <2> QED  BY <1>1, <1>2, <2>1, <2>2, SucceedsX
<1>3. CASE /\ status = "TRANSACTION_EXPIRED"
           /\ \E policy \in Policies : ShouldRegenerate(policy) /\ Regenerated
  <2>1. ledger' = ledger  BY <1>1, <1>3, Received
  <2>2. PICK policy \in Policies : ShouldRegenerate(policy) /\ Regenerated  BY <1>3
  <2>3. UNCHANGED <<userVars, lost, ledgerVars>>  BY <1>1, <2>1 DEF ledgerVars
  <2> QED  BY <1>1, <2>2, <2>3, RegeneratesX
<1>4. CASE /\ status # "OK"
           /\ End(status) /\ UNCHANGED <<tx, lastId>>
  <2>1. status \notin Responses  BY DEF Judgement, Responses
  <2> HIDE DEF status
  <2>2. pc' = "idle" /\ result'.kind \notin Responses  BY <1>4, <2>1, FailedResult
  <2> QED  BY <1>1, <1>4, <2>2, FailsX
<1>5. \/ status = "OK" /\ End("success") /\ UNCHANGED <<tx, lastId>>
      \/ /\ status = "TRANSACTION_EXPIRED"
         /\ \E policy \in Policies : ShouldRegenerate(policy) /\ Regenerated
      \/ status # "OK" /\ End(status) /\ UNCHANGED <<tx, lastId>>
  <2> HIDE DEF status
  <2>1. Answer(status)  BY <1>1 DEF status
  <2> QED  BY <2>1 DEF Answer
<1> QED  BY <1>2, <1>3, <1>4, <1>5

LEMMA BusyX ==
  ASSUME IInv, Busy
  PROVE  IInv'
<1>1. /\ pc = "waiting" /\ Again /\ UNCHANGED <<tx, lastId, userVars>>
      /\ lost' = lost /\ UNCHANGED <<ledger, delayed>>
  BY DEF Busy, ledgerVars
<1> QED  BY <1>1, AgainX

\* The RPC fails, and another attempt is made or nobody's response is returned.
LEMMA FailedX ==
  ASSUME IInv, AnswerLost \/ Unanswered
  PROVE  IInv'
<1>1. /\ pc = "waiting" /\ lost' /\ UNCHANGED <<tx, lastId, userVars>>
      /\ \/ UNCHANGED <<ledger, delayed>>
         \/ Receive(request) /\ UNCHANGED delayed
         \/ delayed' = delayed \cup {request} /\ UNCHANGED ledger
  BY DEF AnswerLost, Unanswered, Fails
<1>2. ledger \subseteq ledger' /\ ledger' \cup delayed' \subseteq ledger \cup delayed \cup {request}
  BY <1>1, Received
<1>3. lost' \/ (lost' = lost /\ UNCHANGED <<ledger, delayed>>)
  <2>1. lost'  BY <1>1
  <2> QED  BY <2>1
<1>4. pc = "waiting" /\ UNCHANGED <<tx, lastId, userVars>>  BY <1>1
<1>5. CASE Again
  BY <1>2, <1>3, <1>4, <1>5, AgainX
<1>6. CASE End("unanswered")
  <2>1. "unanswered" \in Responses /\ "unanswered" # "success"  BY DEF Responses
  <2> QED  BY <1>4, <1>6, <2>1, SucceedsX
<1> QED  BY <1>5, <1>6 DEF AnswerLost, Unanswered

LEMMA ArrivesLateX ==
  ASSUME IInv, ArrivesLate
  PROVE  IInv'
<1>1. PICK r \in delayed : Receive(r) /\ delayed' = delayed \ {r}
  BY DEF ArrivesLate
<1>2. UNCHANGED <<tx, lastId, userVars, callVars>>  BY DEF ArrivesLate
<1>3. ledger \subseteq ledger' /\ ledger' \subseteq ledger \cup {r}  BY <1>1, Received
<1>4. Whole(tx') /\ Vouching(tx', vouched', lastId')
  BY <1>2 DEF IInv, userVars
<1>5. Calling'  BY <1>2 DEF IInv, Calling, userVars, callVars
<1>6. FirstCall'
  <2>1. executions # 0  BY <1>1 DEF IInv, FirstCall
  <2>2. pc # "idle" /\ executions = 1 => lost  BY <1>1 DEF IInv, FirstCall
  <2>3. ledger' \cup delayed' \subseteq ledger \cup delayed  BY <1>1, <1>3
  <2> QED  BY <1>2, <2>1, <2>2, <2>3 DEF IInv, FirstCall, userVars, callVars
<1>7. ResponseOfRequest'  BY <1>2, <1>3 DEF IInv, ResponseOfRequest, callVars
<1> QED  BY <1>4, <1>5, <1>6, <1>7 DEF IInv

\* A step that leaves all that the invariant speaks of.
LEMMA QuietX ==
  ASSUME IInv, UNCHANGED <<tx, lastId, userVars, callVars, ledger, delayed>>
  PROVE  IInv'
<1>1. Calling'  BY DEF IInv, Calling, userVars, callVars
<1>2. FirstCall'  BY DEF IInv, FirstCall, userVars, callVars
<1>3. ResponseOfRequest'  BY DEF IInv, ResponseOfRequest, callVars
<1>4. Whole(tx') /\ Vouching(tx', vouched', lastId')  BY DEF IInv, userVars
<1> QED  BY <1>1, <1>2, <1>3, <1>4 DEF IInv

-----------------------------------------------------------------------------
(***************************************************************************)
(* The theorems.                                                           *)
(***************************************************************************)
LEMMA InitIInv ==
  ASSUME Init
  PROVE  IInv
<1>1. NewTransaction \in TransactionType  BY NewIsTyped
<1>2. Whole(NewTransaction)
  <2>1. /\ NewTransaction.nodes = <<>> /\ NewTransaction.signed = <<>>
        /\ NewTransaction.signers = {} /\ NewTransaction.externals = {}
        /\ ~NewTransaction.frozen /\ NewTransaction.built = <<>>
        /\ NewTransaction.id = NoId /\ NewTransaction.source = NoBody
    BY DEF NewTransaction
  <2>2. NoBody.id = NoId /\ ~NoBody.batch  BY DEF NoBody
  <2>3. \A i \in DOMAIN NewTransaction.built : NewTransaction.built[i] # NotBuilt
    BY <2>1
  <2> QED  BY <1>1, <2>1, <2>2, <2>3, NodelessIsWhole
<1>3. Vouching(tx, vouched, lastId)
  BY Constants DEF Init, Vouching, NewTransaction, NoId
<1>4. Calling /\ FirstCall  BY DEF Init, Calling, FirstCall
<1>5. ResponseOfRequest  BY DEF Init, ResponseOfRequest, NoResult, Responses
<1> QED  BY <1>2, <1>3, <1>4, <1>5 DEF Init, IInv

LEMMA NextIInv ==
  ASSUME IInv, [Next]_vars
  PROVE  IInv'
<1>1. CASE User  BY <1>1, UserX
<1>2. CASE onExecute  BY <1>2, OnExecuteX
<1>3. CASE NoNodeFound  BY <1>3, NoNodeFoundX
<1>4. CASE OutOfAttempts  BY <1>4, OutOfAttemptsX
<1>5. CASE makeRequest  BY <1>5, MakeRequestX
<1>6. CASE Answered  BY <1>6, AnsweredX
<1>7. CASE Busy  BY <1>7, BusyX
<1>8. CASE AnswerLost \/ Unanswered  BY <1>8, FailedX
<1>9. CASE ArrivesLate  BY <1>9, ArrivesLateX
<1>10. CASE Expire  BY <1>10, QuietX DEF Expire
<1>11. CASE Rest \/ UNCHANGED vars
  BY <1>11, QuietX DEF Rest, vars, ledgerVars
<1> QED  BY <1>1, <1>2, <1>3, <1>4, <1>5, <1>6, <1>7, <1>8, <1>9, <1>10, <1>11 DEF Next

\* Everything the theorems rest on holds always.
THEOREM Inductive == Spec => []IInv
<1>1. Init => IInv  BY InitIInv
<1>2. IInv /\ [Next]_vars => IInv'  BY NextIInv
<1> QED  BY <1>1, <1>2, PTL DEF Spec

\* What the getters of the transaction show is what every attempt sends, for
\* any keys, nodes and number of attempts (buildTransaction,
\* updateSourceTransactionBody).
THEOREM ShownIsSent == Spec => []SentAsShown
<1>1. IInv => SentAsShown
  <2>1. ASSUME IInv, pc = "waiting"  PROVE request.body = Shown(tx)
    BY <2>1, RequestSigned
  <2> QED  BY <2>1 DEF SentAsShown, Shown
<1> QED  BY <1>1, Inductive, PTL

\* The request that is waited for is a signed transaction, which Whole is about
\* (signInternal, removeSignature).
LEMMA SentSigned ==
  ASSUME IInv
  PROVE  SignersSigned /\ OnlySignatories
<1>1. ASSUME pc = "waiting", NEW k \in AllKeys, request.sigs[k] > 0
      PROVE  k \in Signatories(tx)
  <2>1. tx.index \in DOMAIN tx.signed /\ request = tx.signed[tx.index]
    BY <1>1, RequestSigned
  <2> QED  BY <1>1, <2>1 DEF IInv, Whole, ByItsKeys
<1>2. SignersSigned  BY RequestSigned DEF SignersSigned
<1> QED  BY <1>1, <1>2 DEF OnlySignatories

\* Every request carries the signature of every signer and none of anybody who
\* is not a signatory, for any keys, nodes, edits, removals and regenerations.
THEOREM SignersAndNoOthers == Spec => [](SignersSigned /\ OnlySignatories)
<1>1. IInv => SignersSigned /\ OnlySignatories  BY SentSigned
<1> QED  BY <1>1, Inductive, PTL

\* With different accounts picked, a signature from outside also goes with
\* every request that it was made for (addSignature, fromBytes).
THEOREM SignatoriesSigned ==
  ASSUME DistinctNodes
  PROVE  Spec => []SignedBySignatories
<1>1. ASSUME IInv  PROVE ExternalsKept
  <2> SUFFICES ASSUME pc = "waiting", NEW k \in tx.externals,
                      <<k, request.body.id, request.node>> \in vouched
               PROVE  request.sigs[k] > 0
    BY DEF ExternalsKept
  <2> DEFINE x == <<k, request.body.id, request.node>>
  <2>1. /\ tx.index \in DOMAIN tx.signed /\ request = tx.signed[tx.index]
        /\ request.body.id = tx.id /\ request.node # Dummy
    BY <1>1, RequestSigned
  <2>2. x \in vouched /\ x[1] = k /\ x[2] = tx.id /\ x[3] = request.node
    BY <2>1
  <2> HIDE DEF x
  <2>3. Present(tx, x)  BY <1>1, <2>1, <2>2 DEF IInv, Vouching
  <2>4. PICK i \in DOMAIN tx.signed :
          tx.signed[i].node = request.node /\ tx.signed[i].sigs[k] > 0
    BY <2>2, <2>3 DEF Present
  <2>5. i = tx.index  BY <1>1, <2>1, <2>4 DEF IInv, Whole, Apart
  <2> QED  BY <2>1, <2>4, <2>5
<1>2. IInv => SignedBySignatories  BY <1>1, SentSigned DEF SignedBySignatories
<1> QED  BY <1>2, Inductive, PTL

\* A response has the hash, the ID and the node of the request submitted last; if a
\* node answered it, the ledger executed that request (Transaction::mapResponse,
\* and Executable.cc:229 for the responses nobody gave).
THEOREM ResponseAnswers == Spec => []ResponseOfRequest
<1>1. IInv => ResponseOfRequest  BY DEF IInv
<1> QED  BY <1>1, Inductive, PTL

\* One call executes a transaction under two IDs only if an answer was lost
\* and the ID may be replaced, for any number of attempts, of nodes and of
\* requests that arrive late (ShouldRegenerate).
THEOREM NeverTwiceUnlessLost == Spec => []TwiceOnlyIfLost
<1>1. ASSUME IInv  PROVE TwiceOnlyIfLost
  <2> DEFINE sent == {r.body.id : r \in ledger}
  <2> SUFFICES ASSUME pc # "idle", executions = 1, Cardinality(sent) > 1
               PROVE  lost /\ ~Keeps(tx)
    BY DEF TwiceOnlyIfLost, Keeps
  <2>1. CASE ~lost
    <3>1. ledger = {}  BY <1>1, <2>1 DEF IInv, FirstCall
    <3>2. sent = {}  BY <3>1
    <3> QED  BY <3>2, FS_EmptySet
  <2>2. CASE Keeps(tx)
    <3>1. \A r \in ledger : r.body.id = tx.id  BY <1>1, <2>2 DEF IInv, FirstCall
    <3>2. sent \subseteq {tx.id}  BY <3>1
    <3>3. IsFiniteSet({tx.id}) /\ Cardinality({tx.id}) = 1  BY FS_Singleton
    <3> HIDE DEF sent
    <3>4. Cardinality(sent) <= 1 /\ Cardinality(sent) \in Nat
      BY <3>2, <3>3, FS_Subset, FS_CardinalityType
    <3> QED  BY <3>4
  <2> QED  BY <2>1, <2>2
<1>2. IInv => TwiceOnlyIfLost  BY <1>1
<1> QED  BY <1>2, Inductive, PTL

=============================================================================
