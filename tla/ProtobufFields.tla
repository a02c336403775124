------------------------------ MODULE ProtobufFields ------------------------------
(***************************************************************************)
(* How the members of an SDK object travel in a protobuf message.  A value *)
(* is reduced to what the conversions tell apart, and a member to the two  *)
(* conditions its conversions test: when toProtobuf (or build) leaves its  *)
(* field out, and when fromProtobuf (or initFromSourceTransactionBody)     *)
(* leaves the member as the constructor made it.                           *)
(***************************************************************************)
EXTENDS Naturals, FiniteSets, TLC

(* What a member holds: nothing (an empty optional or pointer), the empty  *)
(* value of its type (0, "", false, an ID of zeros, an empty list), the    *)
(* nonzero value its constructor gives it, a value, the first chunk of a   *)
(* value, or an entity ID whose checksum belongs to another ledger.        *)
Values == {"absent", "zero", "preset", "value", "part", "bad"}

(* What a field holds on the wire.  An entity ID travels without its       *)
(* checksum; "twice" is a list whose elements were appended a second time. *)
Wire == {"none", "zero", "preset", "value", "part", "twice"}

OnWire(v) == IF v = "bad" THEN "value" ELSE v

-----------------------------------------------------------------------------

(* The rules, each for a set of members.  A proto3 scalar or list that is  *)
(* zero is not on the wire and reads as zero; a message, a wrapper and a   *)
(* member of a oneof have presence.                                        *)
Rule(F, unsent, unread) ==
  [f \in F |-> [unsent |-> unsent, unread |-> unread, required |-> FALSE,
                appended |-> FALSE, payer |-> FALSE, chunks |-> "one"]]

\* if (m.has_value()) set ... if (has) read
Optional(F) == Rule(F, {"absent"}, {"none"})

\* A scalar or a list: set always, or unless it is empty, and read always.
Plain(F) == Rule(F, {"zero"}, {})

\* A message: set always, read if it is there.
Message(F) == Rule(F, {}, {"none"})

\* if (!(m == T())) set ... if (has) read
Nonzero(F) == Rule(F, {"zero"}, {"none"})

\* An optional whose field is a scalar: its absence reads as zero.
OptionalScalar(F) == Rule(F, {"absent", "zero"}, {})

\* Written and never read back, or read and never written.
Unread(F)    == Rule(F, {"absent", "zero"}, Wire)
Unwritten(F) == Rule(F, Values, {})

\* A scalar that is set if there is a value, and read if it is not zero or empty.
Positive(F) == Rule(F, {"absent", "zero"}, {"none"})

\* Never written, read if it is there.
Dropped(F) == Rule(F, Values, {"none"})

\* build throws while the member is not set.
Required(F) == [f \in F |-> [Plain(F)[f] EXCEPT !.required = TRUE]]

\* toProtobuf dereferences the pointer, set or not.
Dereferenced(F) == [f \in F |-> [Message(F)[f] EXCEPT !.required = TRUE]]

\* Added to the source body, which is kept from one build to the next.
Appended(F) == [f \in F |-> [Plain(F)[f] EXCEPT !.appended = TRUE]]

\* Left out of a body with a transaction ID, it is the payer of the ID.
PayerUnlessSet(F) == [f \in F |-> [Optional(F)[f] EXCEPT !.payer = TRUE]]

\* Spread over chunks: read of the signed transactions only, and joined again;
\* or read of the first body.
Chunks(F)     == [f \in F |-> [Plain(F)[f] EXCEPT !.chunks = "joined"]]
FirstChunk(F) == [f \in F |-> [Plain(F)[f] EXCEPT !.chunks = "first"]]

(* How a message reaches fromProtobuf: as a body alone, or in the signed   *)
(* transactions of one chunk or of several.                                *)
Ways == {"body", "chunk", "chunks"}

-----------------------------------------------------------------------------

(* The rules of a, and those of b for other members: the @@ of TLC, which  *)
(* the provers do not know.                                                *)
a ++ b == [f \in DOMAIN a \cup DOMAIN b |-> IF f \in DOMAIN a THEN a[f] ELSE b[f]]

(* The members of a class, and its message: the rules, the oneofs, and the *)
(* fields fromProtobuf throws without one of.                              *)
Holding(absent, zero, preset) == [absent |-> absent, zero |-> zero, preset |-> preset, ids |-> {}]

OneOf(rules, oneofs, variants) ==
  [rules |-> rules, oneofs |-> oneofs, checked |-> {}, variants |-> variants]
Carrying(rules, oneofs) == OneOf(rules, oneofs, {})

(* Of a derived class: its own after those of its base.                    *)
Inheriting(base, own) ==
  [n \in DOMAIN base |-> base[n] \cup own[n]]
Extending(base, rules) == [base EXCEPT !.rules = @ ++ rules]

(* A setter gives some members a value and resets others. *)
Setter(assigned, cleared) == [assigns |-> assigned, clears |-> cleared]
Each(F)         == {Setter({f}, {}) : f \in F}
Exclusive(a, b) == {Setter({a}, {b}), Setter({b}, {a})}

MembersOf(m) == m.absent \cup m.zero \cup m.preset

Initially(m) ==
  [f \in MembersOf(m) |-> IF f \in m.absent THEN "absent" ELSE IF f \in m.zero THEN "zero" ELSE "preset"]

(* What a setter may leave in member f when it is called with v: only an   *)
(* entity ID has a checksum.                                               *)
Given(m, f, v) == IF v = "bad" /\ f \notin m.ids THEN "value" ELSE v

Assigned(m, fields, s, v) ==
  [f \in DOMAIN fields |->
     IF f \in s.assigns THEN Given(m, f, v)
     ELSE IF f \in s.clears THEN IF f \in m.absent THEN "absent" ELSE "zero"
     ELSE fields[f]]

-----------------------------------------------------------------------------

(* The message that toProtobuf makes of the members.  In a oneof, a pair   *)
(* <<kept, lost>>, the protobuf object keeps one field of the two.         *)
Written(b, fields) ==
  [f \in DOMAIN b.rules |->
     IF \/ fields[f] \in b.rules[f].unsent
        \/ \E k \in DOMAIN fields : <<k, f>> \in b.oneofs /\ fields[k] \notin b.rules[k].unsent
       THEN "none" ELSE OnWire(fields[f])]

(* The message when it is built into a body that has been built before.    *)
WrittenInto(b, fields, source) ==
  LET w == Written(b, fields)
  IN  [f \in DOMAIN w |->
         IF b.rules[f].appended /\ source[f] # "none"
           THEN IF w[f] = "none" THEN source[f] ELSE "twice"
           ELSE w[f]]

(* The payer of the transaction ID where nothing else was set. *)
WithPayer(b, w) == [f \in DOMAIN w |-> IF b.rules[f].payer /\ w[f] = "none" THEN "value" ELSE w[f]]

CanBeWritten(b, fields) == \A f \in DOMAIN b.rules : b.rules[f].required => fields[f] # "absent"

(* The members fromProtobuf makes of a message that reached it this way. *)
ReadBack(m, b, wire, way) ==
  [f \in DOMAIN b.rules |->
     IF wire[f] \in b.rules[f].unread THEN Initially(m)[f]
     ELSE IF wire[f] = "none" \/ (b.rules[f].chunks = "joined" /\ way = "body") THEN "zero"
     ELSE IF wire[f] = "value" /\ b.rules[f].chunks = "first" /\ way = "chunks" THEN "part"
     ELSE wire[f]]

Blank(b) == [f \in DOMAIN b.rules |-> "none"]
=============================================================================
