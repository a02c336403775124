------------------------------ MODULE MCNetwork ------------------------------
(***************************************************************************)
(* Small instances of Network.                                             *)
(***************************************************************************)
EXTENDS Network, TLC

CONSTANTS n1, n2, a1, a2, t1, t2

Book(names, ports) ==
  [names |-> names, ports |-> [n \in DOMAIN names |-> ports]]

\* Address books: the nodes swapped; one node moved, by a book without the
\* other; each with both endpoints or with the plain one only, and one book with
\* no endpoint at either port.
Swapped == (n1 :> a2) @@ (n2 :> a1)
Moved   == (n1 :> a2)
Books ==
  {Book(names, ports) : names \in {Swapped, Moved},
                        ports \in {{"plain"}, {"plain", "tls"}}}
    \cup {Book(Moved, {})}
NoBooks == {}

=============================================================================
