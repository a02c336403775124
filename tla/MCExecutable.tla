---------------------------- MODULE MCExecutable ----------------------------
(***************************************************************************)
(* Small instances of Executable.                                          *)
(***************************************************************************)
EXTENDS Executable, TLC

CONSTANTS c1, c2, n1, n2, n3, a1, a2, a3

\* Each node under its own account; or two proxies of one account.
OwnAccounts2 == {(n1 :> a1) @@ (n2 :> a2)}
OwnAccounts3 == {(n1 :> a1) @@ (n2 :> a2) @@ (n3 :> a3)}
SharedOrOwn2 == OwnAccounts2 \cup {[n \in {n1, n2} |-> a1]}
SharedOrOwn3 == OwnAccounts3 \cup {(n1 :> a1) @@ (n2 :> a1) @@ (n3 :> a3)}

\* One call over two accounts, over three, and two calls that share one.
IdsTwo   == (c1 :> <<a1, a2>>)
IdsThree == (c1 :> <<a1, a2, a3>>)
IdsShort == (c1 :> <<a1, a2>>) @@ (c2 :> <<a1>>)

\* Address books: nothing new; n2 moved to a3; n1 and n2 swapped; n1 alone
\* moved to a3 by a book that does not list n2; nothing left under a1 and a2;
\* n2 in the place of n1.
BookSame    == (n1 :> a1) @@ (n2 :> a2)
BookMoved   == (n1 :> a1) @@ (n2 :> a3)
BookSwapped == (n1 :> a2) @@ (n2 :> a1)
BookPartial == (n1 :> a3)
BookGone    == (n1 :> a3) @@ (n2 :> a3)
BookShifted == (n1 :> a3) @@ (n2 :> a1)

NoBook   == {<<>>}
Books    == {BookSame, BookMoved, BookSwapped, BookPartial, BookGone}
FewBooks == {BookShifted}

=============================================================================
