---------------------------- MODULE NodeDirectory ----------------------------
(***************************************************************************)
(* What a Network promises about the accounts of its nodes: a table that   *)
(* an address book renames in one step, and look-ups that see the table as *)
(* it is between two renames, never a half-renamed one.  The executions of *)
(* module Executable use the network as such a table.                      *)
(***************************************************************************)
CONSTANTS Nodes, Accounts, Threads, Ports, AddressBooks   \* as in Network

VARIABLES
  names,   \* [Nodes -> Accounts]
  port,    \* [Nodes -> Ports]
  found    \* [Threads -> SUBSET Nodes]: what a thread's last look-up returned

Init ==
  /\ names \in [Nodes -> Accounts] /\ port \in [Nodes -> Ports]
  /\ found = [t \in Threads |-> {}]

\* A book renames all nodes it lists at port p that are reached there.
Matched(book, p) ==
  {n \in DOMAIN book.names : p \in book.ports[n] /\ port[n] = p}

Rename ==
  /\ \E book \in AddressBooks, p \in Ports :
       names' = [n \in Nodes |-> IF n \in Matched(book, p) THEN book.names[n]
                                                           ELSE names[n]]
  /\ UNCHANGED <<port, found>>

Lookup(t) ==
  /\ \E id \in Accounts :
       found' = [found EXCEPT ![t] = {n \in Nodes : names[n] = id}]
  /\ UNCHANGED <<names, port>>

\* A thread starts something else and forgets its result.
Forget(t) == found' = [found EXCEPT ![t] = {}] /\ UNCHANGED <<names, port>>

ChangePort ==
  /\ \E n \in Nodes, p \in Ports : port' = [port EXCEPT ![n] = p]
  /\ UNCHANGED <<names, found>>

Next == Rename \/ ChangePort \/ \E t \in Threads : Lookup(t) \/ Forget(t)

Spec == Init /\ [][Next]_<<names, port, found>>

=============================================================================
