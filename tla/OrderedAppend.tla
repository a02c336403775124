---------------------------- MODULE OrderedAppend ----------------------------
(***************************************************************************)
(* What sending one message in chunks promises the reader of the file: the *)
(* pieces arrive in order and each once, and success is only reported when *)
(* the file holds the whole message.  The promise is void once the message *)
(* has been through bytes or one of its transaction IDs has expired.       *)
(***************************************************************************)
EXTENDS Naturals, Sequences

CONSTANT Messages   \* the messages a user may append

VARIABLES
  message,    \* what the user wants to append
  file,       \* what has been appended
  reported,   \* executeAll() has ended with success
  void

Init == message \in Messages /\ file = <<>> /\ reported = FALSE /\ void \in BOOLEAN

\* Success does not outlive the start of another execution.
Choose ==
  /\ file = <<>> /\ message' \in Messages /\ reported' = FALSE
  /\ UNCHANGED <<file, void>>

Append_ ==
  /\ \E n \in (Len(file) + 1) .. Len(message) : file' = SubSeq(message, 1, n)
  /\ UNCHANGED <<message, reported, void>>

Report  == file = message /\ reported' = TRUE /\ UNCHANGED <<message, file, void>>
Restart == reported' = FALSE /\ UNCHANGED <<message, file, void>>

Void == void' = TRUE

Next == Choose \/ Append_ \/ Report \/ Restart \/ Void

Spec == Init /\ [][Next]_<<message, file, reported, void>>

=============================================================================
