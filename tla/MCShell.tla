------------------------------ MODULE MCShell ------------------------------
(* An account with a folder that holds the same message twice and has another
   folder under it.  At most one request to mark a message is lost, and none
   is made after that. *)
EXTENDS Shell

CONSTANTS both, only, all, few

Inbox == <<"work", "INBOX">>
Old   == <<"work", "INBOX", "old">>

MCFolders == {Inbox, Old}

MCPlaced ==
  [f \in MCFolders |-> IF f = Inbox THEN <<both, both>> ELSE <<only>>]

MCHits == [q \in {all, few} |-> IF q = all THEN Places ELSE {<<Inbox, 1>>}]

OneLost ==
  \/ failed = {}
  \/ /\ \A p \in Places : marks[p] = 0
     /\ \A p, q \in failed : p = q

MCSpec == Init /\ [][Next /\ OneLost']_vars
=============================================================================
