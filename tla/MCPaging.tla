------------------------------ MODULE MCPaging ------------------------------
(* One message in both folders, two messages of one date, and between them in *)
(* time a gap and a message without a Date header, archived within one        *)
(* millisecond.                                                               *)
EXTENDS Paging, TLC

CONSTANTS a, b, c, inbox, sent

MCContents == {a, b, c}
At(n, u)   == [milli |-> n, micro |-> u]
MCDate     ==
  (a :> At(1, 0)) @@ (b :> At(2, 2)) @@ (c :> At(1, 0)) @@ (Empty :> At(2, 1))
MCInitial  == (inbox :> <<a, Empty>>) @@ (sent :> <<Empty>>)
=============================================================================
