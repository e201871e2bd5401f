------------------------------ MODULE MCServe ------------------------------
(* An account that is gone for good, and one behind it with a folder that     *)
(* cannot be read.  The certificate is renewed and loaded while the scheduler *)
(* sleeps.                                                                    *)
EXTENDS Serve, TLC

CONSTANTS gone, well, inbox, sent, odd

MCAccounts  == <<gone, well>>
MCFoldersOf == (gone :> <<inbox>>) @@ (well :> <<sent, inbox, odd>>)
MCBroken    == {<<well, odd>>}

Asleep == at = "sleep" \/ (todo = {} /\ step = "accept" /\ stamp = written)

MCSpec == Init /\ [][Next /\ Asleep']_vars /\ Fairness
=============================================================================
