---------------------------- MODULE MCWebSessions ----------------------------
(* One user with an alias and a password, another bucket and address free:   *)
(* what add-user, alias and set-password leave behind.  The counters of the  *)
(* limiter and the tables of the logins have nothing to do with each other;  *)
(* the run takes changes to either beside the sessions, not to both at once. *)
(* Beside a change to the logins one tab is busy at a time, and two of the   *)
(* addresses are mistyped.                                                   *)
EXTENDS WebSessions, TLC

CONSTANTS ken, jaqui, first, second, free, secret

MCInit ==
  /\ users = {ken} /\ primary = {first}
  /\ leads = (first :> ken) @@ (second :> ken) @@ (free :> Nobody)
  /\ password = (ken :> secret) @@ (jaqui :> Unset)
  /\ command = [c \in Commands |-> Idle]
  /\ changes = 0 /\ nameless = {} /\ overtaken = {}
  /\ failures = [k \in Keys |-> 0]
  /\ cookie = Nobody
  /\ tab = [t \in Tabs |-> "unknown"]
  /\ at = [t \in Tabs |-> "session"]
  /\ login = [t \in Tabs |-> Peer]
  /\ user = [t \in Tabs |-> Nobody]
  /\ proved = {} /\ ended = FALSE

Apart ==
  \/ changes = 0 /\ (\A c \in Commands : command[c] = Idle) /\ failures[second] = 0
  \/ (\A k \in Keys : failures[k] = 0) /\ (\E t \in Tabs : at[t] = "idle")

MCSpec == MCInit /\ [][Next /\ Apart']_vars /\ TimePasses
=============================================================================
