----------------------------- MODULE WebSessions -----------------------------
(***************************************************************************)
(* Signing in to the web client: the handlers login, logout and whoami     *)
(* (src/web.rs), the cookie (src/session.rs), the limiter of failed logins *)
(* (src/ratelimit.rs) and the tabs of one browser (web-ui: App, Login and  *)
(* sign_out), beside the operator's commands of Logins.                    *)
(*                                                                         *)
(* A handler may be overtaken at each of its awaits.  Time is abstract: a  *)
(* recorded failure leaves its window, and a cookie ends its thirty days,  *)
(* at any moment.  The cookie is its user; that it cannot be forged is the *)
(* business of the MAC.                                                    *)
(***************************************************************************)
EXTENDS Logins

CONSTANTS
  Tabs,        \* the tabs of the browser
  Peer,        \* the browser's address, the other key of the limiter
  Typed,       \* what is typed for a password
  MaxFailures  \* MAX_FAILURES

ASSUME SessionsAssumption ==
  /\ IsFiniteSet(Tabs)
  /\ Peer \notin Addresses
  /\ Unset \notin Typed
  /\ MaxFailures \in Nat \ {0}

VARIABLES
  failures,  \* failures[k]: those of key k inside the window
  cookie,    \* whose session the browser holds, or Nobody
  tab,       \* what the app in a tab knows: unknown, in or out
  at,        \* how far the tab's request for a session has come, or idle
  login,     \* the login it names
  user,      \* whom the handler, the token it came with or its answer names
  proved,    \* history: users whose password was given in this browser
  ended      \* history: a sign-out was answered, and nothing else under way

webVars == <<failures, cookie, tab, at, login, user, proved, ended>>
vars    == <<loginsVars, webVars>>

Keys       == Addresses \cup {Peer}
Blocked(k) == failures[k] >= MaxFailures

(* Stages at which the answer is on its way back to the tab. *)
Answers == {"signed in", "signed off", "refused"}
Stages  == {"idle", "login", "checked", "verified", "identify", "session", "logout"}
             \cup Answers

Go(t, stage) == at' = [at EXCEPT ![t] = stage]

Init ==
  /\ LoginsInit
  /\ failures = [k \in Keys |-> 0]
  /\ cookie = Nobody
  /\ tab = [t \in Tabs |-> "unknown"]
  /\ at = [t \in Tabs |-> "session"]
  /\ login = [t \in Tabs |-> Peer]
  /\ user = [t \in Tabs |-> Nobody]
  /\ proved = {} /\ ended = FALSE

(* The form is sent; while it is busy it is not sent again. *)
Submit(t, address) ==
  /\ tab[t] = "out" /\ at[t] = "idle"
  /\ Go(t, "login")
  /\ login' = [login EXCEPT ![t] = address]
  /\ ended' = FALSE
  /\ UNCHANGED <<failures, cookie, tab, user, proved, loginsVars>>

(* Mutant: only the login is asked for, not the address. *)
CheckLogin(t) ==
  /\ at[t] = "login"
  /\ Go(t, IF Blocked(login[t]) THEN "refused" ELSE "checked")
  /\ UNCHANGED <<failures, cookie, tab, login, user, proved, ended, loginsVars>>

(* Mutant: an attempt that is refused is recorded as well. *)
CheckAndRecord(t) ==
  LET keys == {login[t], Peer}
      over == \E k \in keys : Blocked(k)
  IN  /\ at[t] = "login"
      /\ Go(t, IF over THEN "refused" ELSE "checked")
      /\ failures' = [k \in Keys |->
           IF over /\ k \in keys THEN MaxFailures + 1 ELSE failures[k]]
      /\ UNCHANGED <<cookie, tab, login, user, proved, ended, loginsVars>>

(* login: neither the login nor the address has failed too often. *)
Check(t) ==
  /\ at[t] = "login"
  /\ Go(t, IF \E k \in {login[t], Peer} : Blocked(k) THEN "refused" ELSE "checked")
  /\ UNCHANGED <<failures, cookie, tab, login, user, proved, ended, loginsVars>>

(* login: db::authenticate, one SELECT and the hash; a login that leads
   nowhere and a password that is wrong look the same. *)
Authenticate(t, given) ==
  LET address == login[t]
      right   == Taken(address) /\ password[leads[address]] = given
      who     == IF right THEN leads[address] ELSE Nobody
  IN  /\ at[t] = "checked"
      /\ Go(t, "verified")
      /\ user' = [user EXCEPT ![t] = who]
      /\ proved' = IF right THEN proved \cup {who} ELSE proved
      /\ UNCHANGED <<failures, cookie, tab, login, ended, loginsVars>>

(* login: the failure is recorded under both keys, or both are cleared. *)
Settle(t) ==
  /\ at[t] = "verified"
  /\ Go(t, IF user[t] = Nobody THEN "refused" ELSE "identify")
  /\ failures' = [k \in Keys |->
       IF k \notin {login[t], Peer} THEN failures[k]
       ELSE IF user[t] = Nobody THEN failures[k] + 1 ELSE 0]
  /\ UNCHANGED <<cookie, tab, login, user, proved, ended, loginsVars>>

(* Mutant: the session is for whom the login leads to by now. *)
IdentifyByLogin(t) ==
  /\ at[t] = "identify"
  /\ user' = [user EXCEPT ![t] = leads[login[t]]]
  /\ Go(t, IF Taken(login[t]) THEN "signed in" ELSE "refused")
  /\ UNCHANGED <<failures, cookie, tab, login, proved, ended, loginsVars>>

(* login: user_by_id wants a canonical address; without one, no session. *)
Identify(t) ==
  /\ at[t] = "identify"
  /\ Go(t, IF CanonicalOf(user[t]) # {} THEN "signed in" ELSE "refused")
  /\ UNCHANGED <<failures, cookie, tab, login, user, proved, ended, loginsVars>>

(* whoami: the token the request came with is good, or missing or expired;
   its user is described by user_by_id and gets a fresh cookie, or loses
   the one there is. *)
WhoAmI(t) ==
  /\ at[t] = "session"
  /\ \/ Go(t, "refused")
     \/ /\ user[t] # Nobody
        /\ Go(t, IF CanonicalOf(user[t]) # {} THEN "signed in" ELSE "signed off")
  /\ UNCHANGED <<failures, cookie, tab, login, user, proved, ended, loginsVars>>

(* The user signs out. *)
SignOut(t) ==
  /\ tab[t] = "in" /\ at[t] = "idle"
  /\ Go(t, "logout")
  /\ UNCHANGED <<failures, cookie, tab, login, user, proved, ended, loginsVars>>

(* Mutant: only a cookie that still names somebody known is cleared. *)
LogoutOfKnown(t) ==
  /\ at[t] = "logout"
  /\ Go(t, IF CanonicalOf(cookie) # {} THEN "signed off" ELSE "refused")
  /\ UNCHANGED <<failures, cookie, tab, login, user, proved, ended, loginsVars>>

(* logout: asks for no session, and clears the cookie. *)
Logout(t) ==
  /\ at[t] = "logout"
  /\ Go(t, "signed off")
  /\ UNCHANGED <<failures, cookie, tab, login, user, proved, ended, loginsVars>>

(* Stages from which a session may still come. *)
Coming(t) ==
  at[t] \in {"login", "checked", "verified", "identify", "session", "signed in"}

(* The answer arrives: the browser does as Set-Cookie says, then the app. *)
Receive(t) ==
  /\ at[t] \in Answers
  /\ Go(t, "idle")
  /\ tab' = [tab EXCEPT ![t] = IF at[t] = "signed in" THEN "in" ELSE "out"]
  /\ cookie' = CASE at[t] = "signed in"  -> user[t]
                  [] at[t] = "signed off" -> Nobody
                  [] at[t] = "refused"    -> cookie
  /\ ended' = IF tab[t] = "in" THEN \A o \in Tabs : ~Coming(o)
              ELSE ended /\ at[t] # "signed in"
  /\ login' = [login EXCEPT ![t] = Peer]
  /\ user' = [user EXCEPT ![t] = Nobody]
  /\ UNCHANGED <<failures, proved, loginsVars>>

(* Requests or their answers are lost, or the database fails under them; the
   app takes any error for a "no". *)
Drop(lost) ==
  /\ at' = [t \in Tabs |-> IF t \in lost THEN "idle" ELSE at[t]]
  /\ tab' = [t \in Tabs |-> IF t \in lost THEN "out" ELSE tab[t]]
  /\ login' = [t \in Tabs |-> IF t \in lost THEN Peer ELSE login[t]]
  /\ user' = [t \in Tabs |-> IF t \in lost THEN Nobody ELSE user[t]]
  /\ UNCHANGED <<cookie, proved, ended, loginsVars>>

Lose(t) ==
  /\ at[t] # "idle"
  /\ Drop({t})
  /\ UNCHANGED failures

(* The service starts again: the limiter is empty, and what it was at is lost. *)
Restart ==
  /\ Drop({t \in Tabs : at[t] # "idle"})
  /\ failures' = [k \in Keys |-> 0]

(* The page is loaded again, and asks who it is with what cookie there is. *)
Reload(t) ==
  /\ Go(t, "session")
  /\ tab' = [tab EXCEPT ![t] = "unknown"]
  /\ login' = [login EXCEPT ![t] = Peer]
  /\ user' = [user EXCEPT ![t] = cookie]
  /\ UNCHANGED <<failures, cookie, proved, ended, loginsVars>>

(* Thirty days without a whoami. *)
Expire ==
  /\ cookie' = Nobody
  /\ UNCHANGED <<failures, tab, at, login, user, proved, ended, loginsVars>>

(* The oldest failure of a key is five minutes old. *)
Forget(k) ==
  /\ failures[k] > 0
  /\ failures' = [failures EXCEPT ![k] = @ - 1]
  /\ UNCHANGED <<cookie, tab, at, login, user, proved, ended, loginsVars>>

WebNext ==
  \/ \E t \in Tabs, address \in Addresses : Submit(t, address)
  \/ \E t \in Tabs, given \in Typed : Authenticate(t, given)
  \/ \E t \in Tabs : Check(t)
  \/ \E t \in Tabs : Settle(t)
  \/ \E t \in Tabs : Identify(t)
  \/ \E t \in Tabs : WhoAmI(t)
  \/ \E t \in Tabs : SignOut(t)
  \/ \E t \in Tabs : Logout(t)
  \/ \E t \in Tabs : Receive(t)
  \/ \E t \in Tabs : Lose(t)
  \/ \E t \in Tabs : Reload(t)
  \/ \E k \in Keys : Forget(k)
  \/ Expire
  \/ Restart

Next ==
  \/ LoginsNext /\ UNCHANGED webVars
  \/ WebNext

Spec == Init /\ [][Next]_vars

(* Time passes: the window of each key moves on. *)
TimePasses == \A k \in Keys : WF_vars(Forget(k))

FairSpec == Spec /\ TimePasses
----------------------------------------------------------------------------
(* Every variable has its type. *)
TypeOK ==
  /\ LoginsTypeOK
  /\ failures \in [Keys -> Nat]
  /\ cookie \in users \cup {Nobody}
  /\ tab \in [Tabs -> {"unknown", "in", "out"}]
  /\ at \in [Tabs -> Stages]
  /\ login \in [Tabs -> Keys]
  /\ user \in [Tabs -> users \cup {Nobody}]
  /\ proved \subseteq users
  /\ ended \in BOOLEAN

(* The attempts that are between is_blocked and record_failure are counted
   by neither; so a key is over its limit by no more than those. *)
FailuresBounded ==
  \A k \in Keys : failures[k] <= MaxFailures - 1 + Cardinality(Tabs)

(* Whoever is blocked is let in again: what is refused is not recorded, so
   trying on does not prolong the block. *)
BlockEnds == \A k \in Keys : []<>~Blocked(k)

(* The attempts that may yet be recorded as failures of a key. *)
Pending(k) ==
  {t \in Tabs : at[t] \in {"checked", "verified"} /\ k \in {login[t], Peer}}

(* What a key has against it when these have failed too. *)
Ahead(k) == failures[k] + Cardinality(Pending(k))

(* Nothing anybody does while a key is blocked adds to what is against it: a
   block grows only by attempts that were let through before it began. *)
BlockFades ==
  [][\A k \in Keys : Blocked(k) => Ahead(k)' <= Ahead(k)]_vars

(* A session, in the browser or on its way there, is that of somebody whose
   password was given in this browser, whatever became of the login it was
   given with (session.rs: what matters is that it cannot be changed). *)
SessionsEarned ==
  /\ cookie # Nobody => cookie \in proved
  /\ \A t \in Tabs : user[t] # Nobody => user[t] \in proved

(* After a sign-out that was answered while no other session was on its way to
   the browser, there is none until somebody signs in.  Without the two
   conditions it is not so: sign_out shows the form even if the server never
   heard of it, and a whoami of another tab brings a fresh cookie. *)
SignedOutStays == ended => cookie = Nobody
----------------------------------------------------------------------------
(* What makes them inductive. *)

(* What is asked of the tables is the address that was typed. *)
FormNames == \A t \in Tabs : at[t] \in {"login", "checked"} => login[t] \in Addresses

(* Nor do the attempts under way take a key further over its limit. *)
FailuresAhead ==
  \A k \in Keys : Ahead(k) <= MaxFailures - 1 + Cardinality(Tabs)

(* A tab that shows the archive asks for nothing but to be signed out. *)
InIsQuiet ==
  \A t \in Tabs : tab[t] = "in" => at[t] \in {"idle", "logout", "signed off"}

(* After the sign-out no session comes: a page that is loaded has no token. *)
NothingComes ==
  ended => \A t \in Tabs : Coming(t) => at[t] = "session" /\ user[t] = Nobody

WebInv ==
  TypeOK /\ FormNames /\ FailuresAhead /\ SessionsEarned /\ InIsQuiet /\ NothingComes
  /\ SignedOutStays

IndInv == LoginsInv /\ WebInv
=============================================================================
