------------------------- MODULE WebSessionsProofs -------------------------
(***************************************************************************)
(* Theorems about Logins and WebSessions, for any users, addresses, tabs   *)
(* and operators, any limit and any number of changes.                     *)
(***************************************************************************)
EXTENDS WebSessions, FiniteSetTheorems, TLAPS

(* The commands of the operator keep the types of the tables. *)
LEMMA TablesTypeStep ==
  ASSUME LoginsTypeOK, CommandsHonest, LoginsNext
  PROVE  LoginsTypeOK'
<1> USE LoginsAssumption DEF LoginsTypeOK, Taken, Change
<1>1. ASSUME NEW l \in Addresses, NEW u \in Buckets, CreateUser(l, u)
      PROVE  LoginsTypeOK'
  <2>1. /\ users' \subseteq Buckets /\ command' = command
        /\ changes' \in 0 .. MaxChanges /\ password' = password
        /\ users \subseteq users'
        /\ nameless' \subseteq users' /\ overtaken' \subseteq users'
    BY <1>1 DEF CreateUser
  <2>2. leads' \in [Addresses -> users' \cup {Nobody}]
    BY <1>1 DEF CreateUser
  <2>3. primary' \subseteq {x \in Addresses : leads'[x] # Nobody}
    BY <1>1 DEF CreateUser
  <2> QED
    BY <2>1, <2>2, <2>3
<1>2. ASSUME NEW old \in Addresses, NEW new \in Addresses, RenameUser(old, new)
      PROVE  LoginsTypeOK'
  BY <1>2 DEF RenameUser
<1>3. ASSUME NEW l \in Addresses, NEW new \in Passwords, SetPassword(l, new)
      PROVE  LoginsTypeOK'
  BY <1>3 DEF SetPassword
<1>4. ASSUME NEW c \in Commands, NEW l \in Addresses, NEW a \in Addresses,
             LookUpUser(c, l, a)
      PROVE  LoginsTypeOK'
  <2>1. [kind |-> "alias", login |-> a, user |-> leads[l]] \in Looked
    BY <1>4 DEF LookUpUser, Looked
  <2> QED
    BY <1>4, <2>1 DEF LookUpUser
<1>5. ASSUME NEW c \in Commands, NEW a \in Addresses, LookUpAlias(c, a)
      PROVE  LoginsTypeOK'
  <2>1. [kind |-> "remove", login |-> a, canonical |-> a \in primary] \in Looked
    BY DEF Looked
  <2> QED
    BY <1>5, <2>1 DEF LookUpAlias
<1>6. Idle \in Looked
  BY DEF Looked
<1>7. ASSUME NEW c \in Commands, InsertAlias(c)
      PROVE  LoginsTypeOK'
  <2>1. command[c].user \in users
    BY <1>7 DEF InsertAlias, CommandsHonest
  <2>2. leads' \in [Addresses -> users' \cup {Nobody}]
    BY <1>7, <2>1 DEF InsertAlias
  <2>3. primary' \subseteq {x \in Addresses : leads'[x] # Nobody}
    BY <1>7 DEF InsertAlias
  <2> QED
    BY <1>6, <1>7, <2>2, <2>3 DEF InsertAlias
<1>8. ASSUME NEW c \in Commands, DeleteAlias(c)
      PROVE  LoginsTypeOK'
  <2>1. overtaken' \subseteq users'
    BY <1>8 DEF DeleteAlias
  <2>2. leads' \in [Addresses -> users' \cup {Nobody}]
    BY <1>8 DEF DeleteAlias
  <2>3. primary' \subseteq {x \in Addresses : leads'[x] # Nobody}
    BY <1>8 DEF DeleteAlias
  <2> QED
    BY <1>6, <1>8, <2>1, <2>2, <2>3 DEF DeleteAlias
<1>9. ASSUME NEW c \in Commands, Interrupt(c)
      PROVE  LoginsTypeOK'
  BY <1>6, <1>9 DEF Interrupt
<1> QED
  BY <1>1, <1>2, <1>3, <1>4, <1>5, <1>7, <1>8, <1>9 DEF LoginsNext

(* What a process has looked up stays so: users do not go away. *)
LEMMA CommandsStep ==
  ASSUME LoginsTypeOK, CommandsHonest, LoginsNext
  PROVE  CommandsHonest'
<1> USE LoginsAssumption DEF LoginsTypeOK, Taken, CommandsHonest
<1>1. users \subseteq users'
  BY DEF LoginsNext, CreateUser, RenameUser, SetPassword, LookUpUser,
         LookUpAlias, InsertAlias, DeleteAlias, Interrupt
<1>2. ASSUME NEW c \in Commands
      PROVE  \/ command'[c] = command[c]
             \/ command'[c] = Idle
             \/ /\ command'[c].kind = "alias" /\ command'[c].user \in users
             \/ /\ command'[c].kind = "remove" /\ ~command'[c].canonical
  <2>1. ASSUME NEW d \in Commands, NEW l \in Addresses, NEW a \in Addresses,
               LookUpUser(d, l, a)
        PROVE  \/ command'[c] = command[c]
               \/ command'[c].kind = "alias" /\ command'[c].user \in users
    BY <2>1 DEF LookUpUser
  <2>2. ASSUME NEW d \in Commands, NEW a \in Addresses, LookUpAlias(d, a)
        PROVE  \/ command'[c] = command[c]
               \/ command'[c].kind = "remove" /\ ~command'[c].canonical
    BY <2>2 DEF LookUpAlias
  <2>3. ASSUME NEW d \in Commands,
               InsertAlias(d) \/ DeleteAlias(d) \/ Interrupt(d)
        PROVE  command'[c] = command[c] \/ command'[c] = Idle
    BY <2>3 DEF InsertAlias, DeleteAlias, Interrupt
  <2>4. ASSUME NEW l \in Addresses, NEW u \in Buckets, NEW a \in Addresses,
               NEW p \in Passwords,
               CreateUser(l, u) \/ RenameUser(l, a) \/ SetPassword(l, p)
        PROVE  command'[c] = command[c]
    BY <2>4 DEF CreateUser, RenameUser, SetPassword
  <2> QED
    BY <2>1, <2>2, <2>3, <2>4 DEF LoginsNext, CreateUser, RenameUser, SetPassword
<1> QED
  BY <1>1, <1>2 DEF Idle

(* Who has how many canonical addresses. *)
LEMMA AddressableStep ==
  ASSUME LoginsInv, LoginsNext
  PROVE  Addressable'
<1> USE LoginsAssumption
        DEF LoginsInv, LoginsTypeOK, Addressable, CanonicalOf, Taken, Change
<1>1. ASSUME NEW l \in Addresses, NEW u \in Buckets, CreateUser(l, u)
      PROVE  Addressable'
  <2>1. CASE Taken(l)
    <3>1. /\ leads' = leads /\ primary' = primary /\ overtaken' = overtaken
          /\ users' = users \cup {u}
          /\ nameless' = IF u \in users THEN nameless ELSE nameless \cup {u}
      BY <1>1, <2>1 DEF CreateUser
    <3>2. \A x \in Addresses : leads[x] \in users \cup {Nobody}
      OBVIOUS
    <3>3. u \notin users => CanonicalOf(u) = {}
      BY <3>2
    <3> QED
      BY <3>1, <3>3
  <2>2. CASE ~Taken(l)
    <3>1. /\ CanonicalOf(u) = {}
          /\ leads' = [leads EXCEPT ![l] = u] /\ primary' = primary \cup {l}
          /\ nameless' = nameless \ {u} /\ overtaken' = overtaken \ {u}
          /\ users' = users \cup {u}
      BY <1>1, <2>2 DEF CreateUser
    <3>2. CanonicalOf(u)' = {l}
      BY <3>1
    <3>3. \A v \in users : v # u => CanonicalOf(v)' = CanonicalOf(v)
      BY <2>2, <3>1
    <3> QED
      BY <3>1, <3>2, <3>3
  <2> QED
    BY <2>1, <2>2
<1>2. ASSUME NEW old \in Addresses, NEW new \in Addresses, RenameUser(old, new)
      PROVE  Addressable'
  <2>1. /\ leads' = [leads EXCEPT ![old] = Nobody, ![new] = leads[old]]
        /\ primary' = IF old \in primary THEN (primary \ {old}) \cup {new}
                      ELSE primary
        /\ leads[old] # Nobody /\ leads[new] = Nobody /\ old # new
        /\ new \notin primary
        /\ UNCHANGED <<users, nameless, overtaken>>
    BY <1>2 DEF RenameUser
  <2>2. ASSUME NEW v \in users
        PROVE  CanonicalOf(v)' = IF old \in CanonicalOf(v)
                                 THEN (CanonicalOf(v) \ {old}) \cup {new}
                                 ELSE CanonicalOf(v)
    BY <2>1
  <2> QED
    BY <2>1, <2>2
<1>3. ASSUME NEW l \in Addresses, NEW new \in Passwords, SetPassword(l, new)
      PROVE  Addressable'
  BY <1>3 DEF SetPassword
<1>4. ASSUME NEW c \in Commands, NEW l \in Addresses, NEW a \in Addresses,
             LookUpUser(c, l, a)
      PROVE  Addressable'
  BY <1>4 DEF LookUpUser
<1>5. ASSUME NEW c \in Commands, NEW a \in Addresses, LookUpAlias(c, a)
      PROVE  Addressable'
  BY <1>5 DEF LookUpAlias
<1>6. ASSUME NEW c \in Commands, InsertAlias(c)
      PROVE  Addressable'
  <2>1. UNCHANGED <<users, primary, nameless, overtaken>>
    BY <1>6 DEF InsertAlias
  <2>2. \A x \in primary : leads'[x] = leads[x]
    BY <1>6 DEF InsertAlias
  <2>3. \A v \in users : CanonicalOf(v)' = CanonicalOf(v)
    BY <2>1, <2>2
  <2> QED
    BY <2>1, <2>3
<1>7. ASSUME NEW c \in Commands, DeleteAlias(c)
      PROVE  Addressable'
  <2> DEFINE l == command[c].login
  <2>1. /\ l \in Addresses /\ ~command[c].canonical
        /\ leads' = [leads EXCEPT ![l] = Nobody] /\ primary' = primary \ {l}
        /\ overtaken' = IF l \in primary THEN overtaken \cup {leads[l]}
                        ELSE overtaken
        /\ UNCHANGED <<users, nameless>>
    BY <1>7 DEF DeleteAlias, CommandsHonest, Looked, Idle
  <2>2. ASSUME NEW v \in users
        PROVE  CanonicalOf(v)' = CanonicalOf(v) \ {l}
    BY <2>1
  <2>3. ASSUME NEW v \in users
        PROVE  CanonicalOf(v)' = {} <=> v \in nameless' \cup overtaken'
    <3>1. CASE l \in CanonicalOf(v)
      BY <2>1, <2>2, <3>1
    <3>2. CASE l \notin CanonicalOf(v)
      BY <2>1, <2>2, <3>2
    <3> QED
      BY <3>1, <3>2
  <2> QED
    BY <2>1, <2>2, <2>3
<1>8. ASSUME NEW c \in Commands, Interrupt(c)
      PROVE  Addressable'
  BY <1>8 DEF Interrupt
<1> QED
  BY <1>1, <1>2, <1>3, <1>4, <1>5, <1>6, <1>7, <1>8 DEF LoginsNext

LEMMA LoginsInvStep ==
  ASSUME LoginsInv, LoginsNext
  PROVE  LoginsInv'
BY TablesTypeStep, CommandsStep, AddressableStep DEF LoginsInv

LEMMA LoginsInvStutter ==
  ASSUME LoginsInv, UNCHANGED loginsVars
  PROVE  LoginsInv'
BY DEF LoginsInv, loginsVars, LoginsTypeOK, CommandsHonest, Addressable,
       CanonicalOf, Taken

LEMMA LoginsInvInit == LoginsInit => LoginsInv
BY LoginsAssumption
   DEF LoginsInit, LoginsInv, LoginsTypeOK, CommandsHonest, Addressable,
       CanonicalOf, Taken, Looked, Idle

LEMMA WebLeavesTables == WebNext => UNCHANGED loginsVars
BY DEF WebNext, Submit, Authenticate, Check, Settle, Identify, WhoAmI, SignOut,
       Logout, Receive, Lose, Reload, Forget, Expire, Restart, Drop

LEMMA LoginsInvNext == LoginsInv /\ [Next]_vars => LoginsInv'
BY LoginsInvStep, LoginsInvStutter, WebLeavesTables DEF Next, vars

LEMMA UsersStay == [Next]_vars => users \subseteq users'
BY WebLeavesTables
   DEF Next, vars, loginsVars, LoginsNext, CreateUser, RenameUser, SetPassword,
       LookUpUser, LookUpAlias, InsertAlias, DeleteAlias, Interrupt
----------------------------------------------------------------------------
(* What the requests, the limiter and the browser hold. *)
WebTypes ==
  /\ failures \in [Keys -> Nat]
  /\ cookie \in users \cup {Nobody}
  /\ tab \in [Tabs -> {"unknown", "in", "out"}]
  /\ at \in [Tabs -> Stages]
  /\ login \in [Tabs -> Keys]
  /\ user \in [Tabs -> users \cup {Nobody}]
  /\ proved \subseteq users
  /\ ended \in BOOLEAN

LEMMA DropTypes ==
  ASSUME WebTypes, UNCHANGED users, NEW lost, Drop(lost)
  PROVE  /\ cookie' \in users' \cup {Nobody}
         /\ tab' \in [Tabs -> {"unknown", "in", "out"}]
         /\ at' \in [Tabs -> Stages]
         /\ login' \in [Tabs -> Keys]
         /\ user' \in [Tabs -> users' \cup {Nobody}]
         /\ proved' \subseteq users'
         /\ ended' \in BOOLEAN
BY DEF Drop, WebTypes, Stages, Answers, Keys

LEMMA WebTypesStep ==
  ASSUME LoginsTypeOK, WebTypes, FormNames, WebNext
  PROVE  WebTypes'
<1> USE SessionsAssumption DEF WebTypes, Go, Keys
<1>0. users' = users
  BY WebLeavesTables DEF loginsVars
<1>1. ASSUME NEW t \in Tabs, NEW address \in Addresses, Submit(t, address)
      PROVE  WebTypes'
  BY <1>0, <1>1 DEF Submit, Stages
<1>2. ASSUME NEW t \in Tabs, NEW given \in Typed, Authenticate(t, given)
      PROVE  WebTypes'
  <2>1. ASSUME Taken(login[t])
        PROVE  leads[login[t]] \in users
    BY <1>2, <2>1 DEF Authenticate, FormNames, LoginsTypeOK, Taken
  <2> QED
    BY <1>0, <1>2, <2>1 DEF Authenticate, Stages
<1>3. ASSUME NEW t \in Tabs, Check(t)
      PROVE  WebTypes'
  BY <1>0, <1>3 DEF Check, Stages, Answers
<1>4. ASSUME NEW t \in Tabs, Settle(t)
      PROVE  WebTypes'
  <2>1. failures' \in [Keys -> Nat]
    BY <1>4 DEF Settle
  <2>2. \E s \in Stages : at' = [at EXCEPT ![t] = s]
    BY <1>4 DEF Settle, Stages, Answers
  <2>3. UNCHANGED <<cookie, tab, login, user, proved, ended>>
    BY <1>4 DEF Settle
  <2> QED
    BY <1>0, <2>1, <2>2, <2>3
<1>5. ASSUME NEW t \in Tabs, Identify(t) \/ WhoAmI(t) \/ Logout(t) \/ SignOut(t)
      PROVE  WebTypes'
  <2>1. \E s \in Stages : at' = [at EXCEPT ![t] = s]
    BY <1>5 DEF Identify, WhoAmI, Logout, SignOut, Stages, Answers
  <2>2. UNCHANGED <<failures, cookie, tab, login, user, proved, ended>>
    BY <1>5 DEF Identify, WhoAmI, Logout, SignOut
  <2> QED
    BY <1>0, <2>1, <2>2
<1>6. ASSUME NEW t \in Tabs, Receive(t)
      PROVE  WebTypes'
  <2>1. cookie' \in users \cup {Nobody}
    BY <1>6 DEF Receive, Answers
  <2>2. ended' \in BOOLEAN
    BY <1>6 DEF Receive
  <2> QED
    BY <1>0, <1>6, <2>1, <2>2 DEF Receive, Stages
<1>7. ASSUME NEW t \in Tabs, Lose(t)
      PROVE  WebTypes'
  BY <1>0, <1>7, DropTypes DEF Lose
<1>8. ASSUME NEW t \in Tabs, Reload(t)
      PROVE  WebTypes'
  BY <1>0, <1>8 DEF Reload, Stages
<1>9. ASSUME NEW k \in Keys, Forget(k)
      PROVE  WebTypes'
  BY <1>0, <1>9 DEF Forget
<1>10. CASE Expire
  BY <1>0, <1>10 DEF Expire
<1>11. CASE Restart
  BY <1>0, <1>11, DropTypes DEF Restart
<1> QED
  BY <1>1, <1>2, <1>3, <1>4, <1>5, <1>6, <1>7, <1>8, <1>9, <1>10, <1>11
  DEF WebNext

(* Sessions are of users whose password was given. *)
LEMMA SessionsEarnedStep ==
  ASSUME LoginsTypeOK, WebTypes, SessionsEarned, WebNext
  PROVE  SessionsEarned'
<1> USE DEF WebTypes, SessionsEarned, Go
<1>1. ASSUME NEW t \in Tabs, NEW address \in Addresses, Submit(t, address)
      PROVE  SessionsEarned'
  BY <1>1 DEF Submit
<1>2. ASSUME NEW t \in Tabs, NEW given \in Typed, Authenticate(t, given)
      PROVE  SessionsEarned'
  BY <1>2 DEF Authenticate
<1>3. ASSUME NEW t \in Tabs, Check(t)
      PROVE  SessionsEarned'
  BY <1>3 DEF Check
<1>4. ASSUME NEW t \in Tabs, Settle(t)
      PROVE  SessionsEarned'
  BY <1>4 DEF Settle
<1>5. ASSUME NEW t \in Tabs, Identify(t) \/ WhoAmI(t) \/ Logout(t) \/ SignOut(t)
      PROVE  SessionsEarned'
  BY <1>5 DEF Identify, WhoAmI, Logout, SignOut
<1>6. ASSUME NEW t \in Tabs, Receive(t)
      PROVE  SessionsEarned'
  <2>1. /\ \/ cookie' = user[t] \/ cookie' = Nobody \/ cookie' = cookie
        /\ user' = [user EXCEPT ![t] = Nobody] /\ proved' = proved
    BY <1>6 DEF Receive, Answers
  <2> QED
    BY <2>1
<1>7. ASSUME NEW t \in Tabs, Lose(t)
      PROVE  SessionsEarned'
  BY <1>7 DEF Lose, Drop
<1>8. ASSUME NEW t \in Tabs, Reload(t)
      PROVE  SessionsEarned'
  BY <1>8 DEF Reload
<1>9. ASSUME NEW k \in Keys, Forget(k)
      PROVE  SessionsEarned'
  BY <1>9 DEF Forget
<1>10. CASE Expire
  BY <1>10 DEF Expire
<1>11. CASE Restart
  BY <1>11 DEF Restart, Drop
<1> QED
  BY <1>1, <1>2, <1>3, <1>4, <1>5, <1>6, <1>7, <1>8, <1>9, <1>10, <1>11
  DEF WebNext

(* The address that was typed is the one the handler asks for. *)
LEMMA FormNamesStep ==
  ASSUME WebTypes, FormNames, WebNext
  PROVE  FormNames'
<1> USE DEF WebTypes, FormNames, Go
<1>1. ASSUME NEW t \in Tabs, NEW address \in Addresses, Submit(t, address)
      PROVE  FormNames'
  BY <1>1 DEF Submit
<1>2. ASSUME NEW t \in Tabs, NEW given \in Typed, Authenticate(t, given)
      PROVE  FormNames'
  BY <1>2 DEF Authenticate
<1>3. ASSUME NEW t \in Tabs, Check(t)
      PROVE  FormNames'
  BY <1>3 DEF Check
<1>4. ASSUME NEW t \in Tabs, Settle(t)
      PROVE  FormNames'
  BY <1>4 DEF Settle
<1>5. ASSUME NEW t \in Tabs, Identify(t) \/ WhoAmI(t) \/ Logout(t) \/ SignOut(t)
      PROVE  FormNames'
  BY <1>5 DEF Identify, WhoAmI, Logout, SignOut
<1>6. ASSUME NEW t \in Tabs, Receive(t)
      PROVE  FormNames'
  BY <1>6 DEF Receive
<1>7. ASSUME NEW t \in Tabs, Lose(t)
      PROVE  FormNames'
  BY <1>7 DEF Lose, Drop
<1>8. ASSUME NEW t \in Tabs, Reload(t)
      PROVE  FormNames'
  BY <1>8 DEF Reload
<1>9. ASSUME NEW k \in Keys, Forget(k)
      PROVE  FormNames'
  BY <1>9 DEF Forget
<1>10. CASE Expire
  BY <1>10 DEF Expire
<1>11. CASE Restart
  BY <1>11 DEF Restart, Drop
<1> QED
  BY <1>1, <1>2, <1>3, <1>4, <1>5, <1>6, <1>7, <1>8, <1>9, <1>10, <1>11
  DEF WebNext

LEMMA InIsQuietStep ==
  ASSUME WebTypes, InIsQuiet, WebNext
  PROVE  InIsQuiet'
<1> USE DEF WebTypes, InIsQuiet, Go, Answers
<1>1. ASSUME NEW t \in Tabs, NEW address \in Addresses, Submit(t, address)
      PROVE  InIsQuiet'
  BY <1>1 DEF Submit
<1>2. ASSUME NEW t \in Tabs, NEW given \in Typed, Authenticate(t, given)
      PROVE  InIsQuiet'
  BY <1>2 DEF Authenticate
<1>3. ASSUME NEW t \in Tabs, Check(t)
      PROVE  InIsQuiet'
  BY <1>3 DEF Check
<1>4. ASSUME NEW t \in Tabs, Settle(t)
      PROVE  InIsQuiet'
  BY <1>4 DEF Settle
<1>5. ASSUME NEW t \in Tabs, Identify(t) \/ WhoAmI(t) \/ Logout(t) \/ SignOut(t)
      PROVE  InIsQuiet'
  BY <1>5 DEF Identify, WhoAmI, Logout, SignOut
<1>6. ASSUME NEW t \in Tabs, Receive(t)
      PROVE  InIsQuiet'
  BY <1>6 DEF Receive
<1>7. ASSUME NEW t \in Tabs, Lose(t)
      PROVE  InIsQuiet'
  BY <1>7 DEF Lose, Drop
<1>8. ASSUME NEW t \in Tabs, Reload(t)
      PROVE  InIsQuiet'
  BY <1>8 DEF Reload
<1>9. ASSUME NEW k \in Keys, Forget(k)
      PROVE  InIsQuiet'
  BY <1>9 DEF Forget
<1>10. CASE Expire
  BY <1>10 DEF Expire
<1>11. CASE Restart
  BY <1>11 DEF Restart, Drop
<1> QED
  BY <1>1, <1>2, <1>3, <1>4, <1>5, <1>6, <1>7, <1>8, <1>9, <1>10, <1>11
  DEF WebNext

(* After a sign-out that nothing overtook. *)
SignedOff == NothingComes /\ SignedOutStays

LEMMA SignedOffStep ==
  ASSUME WebTypes, InIsQuiet, SignedOff, WebNext
  PROVE  SignedOff'
<1> USE DEF WebTypes, SignedOff, NothingComes, SignedOutStays, Coming, Go, Answers
<1>1. ASSUME NEW t \in Tabs, NEW address \in Addresses, Submit(t, address)
      PROVE  SignedOff'
  BY <1>1 DEF Submit
<1>2. ASSUME NEW t \in Tabs, NEW given \in Typed, Authenticate(t, given)
      PROVE  SignedOff'
  BY <1>2 DEF Authenticate
<1>3. ASSUME NEW t \in Tabs, Check(t)
      PROVE  SignedOff'
  BY <1>3 DEF Check
<1>4. ASSUME NEW t \in Tabs, Settle(t)
      PROVE  SignedOff'
  BY <1>4 DEF Settle
<1>5. ASSUME NEW t \in Tabs, Identify(t) \/ WhoAmI(t) \/ Logout(t) \/ SignOut(t)
      PROVE  SignedOff'
  <2>1. ASSUME SignOut(t) \/ Logout(t)
        PROVE  SignedOff'
    <3>1. /\ \/ at' = [at EXCEPT ![t] = "logout"]
             \/ at' = [at EXCEPT ![t] = "signed off"]
          /\ UNCHANGED <<cookie, user, ended>>
      BY <2>1 DEF SignOut, Logout
    <3> QED
      BY <3>1
  <2>2. ASSUME WhoAmI(t)
        PROVE  SignedOff'
    <3>1. /\ at[t] = "session"
          /\ UNCHANGED <<cookie, user, ended>>
          /\ \/ at' = [at EXCEPT ![t] = "refused"]
             \/ /\ user[t] # Nobody
                /\ \E s \in Answers : at' = [at EXCEPT ![t] = s]
      BY <2>2 DEF WhoAmI
    <3>2. ended => user[t] = Nobody
      BY <3>1
    <3> QED
      BY <3>1, <3>2
  <2>3. ASSUME Identify(t)
        PROVE  SignedOff'
    BY <2>3 DEF Identify
  <2> QED
    BY <1>5, <2>1, <2>2, <2>3
<1>6. ASSUME NEW t \in Tabs, Receive(t)
      PROVE  SignedOff'
  <2>1. /\ at' = [at EXCEPT ![t] = "idle"]
        /\ user' = [user EXCEPT ![t] = Nobody]
    BY <1>6 DEF Receive
  <2>2. CASE tab[t] = "in"
    <3>1. at[t] = "signed off"
      BY <1>6, <2>2 DEF Receive, InIsQuiet
    <3>2. cookie' = Nobody /\ (ended' => \A o \in Tabs : ~Coming(o))
      BY <1>6, <2>2, <3>1 DEF Receive
    <3> QED
      BY <2>1, <3>2
  <2>3. CASE tab[t] # "in"
    <3>1. ended' = (ended /\ at[t] # "signed in")
      BY <1>6, <2>3 DEF Receive
    <3>2. at[t] # "signed in" => cookie' = cookie \/ cookie' = Nobody
      BY <1>6 DEF Receive
    <3> QED
      BY <2>1, <3>1, <3>2
  <2> QED
    BY <2>2, <2>3
<1>7. ASSUME NEW t \in Tabs, Lose(t)
      PROVE  SignedOff'
  BY <1>7 DEF Lose, Drop
<1>8. ASSUME NEW t \in Tabs, Reload(t)
      PROVE  SignedOff'
  BY <1>8 DEF Reload
<1>9. ASSUME NEW k \in Keys, Forget(k)
      PROVE  SignedOff'
  BY <1>9 DEF Forget
<1>10. CASE Expire
  BY <1>10 DEF Expire
<1>11. CASE Restart
  BY <1>11 DEF Restart, Drop
<1> QED
  BY <1>1, <1>2, <1>3, <1>4, <1>5, <1>6, <1>7, <1>8, <1>9, <1>10, <1>11
  DEF WebNext

----------------------------------------------------------------------------
(* The limiter. *)
LEMMA TabsCounted ==
  ASSUME NEW S \in SUBSET Tabs, NEW T \in SUBSET S
  PROVE  /\ Cardinality(S) \in Nat /\ Cardinality(T) \in Nat
         /\ Cardinality(T) <= Cardinality(S)
         /\ Cardinality(S) <= Cardinality(Tabs) /\ Cardinality(Tabs) \in Nat
         /\ \A t \in S \ T : Cardinality(T) + 1 <= Cardinality(S)
<1>1. IsFiniteSet(Tabs)
  BY SessionsAssumption
<1>2. IsFiniteSet(S) /\ Cardinality(S) <= Cardinality(Tabs)
  BY <1>1, FS_Subset
<1>3. IsFiniteSet(T) /\ Cardinality(T) <= Cardinality(S)
  BY <1>2, FS_Subset
<1>4. ASSUME NEW t \in S \ T
      PROVE  Cardinality(T) + 1 <= Cardinality(S)
  <2>1. T \in SUBSET (S \ {t})
    OBVIOUS
  <2>2. IsFiniteSet(S \ {t}) /\ Cardinality(S \ {t}) = Cardinality(S) - 1
    BY <1>2, FS_RemoveElement
  <2>3. Cardinality(T) <= Cardinality(S \ {t})
    BY <2>1, <2>2, FS_Subset
  <2> QED
    BY <1>2, <1>3, <2>2, <2>3, FS_CardinalityType
<1> QED
  BY <1>1, <1>2, <1>3, <1>4, FS_CardinalityType

(* With no more failures and no more attempts, no more is against a key. *)
LEMMA NoFurther ==
  ASSUME NEW f \in Nat, NEW g \in Nat, g <= f,
         NEW S \in SUBSET Tabs, NEW T \in SUBSET S
  PROVE  g + Cardinality(T) <= f + Cardinality(S)
BY TabsCounted

LEMMA DropPending ==
  ASSUME WebTypes, NEW lost, Drop(lost), NEW k \in Keys
  PROVE  Pending(k)' \subseteq Pending(k)
BY DEF WebTypes, Drop, Pending

(* Only an attempt that is let through adds to what is against a key, and it
   is let through when the key is not blocked. *)
LEMMA AheadStep ==
  ASSUME WebTypes, WebTypes', WebNext, NEW k \in Keys
  PROVE  \/ Ahead(k)' <= Ahead(k)
         \/ ~Blocked(k) /\ failures'[k] = failures[k]
<1>a. /\ failures[k] \in Nat /\ failures'[k] \in Nat
      /\ Pending(k) \in SUBSET Tabs /\ Pending(k)' \in SUBSET Tabs
  BY DEF WebTypes, Pending
<1>b. ASSUME failures'[k] <= failures[k], Pending(k)' \subseteq Pending(k)
      PROVE  Ahead(k)' <= Ahead(k)
  <2> DEFINE S == Pending(k)  T == Pending(k)'  f == failures[k]  g == failures'[k]
  <2>1. f \in Nat /\ g \in Nat /\ g <= f /\ S \in SUBSET Tabs /\ T \in SUBSET S
    BY <1>a, <1>b
  <2> HIDE DEF S, T, f, g
  <2>2. g + Cardinality(T) <= f + Cardinality(S)
    BY <2>1, NoFurther
  <2> QED
    BY <2>2 DEF S, T, f, g, Ahead
<1> USE DEF Go
<1>1. ASSUME NEW t \in Tabs, NEW address \in Addresses, Submit(t, address)
      PROVE  failures' = failures /\ Pending(k)' \subseteq Pending(k)
  BY <1>1 DEF Submit, Pending, WebTypes
<1>2. ASSUME NEW t \in Tabs, NEW given \in Typed, Authenticate(t, given)
      PROVE  failures' = failures /\ Pending(k)' \subseteq Pending(k)
  BY <1>2 DEF Authenticate, Pending, WebTypes
<1>3. ASSUME NEW t \in Tabs, Check(t)
      PROVE  /\ failures' = failures
             /\ ~Blocked(k) \/ Pending(k)' \subseteq Pending(k)
  BY <1>3 DEF Check, Pending, WebTypes
<1>4. ASSUME NEW t \in Tabs, Settle(t)
      PROVE  Ahead(k)' <= Ahead(k)
  <2>1. Pending(k)' \subseteq Pending(k)
    BY <1>4 DEF Settle, Pending, WebTypes
  <2>2. CASE k \in {login[t], Peer} /\ user[t] = Nobody
    <3> DEFINE S == Pending(k)  T == Pending(k)'  f == failures[k]  g == failures'[k]
    <3>1. t \in S \ T
      BY <1>4, <2>2 DEF Settle, Pending, WebTypes
    <3>2. g = f + 1
      BY <1>4, <2>2 DEF Settle
    <3>3. S \in SUBSET Tabs /\ T \in SUBSET S /\ f \in Nat
      BY <1>a, <2>1
    <3> HIDE DEF S, T, f, g
    <3>4. /\ Cardinality(T) + 1 <= Cardinality(S)
          /\ Cardinality(S) \in Nat /\ Cardinality(T) \in Nat
      BY <3>1, <3>3, TabsCounted
    <3>5. g + Cardinality(T) <= f + Cardinality(S)
      BY <3>2, <3>3, <3>4
    <3> QED
      BY <3>5 DEF S, T, f, g, Ahead
  <2>3. CASE ~(k \in {login[t], Peer} /\ user[t] = Nobody)
    <3>1. failures'[k] = failures[k] \/ failures'[k] = 0
      BY <1>4, <2>3 DEF Settle
    <3> QED
      BY <1>a, <1>b, <2>1, <3>1
  <2> QED
    BY <2>2, <2>3
<1>5. ASSUME NEW t \in Tabs, Identify(t) \/ WhoAmI(t) \/ Logout(t) \/ SignOut(t)
      PROVE  failures' = failures /\ Pending(k)' \subseteq Pending(k)
  BY <1>5 DEF Identify, WhoAmI, Logout, SignOut, Pending, WebTypes
<1>6. ASSUME NEW t \in Tabs, Receive(t)
      PROVE  failures' = failures /\ Pending(k)' \subseteq Pending(k)
  BY <1>6 DEF Receive, Pending, WebTypes
<1>7. ASSUME NEW t \in Tabs, Lose(t)
      PROVE  failures' = failures /\ Pending(k)' \subseteq Pending(k)
  BY <1>7, DropPending DEF Lose
<1>8. ASSUME NEW t \in Tabs, Reload(t)
      PROVE  failures' = failures /\ Pending(k)' \subseteq Pending(k)
  BY <1>8 DEF Reload, Pending, WebTypes
<1>9. ASSUME NEW j \in Keys, Forget(j)
      PROVE  failures'[k] <= failures[k] /\ Pending(k)' \subseteq Pending(k)
  BY <1>a, <1>9 DEF Forget, Pending, WebTypes
<1>10. ASSUME Expire
       PROVE  failures' = failures /\ Pending(k)' \subseteq Pending(k)
  BY <1>10 DEF Expire, Pending
<1>11. ASSUME Restart
       PROVE  failures'[k] = 0 /\ Pending(k)' \subseteq Pending(k)
  BY <1>11, DropPending DEF Restart
<1>12. ASSUME \/ failures' = failures \/ failures'[k] <= failures[k]
              \/ failures'[k] = 0,
              Pending(k)' \subseteq Pending(k)
       PROVE  Ahead(k)' <= Ahead(k)
  BY <1>a, <1>b, <1>12
<1> QED
  BY <1>1, <1>2, <1>3, <1>4, <1>5, <1>6, <1>7, <1>8, <1>9, <1>10, <1>11, <1>12
  DEF WebNext

LEMMA FailuresAheadStep ==
  ASSUME WebTypes, WebTypes', FailuresAhead, WebNext
  PROVE  FailuresAhead'
<1> SUFFICES ASSUME NEW k \in Keys
             PROVE  Ahead(k)' <= MaxFailures - 1 + Cardinality(Tabs)
  BY DEF FailuresAhead
<1> DEFINE S == Pending(k)  T == Pending(k)'  f == failures[k]  g == failures'[k]
<1>1. f \in Nat /\ g \in Nat /\ S \in SUBSET Tabs /\ T \in SUBSET Tabs
  BY DEF WebTypes, Pending
<1>2. f + Cardinality(S) <= MaxFailures - 1 + Cardinality(Tabs)
  BY DEF FailuresAhead, Ahead
<1>3. \/ g + Cardinality(T) <= f + Cardinality(S)
      \/ ~(f >= MaxFailures) /\ g = f
  BY AheadStep DEF Ahead, Blocked
<1> HIDE DEF S, T, f, g
<1>4. /\ Cardinality(S) \in Nat /\ Cardinality(T) \in Nat /\ Cardinality(Tabs) \in Nat
      /\ Cardinality(T) <= Cardinality(Tabs)
  BY <1>1, TabsCounted
<1>5. g + Cardinality(T) <= MaxFailures - 1 + Cardinality(Tabs)
  BY <1>1, <1>2, <1>3, <1>4, SessionsAssumption
<1> QED
  BY <1>5 DEF T, g, Ahead
----------------------------------------------------------------------------
(* All of it together. *)
LEMMA Parts ==
  IndInv <=> /\ LoginsInv /\ WebTypes /\ FormNames /\ FailuresAhead
             /\ SessionsEarned /\ InIsQuiet /\ SignedOff
BY DEF IndInv, WebInv, TypeOK, LoginsInv, WebTypes, SignedOff

LEMMA IndInvInit == Init => IndInv
<1> SUFFICES ASSUME Init
             PROVE  IndInv
  OBVIOUS
<1>1. LoginsInv
  BY LoginsInvInit DEF Init
<1>2. WebTypes
  BY SessionsAssumption DEF Init, WebTypes, Keys, Stages
<1>3. FormNames /\ SessionsEarned /\ InIsQuiet /\ SignedOff
  BY DEF Init, FormNames, SessionsEarned, InIsQuiet, SignedOff, NothingComes,
         SignedOutStays
<1>4. FailuresAhead
  <2> SUFFICES ASSUME NEW k \in Keys
               PROVE  failures[k] + Cardinality(Pending(k))
                        <= MaxFailures - 1 + Cardinality(Tabs)
    BY DEF FailuresAhead, Ahead
  <2>1. failures[k] = 0 /\ Pending(k) \in SUBSET Tabs /\ Pending(k) = {}
    BY DEF Init, Pending
  <2>2. Cardinality(Pending(k)) = 0
    BY <2>1, FS_EmptySet
  <2>3. Cardinality(Tabs) \in Nat
    BY SessionsAssumption, FS_CardinalityType
  <2> QED
    BY <2>1, <2>2, <2>3, SessionsAssumption
<1> QED
  BY <1>1, <1>2, <1>3, <1>4, Parts

LEMMA IndInvStutter ==
  ASSUME WebInv, users \subseteq users', UNCHANGED webVars
  PROVE  /\ WebTypes' /\ FormNames' /\ FailuresAhead' /\ SessionsEarned'
         /\ InIsQuiet' /\ SignedOff'
<1>1. WebTypes' /\ FormNames' /\ SessionsEarned' /\ InIsQuiet' /\ SignedOff'
  BY DEF WebInv, TypeOK, webVars, WebTypes, FormNames, SessionsEarned,
         InIsQuiet, SignedOff, NothingComes, SignedOutStays, Coming
<1>2. FailuresAhead'
  BY DEF WebInv, webVars, FailuresAhead, Ahead, Pending
<1> QED
  BY <1>1, <1>2

LEMMA IndInvStep == IndInv /\ [Next]_vars => IndInv'
<1> SUFFICES ASSUME IndInv, [Next]_vars
             PROVE  IndInv'
  OBVIOUS
<1>1. LoginsInv' /\ LoginsTypeOK
  BY LoginsInvNext DEF IndInv, LoginsInv
<1>2. CASE UNCHANGED webVars
  BY <1>1, <1>2, UsersStay, IndInvStutter
  DEF IndInv, WebInv, TypeOK, LoginsInv, WebTypes, SignedOff
<1>3. CASE WebNext
  <2>1. WebTypes'
    BY <1>1, <1>3, Parts, WebTypesStep
  <2>2. FormNames' /\ SessionsEarned' /\ InIsQuiet' /\ SignedOff'
    BY <1>1, <1>3, Parts, FormNamesStep, SessionsEarnedStep, InIsQuietStep,
       SignedOffStep
  <2>3. FailuresAhead'
    BY <1>3, <2>1, Parts, FailuresAheadStep
  <2> QED
    BY <1>1, <2>1, <2>2, <2>3
    DEF IndInv, WebInv, TypeOK, LoginsInv, WebTypes, SignedOff
<1> QED
  BY <1>2, <1>3 DEF Next, vars

LEMMA Inductive == Spec => []IndInv
BY IndInvInit, IndInvStep, PTL DEF Spec

(* The limit holds where the failures run ahead of nothing. *)
LEMMA AheadIsBounded == IndInv => FailuresBounded
<1> SUFFICES ASSUME IndInv, NEW k \in Keys
             PROVE  failures[k] <= MaxFailures - 1 + Cardinality(Tabs)
  BY DEF FailuresBounded
<1> DEFINE S == Pending(k)
<1>1. /\ failures[k] + Cardinality(S) <= MaxFailures - 1 + Cardinality(Tabs)
      /\ failures[k] \in Nat /\ S \in SUBSET Tabs
  BY Parts DEF FailuresAhead, Ahead, WebTypes, Pending
<1> HIDE DEF S
<1>2. Cardinality(S) \in Nat /\ Cardinality(Tabs) \in Nat
  BY <1>1, TabsCounted
<1> QED
  BY <1>1, <1>2, SessionsAssumption

(* Every variable of the tables, the handlers and the browser has its type. *)
THEOREM TypeCorrect == Spec => []TypeOK
<1>1. IndInv => TypeOK
  BY DEF IndInv, WebInv
<1> QED
  BY <1>1, Inductive, PTL

(* A user without a canonical address is one of an add-user with a taken login
   or of a remove-alias that was overtaken, and no user has two. *)
THEOREM UsersAddressable == Spec => []Addressable
<1>1. IndInv => Addressable
  BY DEF IndInv, LoginsInv
<1> QED
  BY <1>1, Inductive, PTL

(* However many tabs try at one time, a key is over its limit by no more than
   those attempts. *)
THEOREM LimiterBounded == Spec => []FailuresBounded
BY AheadIsBounded, Inductive, PTL

(* Whoever is locked out is not kept so by trying on: while a key is blocked,
   what is or may be recorded against it only decreases. *)
THEOREM BlocksFade == Spec => BlockFades
<1> DEFINE Fades == \A k \in Keys : Blocked(k) => Ahead(k)' <= Ahead(k)
<1>1. ASSUME IndInv, IndInv', Next PROVE Fades
  <2> SUFFICES ASSUME NEW k \in Keys, Blocked(k) PROVE Ahead(k)' <= Ahead(k)
    OBVIOUS
  <2>1. WebTypes /\ WebTypes'
    BY <1>1 DEF IndInv, WebInv, TypeOK, LoginsInv, WebTypes
  <2>2. CASE WebNext
    BY <2>1, <2>2, AheadStep
  <2>3. CASE UNCHANGED webVars
    <3> DEFINE S == Pending(k)  f == failures[k]
    <3>1. f \in Nat /\ S \in SUBSET Tabs /\ Ahead(k) = f + Cardinality(S)
      BY <2>1 DEF WebTypes, Pending, Ahead
    <3>2. Ahead(k)' = Ahead(k)
      BY <2>3 DEF webVars, Ahead, Pending
    <3> HIDE DEF S, f
    <3> QED
      BY <3>1, <3>2, TabsCounted
  <2> QED
    BY <1>1, <2>2, <2>3 DEF Next
<1>2. IndInv /\ IndInv' /\ [Next]_vars => [Fades]_vars
  BY <1>1
<1> QED
  BY <1>2, Inductive, PTL DEF Spec, BlockFades

(* A session is of somebody whose password was given in this browser. *)
THEOREM SessionsAreEarned == Spec => []SessionsEarned
<1>1. IndInv => SessionsEarned
  BY DEF IndInv, WebInv
<1> QED
  BY <1>1, Inductive, PTL

(* A sign-out that was answered while no session was on its way lasts until
   somebody signs in. *)
THEOREM SignOutLasts == Spec => []SignedOutStays
<1>1. IndInv => SignedOutStays
  BY DEF IndInv, WebInv
<1> QED
  BY <1>1, Inductive, PTL

(* What one step does to a login. *)
LEMMA LeadsStep ==
  ASSUME LoginsInv, [Next]_vars
  PROVE  \A l \in Addresses : Taken(l) /\ leads'[l] # Nobody => leads'[l] = leads[l]
<1> SUFFICES ASSUME NEW l \in Addresses, Taken(l), leads'[l] # Nobody
             PROVE  leads'[l] = leads[l]
  OBVIOUS
<1> USE DEF LoginsInv, LoginsTypeOK, Taken
<1>1. ASSUME NEW a \in Addresses, NEW u \in Buckets, CreateUser(a, u)
      PROVE  leads'[l] = leads[l]
  BY <1>1 DEF CreateUser
<1>2. ASSUME NEW old \in Addresses, NEW new \in Addresses, RenameUser(old, new)
      PROVE  leads'[l] = leads[l]
  BY <1>2 DEF RenameUser
<1>3. ASSUME NEW c \in Commands, InsertAlias(c) \/ DeleteAlias(c)
      PROVE  leads'[l] = leads[l]
  BY <1>3 DEF InsertAlias, DeleteAlias
<1>4. CASE UNCHANGED leads
  BY <1>4
<1> QED
  BY <1>1, <1>2, <1>3, <1>4, WebLeavesTables
  DEF Next, vars, loginsVars, LoginsNext, SetPassword, LookUpUser, LookUpAlias,
      Interrupt

(* No login passes from one user to another in one step. *)
THEOREM LoginsNeverMove == Spec => NeverMoved
<1> DEFINE Kept == \A l \in Addresses :
                     Taken(l) /\ leads'[l] # Nobody => leads'[l] = leads[l]
<1>1. IndInv /\ [Next]_vars => Kept
  BY LeadsStep DEF IndInv
<1>2. IndInv /\ [Next]_vars => [Kept]_leads
  BY <1>1
<1> QED
  BY <1>2, Inductive, PTL DEF Spec, NeverMoved
=============================================================================
