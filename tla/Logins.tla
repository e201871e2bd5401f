------------------------------- MODULE Logins -------------------------------
(***************************************************************************)
(* The users of the archive, the logins that lead to them and their        *)
(* passwords (src/db.rs over the tables of migration 0011), under the      *)
(* commands of the operator: add-user, rename-user, alias, remove-alias    *)
(* and set-password.  Each command is a process of its own; alias and      *)
(* remove-alias are two statements without a transaction, the others one   *)
(* statement, or one transaction whose outcome is that of its last one.    *)
(*                                                                         *)
(* A user is known by the bucket, which is unique and never changes.       *)
(***************************************************************************)
EXTENDS Naturals, FiniteSets

CONSTANTS
  Buckets,    \* the buckets users can be created with
  Addresses,  \* email addresses, each a login or free
  Passwords,
  Nobody,     \* what a free address leads to
  Unset,      \* the password hash '!', which no password matches
  Commands,   \* processes of alias and remove-alias that run at one time
  MaxChanges  \* bound: writes to the tables

ASSUME LoginsAssumption ==
  /\ Nobody \notin Buckets
  /\ Unset \notin Passwords
  /\ MaxChanges \in Nat

VARIABLES
  users,     \* table users
  leads,     \* table user_logins: the user a login leads to
  primary,   \* the logins with is_primary
  password,  \* users.password_hash
  command,   \* what a process has looked up, or Idle
  changes,   \* writes so far
  nameless,  \* history: users whose add-user named a login that was taken
  overtaken  \* history: users whose canonical row a remove-alias took for an alias

loginsVars ==
  <<users, leads, primary, password, command, changes, nameless, overtaken>>

Idle == [kind |-> "idle"]

Taken(login)    == leads[login] # Nobody
CanonicalOf(user) == {login \in primary : leads[login] = user}

Change == changes < MaxChanges /\ changes' = changes + 1

LoginsInit ==
  /\ users = {} /\ primary = {}
  /\ leads = [login \in Addresses |-> Nobody]
  /\ password = [user \in Buckets |-> Unset]
  /\ command = [c \in Commands |-> Idle]
  /\ changes = 0 /\ nameless = {} /\ overtaken = {}

(* add-user: the user is inserted or found by its bucket, and the login is
   inserted as its canonical address unless someone has it.  A second
   canonical address is refused by the index, and with it the transaction. *)
CreateUser(login, user) ==
  /\ Change
  /\ users' = users \cup {user}
  /\ \/ /\ Taken(login)
        /\ nameless' = IF user \in users THEN nameless ELSE nameless \cup {user}
        /\ UNCHANGED <<leads, primary, overtaken>>
     \/ /\ ~Taken(login) /\ CanonicalOf(user) = {}
        /\ leads' = [leads EXCEPT ![login] = user]
        /\ primary' = primary \cup {login}
        /\ nameless' = nameless \ {user} /\ overtaken' = overtaken \ {user}
  /\ UNCHANGED <<password, command>>

(* rename-user: the row itself, canonical or not, in one UPDATE. *)
RenameUser(old, new) ==
  /\ Change
  /\ Taken(old) /\ ~Taken(new)
  /\ leads' = [leads EXCEPT ![old] = Nobody, ![new] = leads[old]]
  /\ primary' = IF old \in primary THEN (primary \ {old}) \cup {new} ELSE primary
  /\ UNCHANGED <<users, password, command, nameless, overtaken>>

(* set-password: one password per user, whichever login names them. *)
SetPassword(login, new) ==
  /\ Change /\ Taken(login)
  /\ password' = [password EXCEPT ![leads[login]] = new]
  /\ UNCHANGED <<users, leads, primary, command, nameless, overtaken>>

(* alias: whom the existing login leads to. *)
LookUpUser(c, existing, alias) ==
  /\ command[c] = Idle /\ Taken(existing)
  /\ command' = [command EXCEPT ![c] =
       [kind |-> "alias", login |-> alias, user |-> leads[existing]]]
  /\ UNCHANGED <<users, leads, primary, password, changes, nameless, overtaken>>

(* alias: the INSERT, which the primary key refuses if the alias is taken. *)
InsertAlias(c) ==
  /\ Change /\ command[c].kind = "alias"
  /\ leads' = IF Taken(command[c].login) THEN leads
              ELSE [leads EXCEPT ![command[c].login] = command[c].user]
  /\ command' = [command EXCEPT ![c] = Idle]
  /\ UNCHANGED <<users, primary, password, nameless, overtaken>>

(* Mutant: remove-alias does not ask whether the login is canonical. *)
LookUpAnyLogin(c, alias) ==
  /\ command[c] = Idle /\ Taken(alias)
  /\ command' = [command EXCEPT ![c] =
       [kind |-> "remove", login |-> alias, canonical |-> alias \in primary]]
  /\ UNCHANGED <<users, leads, primary, password, changes, nameless, overtaken>>

(* remove-alias: the row, which must not be a canonical address. *)
LookUpAlias(c, alias) ==
  /\ command[c] = Idle /\ Taken(alias) /\ alias \notin primary
  /\ command' = [command EXCEPT ![c] =
       [kind |-> "remove", login |-> alias, canonical |-> alias \in primary]]
  /\ UNCHANGED <<users, leads, primary, password, changes, nameless, overtaken>>

(* remove-alias: the DELETE, of whatever row has that login by now. *)
DeleteAlias(c) ==
  /\ Change /\ command[c].kind = "remove"
  /\ LET login == command[c].login IN
       /\ leads' = [leads EXCEPT ![login] = Nobody]
       /\ primary' = primary \ {login}
       /\ overtaken' = IF login \in primary /\ ~command[c].canonical
                       THEN overtaken \cup {leads[login]} ELSE overtaken
  /\ command' = [command EXCEPT ![c] = Idle]
  /\ UNCHANGED <<users, password, nameless>>

(* The process is killed between its two statements. *)
Interrupt(c) ==
  /\ command[c] # Idle
  /\ command' = [command EXCEPT ![c] = Idle]
  /\ UNCHANGED <<users, leads, primary, password, changes, nameless, overtaken>>

LoginsNext ==
  \/ \E login \in Addresses, user \in Buckets : CreateUser(login, user)
  \/ \E old, new \in Addresses : RenameUser(old, new)
  \/ \E login \in Addresses, new \in Passwords : SetPassword(login, new)
  \/ \E c \in Commands, existing, alias \in Addresses : LookUpUser(c, existing, alias)
  \/ \E c \in Commands, alias \in Addresses : LookUpAlias(c, alias)
  \/ \E c \in Commands : InsertAlias(c)
  \/ \E c \in Commands : DeleteAlias(c)
  \/ \E c \in Commands : Interrupt(c)
----------------------------------------------------------------------------
Looked ==
  {Idle} \cup [kind : {"alias"}, login : Addresses, user : Buckets]
         \cup [kind : {"remove"}, login : Addresses, canonical : BOOLEAN]

(* The tables have their types and their foreign key. *)
LoginsTypeOK ==
  /\ users \subseteq Buckets
  /\ leads \in [Addresses -> users \cup {Nobody}]
  /\ primary \subseteq {login \in Addresses : Taken(login)}
  /\ password \in [Buckets -> Passwords \cup {Unset}]
  /\ command \in [Commands -> Looked]
  /\ changes \in 0 .. MaxChanges
  /\ nameless \subseteq users /\ overtaken \subseteq users

(* Every user has exactly one canonical address, as migration 0011 and
   create_user say, and remove_alias leaves it alone.  Two things break this,
   and nothing else: an add-user that names a login somebody has, and a
   remove-alias whose row became another between its two statements. *)
Addressable ==
  \A user \in users :
    /\ \A a, b \in CanonicalOf(user) : a = b
    /\ CanonicalOf(user) = {} <=> user \in nameless \cup overtaken

(* A login that leads to someone never leads to someone else in the next
   moment: add_alias fails rather than silently moving it. *)
NeverMoved ==
  [][\A l \in Addresses : Taken(l) /\ leads'[l] # Nobody => leads'[l] = leads[l]]_leads
----------------------------------------------------------------------------
(* What makes them inductive. *)

(* What a process has looked up was so once: an alias is of a user there is,
   and no canonical row is to be removed. *)
CommandsHonest ==
  \A c \in Commands :
    /\ command[c].kind = "alias" => command[c].user \in users
    /\ command[c].kind = "remove" => ~command[c].canonical

LoginsInv == LoginsTypeOK /\ CommandsHonest /\ Addressable
=============================================================================
