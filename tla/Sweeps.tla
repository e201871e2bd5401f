------------------------------- MODULE Sweeps -------------------------------
(***************************************************************************)
(* The refresh scheduler (src/ingest.rs: scheduler, refresh, run_sweep and *)
(* connect): one loop that sleeps, then walks every followed account, and  *)
(* in it every folder, reconnecting when a folder fails.  Meanwhile the    *)
(* operator follows and unfollows accounts and stores new credentials      *)
(* (src/db.rs), and a source may stop taking the old ones.                 *)
(*                                                                         *)
(* ingest_folder is one step here (Ingest has its insides).  A network     *)
(* step succeeds, fails, or the server stops answering it; then only a     *)
(* deadline ends it, and only some steps have one.                         *)
(***************************************************************************)
EXTENDS Naturals, Sequences, SequencesExt

CONSTANTS
  Accounts,     \* the registered accounts, in the order they are swept
  FoldersOf,    \* FoldersOf[a]: the folders of account a, as the server lists them
  Inbox,        \* the folder that every sweep looks at
  FullEvery,    \* FULL_EVERY: every how many ticks a sweep takes all folders
  MaxAttempts,  \* MAX_ATTEMPTS
  Dead,         \* accounts that are gone for good: any step of theirs may fail
  Broken,       \* <<account, folder>> that ingest_folder can never finish
  Silent,       \* steps at which a server may stop answering
  MaxFaults     \* bound: failures of the database and, of the accounts that are
                \* not dead, failures and rejected credentials

Connecting == {"resolve", "tcp", "tls", "greeting", "login"}
Steps      == Connecting \cup {"list", "folder", "logout"}

(* CONNECT_TIMEOUT twice, and HANDSHAKE_TIMEOUT. *)
Deadlines == {"tcp", "tls", "login"}

ASSUME SweepsAssumption ==
  /\ Accounts \in Seq(ToSet(Accounts))
  /\ \A a \in ToSet(Accounts) : FoldersOf[a] \in Seq(ToSet(FoldersOf[a]))
  /\ FullEvery \in Nat \ {0}
  /\ MaxAttempts \in Nat \ {0}
  /\ MaxFaults \in Nat
  /\ Silent \subseteq Steps
  /\ Dead \subseteq ToSet(Accounts)

VARIABLES
  follow,    \* accounts.follow
  valid,     \* the accounts whose stored credentials their source accepts
  tick,      \* the scheduler's counter, modulo FullEvery
  accounts,  \* accounts this sweep has left; the first is the current one
  folders,   \* folders the current account has left; likewise
  attempt,   \* which attempt at the current folder; 0 before the first folder
  at,        \* what the loop is doing
  held,      \* whether the source accepts the credentials the sweep resolved
  live,      \* whether the session it holds still works
  hung,      \* whether the server has stopped answering this step
  swept,     \* history: the folder ingested last
  faults     \* failures so far, but for those of dead accounts

operatorVars == <<follow, valid>>
loopVars     == <<tick, accounts, folders, attempt, at, held, live, hung, swept, faults>>
sweepVars    == <<operatorVars, loopVars>>

(* The first member of S in the order of s. *)
First(s, S) ==
  s[CHOOSE i \in DOMAIN s : s[i] \in S /\ \A j \in 1 .. i - 1 : s[j] \notin S]

Account == First(Accounts, accounts)
Name    == First(FoldersOf[Account], folders)
Folder  == <<Account, Name>>

AllFolders == UNION {{a} \X ToSet(FoldersOf[a]) : a \in ToSet(Accounts)}

SweepsInit ==
  /\ follow = {} /\ valid = {}
  /\ tick = 0 /\ at = "sleep"
  /\ accounts = {} /\ folders = {} /\ attempt = 0
  /\ held = FALSE /\ live = FALSE /\ hung = FALSE
  /\ swept = <<>> /\ faults = 0

Start ==
  /\ tick' = 0 /\ at' = "sleep"
  /\ accounts' = {} /\ folders' = {} /\ attempt' = 0
  /\ held' = FALSE /\ live' = FALSE /\ hung' = FALSE

(* follow on and off. *)
SetFollow(a) ==
  /\ follow' = IF a \in follow THEN follow \ {a} ELSE follow \cup {a}
  /\ UNCHANGED <<valid, loopVars>>

(* set-source or set-google, with credentials the source takes. *)
SetSource(a) ==
  /\ a \notin valid
  /\ valid' = valid \cup {a}
  /\ UNCHANGED <<follow, loopVars>>

(* The source takes the stored credentials no longer, nor those resolved. *)
Revoke(a) ==
  /\ a \in valid \ Dead /\ faults < MaxFaults
  /\ faults' = faults + 1
  /\ valid' = valid \ {a}
  /\ held' = (held /\ (accounts = {} \/ Account # a))
  /\ UNCHANGED <<follow, tick, accounts, folders, attempt, at, live, hung, swept>>

Operator == \E a \in ToSet(Accounts) : SetFollow(a) \/ SetSource(a) \/ Revoke(a)

(* One tick: the sweep begins with the accounts followed now; they are read
   user by user, and one that changes meanwhile is as if changed just before
   or just after. *)
Wake ==
  /\ at = "sleep"
  /\ at' = "sweep"
  /\ tick' = (tick + 1) % FullEvery
  /\ accounts' = follow
  /\ UNCHANGED <<folders, attempt, held, live, hung, swept, faults>>

(* The database does not say who is followed: this tick goes by. *)
WakeInVain ==
  /\ at = "sleep" /\ faults < MaxFaults
  /\ faults' = faults + 1
  /\ tick' = (tick + 1) % FullEvery
  /\ UNCHANGED <<accounts, folders, attempt, at, held, live, hung, swept>>

StartAccount ==
  /\ at = "sweep" /\ accounts # {}
  /\ at' = "resolve"
  /\ UNCHANGED <<tick, accounts, folders, attempt, held, live, hung, swept, faults>>

EndSweep ==
  /\ at = "sweep" /\ accounts = {}
  /\ at' = "sleep"
  /\ UNCHANGED <<tick, accounts, folders, attempt, held, live, hung, swept, faults>>

(* Mutant: the first account that fails ends the sweep. *)
LeaveAccountAndStop ==
  /\ at' = "sweep"
  /\ accounts' = {}
  /\ folders' = {} /\ attempt' = 0 /\ held' = FALSE /\ live' = FALSE
  /\ UNCHANGED <<tick, swept>>

(* run_sweep returns, with or without an error: on to the next account. *)
LeaveAccount ==
  /\ at' = "sweep"
  /\ accounts' = accounts \ {Account}
  /\ folders' = {} /\ attempt' = 0 /\ held' = FALSE /\ live' = FALSE
  /\ UNCHANGED <<tick, swept>>

(* The credentials as they are stored by now; a Google token is new each time. *)
Resolve ==
  /\ at = "resolve" /\ ~hung
  /\ at' = "tcp"
  /\ held' = (Account \in valid)
  /\ UNCHANGED <<tick, accounts, folders, attempt, live, hung, swept, faults>>

(* A step of the connection is answered. *)
Connect ==
  LET next == [tcp |-> "tls", tls |-> "greeting", greeting |-> "login"]
  IN  /\ at \in DOMAIN next /\ ~hung
      /\ at' = next[at]
      /\ UNCHANGED <<tick, accounts, folders, attempt, held, live, hung, swept, faults>>

(* Authenticated: on to LIST, or to the folder that failed. *)
Login ==
  /\ at = "login" /\ ~hung /\ held
  /\ live' = TRUE
  /\ \/ attempt = 0 /\ at' = "list" /\ UNCHANGED attempt
     \/ attempt > 0 /\ at' = "folder" /\ attempt' = attempt + 1
  /\ UNCHANGED <<tick, accounts, folders, held, hung, swept, faults>>

(* LIST is answered: the quick sweep keeps the inbox only. *)
List ==
  LET all   == ToSet(FoldersOf[Account])
      names == IF tick = 0 THEN all ELSE all \cap {Inbox}
  IN  /\ at = "list" /\ ~hung
      /\ folders' = names
      /\ \/ names # {} /\ attempt' = 1 /\ at' = "folder"
         \/ names = {} /\ attempt' = 0 /\ at' = "logout"
      /\ UNCHANGED <<tick, accounts, held, live, hung, swept, faults>>

(* ingest_folder went through. *)
IngestFolder ==
  /\ at = "folder" /\ ~hung /\ live
  /\ Folder \notin Broken
  /\ swept' = Folder
  /\ folders' = folders \ {Name}
  /\ \/ folders # {Name} /\ attempt' = 1 /\ UNCHANGED at
     \/ folders = {Name} /\ attempt' = 0 /\ at' = "logout"
  /\ UNCHANGED <<tick, accounts, held, live, hung, faults>>

(* Every folder is done.  Whether LOGOUT was answered well is ignored. *)
Logout ==
  /\ at = "logout" /\ ~hung
  /\ LeaveAccount
  /\ UNCHANGED <<hung, faults>>

(* Mutant: the attempts at a folder are not counted out. *)
FolderFailsForever ==
  /\ at' = "backoff"
  /\ UNCHANGED <<tick, accounts, folders, attempt, held, swept>>

(* ingest_folder returned an error: try again, or give the account up. *)
FolderFails ==
  \/ /\ attempt < MaxAttempts
     /\ at' = "backoff"
     /\ UNCHANGED <<tick, accounts, folders, attempt, held, swept>>
  \/ attempt = MaxAttempts /\ LeaveAccount

(* After the delay: a fresh credential, then a fresh session. *)
Backoff ==
  /\ at = "backoff"
  /\ at' = "resolve"
  /\ UNCHANGED <<tick, accounts, folders, attempt, held, live, hung, swept, faults>>

(* A step failed.  Before the first folder and after the last that ends the
   account.  On a reconnect, the old credential will have to do; without a connection the
   next attempt is made on the old session. *)
StepFails ==
  \/ attempt = 0 /\ LeaveAccount
  \/ /\ attempt > 0 /\ at = "resolve"
     /\ at' = "tcp"
     /\ UNCHANGED <<tick, accounts, folders, attempt, held, live, swept>>
  \/ /\ attempt > 0 /\ at \in Connecting \ {"resolve"}
     /\ at' = "folder" /\ attempt' = attempt + 1
     /\ UNCHANGED <<tick, accounts, folders, held, live, swept>>
  \/ /\ at = "folder"
     /\ live' = FALSE
     /\ FolderFails

Fault ==
  \/ Account \in Dead /\ UNCHANGED faults
  \/ Account \notin Dead /\ faults < MaxFaults /\ faults' = faults + 1

Fail ==
  /\ at \in Steps /\ ~hung
  /\ Fault
  /\ StepFails
  /\ UNCHANGED hung

(* The source does not take the credentials, which costs no fault. *)
Reject ==
  /\ at = "login" /\ ~hung /\ ~held
  /\ StepFails
  /\ UNCHANGED <<hung, faults>>

(* The folder cannot be read, or the session is no longer any good. *)
FailFolder ==
  /\ at = "folder" /\ ~hung
  /\ ~live \/ Folder \in Broken
  /\ live' = (live /\ attempt < MaxAttempts)
  /\ FolderFails
  /\ UNCHANGED <<hung, faults>>

(* The connection is open and the server says nothing. *)
Silence ==
  /\ at \in Silent /\ ~hung
  /\ Fault
  /\ hung' = TRUE
  /\ UNCHANGED <<tick, accounts, folders, attempt, at, held, live, swept>>

Timeout ==
  /\ hung /\ at \in Deadlines
  /\ hung' = FALSE
  /\ StepFails
  /\ UNCHANGED faults

LoopStep ==
  \/ Wake
  \/ WakeInVain
  \/ StartAccount
  \/ EndSweep
  \/ Resolve
  \/ Connect
  \/ Login
  \/ List
  \/ IngestFolder
  \/ Logout
  \/ Backoff
  \/ Fail
  \/ Reject
  \/ FailFolder
  \/ Silence
  \/ Timeout

Loop == LoopStep /\ UNCHANGED operatorVars
----------------------------------------------------------------------------
(* Every variable has its type; so no folder is tried more than MaxAttempts
   times in a sweep. *)
SweepsTypeOK ==
  /\ follow \subseteq ToSet(Accounts) /\ valid \subseteq ToSet(Accounts)
  /\ tick \in 0 .. FullEvery - 1
  /\ accounts \subseteq ToSet(Accounts)
  /\ attempt \in 0 .. MaxAttempts
  /\ at \in Steps \cup {"sleep", "sweep", "backoff"}
  /\ held \in BOOLEAN /\ live \in BOOLEAN /\ hung \in BOOLEAN
  /\ swept \in AllFolders \cup {<<>>}
  /\ faults \in 0 .. MaxFaults
  /\ folders # {} => accounts # {} /\ folders \subseteq ToSet(FoldersOf[Account])

(* The loop comes back to its sleep.  Whatever fails, each step of a sweep has
   one account less before it, or lists the folders of this one, or has one
   folder less, or makes one more of MAX_ATTEMPTS attempts, or is a stage
   further in the attempt; or else the server falls silent, and where there is
   a deadline the timeout does one of these.  So errors alone, however many and
   in whatever order, keep no sweep from its end. *)
Stage == [sweep |-> 0, folder |-> 1, backoff |-> 2, resolve |-> 3, tcp |-> 4,
          tls |-> 5, greeting |-> 6, login |-> 7, list |-> 8, logout |-> 9,
          sleep |-> 10]

Listed == folders # {} \/ at = "logout"

Fewer(S, T) == S \subseteq T /\ S # T

Advances ==
  \/ Fewer(accounts', accounts)
  \/ /\ accounts' = accounts
     /\ ~Listed /\ Listed'
  \/ /\ accounts' = accounts /\ Listed' = Listed
     /\ Fewer(folders', folders)
  \/ /\ UNCHANGED <<accounts, Listed, folders>>
     /\ attempt < attempt' /\ attempt' <= MaxAttempts
  \/ /\ UNCHANGED <<accounts, Listed, folders, attempt>>
     /\ \/ Stage[at] < Stage[at']
        \/ at' = at /\ ~hung /\ hung'

SweepEnds == [][Loop /\ at # "sleep" => Advances]_sweepVars

(* A folder of an account that is followed and can be logged in to is ingested
   again and again, whatever becomes of the accounts before it, as the doc of
   refresh says, and whenever its credentials are replaced.  Not one behind a
   broken folder of its own account, though: run_sweep gives the account up
   there. *)
EveryFolderSwept ==
  \A a \in ToSet(Accounts) \ Dead : \A i \in DOMAIN FoldersOf[a] :
    (\A j \in 1 .. i : <<a, FoldersOf[a][j]>> \notin Broken)
      => \/ []<>(swept = <<a, FoldersOf[a][i]>>)
         \/ []<>(a \notin follow) \/ []<>(a \notin valid)
=============================================================================
