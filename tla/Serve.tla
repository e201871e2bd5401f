-------------------------------- MODULE Serve --------------------------------
(***************************************************************************)
(* The process of email-archiver serve --refresh (src/main.rs,             *)
(* src/server.rs): the scheduler is spawned beside the listener, and the   *)
(* two end together, when the process is killed or when it comes up and    *)
(* cannot use its certificate.  The scheduler's first sleep outlasts the   *)
(* start of the listener.                                                  *)
(***************************************************************************)
EXTENDS Sweeps, CertReloader

CONSTANT
  MaxRestarts  \* bound: how often the process is killed

ASSUME RestartsAssumption == MaxRestarts \in Nat

VARIABLE
  restarts

vars == <<sweepVars, certVars, restarts>>

Init ==
  /\ SweepsInit
  /\ CertInit
  /\ restarts = 0

Restart ==
  /\ restarts < MaxRestarts
  /\ restarts' = restarts + 1
  /\ Down
  /\ Start
  /\ UNCHANGED <<operatorVars, swept, faults>>

(* One step of the scheduler; of the reloader; of certbot. *)
Schedule == Listening /\ Loop /\ UNCHANGED <<certVars, restarts>>
Reload   == Reloader /\ UNCHANGED <<sweepVars, restarts>>
Replace  == Certbot /\ UNCHANGED <<sweepVars, restarts>>

Next ==
  \/ Schedule
  \/ Reload
  \/ Replace
  \/ Operator /\ UNCHANGED <<certVars, restarts>>
  \/ Renew /\ UNCHANGED <<sweepVars, restarts>>
  \/ Restart

(* Nothing in the loop waits for anything but the network and the clock;
   connections keep coming, the process is started again when it ends, and
   certbot finishes what it has begun. *)
Fairness == WF_vars(Schedule) /\ WF_vars(Reload) /\ WF_vars(Replace)

Spec == Init /\ [][Next]_vars /\ Fairness
----------------------------------------------------------------------------
(* Every variable has its type. *)
TypeOK ==
  /\ SweepsTypeOK
  /\ CertTypeOK
  /\ restarts \in 0 .. MaxRestarts
----------------------------------------------------------------------------
(* What makes them inductive. *)

(* The loop is in an account where it works on one, and in a folder from the
   first attempt at one to the last; what it is about to attempt, it may. *)
LoopInv ==
  /\ at \in {"sleep", "sweep"} => folders = {}
  /\ at \notin {"sleep", "sweep"} => accounts # {}
  /\ at \in {"folder", "backoff"} => folders # {}
  /\ attempt = 0 <=> folders = {}
  /\ at \in Connecting \cup {"backoff"} => attempt < MaxAttempts
  /\ at \in {"list", "logout"} => folders = {}

(* A certificate that waits for its key is whole. *)
ReadWhole == step \in {"new key", "key"} => read # Half

(* No time read is ahead of the file's. *)
NoneAhead == stamp <= written /\ seen <= written

(* What was read under the file's present time is what the file holds. *)
ReadPresent == step = "key" /\ seen = written => read = disk[Certificate]

ReloadInv == ReadWhole /\ NoneAhead /\ ReadPresent

IndInv == TypeOK /\ LoopInv /\ ReloadInv /\ StampHonest
=============================================================================
