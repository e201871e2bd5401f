---------------------------- MODULE CertReloader ----------------------------
(***************************************************************************)
(* The certificate of the listeners (src/tls.rs): CertReloader::new at the *)
(* start, acceptor() at each connection, and certbot behind their backs,   *)
(* which replaces the two files one after the other, in any order and not  *)
(* at one stroke.                                                          *)
(*                                                                         *)
(* acceptor() holds a mutex throughout, so one call is under way at most.  *)
(* A modification time is the number of writes to the file before it.      *)
(***************************************************************************)
EXTENDS Naturals

CONSTANT
  MaxRenewals  \* bound: how often certbot renews

ASSUME RenewalsAssumption == MaxRenewals \in Nat

VARIABLES
  newest,   \* the certificate issued last
  todo,     \* the files certbot has yet to replace by it
  disk,     \* whose certificate or key a file holds; 0 when half-written
  written,  \* modification time of the certificate's file
  step,     \* what the reloader is about to do
  read,     \* the certificate it has read in this call
  seen,     \* the modification time it has read in this call
  stamp,    \* Loaded.stamp
  served,   \* Loaded.acceptor
  raced     \* history: renewed between the certificate and the stamp of new

diskVars   == <<newest, todo, disk, written>>
loadedVars == <<step, read, seen, stamp, served, raced>>
certVars   == <<diskVars, loadedVars>>

Certificate == "certificate"
Key         == "key"

Files     == {Certificate, Key}
Versions  == 1 .. MaxRenewals + 1
Half      == 0
Starting  == {"down", "new key", "new stamp"}
Listening == step \notin Starting

CertInit ==
  /\ newest = 1 /\ todo = {} /\ disk = [f \in Files |-> 1] /\ written = 0
  /\ step = "down" /\ read = Half /\ seen = 0
  /\ stamp = 0 /\ served = 1 /\ raced = FALSE

Renew ==
  /\ todo = {} /\ newest <= MaxRenewals
  /\ newest' = newest + 1
  /\ todo' = Files
  /\ UNCHANGED <<disk, written, loadedVars>>

(* certbot writes: at first the file is short of its end. *)
Write(f) ==
  /\ f \in todo
  /\ disk' = [disk EXCEPT ![f] = IF @ = Half THEN newest ELSE Half]
  /\ todo' = IF disk[f] = Half THEN todo \ {f} ELSE todo
  /\ written' = IF f = Certificate THEN written + 1 ELSE written
  /\ UNCHANGED <<newest, loadedVars>>

(* new: the certificate.  Without one the process ends, and is started again. *)
NewCert ==
  /\ step = "down"
  /\ disk[Certificate] # Half
  /\ step' = "new key" /\ read' = disk[Certificate]
  /\ UNCHANGED <<seen, stamp, served, raced, diskVars>>

(* new: the key, which must be the certificate's. *)
NewKey ==
  /\ step = "new key"
  /\ \/ disk[Key] = read /\ step' = "new stamp" /\ served' = read
     \/ disk[Key] # read /\ step' = "down" /\ UNCHANGED served
  /\ read' = Half
  /\ UNCHANGED <<seen, stamp, raced, diskVars>>

(* new: the time of the file as it is by now. *)
NewStamp ==
  /\ step = "new stamp"
  /\ step' = "accept" /\ stamp' = written
  /\ raced' = (disk[Certificate] \notin {served, Half})
  /\ UNCHANGED <<read, seen, served, diskVars>>

(* acceptor: the time first. *)
Stat ==
  /\ step = "accept"
  /\ stamp # written
  /\ step' = "certificate" /\ seen' = written
  /\ UNCHANGED <<read, stamp, served, raced, diskVars>>

LoadCert ==
  /\ step = "certificate"
  /\ \/ disk[Certificate] # Half /\ step' = "key" /\ read' = disk[Certificate]
     \/ disk[Certificate] = Half /\ step' = "accept" /\ UNCHANGED read
  /\ seen' = IF disk[Certificate] = Half THEN 0 ELSE seen
  /\ UNCHANGED <<stamp, served, raced, diskVars>>

(* Mutant: the time is taken after the files, as new does it. *)
LoadKeyThenStat ==
  /\ step = "key" /\ step' = "accept"
  /\ \/ disk[Key] = read /\ served' = read /\ stamp' = written /\ raced' = FALSE
     \/ disk[Key] # read /\ UNCHANGED <<served, stamp, raced>>
  /\ read' = Half /\ seen' = 0
  /\ UNCHANGED diskVars

(* Mutant: the time is kept even if the files are no good. *)
LoadKeyOnce ==
  /\ step = "key" /\ step' = "accept"
  /\ stamp' = seen
  /\ \/ disk[Key] = read /\ served' = read /\ raced' = FALSE
     \/ disk[Key] # read /\ UNCHANGED <<served, raced>>
  /\ read' = Half /\ seen' = 0
  /\ UNCHANGED diskVars

(* acceptor: the key.  If it is not the certificate's, all stays as it was and
   the next connection tries again. *)
LoadKey ==
  /\ step = "key" /\ step' = "accept"
  /\ \/ disk[Key] = read /\ served' = read /\ stamp' = seen /\ raced' = FALSE
     \/ disk[Key] # read /\ UNCHANGED <<served, stamp, raced>>
  /\ read' = Half /\ seen' = 0
  /\ UNCHANGED diskVars

(* The process ends. *)
Down ==
  /\ step' = "down"
  /\ read' = Half /\ seen' = 0
  /\ UNCHANGED <<stamp, served, raced, diskVars>>

Certbot  == \E f \in Files : Write(f)
Reloader ==
  \/ NewCert
  \/ NewKey
  \/ NewStamp
  \/ Stat
  \/ LoadCert
  \/ LoadKey
----------------------------------------------------------------------------
(* Every variable has its type. *)
CertTypeOK ==
  /\ newest \in Versions
  /\ todo \subseteq Files
  /\ disk \in [Files -> Versions \cup {Half}]
  /\ written \in Nat /\ seen \in Nat /\ stamp \in Nat
  /\ step \in Starting \cup {"accept", "certificate", "key"}
  /\ read \in Versions \cup {Half} /\ served \in Versions
  /\ raced \in BOOLEAN

(* If the stamp says that nothing has changed, the certificate served is the
   one on disk, "a renewal is noticed" (src/tls.rs) -- unless the files were
   renewed while new was reading them. *)
StampHonest ==
  Listening /\ stamp = written /\ disk[Certificate] # Half
    => served = disk[Certificate] \/ raced

(* A renewal is served in the end, whenever it fell and however long the files
   did not go together. *)
RenewalNoticed == <>[](Listening => served = newest) \/ <>[]raced
=============================================================================
