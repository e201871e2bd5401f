------------------------------- MODULE UidLog -------------------------------
(***************************************************************************)
(* What one user's folders promise to the clients that read them: each     *)
(* folder is a gapless list of entries numbered by archive UID.  A new     *)
(* entry takes the next UID, a UID is never reissued and an entry never    *)
(* goes away.  The only entry whose message may change is a gap (the empty *)
(* message a failed fetch leaves behind), which repair may fill.           *)
(*                                                                         *)
(* This is the abstract specification; Placements, with its transactions   *)
(* and locks, is shown to implement it.                                    *)
(***************************************************************************)
EXTENDS Naturals

CONSTANTS
  Folders,    \* folder rows
  Contents,   \* distinct message bytes, identified by their hash
  Empty       \* the hash of no bytes at all: EMPTY_BLAKE3

VARIABLES
  next,       \* next[f]: the UID the next entry of f will get
  entries     \* the entries every client can see, over all folders

logVars == <<next, entries>>

Entry == [folder : Folders, uid : Nat \ {0}, msg : Contents \cup {Empty}]

EntriesOf(f) == {e \in entries : e.folder = f}

LogInit ==
  /\ next \in [Folders -> Nat \ {0}]
  /\ entries \in SUBSET Entry
  /\ \A f \in Folders : {e.uid : e \in EntriesOf(f)} = 1 .. (next[f] - 1)
  /\ \A d, e \in entries : d.folder = e.folder /\ d.uid = e.uid => d = e

(* Mutant: the counter as it is after the UPDATE. *)
DeliverAfter(f, m) ==
  /\ \A e \in EntriesOf(f) : e.msg # m
  /\ next' = [next EXCEPT ![f] = @ + 1]
  /\ entries' = entries \cup {[folder |-> f, uid |-> next'[f], msg |-> m]}

(* A message the folder does not show yet is appended at the next UID. *)
Deliver(f, m) ==
  /\ \A e \in EntriesOf(f) : e.msg # m
  /\ entries' = entries \cup {[folder |-> f, uid |-> next[f], msg |-> m]}
  /\ next' = [next EXCEPT ![f] = @ + 1]

(* A gap is replaced by the message that belongs there, at the same UID. *)
Fill(e, m) ==
  /\ e \in entries
  /\ e.msg = Empty
  /\ m # Empty
  /\ entries' = (entries \ {e}) \cup {[e EXCEPT !.msg = m]}
  /\ UNCHANGED next

LogNext ==
  \/ \E f \in Folders, m \in Contents \cup {Empty} : Deliver(f, m)
  \/ \E e \in entries, m \in Contents : Fill(e, m)

LogSpec == LogInit /\ [][LogNext]_logVars
----------------------------------------------------------------------------
(* What a client that keeps UIDs relies on when it comes back: an entry is
   still there under its UID, with its message unless it was a gap, and an
   entry it has not seen has the UID that was announced as the next. *)
SameUid(d, e) == d.folder = e.folder /\ d.uid = e.uid

KeepsUids ==
  /\ \A e \in entries :
       \E d \in entries' : SameUid(d, e) /\ (d.msg = e.msg \/ e.msg = Empty)
  /\ \A d \in entries' :
       (\E e \in entries : SameUid(d, e)) \/ d.uid = next[d.folder]

UidsStay == [][KeepsUids]_logVars
=============================================================================
