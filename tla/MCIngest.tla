------------------------------ MODULE MCIngest ------------------------------
(* Small mailboxes and one or two passes; the runs differ in which messages   *)
(* always come short, which failures happen and how many.                     *)
EXTENDS Ingest, TLC

Symmetry == Permutations(Passes)

(* Sound where no message is undeliverable. *)
SameForAll == Permutations(Passes) \cup Permutations(Contents)

(* Other folders receive messages while nothing fails, and they do, and bodies
   come short or not at all, under the first UIDVALIDITY only. *)
FewAtOnce ==
  /\ elsewhere = {} \/ faults = 0
  /\ source.val = 1 \/ (elsewhere = {} /\ omitted = {} /\ cut = {})
=============================================================================
