----------------------------- MODULE Placements -----------------------------
(***************************************************************************)
(* The index transactions of the archive (src/db.rs), at the granularity   *)
(* of their SQL statements under READ COMMITTED: store_message's           *)
(*    upsert_message; place_message; commit                                *)
(* repair's                                                                *)
(*    upsert_message; repoint_placement; commit                            *)
(* and drop_empty_message_if_unused.  Any number of store tasks run at     *)
(* once (buffer_unordered inside a pass, and a CLI ingest beside the       *)
(* scheduler); repair is one process and handles one placement at a time.  *)
(*                                                                         *)
(* Row locks are not stored, they follow from where a transaction is:      *)
(* upsert_message leaves the message row locked until the transaction      *)
(* ends, and the UPDATE that hands out a UID leaves the folder row locked. *)
(* What a transaction wrote is invisible to the others until it commits.   *)
(***************************************************************************)
EXTENDS Naturals

CONSTANTS
  Folders,      \* folder rows of one user
  Contents,     \* non-empty messages, by hash
  Empty,        \* EMPTY_BLAKE3, the hash of a failed fetch
  SourceUids,   \* UIDs of the source mailbox
  NoSource,     \* a NULL source_uid: the row predates the column
  Tasks,        \* concurrent store_message tasks
  Repairer,     \* the `email repair` process
  MaxUid,       \* bound of the model: no store begins past this UID
  Legacy,       \* placements made before source_uid existed
  LegacyNext    \* uidnext of each folder at that time

Messages  == Contents \cup {Empty}
Processes == Tasks \cup {Repairer}
Sources   == SourceUids \cup {NoSource}

Placement == [folder : Folders, uid : Nat \ {0}, msg : Messages, src : Sources]

ASSUME ConstantsAssumption ==
  /\ Empty \notin Contents
  /\ NoSource \notin SourceUids
  /\ Repairer \notin Tasks
  /\ Folders # {}
  /\ MaxUid \in Nat

ASSUME LegacyAssumption ==
  /\ Legacy \in SUBSET Placement
  /\ LegacyNext \in [Folders -> Nat \ {0}]
  /\ \A f \in Folders :
       {p.uid : p \in {q \in Legacy : q.folder = f}} = 1 .. (LegacyNext[f] - 1)
  /\ \A p, q \in Legacy : p.folder = q.folder /\ p.uid = q.uid => p = q

VARIABLES
  uidnext,    \* folders.uidnext, committed
  placed,     \* the placements table, committed
  messages,   \* the messages table (its hashes), committed
  pc,         \* the next statement of each process's transaction
  job,        \* what each process is storing or repairing
  claimed,    \* the UID its uncommitted UPDATE of folders returned, 0 if none
  gaps,       \* empty placements the repair run listed and has not tried yet
  repaired    \* whether the repair run has repaired anything

rows == <<uidnext, placed, messages>>
run  == <<gaps, repaired>>
vars == <<rows, pc, job, claimed, run>>

Statements == {"idle", "upsert", "lookup", "backfill", "claim", "insert",
               "repoint", "drop", "commit"}

(* A job: the folder, the message, the source UID; `uid` is the archive UID
   of the row the transaction updates, 0 when it updates none. *)
Job   == [folder : Folders, msg : Messages, src : Sources, uid : Nat]
NoJob == [folder |-> CHOOSE f \in Folders : TRUE, msg |-> Empty,
          src |-> NoSource, uid |-> 0]

RowsOf(f) == {p \in placed : p.folder = f}

----------------------------------------------------------------------------
(* Row locks. *)

(* Mutant: ON CONFLICT DO NOTHING, which locks only a row it inserts. *)
HoldsInsertedMessage(t, m) ==
  /\ pc[t] \in {"lookup", "backfill", "claim", "insert", "repoint", "commit"}
  /\ job[t].msg = m /\ m \notin messages

HoldsMessage(t, m) ==
  /\ pc[t] \in {"lookup", "backfill", "claim", "insert", "repoint", "commit"}
  /\ job[t].msg = m

HoldsFolder(t, f) == claimed[t] # 0 /\ job[t].folder = f

HoldsPlacement(t, f, u) ==
  /\ pc[t] = "commit" /\ claimed[t] = 0
  /\ job[t].folder = f /\ job[t].uid = u

(* The lock the next statement of t needs is held by another transaction v. *)
WaitsFor(t, v) ==
  /\ v # t
  /\ \/ pc[t] \in {"upsert", "drop"} /\ HoldsMessage(v, job[t].msg)
     \/ pc[t] = "claim" /\ HoldsFolder(v, job[t].folder)
     \/ pc[t] \in {"backfill", "repoint"}
          /\ HoldsPlacement(v, job[t].folder, job[t].uid)

Runs(t, statement) ==
  /\ pc[t] = statement
  /\ \A v \in Processes : ~WaitsFor(t, v)

Goto(t, statement) == pc' = [pc EXCEPT ![t] = statement]

----------------------------------------------------------------------------
Init ==
  /\ uidnext  = LegacyNext
  /\ placed   = Legacy
  /\ messages = {p.msg : p \in Legacy}
  /\ pc       = [t \in Processes |-> "idle"]
  /\ job      = [t \in Processes |-> NoJob]
  /\ claimed  = [t \in Processes |-> 0]
  /\ gaps     = {}
  /\ repaired = FALSE

(* store_message opens its scope for a fetched body; a short body arrives
   here as Empty.  A retry of a failed attempt begins again here. *)
BeginStore(t, f, m, s) ==
  /\ t \in Tasks
  /\ pc[t] = "idle"
  /\ uidnext[f] <= MaxUid
  /\ job' = [job EXCEPT ![t] = [folder |-> f, msg |-> m, src |-> s, uid |-> 0]]
  /\ Goto(t, "upsert")
  /\ UNCHANGED <<rows, claimed, run>>

(* `email repair --fix` starts: it lists the empty placements once. *)
ListGaps ==
  /\ pc[Repairer] = "idle"
  /\ run = <<{}, FALSE>>
  /\ gaps' = {p \in placed : p.msg = Empty}
  /\ UNCHANGED <<rows, pc, job, claimed, repaired>>

(* A gap is left alone: no source_uid, the fetch failed, or the message is
   empty at the source too. *)
LeaveGap(p) ==
  /\ pc[Repairer] = "idle"
  /\ p \in gaps
  /\ gaps' = gaps \ {p}
  /\ UNCHANGED <<rows, pc, job, claimed, repaired>>

(* refetch got the real bytes m of the listed placement p and opens its
   scope. *)
BeginRepair(p, m) ==
  /\ pc[Repairer] = "idle"
  /\ p \in gaps
  /\ p.src # NoSource
  /\ gaps' = gaps \ {p}
  /\ job' = [job EXCEPT ![Repairer] =
               [folder |-> p.folder, msg |-> m, src |-> p.src, uid |-> p.uid]]
  /\ Goto(Repairer, "upsert")
  /\ UNCHANGED <<rows, claimed, repaired>>

(* The list is done and something was repaired: try to delete the empty
   message.  NOT EXISTS reads the snapshot of the statement's start; when it
   finds a reference the statement deletes nothing and the run is over. *)
BeginDrop ==
  /\ pc[Repairer] = "idle"
  /\ gaps = {} /\ repaired
  /\ Goto(Repairer, IF \E p \in placed : p.msg = Empty THEN "idle" ELSE "drop")
  /\ job' = [job EXCEPT ![Repairer] = NoJob]
  /\ repaired' = FALSE
  /\ UNCHANGED <<rows, claimed, gaps>>

(* Mutant: the reference check of the DELETE's own snapshot is all there is. *)
DropUnchecked ==
  /\ Runs(Repairer, "drop")
  /\ messages' = messages \ {Empty}
  /\ Goto(Repairer, "idle")
  /\ UNCHANGED <<uidnext, placed, job, claimed, run>>

(* The DELETE has its row lock.  ON DELETE RESTRICT is checked against what
   is committed by now, not against the snapshot: a reference fails the
   statement and the message stays. *)
Drop ==
  /\ Runs(Repairer, "drop")
  /\ messages' = IF \E p \in placed : p.msg = Empty THEN messages
                 ELSE messages \ {Empty}
  /\ Goto(Repairer, "idle")
  /\ UNCHANGED <<uidnext, placed, job, claimed, run>>

(* INSERT ... ON CONFLICT DO UPDATE: whether it inserts or not, the row is
   locked until the transaction ends. *)
Upsert(t) ==
  /\ Runs(t, "upsert")
  /\ Goto(t, IF job[t].uid = 0 THEN "lookup" ELSE "repoint")
  /\ UNCHANGED <<rows, job, claimed, run>>

(* SELECT uid FROM placements for this folder and message. *)
Lookup(t) ==
  /\ pc[t] = "lookup"
  /\ \/ \E p \in RowsOf(job[t].folder) :
          /\ p.msg = job[t].msg
          /\ job' = [job EXCEPT ![t].uid = p.uid]
          /\ Goto(t, "backfill")
     \/ /\ \A p \in RowsOf(job[t].folder) : p.msg # job[t].msg
        /\ Goto(t, "claim")
        /\ UNCHANGED job
  /\ UNCHANGED <<rows, claimed, run>>

(* UPDATE placements SET source_uid = COALESCE(source_uid, $3). *)
Backfill(t) ==
  /\ Runs(t, "backfill")
  /\ Goto(t, "commit")
  /\ UNCHANGED <<rows, job, claimed, run>>

(* Mutant: SELECT uidnext without locking the folder row. *)
ClaimUnlocked(t) ==
  /\ pc[t] = "claim"
  /\ claimed' = [claimed EXCEPT ![t] = uidnext[job[t].folder]]
  /\ Goto(t, "insert")
  /\ UNCHANGED <<rows, job, run>>

(* UPDATE folders SET uidnext = uidnext + 1 RETURNING uidnext - 1. *)
Claim(t) ==
  /\ Runs(t, "claim")
  /\ claimed' = [claimed EXCEPT ![t] = uidnext[job[t].folder]]
  /\ Goto(t, "insert")
  /\ UNCHANGED <<rows, job, run>>

(* Mutant: one transaction stores two messages of the batch. *)
InsertAndContinue(t) ==
  /\ pc[t] = "insert"
  /\ \/ Goto(t, "commit") /\ UNCHANGED job
     \/ \E m \in Messages :
          Goto(t, "upsert") /\ job' = [job EXCEPT ![t].msg = m]
  /\ UNCHANGED <<rows, claimed, run>>

InsertPlacement(t) ==
  /\ pc[t] = "insert"
  /\ Goto(t, "commit")
  /\ UNCHANGED <<rows, job, claimed, run>>

(* repoint_placement: UPDATE placements SET message_id WHERE folder and uid. *)
Repoint(t) ==
  /\ Runs(t, "repoint")
  /\ Goto(t, "commit")
  /\ UNCHANGED <<rows, job, claimed, run>>

(* Mutant: SET source_uid = $3 without the COALESCE. *)
RowsAfterOverwrite(t) ==
  LET j == job[t]
      Row(p) == p.folder = j.folder /\ p.uid = j.uid
  IN  IF claimed[t] # 0
      THEN placed \cup {[folder |-> j.folder, uid |-> claimed[t],
                         msg |-> j.msg, src |-> j.src]}
      ELSE {IF ~Row(p) THEN p
            ELSE IF t = Repairer THEN [p EXCEPT !.msg = j.msg]
            ELSE [p EXCEPT !.src = j.src] : p \in placed}

(* What the commit of t makes of the placements table: the row inserted at
   the claimed UID, the row repointed, or the row whose NULL source_uid is
   filled in. *)
RowsAfter(t) ==
  LET j == job[t]
      Row(p) == p.folder = j.folder /\ p.uid = j.uid
  IN  IF claimed[t] # 0
      THEN placed \cup {[folder |-> j.folder, uid |-> claimed[t],
                         msg |-> j.msg, src |-> j.src]}
      ELSE {IF ~Row(p) THEN p
            ELSE IF t = Repairer THEN [p EXCEPT !.msg = j.msg]
            ELSE IF p.src = NoSource THEN [p EXCEPT !.src = j.src]
            ELSE p : p \in placed}

EndTransaction(t) ==
  /\ Goto(t, "idle")
  /\ job' = [job EXCEPT ![t] = NoJob]
  /\ claimed' = [claimed EXCEPT ![t] = 0]

Commit(t) ==
  /\ pc[t] = "commit"
  /\ messages' = messages \cup {job[t].msg}
  /\ placed' = RowsAfter(t)
  /\ uidnext' = IF claimed[t] = 0 THEN uidnext
                ELSE [uidnext EXCEPT ![job[t].folder] = claimed[t] + 1]
  /\ repaired' = (repaired \/ t = Repairer)
  /\ EndTransaction(t)
  /\ UNCHANGED gaps

(* An error, a lost connection, a task dropped with its batch: the scope is
   dropped and everything it did is rolled back. *)
Abort(t) ==
  /\ pc[t] # "idle"
  /\ EndTransaction(t)
  /\ UNCHANGED <<rows, run>>

(* The repair process dies; a later run starts from a list of its own. *)
RepairDies ==
  /\ EndTransaction(Repairer)
  /\ gaps' = {} /\ repaired' = FALSE
  /\ UNCHANGED rows

Next ==
  \/ \E t \in Tasks, f \in Folders, m \in Messages, s \in SourceUids :
        BeginStore(t, f, m, s)
  \/ ListGaps
  \/ \E p \in gaps : LeaveGap(p)
  \/ \E p \in gaps, m \in Contents : BeginRepair(p, m)
  \/ BeginDrop
  \/ Drop
  \/ RepairDies
  \/ \E t \in Processes :
        \/ Upsert(t)
        \/ Lookup(t)
        \/ Backfill(t)
        \/ Claim(t)
        \/ InsertPlacement(t)
        \/ Repoint(t)
        \/ Commit(t)
        \/ Abort(t)

Spec == Init /\ [][Next]_vars
----------------------------------------------------------------------------
(* Every variable has its type. *)
TypeOK ==
  /\ uidnext \in [Folders -> Nat \ {0}]
  /\ placed \in SUBSET Placement
  /\ messages \in SUBSET Messages
  /\ pc \in [Processes -> Statements]
  /\ job \in [Processes -> Job]
  /\ claimed \in [Processes -> Nat]
  /\ gaps \in SUBSET Placement
  /\ repaired \in BOOLEAN

(* At every moment the UIDs a client can see in a folder are 1 .. uidnext-1
   with none missing and none used twice, whatever transactions are open or
   rolled back.  The IMAP server counts rows to resolve `*` in a UID set: that
   is right only because of this. *)
GaplessUids ==
  \A f \in Folders :
    /\ {p.uid : p \in RowsOf(f)} = 1 .. (uidnext[f] - 1)
    /\ \A p, q \in RowsOf(f) : p.uid = q.uid => p = q

(* A placement always resolves to a message row, although repair deletes the
   empty message while ingest may be placing another failed fetch on it. *)
NothingDangles == \A p \in placed : p.msg \in messages

(* No set of transactions waits on itself: store tasks, repair and the final
   DELETE take the message row before the folder row, and never two of a
   kind, so PostgreSQL never has a deadlock to break. *)
NoLockCycle ==
  \A ts \in (SUBSET Processes) \ {{}} :
    \E t \in ts : \A v \in ts : ~WaitsFor(t, v)

(* No transaction removes a placement or overwrites a source_uid it has: that
   number is what a later repair asks the source for. *)
SourceUidKept ==
  [][\A p \in placed : \E q \in placed' :
       /\ q.folder = p.folder /\ q.uid = p.uid
       /\ p.src # NoSource => q.src = p.src]_vars

----------------------------------------------------------------------------
(* What makes them inductive. *)

(* A claimed UID is still the folder's next one, and one transaction at most
   holds a claim on a folder. *)
ClaimsAreNext ==
  /\ \A t \in Processes :
       claimed[t] # 0 => /\ t \in Tasks
                         /\ pc[t] \in {"insert", "commit"}
                         /\ claimed[t] = uidnext[job[t].folder]
  /\ \A t, v \in Processes :
       /\ claimed[t] # 0 /\ claimed[v] # 0
       /\ job[t].folder = job[v].folder
       => t = v

(* One transaction at most holds a message row. *)
OneHolder ==
  \A t, v \in Processes, m \in Messages :
    HoldsMessage(t, m) /\ HoldsMessage(v, m) => t = v

(* Which statements each kind of process gets to, and with which job. *)
JobsFit ==
  /\ \A t \in Tasks :
       /\ pc[t] \notin {"repoint", "drop"}
       /\ pc[t] \in {"backfill", "commit"} /\ claimed[t] = 0 => job[t].uid # 0
       /\ pc[t] = "insert" => claimed[t] # 0
       /\ pc[t] \in {"upsert", "lookup"} => job[t].uid = 0
  /\ pc[Repairer] \notin {"lookup", "backfill", "claim", "insert"}
  /\ pc[Repairer] = "drop" => job[Repairer].msg = Empty

(* What a task is about to insert is not in the folder. *)
NewIsAbsent ==
  \A t \in Tasks :
    pc[t] \in {"claim", "insert"} \/ claimed[t] # 0 =>
      \A p \in RowsOf(job[t].folder) : p.msg # job[t].msg

SameRow(p, q) == p.folder = q.folder /\ p.uid = q.uid

(* What repair has listed, or is about to repoint, is still a gap. *)
GapsAreEmpty ==
  /\ \A g \in gaps : \E p \in placed : SameRow(p, g) /\ p.msg = Empty
  /\ \A g, h \in gaps : SameRow(g, h) => g = h
  /\ pc[Repairer] \in {"upsert", "repoint", "commit"} =>
       /\ job[Repairer].msg \in Contents
       /\ job[Repairer].uid # 0
       /\ \E p \in placed : SameRow(p, job[Repairer]) /\ p.msg = Empty
       /\ \A g \in gaps : ~SameRow(g, job[Repairer])

IndInv ==
  /\ TypeOK
  /\ GaplessUids
  /\ NothingDangles
  /\ ClaimsAreNext
  /\ OneHolder
  /\ JobsFit
  /\ NewIsAbsent
  /\ GapsAreEmpty

----------------------------------------------------------------------------
(* The committed tables implement the promise made to clients: entries are
   appended one UID at a time, never twice for one message, and only a gap is
   ever replaced. *)
Visible == {[folder |-> p.folder, uid |-> p.uid, msg |-> p.msg] : p \in placed}
Log == INSTANCE UidLog WITH next <- uidnext, entries <- Visible
ImplementsUidLog == Log!LogSpec
=============================================================================
