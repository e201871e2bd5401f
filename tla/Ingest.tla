------------------------------- MODULE Ingest -------------------------------
(***************************************************************************)
(* Ingest of one source folder (src/ingest.rs: ingest_folder and           *)
(* store_message, with folder_for_ingest, archived_source_uids and         *)
(* advance_source_uid of src/db.rs), from the source mailbox to the three  *)
(* stores: message blobs and manifests in the bucket, rows in PostgreSQL.  *)
(*                                                                         *)
(* Several passes may walk the folder at once: the scheduler inside the    *)
(* service and an `ingest` or `refresh` command beside it.  Each await of  *)
(* the code is a step, so the source and the other passes move in between. *)
(* The transaction of store_message is one step here; Placements shows     *)
(* that its statements amount to that.                                     *)
(***************************************************************************)
EXTENDS Integers, FiniteSets, Sequences

CONSTANTS
  Contents,       \* distinct messages that are not empty
  Empty,          \* the message of no bytes
  Scraps,         \* what may be left of messages that were cut off
  Undeliverable,  \* messages the server always hands over short
  ByIdentity,     \* whether the folder is a Gmail account's All Mail
  Filed,          \* messages the account's other folders may come to hold
  Twins,          \* messages that were sent with one Message-ID
  Passes,         \* runs of ingest_folder on this folder
  BatchSize,      \* BATCH: UIDs asked for in one FETCH
  MaxSourceUid,   \* bound: UIDs the source hands out per UIDVALIDITY
  MaxValidity,    \* bound: UIDVALIDITYs the source goes through
  MaxFaults,      \* bound: failures over the whole behaviour
  Faults          \* the kinds of failure that happen in this model

ASSUME IngestAssumption ==
  /\ Empty \notin Contents \cup Scraps
  /\ Scraps \cap Contents = {}
  /\ Undeliverable \subseteq Contents
  /\ ByIdentity \in BOOLEAN
  /\ Filed \subseteq Contents
  /\ Twins \subseteq Contents \cup Scraps
  /\ BatchSize \in Nat \ {0}
  /\ MaxSourceUid \in Nat \ {0}
  /\ MaxValidity \in Nat \ {0}
  /\ MaxFaults \in Nat
  /\ Faults \subseteq {"retry", "abandon", "short", "omit"}

Remains    == Scraps \cup {Empty}
Messages   == Contents \cup Remains
SourceUids == 1 .. MaxSourceUid

VARIABLES
  source,     \* the mailbox: UIDVALIDITY, messages by UID, next UID
  blobs,      \* messages in the bucket
  manifests,  \* manifests in the bucket, by archive UID
  list,       \* the placements of the folder; the index is the archive UID
  elsewhere,  \* messages placed in the account's other folders
  resume,     \* source_uidvalidity (0: no folder row) and last_source_uid
  pc,         \* where each pass is
  work,       \* what each pass knows: see Work
  tasks,      \* the store_message of each source UID of its batch
  faults,     \* failures so far
  cut,        \* history: the source UIDs whose body came short
  omitted,    \* history: those whose item came without a body
  taken       \* history: UIDs in use when the UIDVALIDITY last changed

archive == <<blobs, manifests, list, elsewhere>>
history == <<cut, omitted, taken>>
vars    == <<source, archive, resume, pc, work, tasks, faults, history>>

Where  == {"idle", "open", "record", "search", "held", "identify", "fetch",
           "store", "done"}
Stages == {"none", "put", "rows", "manifest", "stored"}

Row    == [msg : Messages, src : SourceUids]
Boxes  == UNION {[uids -> Contents] : uids \in SUBSET SourceUids}
Source == [val : 1 .. MaxValidity, box : Boxes, next : 1 .. MaxSourceUid + 1]
Resume == [val : 0 .. MaxValidity, last : 0 .. MaxSourceUid]

(* What a pass has read: the mailbox's UIDVALIDITY, the one the row had (while
   it matters) and the watermark; the UIDs it still has to fetch and those of
   the current batch. *)
Work   == [val : 0 .. MaxValidity, was : 0 .. MaxValidity,
           last : 0 .. MaxSourceUid,
           todo : SUBSET SourceUids, chunk : SUBSET SourceUids]
NoWork == [val |-> 0, was |-> 0, last |-> 0, todo |-> {}, chunk |-> {}]

(* A store_message: the body it was given, how far it is, the archive UID. *)
Task   == [stage : Stages, msg : Messages, uid : Nat]
NoTask == [stage |-> "none", msg |-> Empty, uid |-> 0]
NoTasks == [u \in SourceUids |-> NoTask]

Goto(p, from, to) == pc[p] = from /\ pc' = [pc EXCEPT ![p] = to]

Fault(kind) == kind \in Faults /\ faults < MaxFaults /\ faults' = faults + 1

Init ==
  /\ source    = [val |-> 1, box |-> <<>>, next |-> 1]
  /\ blobs     = {}
  /\ manifests = <<>>
  /\ list      = <<>>
  /\ elsewhere = {}
  /\ resume    = [val |-> 0, last |-> 0]
  /\ pc        = [p \in Passes |-> "idle"]
  /\ work      = [p \in Passes |-> NoWork]
  /\ tasks     = [p \in Passes |-> NoTasks]
  /\ faults    = 0
  /\ cut       = {}
  /\ omitted   = {}
  /\ taken     = {}

----------------------------------------------------------------------------
(* The source mailbox. *)

(* A message is delivered; a copy of one that is there already may be. *)
Arrive(m) ==
  /\ source.next <= MaxSourceUid
  /\ source' = [source EXCEPT
       !.box = [u \in DOMAIN @ \cup {source.next} |->
                  IF u = source.next THEN m ELSE @[u]],
       !.next = @ + 1]
  /\ UNCHANGED <<archive, resume, pc, work, tasks, faults, history>>

Expunge(u) ==
  /\ u \in DOMAIN source.box
  /\ source' = [source EXCEPT !.box = [v \in DOMAIN @ \ {u} |-> @[v]]]
  /\ UNCHANGED <<archive, resume, pc, work, tasks, faults, history>>

(* The source UIDs the archive has a placement of, and those up to what a batch
   is still storing. *)
InUse ==
  {u \in SourceUids :
     \/ \E i \in DOMAIN list : list[i].src = u
     \/ \E p \in Passes : pc[p] = "store" /\ \E c \in work[p].chunk : u <= c}

(* The mailbox is deleted and made again, or the server lost its UIDs: a new
   UIDVALIDITY, and UIDs from 1 for whatever is in it. *)
Renumber(box) ==
  /\ source.val < MaxValidity
  /\ DOMAIN box = 1 .. Cardinality(DOMAIN box)
  /\ source' = [val  |-> source.val + 1, box |-> box,
                next |-> Cardinality(DOMAIN box) + 1]
  /\ taken' = InUse
  /\ cut' = {} /\ omitted' = {}
  /\ UNCHANGED <<archive, resume, pc, work, tasks, faults>>

(* A session has one UIDVALIDITY; after a rebuild its commands fail. *)
SessionAlive(p) == work[p].val = source.val

----------------------------------------------------------------------------
(* Another folder of the account is ingested: store_message there puts the
   blob before the rows. *)
ArchiveElsewhere(m) ==
  /\ m \in Filed \ elsewhere
  /\ blobs' = blobs \cup {m}
  /\ elsewhere' = elsewhere \cup {m}
  /\ UNCHANGED <<source, manifests, list, resume, pc, work, tasks, faults,
                 history>>

----------------------------------------------------------------------------
(* A pass. *)

Examine(p) ==
  /\ Goto(p, "idle", "open")
  /\ work' = [work EXCEPT ![p] = [NoWork EXCEPT !.val = source.val]]
  /\ UNCHANGED <<source, archive, resume, tasks, faults, history>>

(* Mutant: the UIDVALIDITY of the row is not looked at. *)
ReadFolderAnyhow(p) ==
  /\ Goto(p, "open", "record")
  /\ work' = [work EXCEPT ![p].was = resume.val]
  /\ UNCHANGED <<source, archive, resume, tasks, faults, history>>

(* folder_for_ingest, the SELECT: if the row has the mailbox's UIDVALIDITY, the
   pass works from the watermark it read, and else from 0. *)
ReadFolder(p) ==
  LET same == resume.val = work[p].val
  IN  /\ Goto(p, "open", IF same THEN "search" ELSE "record")
      /\ work' = [work EXCEPT ![p].was  = IF same THEN 0 ELSE resume.val,
                              ![p].last = IF same THEN resume.last ELSE 0]
      /\ UNCHANGED <<source, archive, resume, tasks, faults, history>>

(* Mutant: the watermark outlives the UIDVALIDITY it belongs to. *)
ResetFolderAsIs(p) ==
  /\ work[p].was # 0
  /\ Goto(p, "record", "search")
  /\ resume' = [resume EXCEPT !.val = work[p].val]
  /\ work' = [work EXCEPT ![p].was = 0]
  /\ UNCHANGED <<source, archive, tasks, faults, history>>

(* The row had another UIDVALIDITY when it was read: the UPDATE resets it,
   whatever it has by now. *)
ResetFolder(p) ==
  /\ work[p].was # 0
  /\ Goto(p, "record", "search")
  /\ resume' = [val |-> work[p].val, last |-> 0]
  /\ work' = [work EXCEPT ![p].was = 0]
  /\ UNCHANGED <<source, archive, tasks, faults, history>>

(* There was no row: the INSERT, unless there is one now. *)
CreateFolder(p) ==
  /\ work[p].was = 0 /\ resume.val = 0
  /\ Goto(p, "record", "search")
  /\ resume' = [val |-> work[p].val, last |-> 0]
  /\ UNCHANGED <<source, archive, work, tasks, faults, history>>

(* UID SEARCH last+1:*.  The server swaps the ends of a reversed range, so it
   always answers with the highest UID; the filter takes that out again. *)
Search(p) ==
  LET uids   == DOMAIN source.box
      last   == work[p].last
      answer == {u \in uids : u > last \/ \A v \in uids : v <= u}
  IN  /\ Goto(p, "search", "held")
      /\ SessionAlive(p)
      /\ work' = [work EXCEPT ![p].todo = {u \in answer : u > last}]
      /\ UNCHANGED <<source, archive, resume, tasks, faults, history>>

(* archived_source_uids: the source UIDs of the folder's placements. *)
HeldUids == {list[i].src : i \in DOMAIN list}

(* UIDs already held are not fetched again. *)
DropHeld(p) ==
  /\ Goto(p, "held", IF ByIdentity THEN "identify" ELSE "fetch")
  /\ work' = [work EXCEPT ![p].todo = @ \ HeldUids]
  /\ UNCHANGED <<source, archive, resume, tasks, faults, history>>

(* archived_message_ids: the account holds a message, in this folder or in
   another, that has the Message-ID of m. *)
Known(m) ==
  \E n \in elsewhere \cup {list[i].msg : i \in DOMAIN list} :
    n = m \/ {m, n} \subseteq Twins

(* Mutant: two messages without a Message-ID have the same one. *)
IdentifyNameless(p) ==
  /\ ByIdentity
  /\ Goto(p, "identify", "fetch")
  /\ work[p].todo # {} => SessionAlive(p)
  /\ \E known \in SUBSET (work[p].todo \cap DOMAIN source.box) :
       /\ known # {} => list # <<>> \/ elsewhere # {}
       /\ work' = [work EXCEPT ![p].todo = @ \ known]
  /\ UNCHANGED <<source, archive, resume, tasks, faults, history>>

(* without_already_archived: what the account knows by its Message-ID is left
   out.  A UID that is not answered is kept, and so is a message that has no
   Message-ID or became known while the envelopes were under way. *)
Identify(p) ==
  /\ ByIdentity
  /\ Goto(p, "identify", "fetch")
  /\ work[p].todo # {} => SessionAlive(p)
  /\ \E known \in SUBSET {u \in work[p].todo \cap DOMAIN source.box :
                              Known(source.box[u])} :
       work' = [work EXCEPT ![p].todo = @ \ known]
  /\ UNCHANGED <<source, archive, resume, tasks, faults, history>>

(* The next BatchSize UIDs in ascending order. *)
NextChunk(todo) ==
  {u \in todo : Cardinality({v \in todo : v < u}) < BatchSize}

(* The body kept for message m: one that is not as long as the server says is
   a failed fetch and is kept as Empty. *)
Kept(m) == IF m \in Undeliverable THEN Empty ELSE m

(* Items have come, bodies[u] of source UID u, and those of `missing` without
   a body: they are passed over. *)
Receive(p, bodies, missing) ==
  /\ tasks' = [tasks EXCEPT ![p] = [u \in SourceUids |->
       IF u \in DOMAIN bodies
       THEN [stage |-> "put", msg |-> bodies[u], uid |-> 0] ELSE NoTask]]
  /\ cut' = cut \cup {u \in DOMAIN bodies : bodies[u] # source.box[u]}
  /\ omitted' = omitted \cup missing
  /\ UNCHANGED taken

(* Mutant: a short body is an error and fails the pass. *)
FetchStrict(p) ==
  LET chunk    == NextChunk(work[p].todo)
      answered == chunk \cap DOMAIN source.box
      short    == \E u \in answered : source.box[u] \in Undeliverable
  IN  /\ work[p].todo # {}
      /\ Goto(p, "fetch", IF short THEN "idle" ELSE "store")
      /\ SessionAlive(p)
      /\ work' = [work EXCEPT ![p] = IF short THEN NoWork
                                     ELSE [@ EXCEPT !.chunk = chunk]]
      /\ Receive(p, [u \in IF short THEN {} ELSE answered |-> source.box[u]], {})
      /\ UNCHANGED <<source, archive, resume, faults>>

(* UID FETCH of a batch.  What was expunged since the search is not answered.
   One item may come without a body, and one cut off: as Empty, or as what is
   left of it if the server has not said how long it is. *)
Fetch(p) ==
  LET chunk    == NextChunk(work[p].todo)
      answered == chunk \cap DOMAIN source.box
      bodies   == [u \in answered |-> Kept(source.box[u])]
  IN  /\ work[p].todo # {}
      /\ Goto(p, "fetch", "store")
      /\ SessionAlive(p)
      /\ work' = [work EXCEPT ![p].chunk = chunk]
      /\ \/ Receive(p, bodies, {}) /\ UNCHANGED faults
         \/ \E u \in answered, left \in Remains :
              Fault("short") /\ Receive(p, [bodies EXCEPT ![u] = left], {})
         \/ \E u \in answered :
              /\ Fault("omit")
              /\ Receive(p, [v \in answered \ {u} |-> bodies[v]], {u})
      /\ UNCHANGED <<source, archive, resume>>

(* store_message of the body of source UID u moves on a stage. *)
Move(p, u, from, to) ==
  /\ pc[p] = "store"
  /\ tasks[p][u].stage = from
  /\ tasks' = [tasks EXCEPT ![p][u] = [@ EXCEPT !.stage = to]]

(* First the blob... *)
PutMessage(p, u) ==
  /\ Move(p, u, "put", "rows")
  /\ blobs' = blobs \cup {tasks[p][u].msg}
  /\ UNCHANGED <<source, manifests, list, elsewhere, resume, pc, work, faults,
                 history>>

(* Mutant: the rows need not wait for the blob. *)
CommitRowsEarly(p, u) ==
  LET m == tasks[p][u].msg
  IN  /\ pc[p] = "store"
      /\ tasks[p][u].stage \in {"put", "rows"}
      /\ \A i \in DOMAIN list : list[i].msg # m
      /\ list' = Append(list, [msg |-> m, src |-> u])
      /\ tasks' = [tasks EXCEPT ![p][u] =
                     [stage |-> "manifest", msg |-> m, uid |-> Len(list) + 1]]
      /\ UNCHANGED <<source, blobs, manifests, elsewhere, resume, pc, work,
                     faults, history>>

(* ... then, in one transaction, the message row and a placement, unless the
   folder shows the message already... *)
CommitRows(p, u) ==
  LET m == tasks[p][u].msg
      Committed(uid) ==
        tasks' = [tasks EXCEPT ![p][u] =
                    [stage |-> "manifest", msg |-> m, uid |-> uid]]
  IN  /\ pc[p] = "store"
      /\ tasks[p][u].stage = "rows"
      /\ \/ \E i \in DOMAIN list :
              list[i].msg = m /\ Committed(i) /\ UNCHANGED list
         \/ /\ \A i \in DOMAIN list : list[i].msg # m
            /\ list' = Append(list, [msg |-> m, src |-> u])
            /\ Committed(Len(list) + 1)
      /\ UNCHANGED <<source, blobs, manifests, elsewhere, resume, pc, work,
                     faults, history>>

(* ... and the manifest last, whether or not the placement is new. *)
PutManifest(p, u) ==
  LET t == tasks[p][u]
  IN  /\ Move(p, u, "manifest", "stored")
      /\ manifests' = [i \in DOMAIN manifests \cup {t.uid} |->
                         IF i = t.uid THEN [msg |-> t.msg, src |-> u]
                         ELSE manifests[i]]
      /\ UNCHANGED <<source, blobs, list, elsewhere, resume, pc, work, faults,
                     history>>

(* with_retry: a step failed, or worked and was reported as failed. *)
Retry(p, u) ==
  /\ \/ Move(p, u, "rows", "put")
     \/ Move(p, u, "manifest", "put")
  /\ Fault("retry")
  /\ UNCHANGED <<source, archive, resume, pc, work, history>>

EndBatch(p) ==
  /\ Goto(p, "store", "fetch")
  /\ work' = [work EXCEPT ![p].todo = @ \ work[p].chunk, ![p].chunk = {}]
  /\ tasks' = [tasks EXCEPT ![p] = NoTasks]
  /\ UNCHANGED <<source, archive, faults, history>>

AllStored(p) == \A u \in SourceUids : tasks[p][u].stage \in {"none", "stored"}

Raise(uids, step) ==
  \E high \in uids : /\ \A u \in uids : u <= high
                     /\ resume' = [resume EXCEPT !.last = high + step]

(* Mutant: the watermark is the next UID to ask for. *)
AdvancePast(p) ==
  AllStored(p) /\ Raise({resume.last} \cup work[p].chunk, 1) /\ EndBatch(p)

(* Mutant: SET last_source_uid = $2. *)
AdvanceAnywhere(p) ==
  AllStored(p) /\ Raise(work[p].chunk, 0) /\ EndBatch(p)

(* Mutant: the watermark moves without waiting for the batch. *)
AdvanceEarly(p) ==
  Raise({resume.last} \cup work[p].chunk, 0) /\ EndBatch(p)

(* advance_source_uid, once every task of the batch has finished: GREATEST of
   the watermark and the highest UID that was asked for. *)
Advance(p) ==
  AllStored(p) /\ Raise({resume.last} \cup work[p].chunk, 0) /\ EndBatch(p)

Finish(p) ==
  /\ work[p].todo = {}
  /\ Goto(p, "fetch", "done")
  /\ work' = [work EXCEPT ![p] = NoWork]
  /\ UNCHANGED <<source, archive, resume, tasks, faults, history>>

(* What the pass knew is lost; the folder's next attempt starts over. *)
Forget(p) ==
  /\ pc' = [pc EXCEPT ![p] = "idle"]
  /\ work' = [work EXCEPT ![p] = NoWork]
  /\ tasks' = [tasks EXCEPT ![p] = NoTasks]
  /\ UNCHANGED <<source, archive, resume, history>>

(* Until the next sweep. *)
Rest(p) == pc[p] = "done" /\ Forget(p) /\ UNCHANGED faults

(* Another pass has created the folder: UNIQUE (account_id, name) refuses the
   second row, and the attempt ends. *)
CreateRefused(p) ==
  /\ pc[p] = "record" /\ work[p].was = 0 /\ resume.val # 0
  /\ Forget(p)
  /\ UNCHANGED faults

(* The mailbox was renumbered under the session. *)
LoseSession(p) ==
  /\ pc[p] \in {"search", "identify", "fetch"} /\ ~SessionAlive(p)
  /\ Forget(p)
  /\ UNCHANGED faults

(* The pass ends early: the connection is gone, a task has used up its
   attempts (the others are dropped where they are), or the process died. *)
Abandon(p) ==
  /\ pc[p] \notin {"idle", "done"}
  /\ Fault("abandon")
  /\ Forget(p)

PassStep(p) ==
  \/ Examine(p)
  \/ ReadFolder(p)
  \/ ResetFolder(p)
  \/ CreateFolder(p)
  \/ CreateRefused(p)
  \/ Search(p)
  \/ DropHeld(p)
  \/ Identify(p)
  \/ Fetch(p)
  \/ \E u \in SourceUids :
       \/ PutMessage(p, u)
       \/ CommitRows(p, u)
       \/ PutManifest(p, u)
  \/ Advance(p)
  \/ Finish(p)
  \/ Rest(p)
  \/ LoseSession(p)

Next ==
  \/ \E m \in Contents : Arrive(m)
  \/ \E u \in SourceUids : Expunge(u)
  \/ \E box \in Boxes : Renumber(box)
  \/ \E m \in Filed : ArchiveElsewhere(m)
  \/ \E p \in Passes : PassStep(p)
  \/ \E p \in Passes : Abandon(p)
  \/ \E p \in Passes, u \in SourceUids : Retry(p, u)

Spec == Init /\ [][Next]_vars

(* A pass that can take its next step takes it: the loop has no exit but the
   ones modelled, and the scheduler starts another pass for ever. *)
FairSpec == Spec /\ \A p \in Passes : WF_vars(PassStep(p))

----------------------------------------------------------------------------
(* Every variable has its type. *)
TypeOK ==
  /\ source \in Source
  /\ blobs \in SUBSET Messages
  /\ list \in Seq(Row)
  /\ elsewhere \in SUBSET Filed
  /\ manifests \in [DOMAIN manifests -> Row]
  /\ resume \in Resume
  /\ pc \in [Passes -> Where]
  /\ work \in [Passes -> Work]
  /\ tasks \in [Passes -> [SourceUids -> Task]]
  /\ faults \in 0 .. MaxFaults
  /\ cut \in SUBSET SourceUids
  /\ omitted \in SUBSET SourceUids
  /\ taken \in SUBSET SourceUids

(* The folder shows message m or, of All Mail, the account has it by identity:
   a weaker promise, since the sender chooses the Message-ID. *)
Archived(m) ==
  \/ \E i \in DOMAIN list : list[i].msg = m
  \/ ByIdentity /\ Known(m)

(* What every reader relies on, at every moment and after any crash: the
   bytes of a placement are in the bucket, and a manifest, from which the
   index can be rebuilt, says of its UID what the index says.  So there is no
   manifest without its row, which ingest.rs:3-12 expects after a crash: the
   code writes the rows first (ingest.rs:1144 to 1191). *)
IndexBacked ==
  /\ \A i \in DOMAIN list : list[i].msg \in blobs
  /\ \A i \in DOMAIN manifests :
       i \in DOMAIN list /\ manifests[i].msg = list[i].msg

(* The archive has what there is of message m under source UID u: the message,
   or a gap or a scrap because it came short; or it came without a body, which
   leaves nothing. *)
Accounted(u, m) ==
  \/ Archived(m)
  \/ u \in cut /\ \E left \in Remains : Archived(left)
  \/ u \in omitted

(* The messages of the source that no later pass will ask for, because they
   are behind the watermark of this UIDVALIDITY or their UID is held, and that
   the archive does not account for. *)
Skipped ==
  {u \in DOMAIN source.box :
     /\ (resume.val = source.val /\ u <= resume.last) \/ u \in HeldUids
     /\ ~Accounted(u, source.box[u])}

(* No interruption, retry or overlap of passes skips a message.  What a change
   of UIDVALIDITY may make it skip are the UIDs that were in use then: until
   there has been one, none. *)
NeverSkipped == Skipped \subseteq taken

(* What ingest.rs and db.rs say of a new UIDVALIDITY: the folder is scanned
   again from the start and a message is never skipped. *)
RescanSkipsNothing == resume.val = source.val => Skipped = {}

(* A pass that read the row under another UIDVALIDITY and will reset it,
   although by now another pass has recorded the one they both know. *)
Late(p) ==
  /\ pc[p] = "record"
  /\ work[p].was \notin {0, work[p].val}
  /\ resume.val = work[p].val

(* A pass that is behind another does not take the watermark back, but in one
   case, which advance_source_uid ("only ever moves forward") does not see: the
   reset of a pass that is late takes it to the start, once. *)
WatermarkForward ==
  [][resume'.val = resume.val /\ resume'.last < resume.last
       => /\ resume'.last = 0
          /\ \E p \in Passes : Late(p) /\ pc'[p] = "search"]_vars

(* A message that stays in the source is accounted for in the end; one that
   never arrives whole does not hold up those behind it. *)
EventuallyArchived ==
  \A u \in SourceUids, m \in Contents :
    <>[](u \in DOMAIN source.box /\ source.box[u] = m)
      => <>Accounted(u, m)

(* What ingest.rs says of repair: every failed fetch leaves an empty
   placement that names the source UID to ask for again. *)
GapsRecorded ==
  resume.val = source.val =>
    \A u \in DOMAIN source.box :
      u <= resume.last =>
        \/ Archived(source.box[u])
        \/ \E i \in DOMAIN list : list[i] = [msg |-> Empty, src |-> u]

(* What the readers of the archive see of the folder is UidLog. *)
ThisFolder == "this"
LogEntries ==
  {[folder |-> ThisFolder, uid |-> i, msg |-> list[i].msg] : i \in DOMAIN list}
Log == INSTANCE UidLog WITH
  Folders  <- {ThisFolder},
  Contents <- Contents \cup Scraps,
  next     <- [f \in {ThisFolder} |-> Len(list) + 1],
  entries  <- LogEntries

ImplementsUidLog == Log!LogSpec
----------------------------------------------------------------------------
(* What makes them inductive. *)

(* A store_message past its blob finds the blob in the bucket, and past its
   commit finds its row in the list. *)
TasksBacked ==
  \A p \in Passes, u \in SourceUids :
    LET t == tasks[p][u]
    IN  /\ t.stage \in {"rows", "manifest", "stored"} => t.msg \in blobs
        /\ t.stage \in {"manifest", "stored"} =>
             t.uid \in DOMAIN list /\ list[t.uid].msg = t.msg

IndInv == TypeOK /\ IndexBacked /\ TasksBacked

(* m is what the archive may hold for source UID u, and u is taken care of;
   of a UID that was in use for something else nothing is promised. *)
Right(u, m) ==
  \/ u \in taken
  \/ u \in DOMAIN source.box =>
       m = source.box[u] \/ (m \in Remains /\ u \in cut)
Safe(u) ==
  \/ u \in taken
  \/ u \in DOMAIN source.box => Accounted(u, source.box[u])

Issued(u) == u < source.next \/ u \in taken

Live(p) == work[p].val = source.val

(* UIDs are given out in order, and all that is behind the watermark of the
   folder, or behind the one a pass has read, is taken care of. *)
BehindIsSafe ==
  /\ \A u \in DOMAIN source.box : u < source.next
  /\ resume.val <= source.val
  /\ \A u \in SourceUids :
       resume.val = source.val /\ u <= resume.last => Issued(u) /\ Safe(u)
  /\ \A p \in Passes :
       /\ work[p].val <= source.val
       /\ Live(p) => \A u \in SourceUids :
                      u <= work[p].last => Issued(u) /\ Safe(u)

(* Rows and tasks hold what belongs to their source UID. *)
RowsRight ==
  /\ \A i \in DOMAIN list :
       Issued(list[i].src) /\ Right(list[i].src, list[i].msg)
  /\ \A p \in Passes, u \in SourceUids :
       tasks[p][u].stage # "none" =>
         /\ pc[p] = "store" /\ u \in work[p].chunk
         /\ Issued(u) /\ Right(u, tasks[p][u].msg)

(* A pass leaves out no UID below one it still has to fetch, a batch takes
   the lowest of them, and each of its UIDs that is still in the mailbox has
   a task. *)
TodoIsAll ==
  \A p \in Passes : Live(p) =>
    LET todo  == work[p].todo
        chunk == work[p].chunk
    IN  /\ \A t \in todo : t < source.next
        /\ \A t \in todo : \A u \in DOMAIN source.box :
             u < t => u \in todo \/ Safe(u)
        /\ pc[p] = "store" =>
             /\ chunk \subseteq todo
             /\ \A c \in chunk, t \in todo : t < c => t \in chunk
             /\ \A c \in chunk : Safe(c) \/ tasks[p][c].stage # "none"

(* A batch that outlived a change of UIDVALIDITY moves nothing but UIDs that
   were in use. *)
StaleIsTaken ==
  \A p \in Passes : pc[p] = "store" /\ ~Live(p) =>
    \A c \in work[p].chunk, u \in SourceUids : u <= c => u \in taken

SkipInv == IndInv /\ BehindIsSafe /\ RowsRight /\ TodoIsAll /\ StaleIsTaken
=============================================================================
