----------------------------- MODULE Maintenance -----------------------------
(***************************************************************************)
(* What the offline commands do to the two stores while ingest goes on:    *)
(* rebuild_manifests and run of src/check.rs, `email repair`, and set_seen *)
(* of the web API, beside the store_message of src/ingest.rs.              *)
(*                                                                         *)
(* One folder: manifest keys contain the folder and the UID, so another    *)
(* folder's manifests are other objects.  The bucket keeps versions: a put *)
(* adds one, the newest is what a get or a listing shows, and              *)
(* delete_version takes one away for good, which brings an older one back  *)
(* if there is any.                                                        *)
(***************************************************************************)
EXTENDS Naturals, Sequences, FiniteSets

CONSTANTS
  Contents,     \* distinct messages that are not empty
  Empty,        \* the message of no bytes, kept for a failed fetch
  SourceUids,   \* UIDs of the source mailbox, each stored at most once
  NoSource,     \* a NULL source_uid: the row is older than the column
  Unknown,      \* the source_uid 0 a manifest has for such a row
  Legacy,       \* the placements at the start, in UID order
  SeenAtSource, \* the read states the source reports
  MaxVersions,  \* bound: versions of one manifest
  MaxCrashes    \* bound: processes that die

Messages == Contents \cup {Empty}

Row      == [msg : Messages, src : SourceUids \cup {NoSource}, seen : BOOLEAN]
Manifest == [msg : Messages, src : SourceUids \cup {Unknown}, seen : BOOLEAN]

ASSUME MaintenanceAssumption ==
  /\ IsFiniteSet(Contents) /\ Empty \notin Contents
  /\ NoSource \notin SourceUids
  /\ Unknown \notin SourceUids
  /\ Legacy \in Seq(Row)
  /\ SeenAtSource \subseteq BOOLEAN
  /\ MaxVersions \in Nat \ {0}
  /\ MaxCrashes \in Nat

VARIABLES
  blobs,     \* message objects that can be read and hash to their key
  messages,  \* the message rows
  list,      \* the placements; the index is the archive UID
  versions,  \* the versions of the manifests in the bucket
  tasks,     \* the store_message of each source UID
  repair,    \* the placement repair is about to repoint
  rebuild,   \* rebuild_manifests: see Rebuild
  check,     \* check::run: see Check
  owed,      \* history: UIDs whose manifest a dead process did not write
  crashes    \* processes that died so far

stores == <<blobs, messages, list, versions>>
vars   == <<stores, tasks, repair, rebuild, check, owed, crashes>>

Version == [uid : Nat, n : Nat, manifest : Manifest]

Task   == [stage : {"idle", "rows", "manifest", "done"},
           msg : Messages, seen : BOOLEAN, uid : Nat]
NoTask == [stage |-> "idle", msg |-> Empty, seen |-> FALSE, uid |-> 0]
StoreDone == [NoTask EXCEPT !.stage = "done"]

Repair   == [uid : Nat, msg : Messages]
NoRepair == [uid |-> 0, msg |-> Empty]

(* The versions still to be purged, the rows read and the UID to write next;
   `alone` is history: nothing else has written since it began. *)
Rebuild == [step : {"idle", "purge", "write"}, stale : SUBSET Version,
            rows : Seq(Row), next : Nat, alone : BOOLEAN]
NoRebuild == [step |-> "idle", stale |-> {}, rows |-> <<>>, next |-> 1,
              alone |-> TRUE]

(* The counts in the order they are taken and what it says; `alone` is
   history: no object has been put or purged, no placement added and no
   message row dropped since it began. *)
Check == [step : {"idle", "placements", "blobs", "manifests", "verify", "said"},
          messages : Nat, placements : Nat, blobs : Nat, manifests : Nat,
          consistent : BOOLEAN, alone : BOOLEAN]
NoCheck == [step |-> "idle", messages |-> 0, placements |-> 0, blobs |-> 0,
            manifests |-> 0, consistent |-> FALSE, alone |-> TRUE]

(* A row as rebuild_manifests writes it: 0 stands for no source UID. *)
AsManifest(row) == [row EXCEPT !.src = IF @ = NoSource THEN Unknown ELSE @]

VersionsOf(u)  == {v \in versions : v.uid = u}
HasManifest(u) == VersionsOf(u) # {}
Keys           == {v.uid : v \in versions}

(* What a get of the manifest of u returns. *)
Shown(u) ==
  (CHOOSE v \in VersionsOf(u) : \A w \in VersionsOf(u) : w.n <= v.n).manifest

(* A put is one newer than what is there. *)
Put(u, manifest) ==
  \E n \in 1 .. MaxVersions :
    /\ \A v \in VersionsOf(u) : v.n < n
    /\ n = 1 \/ \E v \in VersionsOf(u) : v.n = n - 1
    /\ versions' = versions \cup {[uid |-> u, n |-> n, manifest |-> manifest]}

Disturb(process) ==
  process' = IF process.step = "idle" THEN process
             ELSE [process EXCEPT !.alone = FALSE]

Crash == crashes < MaxCrashes /\ crashes' = crashes + 1

(* Some blobs may have been lost or corrupted since they were put. *)
Init ==
  /\ messages = {Legacy[i].msg : i \in DOMAIN Legacy}
  /\ blobs \in SUBSET messages
  /\ list     = Legacy
  /\ versions = {[uid |-> i, n |-> 1, manifest |-> AsManifest(Legacy[i])] :
                   i \in DOMAIN Legacy}
  /\ tasks    = [u \in SourceUids |-> NoTask]
  /\ repair   = NoRepair
  /\ rebuild  = NoRebuild
  /\ check    = NoCheck
  /\ owed     = {}
  /\ crashes  = 0

----------------------------------------------------------------------------
(* store_message: the blob, the rows, the manifest. *)

PutMessage(u, m, seen) ==
  /\ tasks[u].stage = "idle"
  /\ tasks' = [tasks EXCEPT ![u] =
                 [stage |-> "rows", msg |-> m, seen |-> seen, uid |-> 0]]
  /\ blobs' = blobs \cup {m}
  /\ Disturb(check)
  /\ UNCHANGED <<messages, list, versions, repair, rebuild, owed, crashes>>

(* A placement of the message that is there already is kept, and only a
   source UID it does not have is filled in. *)
CommitRows(u) ==
  LET t == tasks[u]
      Committed(uid) ==
        tasks' = [tasks EXCEPT ![u].stage = "manifest", ![u].uid = uid]
  IN  /\ t.stage = "rows"
      /\ messages' = messages \cup {t.msg}
      /\ \/ \E i \in DOMAIN list :
              /\ list[i].msg = t.msg
              /\ list' = [list EXCEPT ![i].src = IF @ = NoSource THEN u ELSE @]
              /\ Committed(i)
         \/ /\ \A i \in DOMAIN list : list[i].msg # t.msg
            /\ list' = Append(list, [msg |-> t.msg, src |-> u, seen |-> t.seen])
            /\ Committed(Len(list) + 1)
      /\ Disturb(check) /\ Disturb(rebuild)
      /\ UNCHANGED <<blobs, versions, repair, owed, crashes>>

PutManifest(u) ==
  LET t == tasks[u]
  IN  /\ t.stage = "manifest"
      /\ Put(t.uid, [msg |-> t.msg, src |-> u, seen |-> t.seen])
      /\ tasks' = [tasks EXCEPT ![u] = StoreDone]
      /\ owed' = owed \ {t.uid}
      /\ Disturb(check) /\ Disturb(rebuild)
      /\ UNCHANGED <<blobs, messages, list, repair, crashes>>

(* The process dies.  The next pass leaves out a source UID that a placement
   has and stores any other again. *)
StoreDies(u) ==
  LET t    == tasks[u]
      held == \E i \in DOMAIN list : list[i].src = u
  IN  /\ t.stage \in {"rows", "manifest"}
      /\ Crash
      /\ tasks' = [tasks EXCEPT ![u] =
                     IF held THEN StoreDone ELSE NoTask]
      /\ owed' = IF t.stage = "manifest" /\ ~HasManifest(t.uid)
                 THEN owed \cup {t.uid} ELSE owed
      /\ UNCHANGED <<stores, repair, rebuild, check>>

----------------------------------------------------------------------------
(* repair and set_seen. *)

(* Mutant: any placement with a source UID is repaired. *)
RepairPutAny(i, m) ==
  /\ repair = NoRepair
  /\ list[i].src # NoSource
  /\ blobs' = blobs \cup {m}
  /\ repair' = [uid |-> i, msg |-> m]
  /\ Disturb(check)
  /\ UNCHANGED <<messages, list, versions, tasks, rebuild, owed, crashes>>

(* refetch got the message of a gap: its bytes first... *)
RepairPut(i, m) ==
  /\ repair = NoRepair
  /\ list[i].msg = Empty /\ list[i].src # NoSource
  /\ blobs' = blobs \cup {m}
  /\ repair' = [uid |-> i, msg |-> m]
  /\ Disturb(check)
  /\ UNCHANGED <<messages, list, versions, tasks, rebuild, owed, crashes>>

(* ... then its row; the manifest is not written again. *)
RepairCommit ==
  /\ repair # NoRepair
  /\ messages' = messages \cup {repair.msg}
  /\ list' = [list EXCEPT ![repair.uid].msg = repair.msg]
  /\ repair' = NoRepair
  /\ Disturb(rebuild)
  /\ UNCHANGED <<blobs, versions, tasks, check, owed, crashes>>

(* drop_empty_message_if_unused at the end of a repair. *)
DropEmpty ==
  /\ repair = NoRepair
  /\ Empty \in messages
  /\ \A i \in DOMAIN list : list[i].msg # Empty
  /\ messages' = messages \ {Empty}
  /\ Disturb(check)
  /\ UNCHANGED <<blobs, list, versions, tasks, repair, rebuild, owed, crashes>>

RepairDies ==
  /\ repair # NoRepair
  /\ Crash
  /\ repair' = NoRepair
  /\ UNCHANGED <<stores, tasks, rebuild, check, owed>>

(* set_seen: the row only. *)
SetSeen(i, seen) ==
  /\ list[i].seen # seen
  /\ list' = [list EXCEPT ![i].seen = seen]
  /\ Disturb(rebuild)
  /\ UNCHANGED <<blobs, messages, versions, tasks, repair, check, owed, crashes>>

----------------------------------------------------------------------------
(* rebuild_manifests: list every version, delete each, read the rows, write
   one manifest per row in UID order. *)

RebuildBegin ==
  /\ rebuild.step = "idle"
  /\ rebuild' = [NoRebuild EXCEPT !.step = "purge", !.stale = versions]
  /\ UNCHANGED <<stores, tasks, repair, check, owed, crashes>>

(* Mutant: a plain delete, which leaves the bytes as a noncurrent version. *)
PurgePlain(v) ==
  /\ v \in rebuild.stale
  /\ rebuild' = [rebuild EXCEPT !.stale = @ \ {v}]
  /\ Disturb(check)
  /\ UNCHANGED <<stores, tasks, repair, owed, crashes>>

Purge(v) ==
  /\ v \in rebuild.stale
  /\ versions' = versions \ {v}
  /\ rebuild' = [rebuild EXCEPT !.stale = @ \ {v}]
  /\ Disturb(check)
  /\ UNCHANGED <<blobs, messages, list, tasks, repair, owed, crashes>>

ReadRows ==
  /\ rebuild.step = "purge" /\ rebuild.stale = {}
  /\ rebuild' = [rebuild EXCEPT !.step = "write", !.rows = list]
  /\ UNCHANGED <<stores, tasks, repair, check, owed, crashes>>

(* Mutant: rows that have no source UID are left out. *)
RewriteKnown ==
  LET u == rebuild.next
  IN  /\ rebuild.step = "write" /\ u <= Len(rebuild.rows)
      /\ IF rebuild.rows[u].src = NoSource THEN UNCHANGED versions
         ELSE Put(u, AsManifest(rebuild.rows[u]))
      /\ rebuild' = [rebuild EXCEPT !.next = u + 1]
      /\ owed' = owed \ {u}
      /\ Disturb(check)
      /\ UNCHANGED <<blobs, messages, list, tasks, repair, crashes>>

Rewrite ==
  LET u == rebuild.next
  IN  /\ rebuild.step = "write" /\ u <= Len(rebuild.rows)
      /\ Put(u, AsManifest(rebuild.rows[u]))
      /\ rebuild' = [rebuild EXCEPT !.next = u + 1]
      /\ owed' = owed \ {u}
      /\ Disturb(check)
      /\ UNCHANGED <<blobs, messages, list, tasks, repair, crashes>>

Rebuilt == rebuild.step = "write" /\ rebuild.next > Len(rebuild.rows)

RebuildEnd ==
  /\ Rebuilt
  /\ rebuild' = NoRebuild
  /\ UNCHANGED <<stores, tasks, repair, check, owed, crashes>>

(* Whatever it has purged and not written stays away. *)
RebuildDies ==
  /\ rebuild.step # "idle" /\ ~Rebuilt
  /\ Crash
  /\ rebuild' = NoRebuild
  /\ owed' = owed \cup {u \in DOMAIN list : ~HasManifest(u)}
  /\ UNCHANGED <<stores, tasks, repair, check>>

----------------------------------------------------------------------------
(* check::run --deep.  Each count is a statement or a listing of its own and
   sees what is there at that moment. *)

CheckStep(from, next) == check.step = from /\ check' = next
CheckFrame == UNCHANGED <<stores, tasks, repair, rebuild, owed, crashes>>

CountMessages ==
  /\ CheckStep("idle", [NoCheck EXCEPT !.step = "placements",
                          !.messages = Cardinality(messages)])
  /\ CheckFrame

CountPlacements ==
  /\ CheckStep("placements", [check EXCEPT !.step = "blobs",
                                !.placements = Len(list)])
  /\ CheckFrame

ListBlobs ==
  /\ CheckStep("blobs", [check EXCEPT !.step = "manifests",
                           !.blobs = Cardinality(blobs)])
  /\ CheckFrame

(* Mutant: every version of a key is counted. *)
CountVersions ==
  /\ CheckStep("manifests", [check EXCEPT !.step = "verify",
                               !.manifests = Cardinality(versions)])
  /\ CheckFrame

(* A listing shows each key once, whatever versions it has. *)
ListManifests ==
  /\ CheckStep("manifests", [check EXCEPT !.step = "verify",
                               !.manifests = Cardinality(Keys)])
  /\ CheckFrame

(* The hashes of all message rows, and each of their blobs. *)
Verify ==
  /\ CheckStep("verify", [NoCheck EXCEPT !.step = "said",
       !.alone = check.alone,
       !.consistent = /\ check.manifests = check.placements
                      /\ check.blobs >= check.messages
                      /\ messages \subseteq blobs])
  /\ CheckFrame

CheckEnd == CheckStep("said", NoCheck) /\ CheckFrame

----------------------------------------------------------------------------
Store(u) ==
  \/ \E m \in Messages, seen \in SeenAtSource : PutMessage(u, m, seen)
  \/ CommitRows(u)
  \/ PutManifest(u)
  \/ StoreDies(u)

Owner ==
  \/ \E i \in DOMAIN list, m \in Contents : RepairPut(i, m)
  \/ RepairCommit
  \/ DropEmpty
  \/ RepairDies
  \/ \E i \in DOMAIN list, seen \in BOOLEAN : SetSeen(i, seen)

RebuildNext ==
  \/ RebuildBegin
  \/ \E v \in rebuild.stale : Purge(v)
  \/ ReadRows
  \/ Rewrite
  \/ RebuildEnd
  \/ RebuildDies

CheckNext ==
  \/ CountMessages
  \/ CountPlacements
  \/ ListBlobs
  \/ ListManifests
  \/ Verify
  \/ CheckEnd

Next ==
  \/ \E u \in SourceUids : Store(u)
  \/ Owner
  \/ RebuildNext
  \/ CheckNext

Spec == Init /\ [][Next]_vars
----------------------------------------------------------------------------
(* Every variable has its type. *)
TypeOK ==
  /\ blobs \in SUBSET Messages
  /\ messages \in SUBSET Messages
  /\ list \in Seq(Row)
  /\ versions \in SUBSET Version
  /\ tasks \in [SourceUids -> Task]
  /\ repair \in Repair
  /\ rebuild \in Rebuild
  /\ check \in Check
  /\ owed \in SUBSET Nat
  /\ crashes \in 0 .. MaxCrashes

(* Some store_message has committed the placement and will write its manifest. *)
Pending(u) ==
  \E s \in SourceUids : tasks[s].stage = "manifest" /\ tasks[s].uid = u

(* A rebuild beside a running ingest loses no manifest: when it is over, the
   placements without one are those a store_message is about to write one for
   and those a process that died left without. *)
ManifestsKept ==
  rebuild.step = "idle" =>
    \A u \in DOMAIN list : HasManifest(u) \/ Pending(u) \/ u \in owed

(* A rebuild that nothing wrote beside leaves exactly one version of one
   manifest per placement, and it says what the row says. *)
RebuildReproduces ==
  Rebuilt /\ rebuild.alone =>
    versions = {[uid |-> u, n |-> 1, manifest |-> AsManifest(list[u])] :
                  u \in DOMAIN list}

(* The check compares numbers and still tells the truth both ways, unless
   an object, a placement or a message row came or went meanwhile: it finds the archive
   consistent exactly when every placement has a manifest and every message
   row its blob. *)
VerdictTrue ==
  check.step = "said" /\ check.alone =>
    (check.consistent <=> /\ \A u \in DOMAIN list : HasManifest(u)
                          /\ messages \subseteq blobs)

(* What check.rs says it checks: that the index can be derived from the
   bucket, so that the manifests name the messages of the placements. *)
ConsistentIsDerivable ==
  check.step = "said" /\ check.alone /\ check.consistent =>
    \A u \in DOMAIN list : HasManifest(u) /\ Shown(u).msg = list[u].msg

(* What the readers of the archive see of the folder is UidLog, whatever the
   commands do. *)
ThisFolder == "this"
LogEntries ==
  {[folder |-> ThisFolder, uid |-> i, msg |-> list[i].msg] : i \in DOMAIN list}
Log == INSTANCE UidLog WITH
  Folders <- {ThisFolder},
  next    <- [f \in {ThisFolder} |-> Len(list) + 1],
  entries <- LogEntries

ImplementsUidLog == Log!LogSpec
----------------------------------------------------------------------------
(* What makes them inductive. *)

(* Manifests, and the tasks and the repair under way, are of placements that
   are there: the rows come first and are never taken away. *)
HaveRows ==
  /\ \A v \in versions : v.uid \in DOMAIN list
  /\ \A s \in SourceUids :
       tasks[s].stage = "manifest" => tasks[s].uid \in DOMAIN list
  /\ repair # NoRepair => repair.uid \in DOMAIN list /\ repair.msg \in blobs

(* What repair is about to fill still is a gap: only repair fills one. *)
RepairsGap ==
  repair # NoRepair => repair.msg \in Contents /\ list[repair.uid].msg = Empty

(* The rows a rebuild has read are the first of the list. *)
RowsRead ==
  /\ rebuild.step = "idle" => rebuild = NoRebuild
  /\ rebuild.step = "purge" => rebuild.next = 1
  /\ rebuild.step = "write" =>
       /\ rebuild.stale = {}
       /\ Len(rebuild.rows) <= Len(list)
       /\ rebuild.next \in 1 .. Len(rebuild.rows) + 1

(* While it writes, what it has still to write is the only exception. *)
Covered ==
  rebuild.step = "write" =>
    \A u \in DOMAIN list :
      \/ HasManifest(u) \/ Pending(u) \/ u \in owed
      \/ u \in rebuild.next .. Len(rebuild.rows)

(* What a rebuild that nothing wrote beside has done so far. *)
Reproduced ==
  rebuild.alone =>
    /\ rebuild.step = "purge" => versions = rebuild.stale
    /\ rebuild.step = "write" =>
         /\ rebuild.rows = list
         /\ versions = {[uid |-> u, n |-> 1, manifest |-> AsManifest(list[u])] :
                          u \in 1 .. rebuild.next - 1}

(* What the counts of a check that nothing came between are of. *)
Counted ==
  check.alone =>
    /\ check.step \in {"placements", "blobs", "manifests", "verify"} =>
         check.messages <= Cardinality(messages)
    /\ check.step \in {"blobs", "manifests", "verify"} =>
         check.placements = Len(list)
    /\ check.step \in {"manifests", "verify"} =>
         check.blobs = Cardinality(blobs)
    /\ check.step = "verify" =>
         check.manifests = Cardinality(Keys)

IndInv ==
  /\ TypeOK
  /\ HaveRows
  /\ RowsRead
  /\ ManifestsKept
  /\ Covered
  /\ Reproduced
  /\ Counted
  /\ VerdictTrue
=============================================================================
