------------------------- MODULE MaintenanceProofs -------------------------
(***************************************************************************)
(* Theorems about Maintenance, for any number of messages, placements and  *)
(* store_messages, any number of rebuilds, repairs and checks beside them. *)
(***************************************************************************)
EXTENDS Maintenance, FiniteSetTheorems, SequenceTheorems, TLAPS

LEMMA NoneAreTyped ==
  /\ NoTask \in Task /\ StoreDone \in Task
  /\ NoRepair \in Repair
  /\ NoRebuild \in Rebuild
  /\ NoCheck \in Check
<1>1. NoTask \in Task /\ StoreDone \in Task
  BY DEF NoTask, StoreDone, Task, Messages
<1>2. NoRepair \in Repair /\ NoCheck \in Check
  BY DEF NoRepair, Repair, NoCheck, Check, Messages
<1>3. <<>> \in Seq(Row) /\ {} \in SUBSET Version
  OBVIOUS
<1>4. NoRebuild \in Rebuild
  BY <1>3 DEF NoRebuild, Rebuild
<1> QED
  BY <1>1, <1>2, <1>4

LEMMA AsManifestType ==
  ASSUME NEW row \in Row
  PROVE  AsManifest(row) \in Manifest
  BY DEF AsManifest, Row, Manifest

LEMMA DisturbType ==
  /\ rebuild \in Rebuild /\ Disturb(rebuild) => rebuild' \in Rebuild
  /\ check \in Check /\ Disturb(check) => check' \in Check
  BY DEF Disturb, Rebuild, Check

(* A put adds one version. *)
LEMMA PutType ==
  ASSUME versions \in SUBSET Version, NEW u \in Nat, NEW m \in Manifest, Put(u, m)
  PROVE  /\ versions' \in SUBSET Version
         /\ \E n \in Nat :
              versions' = versions \cup {[uid |-> u, n |-> n, manifest |-> m]}
  BY MaintenanceAssumption DEF Put, Version

LEMMA Finite ==
  ASSUME TypeOK, HaveRows
  PROVE  /\ IsFiniteSet(messages) /\ Cardinality(messages) \in Nat
         /\ IsFiniteSet(blobs) /\ Cardinality(blobs) \in Nat
         /\ Keys \subseteq 1 .. Len(list)
         /\ IsFiniteSet(Keys) /\ Cardinality(Keys) \in Nat
         /\ Cardinality(Keys) = Len(list) <=> Keys = DOMAIN list
<1>1. IsFiniteSet(Messages)
  BY MaintenanceAssumption, FS_AddElement DEF Messages
<1>2. IsFiniteSet(messages) /\ IsFiniteSet(blobs)
  BY <1>1, FS_Subset DEF TypeOK
<1>3. Len(list) \in Nat /\ DOMAIN list = 1 .. Len(list)
  BY DEF TypeOK
<1>4. Keys \subseteq 1 .. Len(list)
  BY <1>3 DEF HaveRows, Keys
<1>5. IsFiniteSet(1 .. Len(list)) /\ Cardinality(1 .. Len(list)) = Len(list)
  <2>1. 1 \in Int /\ Len(list) \in Int
    BY <1>3
  <2>2. /\ IsFiniteSet(1 .. Len(list))
        /\ Cardinality(1 .. Len(list)) = IF 1 > Len(list) THEN 0 ELSE Len(list) - 1 + 1
    BY <2>1, FS_Interval
  <2> QED
    BY <1>3, <2>2
<1>6. IsFiniteSet(Keys) /\ (Cardinality(Keys) = Len(list) => Keys = 1 .. Len(list))
  BY <1>4, <1>5, FS_Subset
<1> QED
  BY <1>2, <1>3, <1>4, <1>5, <1>6, FS_CardinalityType

----------------------------------------------------------------------------
THEOREM InitInv == Init => IndInv
<1> SUFFICES ASSUME Init PROVE IndInv
  OBVIOUS
<1> USE MaintenanceAssumption, NoneAreTyped
<1>1. \A i \in DOMAIN Legacy : i \in Nat /\ Legacy[i] \in Row
  OBVIOUS
<1>a. versions = {[uid |-> i, n |-> 1, manifest |-> AsManifest(Legacy[i])] :
                    i \in DOMAIN Legacy}
  BY DEF Init
<1>b. \A i \in DOMAIN Legacy :
        [uid |-> i, n |-> 1, manifest |-> AsManifest(Legacy[i])] \in Version
  BY <1>1, AsManifestType DEF Version
<1>2. /\ versions \in SUBSET Version
      /\ \A u \in DOMAIN list : HasManifest(u)
  <2>1. versions \in SUBSET Version
    BY <1>a, <1>b
  <2>2. ASSUME NEW i \in DOMAIN Legacy
        PROVE  [uid |-> i, n |-> 1, manifest |-> AsManifest(Legacy[i])] \in VersionsOf(i)
    BY <1>a DEF VersionsOf
  <2> QED
    BY <2>1, <2>2 DEF Init, HasManifest
<1>3. messages \in SUBSET Messages
  BY <1>1 DEF Init, Row
<1>4. TypeOK
  BY <1>2, <1>3 DEF Init, TypeOK
<1>5. HaveRows
  BY DEF Init, HaveRows, NoTask
<1>6. RowsRead /\ ManifestsKept /\ Covered /\ Reproduced
  BY <1>2 DEF Init, RowsRead, ManifestsKept, Covered, Reproduced, NoRebuild
<1>7. Counted /\ VerdictTrue
  BY DEF Init, Counted, VerdictTrue, NoCheck
<1> QED
  BY <1>4, <1>5, <1>6, <1>7 DEF IndInv

----------------------------------------------------------------------------
(* Steps of store_message. *)

LEMMA PutMessageInv ==
  ASSUME IndInv, NEW u \in SourceUids, NEW m \in Messages, NEW seen \in SeenAtSource,
         PutMessage(u, m, seen)
  PROVE  IndInv'
<1> USE MaintenanceAssumption DEF PutMessage
<1>0. TypeOK /\ HaveRows
  BY DEF IndInv
<1>1. [stage |-> "rows", msg |-> m, seen |-> seen, uid |-> 0] \in Task
  BY DEF Task
<1>2. TypeOK'
  BY <1>0, <1>1, DisturbType DEF TypeOK
<1>3. HaveRows'
  BY <1>0 DEF TypeOK, HaveRows
<1>4. \A i : Pending(i) => Pending(i)'
  BY <1>0 DEF TypeOK, Pending
<1>5. (RowsRead /\ ManifestsKept /\ Covered /\ Reproduced)'
  BY <1>4 DEF IndInv, RowsRead, ManifestsKept, Covered, Reproduced, HasManifest, VersionsOf
<1>6. (Counted /\ VerdictTrue)'
  BY DEF IndInv, Disturb, Counted, VerdictTrue
<1> QED
  BY <1>2, <1>3, <1>5, <1>6 DEF IndInv

(* A changed row leaves as many rows as there were. *)
LEMMA RowChanged ==
  ASSUME TypeOK, NEW i \in DOMAIN list, NEW row \in Row,
         list' = [list EXCEPT ![i] = row]
  PROVE  list' \in Seq(Row) /\ Len(list') = Len(list) /\ DOMAIN list' = DOMAIN list
<1>1. list \in Seq(Row) /\ DOMAIN list = 1 .. Len(list)
  BY DEF TypeOK
<1> QED
  BY <1>1, ExceptSeq

LEMMA DisturbRead ==
  ASSUME TypeOK, RowsRead, Disturb(rebuild), Len(list') \in Nat, Len(list') >= Len(list)
  PROVE  RowsRead'
<1>1. rebuild \in Rebuild /\ Len(list) \in Nat
  BY DEF TypeOK
<1>2. CASE rebuild.step = "idle"
  BY <1>2 DEF RowsRead, Disturb, NoRebuild
<1>3. CASE rebuild.step # "idle"
  <2>1. /\ rebuild'.step = rebuild.step /\ rebuild'.next = rebuild.next
        /\ rebuild'.rows = rebuild.rows /\ rebuild'.stale = rebuild.stale
        /\ Len(rebuild.rows) \in Nat
    BY <1>1, <1>3 DEF Disturb, Rebuild
  <2> QED
    BY <1>1, <1>3, <2>1 DEF RowsRead
<1> QED
  BY <1>2, <1>3

LEMMA CommitRowsInv ==
  ASSUME IndInv, NEW u \in SourceUids, CommitRows(u)
  PROVE  IndInv'
<1> USE MaintenanceAssumption
<1>0. TypeOK /\ HaveRows /\ tasks[u] \in Task /\ list \in Seq(Row) /\ DOMAIN list = 1 .. Len(list)
  BY DEF IndInv, TypeOK
<1>1. PICK uid \in Nat :
        /\ tasks' = [tasks EXCEPT ![u].stage = "manifest", ![u].uid = uid]
        /\ list' \in Seq(Row) /\ uid \in DOMAIN list'
        /\ \/ Len(list') = Len(list)
           \/ Len(list') = Len(list) + 1 /\ uid = Len(list')
  <2>1. CASE \E i \in DOMAIN list :
               /\ list' = [list EXCEPT ![i].src = IF @ = NoSource THEN u ELSE @]
               /\ tasks' = [tasks EXCEPT ![u].stage = "manifest", ![u].uid = i]
    <3>1. PICK i \in DOMAIN list :
            /\ list' = [list EXCEPT ![i].src = IF @ = NoSource THEN u ELSE @]
            /\ tasks' = [tasks EXCEPT ![u].stage = "manifest", ![u].uid = i]
      BY <2>1
    <3> DEFINE row == [list[i] EXCEPT !.src = IF @ = NoSource THEN u ELSE @]
    <3>a. list[i] \in Row /\ i \in Nat
      BY <1>0, ElementOfSeq
    <3>2. row \in Row
      BY <3>a DEF Row
    <3>3. list' = [list EXCEPT ![i] = row]
      BY <3>1
    <3>4. list' \in Seq(Row) /\ Len(list') = Len(list) /\ i \in DOMAIN list'
      BY <1>0, <3>2, <3>3, RowChanged
    <3> QED
      BY <3>1, <3>4, <3>a
  <2>2. CASE /\ list' = Append(list, [msg |-> tasks[u].msg, src |-> u, seen |-> tasks[u].seen])
             /\ tasks' = [tasks EXCEPT ![u].stage = "manifest", ![u].uid = Len(list) + 1]
    <3>1. [msg |-> tasks[u].msg, src |-> u, seen |-> tasks[u].seen] \in Row
      BY <1>0 DEF Row, Task
    <3>2. /\ list' \in Seq(Row) /\ Len(list') = Len(list) + 1
          /\ Len(list) + 1 \in Nat /\ Len(list) + 1 \in DOMAIN list'
      BY <1>0, <2>2, <3>1, AppendProperties
    <3> QED
      BY <2>2, <3>2
  <2> QED
    BY <2>1, <2>2 DEF CommitRows
<1>2. tasks' \in [SourceUids -> Task]
  BY <1>0, <1>1 DEF TypeOK, Task
<1>3. UNCHANGED <<blobs, versions, repair, owed, crashes>> /\ tasks[u].stage = "rows"
      /\ messages' = messages \cup {tasks[u].msg} /\ Disturb(check) /\ Disturb(rebuild)
  BY DEF CommitRows
<1>4. TypeOK'
  BY <1>0, <1>1, <1>2, <1>3, DisturbType DEF TypeOK, Task
<1>5. DOMAIN list' = 1 .. Len(list') /\ Len(list) \in Nat /\ Len(list') \in Nat
  BY <1>0, <1>1
<1>b. \/ Len(list') = Len(list)
      \/ Len(list') = Len(list) + 1 /\ uid = Len(list')
  BY <1>1
<1>d. PICK old \in Nat, new \in Nat : old = Len(list) /\ new = Len(list')
  BY <1>5
<1>e. /\ new = old \/ (new = old + 1 /\ uid = new)
      /\ DOMAIN list = 1 .. old /\ DOMAIN list' = 1 .. new
  BY <1>0, <1>5, <1>b, <1>d
<1>c. Len(list') >= Len(list)
  BY <1>d, <1>e
<1>a. DOMAIN list \subseteq DOMAIN list'
  BY <1>e
<1>6. HaveRows'
  <2>1. \A v \in versions' : v.uid \in DOMAIN list'
    BY <1>0, <1>3, <1>a DEF HaveRows
  <2>2. ASSUME NEW t \in SourceUids, tasks'[t].stage = "manifest"
        PROVE  tasks'[t].uid \in DOMAIN list'
    BY <1>0, <1>1, <1>a, <2>2 DEF TypeOK, HaveRows, Task
  <2>3. repair' # NoRepair => repair'.uid \in DOMAIN list' /\ repair'.msg \in blobs'
    BY <1>0, <1>3, <1>a DEF HaveRows
  <2> QED
    BY <2>1, <2>2, <2>3 DEF HaveRows
<1>7. \A i : Pending(i) => Pending(i)'
  BY <1>0, <1>1, <1>3 DEF TypeOK, Pending
<1>8. Pending(uid)'
  BY <1>0, <1>1 DEF TypeOK, Pending
<1>9. \A i \in DOMAIN list' : i \in DOMAIN list \/ i = uid
  BY <1>e
<1>10. RowsRead'
  BY <1>0, <1>3, <1>5, <1>c, DisturbRead DEF IndInv
<1>11. ManifestsKept' /\ Covered'
  BY <1>0, <1>3, <1>7, <1>8, <1>9
     DEF IndInv, TypeOK, Rebuild, ManifestsKept, Covered, Disturb, HasManifest, VersionsOf
<1>12. Reproduced' /\ Counted' /\ VerdictTrue'
  BY <1>0, <1>3 DEF TypeOK, Rebuild, Check, Reproduced, Counted, VerdictTrue, Disturb
<1> QED
  BY <1>4, <1>6, <1>10, <1>11, <1>12 DEF IndInv

LEMMA PutManifestInv ==
  ASSUME IndInv, NEW u \in SourceUids, PutManifest(u)
  PROVE  IndInv'
<1> USE MaintenanceAssumption
<1>0. TypeOK /\ HaveRows /\ tasks[u] \in Task /\ tasks[u].stage = "manifest"
  BY DEF IndInv, TypeOK, PutManifest
<1>b. PICK uid : uid = tasks[u].uid
  OBVIOUS
<1> DEFINE m == [msg |-> tasks[u].msg, src |-> u, seen |-> tasks[u].seen]
<1>1. m \in Manifest /\ uid \in Nat /\ uid \in DOMAIN list
  BY <1>0, <1>b DEF Manifest, Task, HaveRows
<1>2. Put(uid, m)
  BY <1>b DEF PutManifest
<1>3. /\ versions' \in SUBSET Version
      /\ \E n \in Nat : versions' = versions \cup {[uid |-> uid, n |-> n, manifest |-> m]}
  BY <1>0, <1>1, <1>2, PutType DEF TypeOK
<1> HIDE DEF m
<1>4. /\ UNCHANGED <<blobs, messages, list, repair, crashes>>
      /\ tasks' = [tasks EXCEPT ![u] = StoreDone] /\ owed' = owed \ {uid}
      /\ Disturb(check) /\ Disturb(rebuild)
  BY <1>b DEF PutManifest
<1>5. TypeOK'
  BY <1>0, <1>3, <1>4, DisturbType, NoneAreTyped DEF TypeOK
<1>6. HaveRows'
  BY <1>0, <1>1, <1>3, <1>4 DEF TypeOK, HaveRows, StoreDone, NoTask
<1>7. HasManifest(uid)' /\ \A i : HasManifest(i) => HasManifest(i)'
  <2>1. PICK n \in Nat :
          versions' = versions \cup {[uid |-> uid, n |-> n, manifest |-> m]}
    BY <1>3
  <2>2. [uid |-> uid, n |-> n, manifest |-> m] \in VersionsOf(uid)'
    BY <2>1 DEF VersionsOf
  <2>3. \A i : VersionsOf(i) \subseteq VersionsOf(i)'
    BY <2>1 DEF VersionsOf
  <2> QED
    BY <2>2, <2>3 DEF HasManifest
<1>8. \A i : Pending(i) => Pending(i)' \/ i = uid
  BY <1>0, <1>b, <1>4 DEF TypeOK, Pending
<1>9. \A i \in owed : i \in owed' \/ i = uid
  BY <1>4
<1>10. RowsRead'
  BY <1>0, <1>4, DisturbRead DEF IndInv, TypeOK
<1>11. ManifestsKept' /\ Covered'
  BY <1>0, <1>4, <1>7, <1>8, <1>9
     DEF IndInv, TypeOK, Rebuild, ManifestsKept, Covered, Disturb
<1>12. Reproduced' /\ Counted' /\ VerdictTrue'
  BY <1>0, <1>4 DEF TypeOK, Rebuild, Check, Reproduced, Counted, VerdictTrue, Disturb
<1> QED
  BY <1>5, <1>6, <1>10, <1>11, <1>12 DEF IndInv

LEMMA StoreDiesInv ==
  ASSUME IndInv, NEW u \in SourceUids, StoreDies(u)
  PROVE  IndInv'
<1> USE MaintenanceAssumption
<1>0. TypeOK /\ HaveRows /\ tasks[u] \in Task
  BY DEF IndInv, TypeOK
<1>1. /\ UNCHANGED <<blobs, messages, list, versions, repair, rebuild, check>>
      /\ \/ tasks' = [tasks EXCEPT ![u] = StoreDone]
         \/ tasks' = [tasks EXCEPT ![u] = NoTask]
  BY DEF StoreDies, stores
<1>a. crashes' \in 0 .. MaxCrashes
  BY <1>0 DEF TypeOK, StoreDies, Crash
<1>2. owed' \in SUBSET Nat /\ owed \subseteq owed'
  BY <1>0 DEF TypeOK, StoreDies, Task
<1>3. TypeOK'
  BY <1>0, <1>1, <1>a, <1>2, NoneAreTyped DEF TypeOK
<1>4. HaveRows'
  BY <1>0, <1>1 DEF TypeOK, HaveRows, NoTask, StoreDone
<1>5. \A i : Pending(i) => Pending(i)' \/ HasManifest(i) \/ i \in owed'
  BY <1>0, <1>1 DEF TypeOK, Pending, StoreDies
<1>6. RowsRead' /\ ManifestsKept' /\ Covered' /\ Reproduced'
  BY <1>1, <1>2, <1>5 DEF IndInv, RowsRead, ManifestsKept, Covered, Reproduced, HasManifest, VersionsOf
<1>7. Counted' /\ VerdictTrue'
  BY <1>1 DEF IndInv, Counted, VerdictTrue, HasManifest, VersionsOf, Keys
<1> QED
  BY <1>3, <1>4, <1>6, <1>7 DEF IndInv
----------------------------------------------------------------------------
(* Steps of repair and set_seen. *)

LEMMA RepairPutInv ==
  ASSUME IndInv, NEW i \in DOMAIN list, NEW m \in Contents, RepairPut(i, m)
  PROVE  IndInv'
<1> USE DEF RepairPut
<1>0. TypeOK /\ HaveRows /\ i \in Nat
  BY DEF IndInv, TypeOK
<1>1. [uid |-> i, msg |-> m] \in Repair
  BY <1>0 DEF Repair, Messages
<1>2. TypeOK'
  BY <1>0, <1>1, DisturbType DEF TypeOK, Messages
<1>3. HaveRows'
  BY <1>0 DEF HaveRows
<1>4. (RowsRead /\ ManifestsKept /\ Covered /\ Reproduced)'
  BY DEF IndInv, RowsRead, ManifestsKept, Covered, Reproduced, HasManifest, VersionsOf, Pending
<1>5. (Counted /\ VerdictTrue)'
  BY DEF Disturb, Counted, VerdictTrue
<1> QED
  BY <1>2, <1>3, <1>4, <1>5 DEF IndInv

(* A row is changed, and what manifests there are and what a check counts
   stay as they are. *)
LEMMA ChangeRowInv ==
  ASSUME IndInv, NEW i \in DOMAIN list, NEW row \in Row,
         list' = [list EXCEPT ![i] = row],
         Disturb(rebuild), messages \subseteq messages', TypeOK',
         messages' = messages \/ \E m \in blobs : messages' = messages \cup {m},
         UNCHANGED <<blobs, versions, tasks, check, owed>>
  PROVE  /\ RowsRead' /\ ManifestsKept' /\ Covered'
         /\ Reproduced' /\ Counted' /\ VerdictTrue'
<1>0. TypeOK /\ HaveRows /\ RowsRead
  BY DEF IndInv
<1>1. list' \in Seq(Row) /\ Len(list') = Len(list) /\ DOMAIN list' = DOMAIN list
  BY <1>0, RowChanged
<1>2. Len(list') \in Nat /\ Len(list') >= Len(list)
  BY <1>0, <1>1 DEF TypeOK
<1>3. RowsRead'
  BY <1>0, <1>2, DisturbRead
<1>4. ManifestsKept' /\ Covered'
  BY <1>0, <1>1 DEF IndInv, TypeOK, Rebuild, ManifestsKept, Covered, Disturb,
                    HasManifest, VersionsOf, Pending
<1>5. Reproduced'
  BY <1>0 DEF TypeOK, Rebuild, Reproduced, Disturb
<1>6. Cardinality(messages) <= Cardinality(messages')
  <2>1. IsFiniteSet(messages')
    <3>1. IsFiniteSet(Messages)
      BY MaintenanceAssumption, FS_AddElement DEF Messages
    <3> QED
      BY <3>1, FS_Subset DEF TypeOK
  <2> QED
    BY <2>1, FS_Subset
<1>7. Cardinality(messages) \in Nat /\ Cardinality(messages') \in Nat
  <2>1. IsFiniteSet(Messages)
    BY MaintenanceAssumption, FS_AddElement DEF Messages
  <2>2. messages \in SUBSET Messages /\ messages' \in SUBSET Messages
    BY <1>0 DEF TypeOK
  <2> QED
    BY <2>1, <2>2, FS_Subset, FS_CardinalityType
<1>8. Counted'
  <2>1. check.messages \in Nat
    BY <1>0 DEF TypeOK, Check
  <2> QED
    BY <1>1, <1>6, <1>7, <2>1 DEF IndInv, Counted, Keys
<1>9. messages \subseteq blobs <=> messages' \subseteq blobs'
  OBVIOUS
<1>10. VerdictTrue'
  BY <1>1, <1>9 DEF IndInv, VerdictTrue, HasManifest, VersionsOf
<1> QED
  BY <1>3, <1>4, <1>5, <1>8, <1>10

LEMMA RepairCommitInv ==
  ASSUME IndInv, RepairCommit
  PROVE  IndInv'
<1> DEFINE i   == repair.uid
           row == [list[i] EXCEPT !.msg = repair.msg]
<1>0. TypeOK /\ HaveRows /\ list \in Seq(Row) /\ DOMAIN list = 1 .. Len(list)
  BY DEF IndInv, TypeOK
<1>1. i \in DOMAIN list /\ repair.msg \in blobs /\ repair.msg \in Messages
  BY <1>0 DEF RepairCommit, HaveRows, TypeOK, Repair
<1>2. row \in Row
  <2>1. list[i] \in Row
    BY <1>0, <1>1, ElementOfSeq
  <2> QED
    BY <1>1, <2>1 DEF Row
<1>3. list' = [list EXCEPT ![i] = row]
  BY DEF RepairCommit
<1>4. list' \in Seq(Row) /\ DOMAIN list' = DOMAIN list
  BY <1>0, <1>1, <1>2, <1>3, RowChanged
<1>5. TypeOK'
  BY <1>0, <1>1, <1>4, DisturbType, NoneAreTyped DEF TypeOK, RepairCommit
<1>6. HaveRows'
  BY <1>0, <1>4 DEF HaveRows, RepairCommit
<1>7. /\ Disturb(rebuild)
      /\ messages' = messages \cup {repair.msg}
      /\ UNCHANGED <<blobs, versions, tasks, check, owed>>
  BY DEF RepairCommit
<1> HIDE DEF row
<1>8. PICK k \in DOMAIN list : list' = [list EXCEPT ![k] = row]
  BY <1>1, <1>3
<1>9. /\ RowsRead' /\ ManifestsKept' /\ Covered'
      /\ Reproduced' /\ Counted' /\ VerdictTrue'
  BY <1>1, <1>2, <1>5, <1>7, <1>8, ChangeRowInv
<1> QED
  BY <1>5, <1>6, <1>9 DEF IndInv

LEMMA SetSeenInv ==
  ASSUME IndInv, NEW i \in DOMAIN list, NEW seen \in BOOLEAN, SetSeen(i, seen)
  PROVE  IndInv'
<1> DEFINE row == [list[i] EXCEPT !.seen = seen]
<1>0. TypeOK /\ HaveRows /\ list \in Seq(Row) /\ DOMAIN list = 1 .. Len(list)
  BY DEF IndInv, TypeOK
<1>1. row \in Row
  <2>1. list[i] \in Row
    BY <1>0, ElementOfSeq
  <2> QED
    BY <2>1 DEF Row
<1>2. list' = [list EXCEPT ![i] = row]
  BY DEF SetSeen
<1>3. list' \in Seq(Row) /\ DOMAIN list' = DOMAIN list
  BY <1>0, <1>1, <1>2, RowChanged
<1>4. TypeOK'
  BY <1>0, <1>3, DisturbType DEF TypeOK, SetSeen
<1>5. HaveRows'
  BY <1>0, <1>3 DEF HaveRows, SetSeen
<1>6. /\ Disturb(rebuild) /\ messages' = messages
      /\ UNCHANGED <<blobs, versions, tasks, check, owed>>
  BY DEF SetSeen
<1> HIDE DEF row
<1>7. /\ RowsRead' /\ ManifestsKept' /\ Covered'
      /\ Reproduced' /\ Counted' /\ VerdictTrue'
  BY <1>1, <1>2, <1>4, <1>6, ChangeRowInv
<1> QED
  BY <1>4, <1>5, <1>7 DEF IndInv

LEMMA DropEmptyInv ==
  ASSUME IndInv, DropEmpty
  PROVE  IndInv'
<1> USE DEF DropEmpty
<1>0. TypeOK /\ HaveRows
  BY DEF IndInv
<1>1. TypeOK'
  BY <1>0, DisturbType DEF TypeOK
<1>2. HaveRows'
  BY <1>0 DEF HaveRows
<1>3. (RowsRead /\ ManifestsKept /\ Covered /\ Reproduced)'
  BY DEF IndInv, RowsRead, ManifestsKept, Covered, Reproduced, HasManifest, VersionsOf, Pending
<1>4. (Counted /\ VerdictTrue)'
  BY DEF Disturb, Counted, VerdictTrue
<1> QED
  BY <1>1, <1>2, <1>3, <1>4 DEF IndInv

LEMMA RepairDiesInv ==
  ASSUME IndInv, RepairDies
  PROVE  IndInv'
<1> USE MaintenanceAssumption DEF RepairDies
<1>0. TypeOK /\ HaveRows
  BY DEF IndInv
<1>1. crashes' \in 0 .. MaxCrashes
  BY <1>0 DEF TypeOK, Crash
<1>2. TypeOK'
  BY <1>0, <1>1, NoneAreTyped DEF TypeOK, stores
<1>3. HaveRows'
  BY <1>0 DEF HaveRows, stores
<1>4. (RowsRead /\ ManifestsKept /\ Covered /\ Reproduced /\ Counted /\ VerdictTrue)'
  BY DEF IndInv, RowsRead, ManifestsKept, Covered, Reproduced, HasManifest, VersionsOf,
         Pending, Counted, VerdictTrue, Keys, stores
<1> QED
  BY <1>2, <1>3, <1>4 DEF IndInv
----------------------------------------------------------------------------
(* Steps of a rebuild. *)

LEMMA RebuildBeginInv ==
  ASSUME IndInv, RebuildBegin
  PROVE  IndInv'
<1> USE DEF RebuildBegin, stores
<1>0. TypeOK /\ HaveRows
  BY DEF IndInv
<1>1. rebuild' \in Rebuild /\ rebuild'.step = "purge" /\ rebuild'.next = 1
      /\ rebuild'.stale = versions
  BY <1>0, NoneAreTyped DEF TypeOK, Rebuild, NoRebuild
<1>2. TypeOK' /\ HaveRows'
  BY <1>0, <1>1 DEF TypeOK, HaveRows
<1>3. (RowsRead /\ ManifestsKept /\ Covered /\ Reproduced)'
  BY <1>1 DEF RowsRead, ManifestsKept, Covered, Reproduced
<1>4. (Counted /\ VerdictTrue)'
  BY DEF IndInv, Counted, VerdictTrue, HasManifest, VersionsOf, Keys
<1> QED
  BY <1>2, <1>3, <1>4 DEF IndInv

LEMMA PurgeInv ==
  ASSUME IndInv, NEW v \in rebuild.stale, Purge(v)
  PROVE  IndInv'
<1> USE DEF Purge
<1>0. TypeOK /\ HaveRows /\ rebuild \in Rebuild
  BY DEF IndInv, TypeOK
<1>1. rebuild.step = "purge" /\ rebuild.next = 1
  BY <1>0 DEF IndInv, RowsRead, NoRebuild, Rebuild
<1>2. /\ rebuild' \in Rebuild
      /\ rebuild'.step = "purge" /\ rebuild'.next = 1
      /\ rebuild'.stale = rebuild.stale \ {v} /\ rebuild'.alone = rebuild.alone
  BY <1>0, <1>1 DEF Rebuild
<1>3. TypeOK' /\ HaveRows'
  BY <1>0, <1>2, DisturbType DEF TypeOK, HaveRows
<1>4. (RowsRead /\ ManifestsKept /\ Covered)'
  BY <1>2 DEF RowsRead, ManifestsKept, Covered
<1>5. Reproduced'
  BY <1>1, <1>2 DEF IndInv, Reproduced
<1>6. (Counted /\ VerdictTrue)'
  BY DEF Disturb, Counted, VerdictTrue
<1> QED
  BY <1>3, <1>4, <1>5, <1>6 DEF IndInv

LEMMA ReadRowsInv ==
  ASSUME IndInv, ReadRows
  PROVE  IndInv'
<1> USE DEF ReadRows, stores
<1>0. TypeOK /\ HaveRows /\ rebuild \in Rebuild /\ rebuild.next = 1
      /\ list \in Seq(Row) /\ DOMAIN list = 1 .. Len(list) /\ Len(list) \in Nat
  BY DEF IndInv, TypeOK, RowsRead
<1>1. /\ rebuild' \in Rebuild /\ rebuild'.step = "write" /\ rebuild'.next = 1
      /\ rebuild'.stale = {} /\ rebuild'.rows = list /\ rebuild'.alone = rebuild.alone
  BY <1>0 DEF Rebuild
<1>2. TypeOK' /\ HaveRows'
  BY <1>0, <1>1 DEF TypeOK, HaveRows
<1>3. RowsRead'
  BY <1>0, <1>1 DEF RowsRead
<1>4. (ManifestsKept /\ Covered)'
  BY <1>0, <1>1 DEF ManifestsKept, Covered
<1>5. Reproduced'
  BY <1>1 DEF IndInv, Reproduced
<1>6. (Counted /\ VerdictTrue)'
  BY DEF IndInv, Counted, VerdictTrue, HasManifest, VersionsOf, Keys
<1> QED
  BY <1>2, <1>3, <1>4, <1>5, <1>6 DEF IndInv

LEMMA RewriteInv ==
  ASSUME IndInv, Rewrite
  PROVE  IndInv'
<1>0. TypeOK /\ HaveRows /\ RowsRead /\ rebuild \in Rebuild
      /\ Len(list) \in Nat /\ DOMAIN list = 1 .. Len(list)
      /\ rebuild.rows \in Seq(Row) /\ Len(rebuild.rows) \in Nat
  BY DEF IndInv, TypeOK, Rebuild
<1>a. PICK u \in Nat : u = rebuild.next
  BY <1>0 DEF Rebuild
<1>b. rebuild.step = "write" /\ u <= Len(rebuild.rows)
  BY <1>a DEF Rewrite
<1>1. u \in 1 .. Len(rebuild.rows) /\ u \in DOMAIN list
  BY <1>0, <1>a, <1>b DEF RowsRead
<1> DEFINE m == AsManifest(rebuild.rows[u])
<1>2. m \in Manifest
  BY <1>0, <1>1, AsManifestType, ElementOfSeq
<1>3. /\ Put(u, m)
      /\ rebuild' = [rebuild EXCEPT !.next = u + 1]
      /\ owed' = owed \ {u} /\ Disturb(check)
      /\ UNCHANGED <<blobs, messages, list, tasks, repair, crashes>>
  BY <1>a DEF Rewrite
<1>4. PICK n \in Nat :
        /\ versions' = versions \cup {[uid |-> u, n |-> n, manifest |-> m]}
        /\ n = 1 \/ \E v \in VersionsOf(u) : v.n = n - 1
  BY <1>3, MaintenanceAssumption DEF Put
<1>5. versions' \in SUBSET Version
  BY <1>0, <1>2, <1>3, PutType DEF TypeOK
<1> HIDE DEF m
<1>6. /\ rebuild' \in Rebuild /\ rebuild'.step = "write" /\ rebuild'.next = u + 1
      /\ rebuild'.stale = rebuild.stale /\ rebuild'.rows = rebuild.rows
      /\ rebuild'.alone = rebuild.alone
  BY <1>0, <1>3, <1>b DEF Rebuild
<1>7. TypeOK'
  BY <1>0, <1>3, <1>5, <1>6, DisturbType DEF TypeOK
<1>8. HaveRows'
  BY <1>0, <1>1, <1>3, <1>4 DEF HaveRows
<1>9. RowsRead'
  <2>1. u + 1 \in 1 .. Len(rebuild.rows) + 1
    BY <1>0, <1>1
  <2> QED
    BY <1>0, <1>3, <1>6, <1>b, <2>1 DEF RowsRead
<1>10. HasManifest(u)' /\ \A i : HasManifest(i) => HasManifest(i)'
  <2>1. [uid |-> u, n |-> n, manifest |-> m] \in VersionsOf(u)'
    BY <1>4 DEF VersionsOf
  <2>2. \A i : VersionsOf(i) \subseteq VersionsOf(i)'
    BY <1>4 DEF VersionsOf
  <2> QED
    BY <2>1, <2>2 DEF HasManifest
<1>11. ManifestsKept' /\ Covered'
  <2>1. ASSUME NEW i \in DOMAIN list
        PROVE  \/ HasManifest(i)' \/ Pending(i)' \/ i \in owed'
               \/ i \in u + 1 .. Len(rebuild.rows)
    <3>1. \/ HasManifest(i) \/ Pending(i) \/ i \in owed
          \/ i \in u .. Len(rebuild.rows)
      BY <1>a, <1>b DEF IndInv, Covered
    <3>2. i \in u .. Len(rebuild.rows) => i = u \/ i \in u + 1 .. Len(rebuild.rows)
      BY <1>0
    <3>3. Pending(i) => Pending(i)'
      BY <1>3 DEF Pending
    <3> QED
      BY <1>3, <1>10, <3>1, <3>2, <3>3
  <2> QED
    BY <1>3, <1>6, <2>1 DEF ManifestsKept, Covered
<1>12. Reproduced'
  <2> SUFFICES ASSUME rebuild.alone
               PROVE  versions' = {[uid |-> i, n |-> 1, manifest |-> AsManifest(list[i])] :
                                     i \in 1 .. u}
                      /\ rebuild.rows = list
    <3>1. (u + 1) - 1 = u
      OBVIOUS
    <3> QED
      BY <1>3, <1>6, <3>1 DEF Reproduced
  <2>1. /\ rebuild.rows = list
        /\ versions = {[uid |-> i, n |-> 1, manifest |-> AsManifest(list[i])] :
                         i \in 1 .. u - 1}
    BY <1>a, <1>b DEF IndInv, Reproduced
  <2>2. VersionsOf(u) = {}
    BY <2>1 DEF VersionsOf
  <2>3. n = 1 /\ m = AsManifest(list[u])
    BY <1>4, <2>1, <2>2 DEF m
  <2>4. 1 .. u = 1 .. u - 1 \cup {u}
    BY <1>1
  <2> QED
    BY <1>4, <2>1, <2>3, <2>4
<1>13. (Counted /\ VerdictTrue)'
  BY <1>3 DEF Disturb, Counted, VerdictTrue
<1> QED
  BY <1>7, <1>8, <1>9, <1>11, <1>12, <1>13 DEF IndInv

LEMMA RebuildEndInv ==
  ASSUME IndInv, RebuildEnd \/ RebuildDies
  PROVE  IndInv'
<1> USE MaintenanceAssumption, NoneAreTyped
<1>0. TypeOK /\ HaveRows /\ rebuild \in Rebuild
  BY DEF IndInv, TypeOK
<1>1. rebuild' = NoRebuild /\ UNCHANGED <<blobs, messages, list, versions, tasks, repair, check>>
  BY DEF RebuildEnd, RebuildDies, stores
<1>2. owed' \in SUBSET Nat /\ crashes' \in 0 .. MaxCrashes
  <2>1. DOMAIN list \subseteq Nat
    BY <1>0 DEF TypeOK
  <2>2. crashes' \in 0 .. MaxCrashes
    BY <1>0 DEF RebuildEnd, RebuildDies, TypeOK, Crash
  <2> QED
    BY <1>0, <2>1, <2>2 DEF RebuildEnd, RebuildDies, TypeOK
<1>3. TypeOK' /\ HaveRows'
  BY <1>0, <1>1, <1>2 DEF TypeOK, HaveRows
<1>4. ManifestsKept'
  <2>1. CASE RebuildEnd
    <3>1. rebuild.step = "write" /\ rebuild.next .. Len(rebuild.rows) = {}
      BY <1>0, <2>1 DEF RebuildEnd, Rebuilt, Rebuild
    <3>2. owed' = owed
      BY <2>1 DEF RebuildEnd
    <3> QED
      BY <1>1, <3>1, <3>2 DEF IndInv, Covered, ManifestsKept, HasManifest, VersionsOf, Pending
  <2>2. CASE RebuildDies
    BY <1>1, <2>2 DEF RebuildDies, ManifestsKept, HasManifest, VersionsOf
  <2> QED
    BY <2>1, <2>2
<1>5. (RowsRead /\ Covered /\ Reproduced)'
  BY <1>1 DEF RowsRead, Covered, Reproduced, NoRebuild
<1>6. (Counted /\ VerdictTrue)'
  BY <1>1 DEF IndInv, Counted, VerdictTrue, HasManifest, VersionsOf, Keys
<1> QED
  BY <1>3, <1>4, <1>5, <1>6 DEF IndInv

----------------------------------------------------------------------------
(* Steps of a check. *)

LEMMA CheckInv ==
  ASSUME IndInv, CheckNext
  PROVE  IndInv'
<1> USE DEF CheckStep, CheckFrame, stores
<1>0. TypeOK /\ HaveRows /\ check \in Check /\ Len(list) \in Nat
  BY DEF IndInv, TypeOK
<1>1. UNCHANGED <<blobs, messages, list, versions, tasks, repair, rebuild, owed, crashes>>
  BY DEF CheckNext, CountMessages, CountPlacements, ListBlobs, ListManifests, Verify, CheckEnd
<1>2. (HaveRows /\ RowsRead /\ ManifestsKept /\ Covered /\ Reproduced)'
  BY <1>1 DEF IndInv, HaveRows, RowsRead, ManifestsKept, Covered, Reproduced,
              HasManifest, VersionsOf, Pending
<1>3. /\ Cardinality(messages) \in Nat /\ Cardinality(blobs) \in Nat
      /\ Cardinality(Keys) \in Nat
      /\ Cardinality(Keys) = Len(list) <=> Keys = DOMAIN list
  BY <1>0, Finite
<1>4. \A u \in DOMAIN list : u \in Keys <=> HasManifest(u)
  BY DEF Keys, HasManifest, VersionsOf
<1>5. Keys \subseteq DOMAIN list
  BY <1>0 DEF HaveRows, Keys
<1>a. UNCHANGED Keys
  BY <1>1 DEF Keys
<1>b. CountMessages \/ CountPlacements \/ ListBlobs \/ ListManifests \/ Verify \/ CheckEnd
  BY DEF CheckNext
<1>6. check' \in Check
  <2>1. CASE CountMessages
    BY <1>3, <2>1 DEF CountMessages, Check, NoCheck
  <2>2. CASE CountPlacements
    BY <1>0, <2>2 DEF CountPlacements, Check
  <2>3. CASE ListBlobs
    BY <1>0, <1>3, <2>3 DEF ListBlobs, Check
  <2>4. CASE ListManifests
    BY <1>0, <1>3, <2>4 DEF ListManifests, Check
  <2>5. CASE Verify
    BY <1>0, <2>5 DEF Verify, Check, NoCheck
  <2>6. CASE CheckEnd
    BY <2>6, NoneAreTyped DEF CheckEnd
  <2> QED
    BY <1>b, <2>1, <2>2, <2>3, <2>4, <2>5, <2>6
<1>7. Counted'
  <2>1. CASE CountMessages
    BY <1>1, <1>3, <2>1 DEF CountMessages, NoCheck, Counted
  <2>2. CASE CountPlacements
    BY <1>0, <1>1, <2>2 DEF IndInv, CountPlacements, Check, Counted
  <2>3. CASE ListBlobs
    BY <1>0, <1>1, <2>3 DEF IndInv, ListBlobs, Check, Counted
  <2>4. CASE ListManifests
    BY <1>0, <1>1, <1>a, <2>4 DEF IndInv, ListManifests, Check, Counted
  <2>5. CASE Verify
    BY <2>5 DEF Verify, Counted, NoCheck
  <2>6. CASE CheckEnd
    BY <2>6 DEF CheckEnd, Counted, NoCheck
  <2> QED
    BY <1>b, <2>1, <2>2, <2>3, <2>4, <2>5, <2>6
<1>8. VerdictTrue'
  <2>1. CASE Verify
    <3> SUFFICES ASSUME check.alone
                 PROVE  check'.consistent <=> /\ \A u \in DOMAIN list : HasManifest(u)
                                              /\ messages \subseteq blobs
      BY <1>0, <1>1, <2>1 DEF Verify, VerdictTrue, NoCheck, Check, HasManifest, VersionsOf
    <3>1. check'.consistent <=> /\ check.manifests = check.placements
                                /\ check.blobs >= check.messages
                                /\ messages \subseteq blobs
      BY <2>1 DEF Verify, NoCheck
    <3>2. /\ check.manifests = Cardinality(Keys) /\ check.placements = Len(list)
          /\ check.blobs = Cardinality(blobs) /\ check.messages <= Cardinality(messages)
      BY <2>1 DEF Verify, IndInv, Counted
    <3>3. messages \subseteq blobs => Cardinality(messages) <= Cardinality(blobs)
      BY <1>0, Finite, FS_Subset
    <3>4. check.messages \in Nat
      BY <1>0 DEF Check
    <3>5. messages \subseteq blobs => check.blobs >= check.messages
      BY <1>3, <3>2, <3>3, <3>4
    <3>6. check.manifests = check.placements <=> \A u \in DOMAIN list : HasManifest(u)
      BY <1>3, <1>4, <1>5, <3>2
    <3> QED
      BY <3>1, <3>5, <3>6
  <2>2. CASE ~Verify
    <3>1. check'.step # "said"
      <4>1. CASE CountMessages
        BY <1>0, <4>1 DEF CountMessages, NoCheck, Check
      <4>2. CASE CountPlacements
        BY <1>0, <4>2 DEF CountPlacements, NoCheck, Check
      <4>3. CASE ListBlobs
        BY <1>0, <4>3 DEF ListBlobs, NoCheck, Check
      <4>4. CASE ListManifests
        BY <1>0, <4>4 DEF ListManifests, NoCheck, Check
      <4>5. CASE CheckEnd
        BY <1>0, <4>5 DEF CheckEnd, NoCheck, Check
      <4> QED
        BY <1>b, <2>2, <4>1, <4>2, <4>3, <4>4, <4>5
    <3> QED
      BY <3>1 DEF VerdictTrue
  <2> QED
    BY <2>1, <2>2
<1> QED
  BY <1>0, <1>1, <1>2, <1>6, <1>7, <1>8 DEF IndInv, TypeOK
----------------------------------------------------------------------------
LEMMA NextInv == IndInv /\ [Next]_vars => IndInv'
<1> SUFFICES ASSUME IndInv, [Next]_vars PROVE IndInv'
  OBVIOUS
<1>1. ASSUME NEW u \in SourceUids, Store(u) PROVE IndInv'
  BY <1>1, PutMessageInv, CommitRowsInv, PutManifestInv, StoreDiesInv DEF Store
<1>2. CASE Owner
  BY <1>2, RepairPutInv, RepairCommitInv, DropEmptyInv, RepairDiesInv, SetSeenInv DEF Owner
<1>3. CASE RebuildNext
  BY <1>3, RebuildBeginInv, PurgeInv, ReadRowsInv, RewriteInv, RebuildEndInv DEF RebuildNext
<1>4. CASE CheckNext
  BY <1>4, CheckInv
<1>5. CASE UNCHANGED vars
  <2>1. UNCHANGED <<blobs, messages, list, versions, tasks, repair, rebuild, check, owed, crashes>>
    BY <1>5 DEF vars, stores
  <2> QED
    BY <2>1 DEF IndInv, TypeOK, HaveRows, RowsRead, ManifestsKept, Covered, Reproduced,
                Counted, VerdictTrue, HasManifest, VersionsOf, Pending, Keys
<1> QED
  BY <1>1, <1>2, <1>3, <1>4, <1>5 DEF Next

THEOREM Invariance == Spec => []IndInv
  BY InitInv, NextInv, PTL DEF Spec

(* Every variable has its type, whatever the commands do side by side. *)
THEOREM TypeCorrect == Spec => []TypeOK
<1>1. IndInv => TypeOK
  BY DEF IndInv
<1> QED
  BY <1>1, Invariance, PTL

(* rebuild_manifests beside any number of store_messages loses no manifest:
   it lists what to purge before it reads the rows. *)
THEOREM KeepsManifests == Spec => []ManifestsKept
<1>1. IndInv => ManifestsKept
  BY DEF IndInv
<1> QED
  BY <1>1, Invariance, PTL

(* rebuild_manifests in a quiet archive of any size and with any number of
   old versions leaves one manifest per placement. *)
THEOREM Reproduces == Spec => []RebuildReproduces
<1>1. IndInv => RebuildReproduces
  <2> SUFFICES ASSUME IndInv, Rebuilt, rebuild.alone
               PROVE  versions = {[uid |-> u, n |-> 1, manifest |-> AsManifest(list[u])] :
                                    u \in DOMAIN list}
    BY DEF RebuildReproduces
  <2>1. /\ rebuild.step = "write" /\ rebuild.rows = list
        /\ versions = {[uid |-> u, n |-> 1, manifest |-> AsManifest(list[u])] :
                         u \in 1 .. rebuild.next - 1}
    BY DEF IndInv, Rebuilt, Reproduced
  <2>2. list \in Seq(Row) /\ DOMAIN list = 1 .. Len(list) /\ Len(list) \in Nat
    BY DEF IndInv, TypeOK
  <2>3. rebuild.next = Len(list) + 1
    BY <2>1, <2>2 DEF IndInv, RowsRead, Rebuilt
  <2>4. rebuild.next - 1 = Len(list)
    BY <2>2, <2>3
  <2> QED
    BY <2>1, <2>2, <2>4
<1> QED
  BY <1>1, Invariance, PTL

(* The numbers check compares decide, in an archive of any size. *)
THEOREM VerdictsTrue == Spec => []VerdictTrue
<1>1. IndInv => VerdictTrue
  BY DEF IndInv
<1> QED
  BY <1>1, Invariance, PTL
----------------------------------------------------------------------------
(* What the readers of the archive see. *)

(* What a repair has fetched goes where it was missing: between its two steps
   no store_message, no read state and no other repair touches the gap. *)
LEMMA GapStep == IndInv /\ RepairsGap /\ [Next]_vars => RepairsGap'
<1> SUFFICES ASSUME IndInv, RepairsGap, [Next]_vars, repair' # NoRepair
             PROVE  repair'.msg \in Contents /\ list'[repair'.uid].msg = Empty
  BY DEF RepairsGap
<1>0. /\ list \in Seq(Row) /\ DOMAIN list = 1 .. Len(list)
      /\ repair # NoRepair => repair.uid \in DOMAIN list
  BY DEF IndInv, TypeOK, HaveRows
<1>1. CASE \E i \in DOMAIN list, m \in Contents : RepairPut(i, m)
  BY <1>1 DEF RepairPut
<1>2. CASE UNCHANGED <<list, repair>>
  BY <1>2 DEF RepairsGap
<1>3. ASSUME NEW u \in SourceUids, CommitRows(u)
      PROVE  UNCHANGED repair /\ \A i \in DOMAIN list : list'[i].msg = list[i].msg
  <2>1. \A i \in DOMAIN list : list[i] \in Row
    BY <1>0
  <2>2. tasks[u] \in Task /\ UNCHANGED repair
    BY <1>3 DEF IndInv, TypeOK, CommitRows
  <2>3. ASSUME NEW i \in DOMAIN list,
               list' = [list EXCEPT ![i].src = IF @ = NoSource THEN u ELSE @]
        PROVE  \A j \in DOMAIN list : list'[j].msg = list[j].msg
    BY <2>1, <2>3 DEF Row
  <2>4. ASSUME list' = Append(list, [msg |-> tasks[u].msg, src |-> u,
                                     seen |-> tasks[u].seen])
        PROVE  \A j \in DOMAIN list : list'[j].msg = list[j].msg
    BY <1>0, <2>2, <2>4 DEF Row, Task
  <2> QED
    BY <1>3, <2>2, <2>3, <2>4 DEF CommitRows
<1>4. ASSUME NEW i \in DOMAIN list, NEW seen \in BOOLEAN, SetSeen(i, seen)
      PROVE  UNCHANGED repair /\ \A j \in DOMAIN list : list'[j].msg = list[j].msg
  <2>1. \A j \in DOMAIN list : list[j] \in Row
    BY <1>0
  <2> QED
    BY <1>4, <2>1 DEF SetSeen, Row
<1>5. \/ UNCHANGED <<list, repair>> \/ repair' = NoRepair
      \/ \E i \in DOMAIN list, m \in Contents : RepairPut(i, m)
      \/ \E u \in SourceUids : CommitRows(u)
      \/ \E i \in DOMAIN list, seen \in BOOLEAN : SetSeen(i, seen)
  BY DEF Next, vars, stores, Store, Owner, RebuildNext, CheckNext, PutMessage,
         PutManifest, StoreDies, RepairCommit, DropEmpty, RepairDies,
         RebuildBegin, Purge, ReadRows, Rewrite, RebuildEnd, RebuildDies,
         CheckStep, CheckFrame, CountMessages, CountPlacements, ListBlobs,
         ListManifests, Verify, CheckEnd
<1> QED
  BY <1>0, <1>1, <1>2, <1>3, <1>4, <1>5 DEF RepairsGap

LEMMA LogInitHolds == Init => Log!LogInit
<1> SUFFICES ASSUME Init PROVE Log!LogInit
  OBVIOUS
<1>1. /\ list \in Seq(Row) /\ Len(list) \in Nat /\ DOMAIN list = 1 .. Len(list)
      /\ \A i \in DOMAIN list : list[i] \in Row
  BY MaintenanceAssumption DEF Init
<1>2. [f \in {ThisFolder} |-> Len(list) + 1] \in [{ThisFolder} -> Nat \ {0}]
  BY <1>1
<1>3. LogEntries \in SUBSET Log!Entry
  BY <1>1 DEF LogEntries, Log!Entry, Row, Messages
<1>4. {e.uid : e \in Log!EntriesOf(ThisFolder)} = 1 .. Len(list)
  <2>1. Log!EntriesOf(ThisFolder) = LogEntries
    BY DEF Log!EntriesOf, LogEntries
  <2>2. {e.uid : e \in LogEntries} = DOMAIN list
    <3>1. \A e \in LogEntries : e.uid \in DOMAIN list
      BY DEF LogEntries
    <3>2. ASSUME NEW i \in DOMAIN list
          PROVE  \E e \in LogEntries : e.uid = i
      <4> DEFINE e == [folder |-> ThisFolder, uid |-> i, msg |-> list[i].msg]
      <4>1. e \in LogEntries
        BY DEF LogEntries
      <4> QED
        BY <4>1
    <3> QED
      BY <3>1, <3>2
  <2> QED
    BY <1>1, <2>1, <2>2
<1>5. \A d, e \in LogEntries : d.folder = e.folder /\ d.uid = e.uid => d = e
  BY DEF LogEntries
<1>6. Len(list) + 1 - 1 = Len(list)
  BY <1>1
<1> QED
  BY <1>2, <1>3, <1>4, <1>5, <1>6 DEF Log!LogInit

(* A row that keeps its message is the same entry. *)
LEMMA SameEntries ==
  ASSUME DOMAIN list' = DOMAIN list, Len(list') = Len(list),
         \A i \in DOMAIN list : list'[i].msg = list[i].msg
  PROVE  UNCHANGED Log!logVars
<1>1. LogEntries' = LogEntries
  BY DEF LogEntries
<1> QED
  BY <1>1 DEF Log!logVars

LEMMA LogStepHolds ==
  IndInv /\ RepairsGap /\ [Next]_vars => [Log!LogNext]_(Log!logVars)
<1> SUFFICES ASSUME IndInv, RepairsGap, [Next]_vars
             PROVE  [Log!LogNext]_(Log!logVars)
  OBVIOUS
<1>0. /\ TypeOK /\ list \in Seq(Row) /\ Len(list) \in Nat
      /\ DOMAIN list = 1 .. Len(list)
      /\ \A i \in DOMAIN list : i \in Nat /\ list[i] \in Row
  BY DEF IndInv, TypeOK
<1>1. CASE list' = list
  BY <1>1 DEF Log!logVars, LogEntries
<1>2. ASSUME NEW u \in SourceUids, CommitRows(u)
      PROVE  [Log!LogNext]_(Log!logVars)
  <2> DEFINE m == tasks[u].msg
             row == [msg |-> m, src |-> u, seen |-> tasks[u].seen]
             entry == [folder |-> ThisFolder, uid |-> Len(list) + 1, msg |-> m]
  <2>1. m \in Contents \cup {Empty} /\ row \in Row
    BY <1>0 DEF TypeOK, Task, Row, Messages
  <2>2. ASSUME NEW i \in DOMAIN list,
               list' = [list EXCEPT ![i].src = IF @ = NoSource THEN u ELSE @]
        PROVE  UNCHANGED Log!logVars
    <3> DEFINE new == [list[i] EXCEPT !.src = IF @ = NoSource THEN u ELSE @]
    <3>1. new \in Row /\ new.msg = list[i].msg
      BY <1>0 DEF Row
    <3>2. list' = [list EXCEPT ![i] = new]
      BY <2>2
    <3> HIDE DEF new
    <3>3. Len(list') = Len(list) /\ DOMAIN list' = DOMAIN list
      BY <1>0, <3>1, <3>2, RowChanged
    <3>4. \A j \in DOMAIN list : list'[j].msg = list[j].msg
      BY <3>1, <3>2
    <3> QED
      BY <3>3, <3>4, SameEntries
  <2>3. ASSUME \A i \in DOMAIN list : list[i].msg # m, list' = Append(list, row)
        PROVE  Log!LogNext
    <3>1. /\ DOMAIN list' = DOMAIN list \cup {Len(list) + 1}
          /\ Len(list') = Len(list) + 1
          /\ list'[Len(list) + 1].msg = m
          /\ \A i \in DOMAIN list : list'[i] = list[i]
      BY <1>0, <2>1, <2>3
    <3>2. LogEntries' = LogEntries \cup {entry}
      BY <3>1 DEF LogEntries
    <3>3. \A e \in Log!EntriesOf(ThisFolder) : e.msg # m
      BY <2>3 DEF Log!EntriesOf, LogEntries
    <3>4. Log!Deliver(ThisFolder, m)
      BY <3>1, <3>2, <3>3 DEF Log!Deliver
    <3> QED
      BY <2>1, <3>4 DEF Log!LogNext
  <2> QED
    BY <1>2, <2>2, <2>3 DEF CommitRows
<1>3. ASSUME RepairCommit
      PROVE  Log!LogNext
  <2> DEFINE i == repair.uid
             m == repair.msg
             gap == [folder |-> ThisFolder, uid |-> i, msg |-> Empty]
             new == [list[i] EXCEPT !.msg = m]
  <2>1. i \in DOMAIN list /\ m \in Contents /\ m # Empty /\ list[i].msg = Empty
    BY <1>3, MaintenanceAssumption DEF RepairCommit, RepairsGap, IndInv, HaveRows
  <2>2. new \in Row /\ new.msg = m
    BY <1>0, <2>1 DEF Row, Messages
  <2>3. list' = [list EXCEPT ![i] = new]
    BY <1>3 DEF RepairCommit
  <2> HIDE DEF i, m, new
  <2>4. Len(list') = Len(list) /\ DOMAIN list' = DOMAIN list
    BY <1>0, <2>1, <2>2, <2>3, RowChanged
  <2>5. list'[i].msg = m /\ \A j \in DOMAIN list : j # i => list'[j] = list[j]
    BY <1>0, <2>1, <2>2, <2>3
  <2>6. gap \in LogEntries /\ gap.msg = Empty
    BY <2>1 DEF LogEntries
  <2>7. LogEntries' = (LogEntries \ {gap}) \cup {[gap EXCEPT !.msg = m]}
    BY <2>1, <2>4, <2>5 DEF LogEntries
  <2>8. Log!Fill(gap, m)
    BY <2>1, <2>4, <2>6, <2>7 DEF Log!Fill
  <2> QED
    BY <2>1, <2>6, <2>8 DEF Log!LogNext
<1>4. ASSUME NEW i \in DOMAIN list, NEW seen \in BOOLEAN, SetSeen(i, seen)
      PROVE  UNCHANGED Log!logVars
  <2> DEFINE new == [list[i] EXCEPT !.seen = seen]
  <2>1. new \in Row /\ new.msg = list[i].msg
    BY <1>0 DEF Row
  <2>2. list' = [list EXCEPT ![i] = new]
    BY <1>4 DEF SetSeen
  <2> HIDE DEF new
  <2>3. Len(list') = Len(list) /\ DOMAIN list' = DOMAIN list
    BY <1>0, <2>1, <2>2, RowChanged
  <2>4. \A j \in DOMAIN list : list'[j].msg = list[j].msg
    BY <2>1, <2>2
  <2> QED
    BY <2>3, <2>4, SameEntries
<1>5. \/ list' = list \/ RepairCommit
      \/ \E u \in SourceUids : CommitRows(u)
      \/ \E i \in DOMAIN list, seen \in BOOLEAN : SetSeen(i, seen)
  BY DEF Next, vars, stores, Store, Owner, RebuildNext, CheckNext, PutMessage,
         PutManifest, StoreDies, RepairPut, DropEmpty, RepairDies,
         RebuildBegin, Purge, ReadRows, Rewrite, RebuildEnd, RebuildDies,
         CheckStep, CheckFrame, CountMessages, CountPlacements, ListBlobs,
         ListManifests, Verify, CheckEnd
<1> QED
  BY <1>1, <1>2, <1>3, <1>4, <1>5

(* Rebuilds, checks, repairs and store_messages, side by side and dying where
   they may, keep what UidLog promises the folder's readers: an entry gets the
   next UID and stays, and only a gap changes, into the message it stands for. *)
THEOREM Refinement == Spec => ImplementsUidLog
<1>1. Init => RepairsGap
  BY DEF Init, RepairsGap
<1> QED
  BY <1>1, InitInv, NextInv, GapStep, LogInitHolds, LogStepHolds, PTL
  DEF Spec, ImplementsUidLog, Log!LogSpec
=============================================================================
