---------------------------- MODULE IngestProofs ----------------------------
(***************************************************************************)
(* Theorems about Ingest, for any mailbox, any batch size and any number   *)
(* of overlapping passes and failures.                                     *)
(***************************************************************************)
EXTENDS Ingest, FiniteSetTheorems, TLAPS

(* folder_for_ingest, as far as the pass survives it. *)
FolderForIngest(p) == ReadFolder(p) \/ ResetFolder(p) \/ CreateFolder(p)

LEMMA NoTaskIsTask == NoTask \in Task /\ NoTasks \in [SourceUids -> Task]
  BY DEF NoTask, NoTasks, Task, Stages, Messages, Remains

LEMMA NoWorkIsWork == NoWork \in Work
  BY IngestAssumption DEF NoWork, Work

(* A box is a function on the UIDs it holds. *)
LEMMA BoxType ==
  ASSUME NEW box
  PROVE  box \in Boxes <=> /\ DOMAIN box \subseteq SourceUids
                           /\ box \in [DOMAIN box -> Contents]
  BY DEF Boxes

(* A task may move to any stage. *)
LEMMA MoveType ==
  ASSUME TypeOK, NEW p \in Passes, NEW u \in SourceUids, NEW from,
         NEW to \in Stages, Move(p, u, from, to)
  PROVE  tasks' \in [Passes -> [SourceUids -> Task]]
<1>1. tasks[p][u] \in Task
  BY DEF TypeOK
<1>2. [tasks[p][u] EXCEPT !.stage = to] \in Task
  BY <1>1 DEF Task
<1> QED
  BY <1>2 DEF Move, TypeOK

(* What a FETCH hands over: of UIDs of the batch that are in the mailbox, the
   message or what remains of it, and all of them but the omitted one. *)
LEMMA FetchBodies ==
  ASSUME TypeOK, NEW p \in Passes, Fetch(p)
  PROVE  \E bodies, missing :
           /\ DOMAIN bodies \subseteq NextChunk(work[p].todo) \cap DOMAIN source.box
           /\ missing \subseteq NextChunk(work[p].todo)
           /\ NextChunk(work[p].todo) \cap DOMAIN source.box
                \subseteq DOMAIN bodies \cup missing
           /\ \A u \in DOMAIN bodies :
                bodies[u] = source.box[u] \/ bodies[u] \in Remains
           /\ Receive(p, bodies, missing)
<1> DEFINE answered == NextChunk(work[p].todo) \cap DOMAIN source.box
           bodies   == [u \in answered |-> Kept(source.box[u])]
<1>1. \A u \in answered : bodies[u] = source.box[u] \/ bodies[u] \in Remains
  BY DEF Kept, Remains
<1>2. CASE Receive(p, bodies, {})
  BY <1>1, <1>2
<1>3. ASSUME NEW u \in answered, NEW left \in Remains,
             Receive(p, [bodies EXCEPT ![u] = left], {})
      PROVE  \E given, missing :
               /\ DOMAIN given \subseteq answered
               /\ missing \subseteq NextChunk(work[p].todo)
               /\ answered \subseteq DOMAIN given \cup missing
               /\ \A v \in DOMAIN given :
                    given[v] = source.box[v] \/ given[v] \in Remains
               /\ Receive(p, given, missing)
  <2> DEFINE given == [bodies EXCEPT ![u] = left]
  <2>1. DOMAIN given = answered
    OBVIOUS
  <2>2. \A v \in answered : given[v] = IF v = u THEN left ELSE bodies[v]
    OBVIOUS
  <2> HIDE DEF bodies, answered
  <2>3. \A v \in DOMAIN given : given[v] = source.box[v] \/ given[v] \in Remains
    BY <1>1, <1>3, <2>1, <2>2
  <2>4. Receive(p, given, {})
    BY <1>3
  <2> HIDE DEF given
  <2> QED
    BY <2>1, <2>3, <2>4
<1>4. ASSUME NEW u \in answered,
             Receive(p, [v \in answered \ {u} |-> bodies[v]], {u})
      PROVE  \E given, missing :
               /\ DOMAIN given \subseteq answered
               /\ missing \subseteq NextChunk(work[p].todo)
               /\ answered \subseteq DOMAIN given \cup missing
               /\ \A v \in DOMAIN given :
                    given[v] = source.box[v] \/ given[v] \in Remains
               /\ Receive(p, given, missing)
  <2> DEFINE given == [v \in answered \ {u} |-> bodies[v]]
  <2>1. /\ DOMAIN given = answered \ {u}
        /\ \A v \in DOMAIN given : given[v] = bodies[v]
    OBVIOUS
  <2>2. Receive(p, given, {u})
    BY <1>4
  <2> HIDE DEF given, bodies
  <2> QED
    BY <1>1, <2>1, <2>2
<1>5. \/ Receive(p, bodies, {})
      \/ \E u \in answered, left \in Remains :
           Receive(p, [bodies EXCEPT ![u] = left], {})
      \/ \E u \in answered :
           Receive(p, [v \in answered \ {u} |-> bodies[v]], {u})
  BY DEF Fetch
<1> HIDE DEF bodies
<1> QED
  BY <1>1, <1>2, <1>3, <1>4, <1>5 DEF bodies

LEMMA ForgetType ==
  ASSUME TypeOK, NEW p \in Passes, Forget(p)
  PROVE  /\ pc' \in [Passes -> Where]
         /\ work' \in [Passes -> Work]
         /\ tasks' \in [Passes -> [SourceUids -> Task]]
  BY NoTaskIsTask, NoWorkIsWork DEF Forget, TypeOK, Where

(* Steps of the mailbox keep the types. *)
LEMMA SourceType ==
  ASSUME TypeOK,
         \/ \E m \in Contents : Arrive(m)
         \/ \E u \in SourceUids : Expunge(u)
         \/ \E box \in Boxes : Renumber(box)
         \/ \E m \in Filed : ArchiveElsewhere(m)
  PROVE  TypeOK'
<1> USE IngestAssumption
<1>1. source \in Source /\ source.box \in Boxes
  BY DEF TypeOK, Source
<1>2. ASSUME NEW m \in Contents, Arrive(m)
      PROVE  TypeOK'
  <2> DEFINE box == [u \in DOMAIN source.box \cup {source.next} |->
                       IF u = source.next THEN m ELSE source.box[u]]
  <2>0. /\ source.val \in 1 .. MaxValidity
        /\ source.next \in 1 .. MaxSourceUid + 1
    BY <1>1 DEF Source
  <2>a. source.next <= MaxSourceUid
    BY <1>2 DEF Arrive
  <2>1. source.next \in 1 .. MaxSourceUid
    BY <2>0, <2>a
  <2>2. box \in Boxes
    BY <1>1, <2>1, BoxType DEF SourceUids
  <2>3. source' = [source EXCEPT !.box = box, !.next = source.next + 1]
    BY <1>2 DEF Arrive
  <2> HIDE DEF box
  <2>4. source' = [val |-> source.val, box |-> box, next |-> source.next + 1]
    BY <1>1, <2>3 DEF Source
  <2>5. source.next + 1 \in 1 .. MaxSourceUid + 1
    BY <2>1
  <2>6. source' \in Source
    BY <2>0, <2>2, <2>4, <2>5 DEF Source
  <2> QED
    BY <1>2, <2>6 DEF Arrive, TypeOK, archive, history
<1>3. ASSUME NEW u \in SourceUids, Expunge(u)
      PROVE  TypeOK'
  <2> DEFINE box == [v \in DOMAIN source.box \ {u} |-> source.box[v]]
  <2>1. box \in Boxes
    BY <1>1, BoxType
  <2>2. source' = [source EXCEPT !.box = box]
    BY <1>3 DEF Expunge
  <2>3. source' \in Source
    BY <1>1, <2>1, <2>2 DEF Source
  <2> QED
    BY <1>3, <2>3 DEF Expunge, TypeOK, archive, history
<1>4. ASSUME NEW box \in Boxes, Renumber(box)
      PROVE  TypeOK'
  <2>1. IsFiniteSet(SourceUids) /\ Cardinality(SourceUids) = MaxSourceUid
    BY FS_Interval DEF SourceUids
  <2>2. DOMAIN box \subseteq SourceUids
    BY BoxType
  <2>3. Cardinality(DOMAIN box) \in 0 .. MaxSourceUid
    BY <2>1, <2>2, FS_Subset, FS_CardinalityType
  <2>4. source' \in Source
    BY <1>1, <1>4, <2>3 DEF Renumber, Source
  <2>5. taken' \in SUBSET SourceUids
    BY <1>4 DEF Renumber, InUse
  <2> QED
    BY <1>4, <2>4, <2>5 DEF Renumber, TypeOK, archive
<1>5. ASSUME NEW m \in Filed, ArchiveElsewhere(m)
      PROVE  TypeOK'
  BY <1>5 DEF ArchiveElsewhere, TypeOK, Messages, Remains, history
<1> QED
  BY <1>2, <1>3, <1>4, <1>5

(* Steps of a pass keep the types. *)
LEMMA PassType ==
  ASSUME TypeOK, NEW p \in Passes,
         PassStep(p) \/ Abandon(p) \/ \E u \in SourceUids : Retry(p, u)
  PROVE  TypeOK'
<1> USE IngestAssumption, NoTaskIsTask, NoWorkIsWork
<1>1. work[p] \in Work /\ resume \in Resume /\ source \in Source
  BY DEF TypeOK
<1>2. CASE Examine(p)
  <2>1. [NoWork EXCEPT !.val = source.val] \in Work
    BY <1>1 DEF Work, Source
  <2> QED
    BY <1>2, <2>1 DEF Examine, Goto, TypeOK, Where, archive, history
<1>3. CASE FolderForIngest(p)
  <2>1. resume' \in Resume
    BY <1>1, <1>3 DEF FolderForIngest, ReadFolder, ResetFolder, CreateFolder,
                      Resume, Work
  <2>2. ASSUME NEW was \in 0 .. MaxValidity, NEW last \in 0 .. MaxSourceUid
        PROVE  [work[p] EXCEPT !.was = was, !.last = last] \in Work
    BY <1>1 DEF Work
  <2>3. work' \in [Passes -> Work]
    <3>1. CASE ReadFolder(p)
      <4> DEFINE same == resume.val = work[p].val
                 was  == IF same THEN 0 ELSE resume.val
                 last == IF same THEN resume.last ELSE 0
      <4>1. was \in 0 .. MaxValidity /\ last \in 0 .. MaxSourceUid
        BY <1>1 DEF Resume
      <4>2. [work[p] EXCEPT !.was = was, !.last = last] \in Work
        BY <2>2, <4>1
      <4>3. work' = [work EXCEPT ![p] =
                       [work[p] EXCEPT !.was = was, !.last = last]]
        BY <3>1 DEF ReadFolder, TypeOK
      <4> HIDE DEF was, last
      <4> QED
        BY <4>2, <4>3 DEF TypeOK
    <3>2. CASE ResetFolder(p)
      <4>1. [work[p] EXCEPT !.was = 0] \in Work
        BY <1>1 DEF Work
      <4> QED
        BY <3>2, <4>1 DEF ResetFolder, TypeOK
    <3>3. CASE CreateFolder(p)
      BY <3>3 DEF CreateFolder, TypeOK
    <3> QED
      BY <1>3, <3>1, <3>2, <3>3 DEF FolderForIngest
  <2>4. /\ pc' \in [Passes -> Where]
        /\ UNCHANGED <<source, archive, tasks, faults, history>>
    BY <1>3 DEF FolderForIngest, ReadFolder, ResetFolder, CreateFolder, Goto,
                TypeOK, Where
  <2> QED
    BY <2>1, <2>3, <2>4 DEF TypeOK, archive, history
<1>4. CASE Search(p)
  <2>1. DOMAIN source.box \subseteq SourceUids
    BY <1>1, BoxType DEF Source
  <2>2. ASSUME NEW todo \in SUBSET SourceUids
        PROVE  [work[p] EXCEPT !.todo = todo] \in Work
    BY <1>1 DEF Work
  <2> QED
    BY <1>4, <2>1, <2>2 DEF Search, Goto, TypeOK, Where, archive, history
<1>5. CASE DropHeld(p)
  <2>1. [work[p] EXCEPT !.todo = work[p].todo \ HeldUids] \in Work
    BY <1>1 DEF Work
  <2> QED
    BY <1>5, <2>1 DEF DropHeld, Goto, TypeOK, Where, archive, history
<1>6. CASE Fetch(p)
  <2> DEFINE chunk == NextChunk(work[p].todo)
  <2>1. chunk \in SUBSET SourceUids
    BY <1>1 DEF NextChunk, Work
  <2>2. [work[p] EXCEPT !.chunk = chunk] \in Work
    BY <1>1, <2>1 DEF Work
  <2>3. work' \in [Passes -> Work] /\ pc' \in [Passes -> Where]
    BY <1>6, <2>2 DEF Fetch, Goto, TypeOK, Where
  <2>4. \A u \in DOMAIN source.box : source.box[u] \in Contents
    BY <1>1, BoxType DEF Source
  <2>5. ASSUME NEW bodies, NEW missing \in SUBSET chunk,
               DOMAIN bodies \subseteq chunk,
               \A u \in DOMAIN bodies : bodies[u] \in Messages,
               Receive(p, bodies, missing)
        PROVE  /\ tasks' \in [Passes -> [SourceUids -> Task]]
               /\ cut' \in SUBSET SourceUids
               /\ omitted' \in SUBSET SourceUids
               /\ UNCHANGED taken
    <3>1. \A u \in DOMAIN bodies :
            [stage |-> "put", msg |-> bodies[u], uid |-> 0] \in Task
      BY <2>5 DEF Task, Stages
    <3> QED
      BY <2>1, <2>5, <3>1 DEF Receive, TypeOK
  <2>6. \E bodies, missing :
          /\ missing \in SUBSET chunk /\ DOMAIN bodies \subseteq chunk
          /\ \A u \in DOMAIN bodies : bodies[u] \in Messages
          /\ Receive(p, bodies, missing)
    BY <1>6, <2>4, FetchBodies DEF Messages
  <2>7. /\ tasks' \in [Passes -> [SourceUids -> Task]]
        /\ cut' \in SUBSET SourceUids
        /\ omitted' \in SUBSET SourceUids
        /\ UNCHANGED taken
    BY <2>5, <2>6
  <2>8. faults' \in 0 .. MaxFaults
    <3>1. \/ faults' = faults
          \/ faults < MaxFaults /\ faults' = faults + 1
      BY <1>6 DEF Fetch, Fault
    <3> QED
      BY <3>1 DEF TypeOK
  <2> QED
    BY <1>6, <2>3, <2>7, <2>8 DEF Fetch, TypeOK, archive, history
<1>7. ASSUME NEW u \in SourceUids, PutMessage(p, u)
      PROVE  TypeOK'
  <2>1. tasks[p][u].msg \in Messages
    BY DEF TypeOK, Task
  <2>2. tasks' \in [Passes -> [SourceUids -> Task]]
    BY <1>7, MoveType DEF PutMessage, Stages
  <2> QED
    BY <1>7, <2>1, <2>2 DEF PutMessage, TypeOK, history
<1>8. ASSUME NEW u \in SourceUids, CommitRows(p, u)
      PROVE  TypeOK'
  <2>1. tasks[p][u].msg \in Messages
    BY DEF TypeOK, Task
  <2>2. [msg |-> tasks[p][u].msg, src |-> u] \in Row
    BY <2>1 DEF Row
  <2>3. list' \in Seq(Row)
    <3>1. list' = list \/ list' = Append(list, [msg |-> tasks[p][u].msg, src |-> u])
      BY <1>8 DEF CommitRows
    <3>2. list \in Seq(Row)
      BY DEF TypeOK
    <3> QED
      BY <2>2, <3>1, <3>2
  <2>4. \A uid \in Nat :
          [stage |-> "manifest", msg |-> tasks[p][u].msg, uid |-> uid] \in Task
    BY <2>1 DEF Task, Stages
  <2>5. DOMAIN list \subseteq Nat /\ Len(list) + 1 \in Nat
    BY DEF TypeOK
  <2>6. tasks' \in [Passes -> [SourceUids -> Task]]
    <3>1. \E uid \in Nat : tasks' = [tasks EXCEPT ![p][u] =
             [stage |-> "manifest", msg |-> tasks[p][u].msg, uid |-> uid]]
      BY <1>8, <2>5 DEF CommitRows
    <3> QED
      BY <2>4, <3>1 DEF TypeOK
  <2> QED
    BY <1>8, <2>3, <2>6 DEF CommitRows, TypeOK, history
<1>9. ASSUME NEW u \in SourceUids, PutManifest(p, u)
      PROVE  TypeOK'
  <2>1. tasks' \in [Passes -> [SourceUids -> Task]]
    BY <1>9, MoveType DEF PutManifest, Stages
  <2>2. [msg |-> tasks[p][u].msg, src |-> u] \in Row
    BY DEF TypeOK, Task, Row
  <2>3. manifests' \in [DOMAIN manifests' -> Row]
    BY <1>9, <2>2 DEF PutManifest, TypeOK, history
  <2> QED
    BY <1>9, <2>1, <2>3 DEF PutManifest, TypeOK, history
<1>10. CASE Advance(p)
  <2>1. /\ pc' \in [Passes -> Where]
        /\ tasks' \in [Passes -> [SourceUids -> Task]]
        /\ UNCHANGED <<source, archive, faults, history>>
    BY <1>10 DEF Advance, EndBatch, Goto, TypeOK, Where
  <2>2. [work[p] EXCEPT !.todo = work[p].todo \ work[p].chunk, !.chunk = {}] \in Work
    BY <1>1 DEF Work
  <2>3. work' \in [Passes -> Work]
    BY <1>10, <2>2 DEF Advance, EndBatch, TypeOK
  <2>4. \A high \in {resume.last} \cup work[p].chunk :
           high + 0 \in 0 .. MaxSourceUid
    BY <1>1 DEF Resume, Work, SourceUids
  <2>5. resume' \in Resume
    BY <1>1, <1>10, <2>4 DEF Advance, Raise, Resume
  <2> QED
    BY <2>1, <2>3, <2>5 DEF TypeOK, archive, history
<1>11. CASE Finish(p)
  BY <1>11, NoWorkIsWork DEF Finish, Goto, TypeOK, Where, archive, history
<1>12. CASE Rest(p) \/ CreateRefused(p) \/ LoseSession(p) \/ Abandon(p)
  <2>1. Forget(p)
    BY <1>12 DEF Rest, CreateRefused, LoseSession, Abandon
  <2>2. UNCHANGED <<source, archive, resume, history>>
    BY <2>1 DEF Forget
  <2>3. /\ pc' \in [Passes -> Where]
        /\ work' \in [Passes -> Work]
        /\ tasks' \in [Passes -> [SourceUids -> Task]]
    BY <2>1, ForgetType
  <2>4. faults' \in 0 .. MaxFaults
    BY <1>12 DEF Rest, CreateRefused, LoseSession, Abandon, Fault, TypeOK
  <2> QED
    BY <2>2, <2>3, <2>4 DEF TypeOK, archive, history
<1>13. ASSUME NEW u \in SourceUids, Retry(p, u)
       PROVE  TypeOK'
  <2>1. tasks' \in [Passes -> [SourceUids -> Task]]
    BY <1>13, MoveType DEF Retry, Stages
  <2>2. faults' \in 0 .. MaxFaults
    BY <1>13 DEF Retry, Fault, TypeOK
  <2>3. UNCHANGED <<source, archive, resume, pc, work, history>>
    BY <1>13 DEF Retry
  <2> QED
    BY <2>1, <2>2, <2>3 DEF TypeOK, archive, history
<1>14. CASE Identify(p)
  <2>1. PICK known : work' = [work EXCEPT ![p].todo = work[p].todo \ known]
    BY <1>14 DEF Identify
  <2>2. [work[p] EXCEPT !.todo = work[p].todo \ known] \in Work
    BY <1>1 DEF Work
  <2>3. work' \in [Passes -> Work]
    BY <2>1, <2>2 DEF TypeOK
  <2> QED
    BY <1>14, <2>3 DEF Identify, Goto, TypeOK, Where, archive, history
<1> QED
  BY <1>2, <1>3, <1>4, <1>5, <1>6, <1>7, <1>8, <1>9, <1>10, <1>11, <1>12,
     <1>13, <1>14 DEF PassStep, FolderForIngest

LEMMA TypeStep == TypeOK /\ [Next]_vars => TypeOK'
<1>1. CASE UNCHANGED vars
  BY <1>1 DEF vars, archive, history, TypeOK
<1> QED
  BY <1>1, SourceType, PassType DEF Next

LEMMA TypeInit == Init => TypeOK
<1> SUFFICES ASSUME Init PROVE TypeOK
  OBVIOUS
<1>1. source \in Source
  <2>1. <<>> \in [{} -> Contents]
    OBVIOUS
  <2>2. <<>> \in Boxes
    BY <2>1 DEF Boxes
  <2> QED
    BY <2>2, IngestAssumption DEF Init, Source
<1>2. resume \in Resume
  BY IngestAssumption DEF Init, Resume
<1> QED
  BY <1>1, <1>2, NoTaskIsTask, NoWorkIsWork, IngestAssumption
  DEF Init, TypeOK, Where

(* Every reachable state is well typed: TypeOK. *)
THEOREM TypeCorrect == Spec => []TypeOK
  BY TypeInit, TypeStep, PTL DEF Spec

----------------------------------------------------------------------------
(* Rows, manifests and blobs. *)

(* The three ways a step may touch the index. *)
LEMMA ListGrows ==
  ASSUME TypeOK, [Next]_vars
  PROVE  \/ list' = list
         \/ \E row \in Row : list' = Append(list, row)
<1>1. ASSUME NEW p \in Passes, NEW u \in SourceUids, CommitRows(p, u)
      PROVE  list' = list \/ \E row \in Row : list' = Append(list, row)
  <2>1. [msg |-> tasks[p][u].msg, src |-> u] \in Row
    BY DEF TypeOK, Task, Row
  <2> QED
    BY <1>1, <2>1 DEF CommitRows
<1>2. \/ list' = list
      \/ \E p \in Passes, u \in SourceUids : CommitRows(p, u)
  BY DEF Next, vars, archive, history, PassStep, Arrive, Expunge, Renumber,
         ArchiveElsewhere, Examine, ReadFolder, ResetFolder, CreateFolder,
         Search, DropHeld, Identify, Fetch, PutMessage, PutManifest, Retry,
         Advance, EndBatch, Finish, Rest, CreateRefused, LoseSession, Abandon,
         Forget
<1> QED
  BY <1>1, <1>2

(* So what is in the list stays there, at its UID. *)
LEMMA ListKept ==
  ASSUME TypeOK, [Next]_vars
  PROVE  \A i \in DOMAIN list : i \in DOMAIN list' /\ list'[i] = list[i]
<1>1. list \in Seq(Row)
  BY DEF TypeOK
<1>2. ASSUME NEW row \in Row, list' = Append(list, row)
      PROVE  \A i \in DOMAIN list : i \in DOMAIN list' /\ list'[i] = list[i]
  BY <1>1, <1>2
<1> QED
  BY <1>2, ListGrows

(* Blobs are never deleted. *)
LEMMA BlobsKept == [Next]_vars => blobs \subseteq blobs'
  BY DEF Next, vars, archive, history, PassStep, Arrive, Expunge, Renumber,
         ArchiveElsewhere, Examine, ReadFolder, ResetFolder, CreateFolder,
         Search, DropHeld, Identify, Fetch, PutMessage, CommitRows, PutManifest,
         Retry, Advance, EndBatch, Finish, Rest, CreateRefused, LoseSession,
         Abandon, Forget

(* Every task is where it was, is new, is gone, or did one stage's work. *)
LEMMA TasksBackedStep ==
  ASSUME IndInv, [Next]_vars
  PROVE  TasksBacked'
<1>1. TypeOK /\ TypeOK'
  BY TypeStep DEF IndInv
<1> DEFINE Backed(t) ==
      /\ t.stage \in {"rows", "manifest", "stored"} => t.msg \in blobs
      /\ t.stage \in {"manifest", "stored"} =>
           t.uid \in DOMAIN list /\ list[t.uid].msg = t.msg
      BackedNext(t) ==
      /\ t.stage \in {"rows", "manifest", "stored"} => t.msg \in blobs'
      /\ t.stage \in {"manifest", "stored"} =>
           t.uid \in DOMAIN list' /\ list'[t.uid].msg = t.msg
<1>2. ASSUME NEW t, Backed(t)
      PROVE  BackedNext(t)
  BY <1>1, <1>2, ListKept, BlobsKept
<1>3. \A p \in Passes, u \in SourceUids : Backed(tasks[p][u])
  BY DEF IndInv, TasksBacked
<1>4. BackedNext(NoTask)
  BY DEF NoTask
<1>5. SUFFICES \A p \in Passes, u \in SourceUids : BackedNext(tasks'[p][u])
  BY DEF TasksBacked
<1> HIDE DEF Backed, BackedNext
<1>6. CASE tasks' = tasks
  BY <1>2, <1>3, <1>6
<1>7. ASSUME NEW p \in Passes, tasks' = [tasks EXCEPT ![p] = NoTasks]
      PROVE  \A q \in Passes, u \in SourceUids : BackedNext(tasks'[q][u])
  BY <1>1, <1>2, <1>3, <1>4, <1>7 DEF TypeOK, NoTasks
<1>8. ASSUME NEW p \in Passes, NEW u \in SourceUids, NEW t,
             tasks' = [tasks EXCEPT ![p][u] = t], BackedNext(t)
      PROVE  \A q \in Passes, v \in SourceUids : BackedNext(tasks'[q][v])
  BY <1>1, <1>2, <1>3, <1>8 DEF TypeOK
<1>9. ASSUME NEW p \in Passes, Fetch(p)
      PROVE  \A q \in Passes, u \in SourceUids : BackedNext(tasks'[q][u])
  <2>1. PICK bodies, missing : Receive(p, bodies, missing)
    BY <1>1, <1>9, FetchBodies
  <2>2. \A u \in SourceUids : BackedNext(tasks'[p][u])
    <3> TAKE u \in SourceUids
    <3>1. tasks'[p][u] = NoTask \/ tasks'[p][u].stage = "put"
      BY <1>1, <2>1 DEF Receive, TypeOK
    <3> QED
      BY <1>4, <3>1 DEF BackedNext
  <2>3. \A q \in Passes : q # p => tasks'[q] = tasks[q]
    BY <1>1, <2>1 DEF Receive, TypeOK
  <2> QED
    BY <1>2, <1>3, <2>2, <2>3
<1>10. ASSUME NEW p \in Passes, NEW u \in SourceUids,
              PutMessage(p, u) \/ PutManifest(p, u) \/ Retry(p, u)
       PROVE  \E t : tasks' = [tasks EXCEPT ![p][u] = t] /\ BackedNext(t)
  <2>0. tasks[p][u] \in Task /\ Backed(tasks[p][u])
    BY <1>1, <1>3 DEF TypeOK
  <2>1. CASE PutMessage(p, u)
    <3> DEFINE t == [tasks[p][u] EXCEPT !.stage = "rows"]
    <3>1. tasks' = [tasks EXCEPT ![p][u] = t]
      BY <2>1 DEF PutMessage, Move
    <3>2. t.stage = "rows" /\ t.msg \in blobs'
      BY <2>0, <2>1 DEF PutMessage, Task
    <3> QED
      BY <3>1, <3>2 DEF BackedNext
  <2>2. CASE PutManifest(p, u)
    <3> DEFINE t == [tasks[p][u] EXCEPT !.stage = "stored"]
    <3>1. tasks' = [tasks EXCEPT ![p][u] = t] /\ tasks[p][u].stage = "manifest"
      BY <2>2 DEF PutManifest, Move
    <3>2. t.stage = "stored" /\ t.msg = tasks[p][u].msg /\ t.uid = tasks[p][u].uid
      BY <2>0 DEF Task
    <3>3. BackedNext(tasks[p][u])
      BY <1>2, <2>0
    <3> QED
      BY <3>1, <3>2, <3>3 DEF BackedNext
  <2>3. CASE Retry(p, u)
    <3> DEFINE t == [tasks[p][u] EXCEPT !.stage = "put"]
    <3>1. tasks' = [tasks EXCEPT ![p][u] = t]
      BY <2>3 DEF Retry, Move
    <3>2. t.stage = "put"
      BY <2>0 DEF Task
    <3> QED
      BY <3>1, <3>2 DEF BackedNext
  <2> QED
    BY <1>10, <2>1, <2>2, <2>3
<1>11. ASSUME NEW p \in Passes, NEW u \in SourceUids, CommitRows(p, u)
       PROVE  \E t : tasks' = [tasks EXCEPT ![p][u] = t] /\ BackedNext(t)
  <2> DEFINE m == tasks[p][u].msg
             t(uid) == [stage |-> "manifest", msg |-> m, uid |-> uid]
  <2>0. tasks[p][u].stage = "rows" /\ Backed(tasks[p][u])
    BY <1>3, <1>11 DEF CommitRows
  <2>1. m \in blobs'
    BY <1>2, <2>0 DEF BackedNext
  <2>2. \/ \E i \in DOMAIN list : /\ list[i].msg = m /\ list' = list
                                  /\ tasks' = [tasks EXCEPT ![p][u] = t(i)]
        \/ /\ list' = Append(list, [msg |-> m, src |-> u])
           /\ tasks' = [tasks EXCEPT ![p][u] = t(Len(list) + 1)]
    BY <1>11 DEF CommitRows
  <2>3. CASE \E i \in DOMAIN list : /\ list[i].msg = m /\ list' = list
                                    /\ tasks' = [tasks EXCEPT ![p][u] = t(i)]
    <3>1. PICK i \in DOMAIN list' :
             list'[i].msg = m /\ tasks' = [tasks EXCEPT ![p][u] = t(i)]
      BY <2>3
    <3>2. BackedNext(t(i))
      BY <2>1, <3>1 DEF BackedNext
    <3> QED
      BY <3>1, <3>2
  <2>4. CASE /\ list' = Append(list, [msg |-> m, src |-> u])
             /\ tasks' = [tasks EXCEPT ![p][u] = t(Len(list) + 1)]
    <3>1. /\ Len(list) + 1 \in DOMAIN list'
          /\ list'[Len(list) + 1] = [msg |-> m, src |-> u]
      BY <1>1, <2>4 DEF TypeOK
    <3>2. BackedNext(t(Len(list) + 1))
      BY <2>1, <3>1 DEF BackedNext
    <3> QED
      BY <2>4, <3>2
  <2> QED
    BY <2>2, <2>3, <2>4
<1>12. \/ tasks' = tasks
       \/ \E p \in Passes : Fetch(p)
       \/ \E p \in Passes : tasks' = [tasks EXCEPT ![p] = NoTasks]
       \/ \E p \in Passes, u \in SourceUids :
            \/ PutMessage(p, u) \/ PutManifest(p, u) \/ Retry(p, u)
            \/ CommitRows(p, u)
  BY DEF Next, vars, history, PassStep, Arrive, Expunge, Renumber,
         ArchiveElsewhere, Examine, ReadFolder, ResetFolder, CreateFolder,
         Search, DropHeld, Identify, Advance, EndBatch, Finish, Rest,
         CreateRefused, LoseSession, Abandon, Forget
<1> QED
  BY <1>6, <1>7, <1>8, <1>9, <1>10, <1>11, <1>12

LEMMA IndexBackedStep ==
  ASSUME IndInv, [Next]_vars
  PROVE  IndexBacked'
<1>1. TypeOK /\ TypeOK'
  BY TypeStep DEF IndInv
<1>2. \A i \in DOMAIN list' : list'[i].msg \in blobs'
  <2>1. CASE list' = list
    BY <2>1, BlobsKept DEF IndInv, IndexBacked
  <2>2. ASSUME NEW p \in Passes, NEW u \in SourceUids, CommitRows(p, u),
               list' # list
        PROVE  \A i \in DOMAIN list' : list'[i].msg \in blobs'
    <3>1. list' = Append(list, [msg |-> tasks[p][u].msg, src |-> u])
      BY <2>2 DEF CommitRows
    <3>2. tasks[p][u].msg \in blobs
      BY <2>2 DEF CommitRows, IndInv, TasksBacked
    <3>3. \A i \in DOMAIN list' :
             i \in DOMAIN list \/ list'[i] = [msg |-> tasks[p][u].msg, src |-> u]
      BY <1>1, <3>1 DEF TypeOK
    <3> QED
      BY <1>1, <3>2, <3>3, BlobsKept, ListKept DEF IndInv, IndexBacked
  <2>3. \/ list' = list
        \/ \E p \in Passes, u \in SourceUids : CommitRows(p, u)
    BY DEF Next, vars, archive, history, PassStep, Arrive, Expunge, Renumber,
           ArchiveElsewhere, Examine, ReadFolder, ResetFolder, CreateFolder,
           Search, DropHeld, Identify, Fetch, PutMessage, PutManifest, Retry,
           Advance, EndBatch, Finish, Rest, CreateRefused, LoseSession, Abandon,
           Forget
  <2> QED
    BY <2>1, <2>2, <2>3
<1>3. \A i \in DOMAIN manifests' :
        i \in DOMAIN list' /\ manifests'[i].msg = list'[i].msg
  <2>1. \A i \in DOMAIN manifests :
          i \in DOMAIN list' /\ manifests[i].msg = list'[i].msg
    BY <1>1, ListKept DEF IndInv, IndexBacked
  <2>2. ASSUME NEW p \in Passes, NEW u \in SourceUids, PutManifest(p, u)
        PROVE  \A i \in DOMAIN manifests' :
                 i \in DOMAIN list' /\ manifests'[i].msg = list'[i].msg
    <3> DEFINE t == tasks[p][u]
    <3>1. t.stage = "manifest" /\ list' = list
      BY <2>2 DEF PutManifest, Move
    <3>2. t.uid \in DOMAIN list /\ list[t.uid].msg = t.msg
      BY <3>1 DEF IndInv, TasksBacked
    <3>3. manifests' = [i \in DOMAIN manifests \cup {t.uid} |->
                          IF i = t.uid THEN [msg |-> t.msg, src |-> u]
                          ELSE manifests[i]]
      BY <2>2 DEF PutManifest
    <3> QED
      BY <2>1, <3>1, <3>2, <3>3
  <2>3. \/ manifests' = manifests
        \/ \E p \in Passes, u \in SourceUids : PutManifest(p, u)
    BY DEF Next, vars, archive, history, PassStep, Arrive, Expunge, Renumber,
           ArchiveElsewhere, Examine, ReadFolder, ResetFolder, CreateFolder,
           Search, DropHeld, Identify, Fetch, PutMessage, CommitRows, Retry,
           Advance, EndBatch, Finish, Rest, CreateRefused, LoseSession, Abandon,
           Forget
  <2> QED
    BY <2>1, <2>2, <2>3
<1> QED
  BY <1>2, <1>3 DEF IndexBacked

LEMMA IndInit == Init => IndInv
<1> SUFFICES ASSUME Init PROVE IndInv
  OBVIOUS
<1>1. IndexBacked
  BY DEF Init, IndexBacked
<1>2. TasksBacked
  BY DEF Init, TasksBacked, NoTasks, NoTask
<1> QED
  BY <1>1, <1>2, TypeInit DEF IndInv

LEMMA IndStep == IndInv /\ [Next]_vars => IndInv'
  BY TypeStep, IndexBackedStep, TasksBackedStep DEF IndInv

(* At every moment, whatever passes overlap, fail or are cut off: a placement
   has its bytes in the bucket and a manifest agrees with the index.  *)
THEOREM Backed == Spec => []IndexBacked
<1>1. IndInv => IndexBacked
  BY DEF IndInv
<1> QED
  BY <1>1, IndInit, IndStep, PTL DEF Spec

----------------------------------------------------------------------------
(* The watermark. *)

(* A pass that has a row to write knows its mailbox, and that the row it read
   was of another UIDVALIDITY. *)
RecordInv ==
  \A p \in Passes :
    /\ pc[p] \in {"open", "record"} => work[p].val # 0
    /\ pc[p] = "record" => work[p].was # work[p].val

LEMMA RecordStep ==
  ASSUME TypeOK, RecordInv, [Next]_vars
  PROVE  RecordInv'
<1> SUFFICES ASSUME NEW q \in Passes
             PROVE  /\ pc'[q] \in {"open", "record"} => work'[q].val # 0
                    /\ pc'[q] = "record" => work'[q].was # work'[q].val
  BY DEF RecordInv
<1>0. /\ work[q] \in Work /\ pc \in [Passes -> Where]
      /\ work \in [Passes -> Work] /\ source.val # 0
  BY IngestAssumption DEF TypeOK, Source
<1>1. CASE pc'[q] = pc[q] /\ work'[q] = work[q]
  BY <1>1 DEF RecordInv
<1>2. CASE Examine(q)
  BY <1>0, <1>2 DEF Examine, Goto, NoWork
<1>3. CASE ReadFolder(q)
  BY <1>0, <1>3 DEF ReadFolder, Goto, Work, RecordInv
<1>4. CASE pc'[q] \notin {"open", "record"}
  BY <1>4
<1>5. ASSUME NEW p \in Passes, p # q, PassStep(p) \/ Abandon(p)
      PROVE  pc'[q] = pc[q] /\ work'[q] = work[q]
  BY <1>0, <1>5 DEF PassStep, Abandon, Examine, ReadFolder, ResetFolder,
                    CreateFolder, Search, DropHeld, Identify, Fetch, PutMessage,
                    CommitRows, PutManifest, Advance, EndBatch, Finish, Rest,
                    CreateRefused, LoseSession, Forget, Goto, Move
<1>6. PassStep(q) \/ Abandon(q)
        => \/ pc' = pc /\ work' = work
           \/ Examine(q) \/ ReadFolder(q) \/ pc'[q] \notin {"open", "record"}
  BY <1>0 DEF PassStep, Abandon, ResetFolder, CreateFolder, Search, DropHeld,
              Identify, Fetch, PutMessage, CommitRows, PutManifest, Advance,
              EndBatch, Finish, Rest, CreateRefused, LoseSession, Forget, Goto,
              Move
<1>7. \/ pc' = pc /\ work' = work
      \/ \E p \in Passes : PassStep(p) \/ Abandon(p)
  BY DEF Next, vars, Arrive, Expunge, Renumber, ArchiveElsewhere, Retry
<1> QED
  BY <1>1, <1>2, <1>3, <1>4, <1>5, <1>6, <1>7

LEMMA RecordInit == Init => RecordInv
  BY DEF Init, RecordInv

(* Who writes the watermark: an advance only raises it. *)
LEMMA ResumeCases ==
  ASSUME TypeOK, [Next]_vars
  PROVE  \/ resume' = resume
         \/ resume'.val = resume.val /\ resume'.last >= resume.last
         \/ \E p \in Passes : ResetFolder(p) \/ CreateFolder(p)
<1>0. resume \in Resume
  BY DEF TypeOK
<1>1. ASSUME NEW p \in Passes, Advance(p)
      PROVE  resume'.val = resume.val /\ resume'.last >= resume.last
  <2>1. PICK high \in {resume.last} \cup work[p].chunk :
           resume.last <= high /\ resume' = [resume EXCEPT !.last = high + 0]
    BY <1>1 DEF Advance, Raise
  <2>2. high \in Nat
    BY <1>0, <2>1 DEF Resume, TypeOK, Work, SourceUids
  <2> QED
    BY <1>0, <2>1, <2>2 DEF Resume
<1>2. \/ resume' = resume
      \/ \E p \in Passes : Advance(p) \/ ResetFolder(p) \/ CreateFolder(p)
  BY DEF Next, vars, history, PassStep, Arrive, Expunge, Renumber,
         ArchiveElsewhere, Examine, ReadFolder, Search, DropHeld, Identify,
         Fetch, PutMessage, CommitRows, PutManifest, Retry, Finish, Rest,
         CreateRefused, LoseSession, Abandon, Forget
<1> QED
  BY <1>1, <1>2

(* Passes that overlap take the watermark back only by the reset of one that
   is late, and then to the start: WatermarkForward. *)
THEOREM WatermarkKept == Spec => WatermarkForward
<1>1. TypeOK /\ RecordInv /\ [Next]_vars
        => [resume'.val = resume.val /\ resume'.last < resume.last
              => /\ resume'.last = 0
                 /\ \E p \in Passes : Late(p) /\ pc'[p] = "search"]_vars
  <2> SUFFICES ASSUME TypeOK, RecordInv, [Next]_vars,
                      resume'.val = resume.val, resume'.last < resume.last
               PROVE  /\ resume'.last = 0
                      /\ \E p \in Passes : Late(p) /\ pc'[p] = "search"
    OBVIOUS
  <2>1. resume.last \in Nat /\ resume'.last \in Nat
    BY TypeStep DEF TypeOK, Resume
  <2>2. PICK p \in Passes : ResetFolder(p) \/ CreateFolder(p)
    BY <2>1, ResumeCases
  <2>3. /\ pc[p] = "record" /\ pc'[p] = "search"
        /\ resume'.val = work[p].val /\ resume'.last = 0
    BY <2>2 DEF ResetFolder, CreateFolder, Goto, TypeOK
  <2>4. work[p].val # 0 /\ work[p].was # work[p].val
    BY <2>3 DEF RecordInv
  <2>5. work[p].was # 0
    BY <2>2, <2>3, <2>4 DEF ResetFolder, CreateFolder
  <2> QED
    BY <2>3, <2>4, <2>5 DEF Late
<1> QED
  BY <1>1, TypeInit, TypeStep, RecordInit, RecordStep, PTL
  DEF Spec, WatermarkForward

(* Where no two passes overlap (one scheduler and no command beside it), the
   watermark never goes back within a UIDVALIDITY, whatever fails. *)
THEOREM WatermarkNeverBack ==
  ASSUME \A p, q \in Passes : p = q
  PROVE  Spec => [][resume'.val = resume.val
                      => resume'.last >= resume.last]_vars
<1> DEFINE Alone ==
      \A p \in Passes : pc[p] = "record" => resume.val = work[p].was
<1>1. Init => Alone
  BY DEF Init
<1>2. TypeOK /\ Alone /\ [Next]_vars => Alone'
  <2> SUFFICES ASSUME TypeOK, Alone, [Next]_vars, NEW q \in Passes,
                      pc'[q] = "record"
               PROVE  resume'.val = work'[q].was
    OBVIOUS
  <2>0. /\ work[q] \in Work /\ pc \in [Passes -> Where]
        /\ work \in [Passes -> Work]
    BY DEF TypeOK
  <2>1. CASE UNCHANGED <<pc, work, resume>>
    BY <2>1
  <2>2. CASE ReadFolder(q)
    BY <2>0, <2>2 DEF ReadFolder, Goto, Work
  <2>3. PassStep(q) \/ Abandon(q)
          => UNCHANGED <<pc, work, resume>> \/ ReadFolder(q)
    BY <2>0 DEF PassStep, Abandon, Examine, ResetFolder, CreateFolder, Search,
                DropHeld, Identify, Fetch, PutMessage, CommitRows, PutManifest,
                Advance, EndBatch, Finish, Rest, CreateRefused, LoseSession,
                Forget, Goto, Move
  <2>4. \/ UNCHANGED <<pc, work, resume>>
        \/ \E p \in Passes : PassStep(p) \/ Abandon(p)
    BY DEF Next, vars, Arrive, Expunge, Renumber, ArchiveElsewhere, Retry
  <2> QED
    BY <2>1, <2>2, <2>3, <2>4
<1>3. TypeOK /\ RecordInv /\ Alone /\ [Next]_vars
        => [resume'.val = resume.val => resume'.last >= resume.last]_vars
  <2> SUFFICES ASSUME TypeOK, RecordInv, Alone, [Next]_vars,
                      resume'.val = resume.val
               PROVE  resume'.last >= resume.last
    OBVIOUS
  <2>1. resume.last \in Nat
    BY DEF TypeOK, Resume
  <2>2. ASSUME NEW p \in Passes, ResetFolder(p) \/ CreateFolder(p)
        PROVE  resume'.val # resume.val
    <3>1. pc[p] = "record" /\ resume'.val = work[p].val
      BY <2>2 DEF ResetFolder, CreateFolder, Goto
    <3> QED
      BY <3>1 DEF RecordInv
  <2> QED
    BY <2>1, <2>2, ResumeCases
<1> HIDE DEF Alone
<1> QED
  BY <1>1, <1>2, <1>3, TypeInit, TypeStep, RecordInit, RecordStep, PTL DEF Spec

----------------------------------------------------------------------------
(* The folder implements UidLog. *)

LEMMA LogInitHolds == Init => Log!LogInit
<1> SUFFICES ASSUME Init PROVE Log!LogInit
  OBVIOUS
<1>1. LogEntries = {} /\ Len(list) + 1 = 1
  BY DEF Init, LogEntries
<1>2. Log!EntriesOf(ThisFolder) = {}
  BY <1>1 DEF Log!EntriesOf
<1> QED
  BY <1>1, <1>2 DEF Log!LogInit

LEMMA LogStepHolds == TypeOK /\ [Next]_vars => [Log!LogNext]_(Log!logVars)
<1> SUFFICES ASSUME TypeOK, [Next]_vars
             PROVE  [Log!LogNext]_(Log!logVars)
  OBVIOUS
<1>1. CASE list' = list
  BY <1>1 DEF Log!logVars, LogEntries
<1>2. ASSUME NEW p \in Passes, NEW u \in SourceUids, CommitRows(p, u),
             list' # list
      PROVE  Log!LogNext
  <2> DEFINE m == tasks[p][u].msg
             entry == [folder |-> ThisFolder, uid |-> Len(list) + 1, msg |-> m]
  <2>1. m \in Messages /\ Messages = Contents \cup Scraps \cup {Empty}
    BY DEF TypeOK, Task, Messages, Remains
  <2>2. /\ \A i \in DOMAIN list : list[i].msg # m
        /\ list' = Append(list, [msg |-> m, src |-> u])
    BY <1>2 DEF CommitRows
  <2>3. list \in Seq(Row) /\ [msg |-> m, src |-> u] \in Row
    BY <2>1 DEF TypeOK, Row
  <2>4. /\ DOMAIN list' = DOMAIN list \cup {Len(list) + 1}
        /\ Len(list') = Len(list) + 1
        /\ list'[Len(list) + 1].msg = m
        /\ \A i \in DOMAIN list : list'[i] = list[i]
    BY <2>2, <2>3
  <2>5. LogEntries' = LogEntries \cup {entry}
    BY <2>4 DEF LogEntries
  <2>6. \A e \in Log!EntriesOf(ThisFolder) : e.msg # m
    BY <2>2 DEF Log!EntriesOf, LogEntries
  <2>7. Log!Deliver(ThisFolder, m)
    BY <2>4, <2>5, <2>6 DEF Log!Deliver
  <2> QED
    BY <2>1, <2>7 DEF Log!LogNext
<1>3. \/ list' = list
      \/ \E p \in Passes, u \in SourceUids : CommitRows(p, u)
  BY DEF Next, vars, archive, history, PassStep, Arrive, Expunge, Renumber,
         ArchiveElsewhere, Examine, ReadFolder, ResetFolder, CreateFolder,
         Search, DropHeld, Identify, Fetch, PutMessage, PutManifest, Retry,
         Advance, EndBatch, Finish, Rest, CreateRefused, LoseSession, Abandon,
         Forget
<1> QED
  BY <1>1, <1>2, <1>3

(* However many passes meet, fail or are cut off, the folder keeps what UidLog
   promises its readers: entries are appended, one per message, and stay. *)
THEOREM Refinement == Spec => ImplementsUidLog
  BY LogInitHolds, LogStepHolds, TypeInit, TypeStep, PTL
  DEF Spec, ImplementsUidLog, Log!LogSpec

----------------------------------------------------------------------------
(* No message is skipped. *)

(* What a step does to the local state of one pass. *)
LEMMA WorkCases ==
  ASSUME TypeOK, [Next]_vars, NEW q \in Passes
  PROVE  \/ work'[q] = work[q]
         \/ Examine(q) \/ FolderForIngest(q) \/ Search(q) \/ DropHeld(q)
         \/ Identify(q) \/ Fetch(q) \/ Advance(q) \/ Finish(q) \/ Forget(q)
<1>1. ASSUME NEW p \in Passes, p # q, NEW w, work' = [work EXCEPT ![p] = w]
      PROVE  work'[q] = work[q]
  BY <1>1 DEF TypeOK
<1>2. ASSUME NEW p \in Passes, PassStep(p) \/ Abandon(p)
      PROVE  \/ work' = work
             \/ \E w : work' = [work EXCEPT ![p] = w]
  BY <1>2 DEF PassStep, Abandon, Examine, ReadFolder, ResetFolder, CreateFolder,
              Search, DropHeld, Identify, Fetch, PutMessage, CommitRows,
              PutManifest, Advance, EndBatch, Finish, Rest, CreateRefused,
              LoseSession, Forget
<1>3. PassStep(q) \/ Abandon(q) =>
        \/ work' = work
        \/ Examine(q) \/ FolderForIngest(q) \/ Search(q) \/ DropHeld(q)
        \/ Identify(q) \/ Fetch(q) \/ Advance(q) \/ Finish(q) \/ Forget(q)
  BY DEF PassStep, FolderForIngest, Abandon, PutMessage, CommitRows, PutManifest,
         Rest, CreateRefused, LoseSession
<1>4. \/ work' = work
      \/ \E p \in Passes : PassStep(p) \/ Abandon(p)
  BY DEF Next, vars, history, Arrive, Expunge, Renumber, ArchiveElsewhere, Retry
<1> QED
  BY <1>1, <1>2, <1>3, <1>4

(* What a step does to one task. *)
LEMMA TaskCases ==
  ASSUME TypeOK, [Next]_vars, NEW q \in Passes, NEW u \in SourceUids
  PROVE  \/ tasks'[q][u] = tasks[q][u]
         \/ Fetch(q)
         \/ tasks'[q][u] = NoTask /\ pc'[q] # "store"
         \/ /\ tasks[q][u].stage # "none"
            /\ tasks'[q][u].msg = tasks[q][u].msg
            /\ tasks'[q][u].stage # "none"
<1> DEFINE Same(p, v) ==
      /\ tasks[p][v].stage # "none"
      /\ \E t : /\ tasks' = [tasks EXCEPT ![p][v] = t]
                /\ t.msg = tasks[p][v].msg /\ t.stage # "none"
<1>1. ASSUME NEW p \in Passes, NEW v \in SourceUids, NEW from, NEW to,
             Move(p, v, from, to), from # "none", to # "none"
      PROVE  Same(p, v)
  <2>1. tasks[p][v] \in Task
    BY DEF TypeOK
  <2> DEFINE t == [tasks[p][v] EXCEPT !.stage = to]
  <2>2. t.msg = tasks[p][v].msg /\ t.stage = to
    BY <2>1 DEF Task
  <2>3. tasks[p][v].stage = from /\ tasks' = [tasks EXCEPT ![p][v] = t]
    BY <1>1 DEF Move
  <2> QED
    BY <1>1, <2>2, <2>3
<1>2. ASSUME NEW p \in Passes, NEW v \in SourceUids,
             \/ PutMessage(p, v) \/ PutManifest(p, v) \/ Retry(p, v)
             \/ CommitRows(p, v)
      PROVE  Same(p, v)
  <2>1. CASE CommitRows(p, v)
    <3> DEFINE t(uid) ==
          [stage |-> "manifest", msg |-> tasks[p][v].msg, uid |-> uid]
    <3>1. PICK uid : tasks' = [tasks EXCEPT ![p][v] = t(uid)]
      BY <2>1 DEF CommitRows
    <3>2. tasks[p][v].stage = "rows"
      BY <2>1 DEF CommitRows
    <3>3. t(uid).msg = tasks[p][v].msg /\ t(uid).stage = "manifest"
      OBVIOUS
    <3> HIDE DEF t
    <3> QED
      BY <3>1, <3>2, <3>3
  <2>2. CASE PutMessage(p, v) \/ PutManifest(p, v) \/ Retry(p, v)
    <3> HIDE DEF Same
    <3> QED
      BY <1>1, <2>2 DEF PutMessage, PutManifest, Retry
  <2> QED
    BY <1>2, <2>1, <2>2
<1>3. ASSUME NEW p \in Passes, NEW v \in SourceUids, Same(p, v)
      PROVE  \/ tasks'[q][u] = tasks[q][u]
             \/ /\ tasks[q][u].stage # "none"
                /\ tasks'[q][u].msg = tasks[q][u].msg
                /\ tasks'[q][u].stage # "none"
  BY <1>3 DEF TypeOK
<1>4. ASSUME NEW p \in Passes, Forget(p) \/ EndBatch(p)
      PROVE  \/ tasks'[q][u] = tasks[q][u]
             \/ tasks'[q][u] = NoTask /\ pc'[q] # "store"
  BY <1>4 DEF Forget, EndBatch, Goto, NoTasks, TypeOK
<1>5. ASSUME NEW p \in Passes, Fetch(p), p # q
      PROVE  tasks'[q][u] = tasks[q][u]
  BY <1>5 DEF Fetch, Receive, TypeOK
<1> HIDE DEF Same
<1>6. \/ tasks' = tasks
      \/ \E p \in Passes : Fetch(p) \/ Forget(p) \/ EndBatch(p)
      \/ \E p \in Passes, v \in SourceUids : Same(p, v)
  BY <1>2 DEF Next, vars, history, PassStep, Arrive, Expunge, Renumber,
              ArchiveElsewhere, Examine, ReadFolder, ResetFolder, CreateFolder,
              Search, DropHeld, Identify, Advance, Finish, Rest, CreateRefused,
              LoseSession, Abandon
<1> QED
  BY <1>3, <1>4, <1>5, <1>6

(* A pass enters "store" by a fetch and knows the same while it is there. *)
LEMMA StoreCases ==
  ASSUME TypeOK, [Next]_vars, NEW q \in Passes, pc'[q] = "store"
  PROVE  Fetch(q) \/ (pc[q] = "store" /\ work'[q] = work[q])
<1>1. ASSUME NEW p \in Passes, p # q, PassStep(p) \/ Abandon(p)
      PROVE  pc'[q] = pc[q]
  BY <1>1 DEF PassStep, Abandon, Examine, ReadFolder, ResetFolder, CreateFolder,
              Search, DropHeld, Identify, Fetch, PutMessage, CommitRows,
              PutManifest, Advance, EndBatch, Finish, Rest, CreateRefused,
              LoseSession, Forget, Goto, Move, TypeOK
<1>2. PassStep(q) \/ Abandon(q) => Fetch(q) \/ pc'[q] = pc[q]
  BY DEF PassStep, Abandon, Examine, ReadFolder, ResetFolder, CreateFolder,
         Search, DropHeld, Identify, PutMessage, CommitRows, PutManifest,
         Advance, EndBatch, Finish, Rest, CreateRefused, LoseSession, Forget,
         Goto, Move, TypeOK
<1>3. \/ pc' = pc
      \/ \E p \in Passes : PassStep(p) \/ Abandon(p)
  BY DEF Next, vars, history, Arrive, Expunge, Renumber, ArchiveElsewhere, Retry
<1>4. Fetch(q) \/ pc[q] = "store"
  BY <1>1, <1>2, <1>3
<1>5. Examine(q) \/ FolderForIngest(q) \/ Search(q) \/ DropHeld(q)
        \/ Identify(q) \/ Advance(q) \/ Finish(q) \/ Forget(q)
        => pc'[q] # "store"
  BY DEF FolderForIngest, Examine, ReadFolder, ResetFolder, CreateFolder,
         Search, DropHeld, Identify, Advance, EndBatch, Finish, Forget, Goto,
         TypeOK
<1> QED
  BY <1>4, <1>5, WorkCases

(* A pass stays in "store" and knows the same until its tasks are gone. *)
LEMMA StoreStays ==
  ASSUME TypeOK, [Next]_vars, NEW q \in Passes, NEW u \in SourceUids,
         pc[q] = "store", tasks'[q][u].stage # "none"
  PROVE  pc'[q] = "store" /\ work'[q] = work[q]
<1>1. ASSUME NEW p \in Passes, p # q, PassStep(p) \/ Abandon(p)
      PROVE  pc'[q] = pc[q] /\ work'[q] = work[q]
  BY <1>1 DEF PassStep, Abandon, Examine, ReadFolder, ResetFolder, CreateFolder,
              Search, DropHeld, Identify, Fetch, PutMessage, CommitRows,
              PutManifest, Advance, EndBatch, Finish, Rest, CreateRefused,
              LoseSession, Forget, Goto, Move, TypeOK
<1>2. Forget(q) \/ Advance(q) => tasks'[q][u].stage = "none"
  BY DEF Forget, Advance, EndBatch, NoTasks, NoTask, TypeOK
<1>3. PassStep(q) \/ Abandon(q) => pc' = pc /\ work' = work
  BY <1>2 DEF PassStep, Abandon, Examine, ReadFolder, ResetFolder, CreateFolder,
              Search, DropHeld, Identify, Fetch, PutMessage, CommitRows,
              PutManifest, Finish, Rest, CreateRefused, LoseSession, Goto
<1>4. \/ pc' = pc /\ work' = work
      \/ \E p \in Passes : PassStep(p) \/ Abandon(p)
  BY DEF Next, vars, Arrive, Expunge, Renumber, ArchiveElsewhere, Retry
<1> QED
  BY <1>1, <1>3, <1>4

(* The mailbox receives and loses messages, or is made again. *)
LEMMA SourceCases ==
  ASSUME TypeOK, [Next]_vars
  PROVE  /\ source.val \in Nat \ {0} /\ source.next \in Nat
         /\ \/ source' = source
            \/ \E m \in Contents : Arrive(m)
            \/ \E u \in SourceUids : Expunge(u)
            \/ \E box \in Boxes : Renumber(box)
         /\ (\E box : Renumber(box)) <=> source'.val # source.val
<1>1. /\ source \in Source
      /\ source.val \in Nat \ {0} /\ source.next \in Nat
  BY IngestAssumption DEF TypeOK, Source
<1>2. \/ source' = source
      \/ \E m \in Contents : Arrive(m)
      \/ \E u \in SourceUids : Expunge(u)
      \/ \E box \in Boxes : Renumber(box)
  BY DEF Next, vars, PassStep, ArchiveElsewhere, Examine, ReadFolder,
         ResetFolder, CreateFolder, Search, DropHeld, Identify, Fetch,
         PutMessage, CommitRows, PutManifest, Retry, Advance, EndBatch, Finish,
         Rest, CreateRefused, LoseSession, Abandon, Forget
<1>3. (\E m \in Contents : Arrive(m)) \/ (\E u \in SourceUids : Expunge(u))
        => source'.val = source.val
  BY <1>1 DEF Arrive, Expunge, Source
<1>4. ASSUME NEW box, Renumber(box)
      PROVE  source'.val # source.val
  BY <1>1, <1>4 DEF Renumber
<1> QED
  BY <1>1, <1>2, <1>3, <1>4

(* While it keeps its UIDVALIDITY the archive and the histories only grow, and
   a UID given out never comes to mean another message. *)
LEMMA Grows ==
  ASSUME source'.val = source.val, TypeOK, [Next]_vars
  PROVE  /\ \A m : Archived(m) => Archived(m)'
         /\ cut \subseteq cut' /\ omitted \subseteq omitted' /\ taken' = taken
         /\ source.next \in Nat /\ source'.next \in Nat
         /\ source.next <= source'.next
         /\ \A u \in DOMAIN source'.box :
              u < source.next => /\ u \in DOMAIN source.box
                                 /\ source'.box[u] = source.box[u]
<1>0. source \in Source /\ source' \in Source
  BY TypeStep DEF TypeOK
<1>1. source.next \in Nat /\ source'.next \in Nat
  BY <1>0, IngestAssumption DEF Source
<1>2. \A m : Archived(m) => Archived(m)'
  <2>1. elsewhere \subseteq elsewhere'
    BY DEF Next, vars, archive, PassStep, Arrive, Expunge, Renumber,
           ArchiveElsewhere, Examine, ReadFolder, ResetFolder, CreateFolder,
           Search, DropHeld, Identify, Fetch, PutMessage, CommitRows,
           PutManifest, Retry, Advance, EndBatch, Finish, Rest, CreateRefused,
           LoseSession, Abandon, Forget
  <2>2. \A m : Known(m) => Known(m)'
    BY <2>1, ListKept DEF Known
  <2> QED
    BY <2>2, ListKept DEF Archived
<1>3. \A box : ~Renumber(box)
  BY SourceCases
<1>4. cut \subseteq cut' /\ omitted \subseteq omitted' /\ taken' = taken
  <2>1. ASSUME NEW p \in Passes, Fetch(p)
        PROVE  cut \subseteq cut' /\ omitted \subseteq omitted' /\ taken' = taken
    BY <2>1, FetchBodies DEF Receive
  <2>2. UNCHANGED history \/ \E p \in Passes : Fetch(p)
    BY <1>3 DEF Next, vars, PassStep, Arrive, Expunge, ArchiveElsewhere,
                Examine, ReadFolder, ResetFolder, CreateFolder, Search,
                DropHeld, Identify, PutMessage, CommitRows, PutManifest, Retry,
                Advance, EndBatch, Finish, Rest, CreateRefused, LoseSession,
                Abandon, Forget
  <2> QED
    BY <2>1, <2>2 DEF history
<1>5. \/ source' = source
      \/ \E m \in Contents : Arrive(m)
      \/ \E u \in SourceUids : Expunge(u)
  BY <1>3, SourceCases
<1>6. ASSUME NEW m \in Contents, Arrive(m)
      PROVE  /\ source.next <= source'.next
             /\ \A u \in DOMAIN source'.box :
                  u < source.next => /\ u \in DOMAIN source.box
                                     /\ source'.box[u] = source.box[u]
  <2>1. /\ source'.next = source.next + 1
        /\ source'.box = [u \in DOMAIN source.box \cup {source.next} |->
                            IF u = source.next THEN m ELSE source.box[u]]
    BY <1>0, <1>6 DEF Arrive, Source
  <2> QED
    BY <1>1, <2>1
<1>7. ASSUME NEW v \in SourceUids, Expunge(v)
      PROVE  /\ source.next <= source'.next
             /\ \A u \in DOMAIN source'.box :
                  u < source.next => /\ u \in DOMAIN source.box
                                     /\ source'.box[u] = source.box[u]
  <2>1. /\ source'.next = source.next
        /\ source'.box = [u \in DOMAIN source.box \ {v} |-> source.box[u]]
    BY <1>0, <1>7 DEF Expunge, Source
  <2> QED
    BY <1>1, <2>1
<1> QED
  BY <1>1, <1>2, <1>4, <1>5, <1>6, <1>7

LEMMA SafeKept ==
  ASSUME source'.val = source.val, TypeOK, [Next]_vars,
         NEW u \in SourceUids, Issued(u), Safe(u)
  PROVE  Issued(u)' /\ Safe(u)'
<1>1. Issued(u)'
  BY Grows DEF Issued, SourceUids
<1>2. CASE u \in taken
  BY <1>1, <1>2, Grows DEF Safe
<1>3. CASE u \notin taken
  <2>1. \A m : Accounted(u, m) => Accounted(u, m)'
    BY Grows DEF Accounted
  <2>2. ASSUME u \in DOMAIN source'.box
        PROVE  u \in DOMAIN source.box /\ source'.box[u] = source.box[u]
    BY <1>3, <2>2, Grows DEF Issued
  <2>3. u \in DOMAIN source'.box => Accounted(u, source.box[u])'
    BY <1>3, <2>1, <2>2 DEF Safe
  <2> QED
    BY <1>1, <2>3 DEF Safe
<1> QED
  BY <1>2, <1>3

(* Right and Issued in the next state, of a UID and a message of this one. *)
RightNext(u, m) ==
  \/ u \in taken'
  \/ u \in DOMAIN source'.box => m = source'.box[u] \/ (m \in Remains /\ u \in cut')
IssuedNext(u) == u < source'.next \/ u \in taken'

LEMMA RightKept ==
  ASSUME source'.val = source.val, TypeOK, [Next]_vars
  PROVE  \A u \in SourceUids : \A m :
           Issued(u) /\ Right(u, m) => IssuedNext(u) /\ RightNext(u, m)
  BY Grows DEF Issued, Right, IssuedNext, RightNext, SourceUids

(* A stored message takes care of its source UID. *)
LEMMA StoredIsSafe ==
  ASSUME SkipInv, NEW p \in Passes, NEW u \in SourceUids,
         tasks[p][u].stage = "stored"
  PROVE  Safe(u)
<1>1. Archived(tasks[p][u].msg)
  BY DEF SkipInv, IndInv, TasksBacked, Archived
<1>2. Right(u, tasks[p][u].msg)
  BY DEF SkipInv, RowsRight
<1> QED
  BY <1>1, <1>2 DEF Right, Safe, Accounted

(* So does a placement that names it. *)
LEMMA HeldIsSafe ==
  ASSUME SkipInv, NEW u \in HeldUids
  PROVE  Safe(u)
<1>1. PICK i \in DOMAIN list : list[i].src = u
  BY DEF HeldUids
<1>2. Archived(list[i].msg) /\ Right(u, list[i].msg)
  BY <1>1 DEF Archived, SkipInv, RowsRight
<1> QED
  BY <1>2 DEF Right, Safe, Accounted

(* When a batch ends, its UIDs are taken care of. *)
LEMMA ChunkIsSafe ==
  ASSUME SkipInv, NEW p \in Passes, Advance(p), NEW u \in work[p].chunk
  PROVE  u \in SourceUids /\ Safe(u)
<1>1. pc[p] = "store" /\ u \in SourceUids
  BY DEF Advance, EndBatch, Goto, SkipInv, IndInv, TypeOK, Work
<1>2. CASE Live(p)
  <2>1. Safe(u) \/ tasks[p][u].stage # "none"
    BY <1>1, <1>2 DEF SkipInv, TodoIsAll
  <2>2. Safe(u) \/ tasks[p][u].stage = "stored"
    BY <1>1, <2>1 DEF Advance, AllStored
  <2> QED
    BY <1>1, <2>2, StoredIsSafe
<1>3. CASE ~Live(p)
  <2>1. u <= u
    BY <1>1 DEF SourceUids
  <2> QED
    BY <1>1, <1>3, <2>1 DEF SkipInv, StaleIsTaken, Safe
<1> QED
  BY <1>2, <1>3

(* What a step does to the UIDVALIDITY and the watermark that a pass goes by. *)
LEMMA ValCases ==
  ASSUME TypeOK, [Next]_vars, NEW q \in Passes
  PROVE  \/ work'[q].val = work[q].val /\ work'[q].last = work[q].last
         \/ work'[q].val \in {0, source.val} /\ work'[q].last = 0
         \/ /\ work'[q].val = work[q].val
            /\ \/ work'[q].last = 0
               \/ resume'.val = work[q].val /\ work'[q].last = resume'.last
<1>1. work \in [Passes -> Work] /\ resume \in Resume
  BY DEF TypeOK
<1>2. Examine(q) \/ Finish(q) \/ Forget(q) =>
        work'[q].val \in {0, source.val} /\ work'[q].last = 0
  BY <1>1 DEF Examine, Finish, Forget, NoWork
<1>3. FolderForIngest(q) =>
        /\ work'[q].val = work[q].val
        /\ \/ work'[q].last \in {0, work[q].last}
           \/ resume'.val = work[q].val /\ work'[q].last = resume'.last
  BY <1>1 DEF FolderForIngest, ReadFolder, ResetFolder, CreateFolder, Work, Resume
<1>4. Search(q) \/ DropHeld(q) \/ Identify(q) \/ Fetch(q) \/ Advance(q) =>
        work'[q].val = work[q].val /\ work'[q].last = work[q].last
  BY <1>1 DEF Search, DropHeld, Identify, Fetch, Advance, EndBatch, Work
<1> QED
  BY <1>2, <1>3, <1>4, WorkCases

LEMMA BehindStep ==
  ASSUME source'.val = source.val, SkipInv, [Next]_vars
  PROVE  BehindIsSafe'
<1>1. TypeOK /\ TypeOK'
  BY TypeStep DEF SkipInv, IndInv
<1>0. \A box : ~Renumber(box)
  BY <1>1, SourceCases
<1>2. ASSUME NEW u \in DOMAIN source'.box
      PROVE  u < source'.next
  <2>1. CASE u \in DOMAIN source.box
    BY <1>1, <2>1, Grows, BoxType DEF SkipInv, BehindIsSafe, TypeOK, Source,
                                      SourceUids
  <2>2. CASE u \notin DOMAIN source.box
    <3>1. PICK m \in Contents : Arrive(m)
      <4>1. ASSUME NEW v \in SourceUids, Expunge(v)
            PROVE  DOMAIN source'.box \subseteq DOMAIN source.box
        BY <1>1, <4>1 DEF Expunge, TypeOK, Source
      <4> QED
        BY <1>0, <1>1, <2>2, <4>1, SourceCases
    <3>2. source'.next = source.next + 1 /\ u = source.next
      BY <1>1, <2>2, <3>1 DEF Arrive, TypeOK, Source
    <3> QED
      BY <1>1, <3>2, Grows
  <2> QED
    BY <2>1, <2>2
<1>3. ASSUME NEW u \in SourceUids, resume'.val = source'.val, u <= resume'.last
      PROVE  Issued(u)' /\ Safe(u)'
  <2>1. CASE resume' = resume
    BY <1>1, <1>3, <2>1, SafeKept DEF SkipInv, BehindIsSafe
  <2>2. ASSUME NEW p \in Passes, Advance(p)
        PROVE  Issued(u)' /\ Safe(u)'
    <3>1. PICK high \in {resume.last} \cup work[p].chunk :
                  resume' = [resume EXCEPT !.last = high + 0]
      BY <2>2 DEF Advance, Raise
    <3>2. high \in Nat /\ resume'.last = high /\ resume'.val = resume.val
      BY <1>1, <3>1 DEF TypeOK, Resume, Work, SourceUids
    <3>3. pc[p] = "store"
      BY <2>2 DEF Advance, EndBatch, Goto
    <3>4. CASE high = resume.last
      BY <1>1, <1>3, <3>2, <3>4, SafeKept DEF SkipInv, BehindIsSafe
    <3>5. CASE high \in work[p].chunk /\ ~Live(p)
      <4>1. u \in taken
        BY <1>3, <3>2, <3>3, <3>5 DEF SkipInv, StaleIsTaken
      <4> QED
        BY <1>1, <4>1, SafeKept DEF Issued, Safe
    <3>6. CASE high \in work[p].chunk /\ Live(p)
      <4>1. high \in work[p].todo /\ high < source.next
        BY <3>3, <3>6 DEF SkipInv, TodoIsAll
      <4>2. u < source.next
        BY <1>1, <1>3, <3>2, <4>1, Grows DEF SourceUids
      <4>3. u \notin work[p].chunk => Safe(u)
        <5> SUFFICES ASSUME u \notin work[p].chunk, u \in DOMAIN source.box
                     PROVE  Safe(u)
          BY DEF Safe
        <5>1. u < high
          BY <1>3, <3>2, <3>6 DEF SourceUids
        <5>2. u \in work[p].todo \/ Safe(u)
          BY <3>6, <4>1, <5>1 DEF SkipInv, TodoIsAll
        <5> QED
          BY <3>3, <3>6, <5>1, <5>2 DEF SkipInv, TodoIsAll
      <4>4. Safe(u)
        BY <2>2, <4>3, ChunkIsSafe
      <4> QED
        BY <1>1, <4>2, <4>4, SafeKept DEF Issued
    <3> QED
      BY <3>1, <3>4, <3>5, <3>6
  <2>3. ASSUME NEW p \in Passes, FolderForIngest(p)
        PROVE  resume' = resume \/ resume'.last = 0
    BY <2>3 DEF FolderForIngest, ReadFolder, ResetFolder, CreateFolder
  <2>4. \/ resume' = resume
        \/ \E p \in Passes : FolderForIngest(p) \/ Advance(p)
    BY DEF FolderForIngest, Next, vars, PassStep, Arrive, Expunge, Renumber,
           ArchiveElsewhere, Examine, Search, DropHeld, Identify, Fetch,
           PutMessage, CommitRows, PutManifest, Retry, Finish, Rest,
           CreateRefused, LoseSession, Abandon, Forget
  <2>5. ~(u <= 0)
    BY DEF SourceUids
  <2> QED
    BY <1>3, <2>1, <2>2, <2>3, <2>4, <2>5
<1>4. ASSUME NEW q \in Passes
      PROVE  /\ work'[q].val <= source'.val
             /\ Live(q)' => \A u \in SourceUids :
                               u <= work'[q].last => Issued(u)' /\ Safe(u)'
  <2>1. work[q].val <= source.val /\ source.val \in Nat \ {0}
    BY <1>1, SourceCases DEF SkipInv, BehindIsSafe
  <2>2. work'[q].val <= source'.val
    BY <1>1, <2>1, ValCases
  <2>3. ASSUME Live(q)', NEW u \in SourceUids, u <= work'[q].last
        PROVE  Issued(u)' /\ Safe(u)'
    <3>1. ~(u <= 0)
      BY DEF SourceUids
    <3>2. Live(q) /\ u <= work[q].last => Issued(u) /\ Safe(u)
      BY DEF SkipInv, BehindIsSafe
    <3>3. CASE work'[q].val = work[q].val /\ work'[q].last = work[q].last
      BY <1>1, <2>3, <3>2, <3>3, SafeKept DEF Live
    <3>4. CASE resume'.val = work'[q].val /\ work'[q].last = resume'.last
      BY <1>3, <2>3, <3>4 DEF Live
    <3> QED
      BY <1>1, <2>3, <3>1, <3>3, <3>4, ValCases
  <2> QED
    BY <2>2, <2>3
<1>5. resume'.val <= source'.val
  <2>1. ASSUME NEW p \in Passes, ResetFolder(p) \/ CreateFolder(p)
        PROVE  resume'.val = work[p].val
    BY <2>1 DEF ResetFolder, CreateFolder
  <2>2. \/ resume'.val = resume.val
        \/ \E p \in Passes : ResetFolder(p) \/ CreateFolder(p)
    BY <1>1, ResumeCases
  <2> QED
    BY <2>1, <2>2 DEF SkipInv, BehindIsSafe
<1> QED
  BY <1>2, <1>3, <1>4, <1>5 DEF BehindIsSafe

LEMMA RowsRightStep ==
  ASSUME source'.val = source.val, SkipInv, [Next]_vars
  PROVE  RowsRight'
<1>1. TypeOK /\ TypeOK'
  BY TypeStep DEF SkipInv, IndInv
<1>2. ASSUME NEW i \in DOMAIN list'
      PROVE  IssuedNext(list'[i].src) /\ RightNext(list'[i].src, list'[i].msg)
  <2>1. CASE i \in DOMAIN list
    <3>1. list'[i] = list[i] /\ list[i] \in Row
      BY <1>1, <2>1, ListKept DEF TypeOK
    <3>2. Issued(list[i].src) /\ Right(list[i].src, list[i].msg)
      BY <2>1 DEF SkipInv, RowsRight
    <3> QED
      BY <1>1, <3>1, <3>2, RightKept DEF Row
  <2>2. CASE i \notin DOMAIN list
    <3>1. PICK p \in Passes, u \in SourceUids : CommitRows(p, u)
      BY <2>2 DEF Next, vars, archive, history, PassStep, Arrive, Expunge,
                  Renumber, ArchiveElsewhere, Examine, ReadFolder, ResetFolder,
                  CreateFolder, Search, DropHeld, Identify, Fetch, PutMessage,
                  PutManifest, Retry, Advance, EndBatch, Finish, Rest,
                  CreateRefused, LoseSession, Abandon, Forget
    <3>2. list' = Append(list, [msg |-> tasks[p][u].msg, src |-> u])
      BY <2>2, <3>1 DEF CommitRows
    <3>3. list'[i] = [msg |-> tasks[p][u].msg, src |-> u]
      BY <1>1, <2>2, <3>2 DEF TypeOK
    <3>4. Issued(u) /\ Right(u, tasks[p][u].msg)
      BY <3>1 DEF CommitRows, SkipInv, RowsRight
    <3> QED
      BY <1>1, <3>3, <3>4, RightKept
  <2> QED
    BY <2>1, <2>2
<1>3. ASSUME NEW q \in Passes, NEW u \in SourceUids,
             tasks'[q][u].stage # "none"
      PROVE  /\ pc'[q] = "store" /\ u \in work'[q].chunk
             /\ IssuedNext(u) /\ RightNext(u, tasks'[q][u].msg)
  <2>1. ASSUME tasks[q][u].stage # "none", tasks'[q][u].msg = tasks[q][u].msg
        PROVE  /\ pc'[q] = "store" /\ u \in work'[q].chunk
               /\ IssuedNext(u) /\ RightNext(u, tasks'[q][u].msg)
    <3>1. pc[q] = "store" /\ u \in work[q].chunk
      BY <2>1 DEF SkipInv, RowsRight
    <3> QED
      BY <1>1, <1>3, <2>1, <3>1, RightKept, StoreStays DEF SkipInv, RowsRight
  <2>2. CASE Fetch(q)
    <3>1. PICK bodies, missing :
             /\ DOMAIN bodies
                  \subseteq NextChunk(work[q].todo) \cap DOMAIN source.box
             /\ \A v \in DOMAIN bodies :
                  bodies[v] = source.box[v] \/ bodies[v] \in Remains
             /\ Receive(q, bodies, missing)
      BY <1>1, <2>2, FetchBodies
    <3>2. /\ tasks'[q][u] = IF u \in DOMAIN bodies
                            THEN [stage |-> "put", msg |-> bodies[u], uid |-> 0]
                            ELSE NoTask
          /\ cut' = cut \cup {v \in DOMAIN bodies : bodies[v] # source.box[v]}
      BY <1>1, <3>1 DEF Receive, TypeOK
    <3>3. u \in DOMAIN bodies
      BY <1>3, <3>2 DEF NoTask
    <3>4. \/ tasks'[q][u].msg = source.box[u]
          \/ tasks'[q][u].msg \in Remains /\ u \in cut'
      BY <3>1, <3>2, <3>3
    <3>5. u < source.next
      BY <3>1, <3>3 DEF SkipInv, BehindIsSafe
    <3>6. /\ source' = source /\ pc'[q] = "store"
          /\ work'[q].chunk = NextChunk(work[q].todo)
      BY <1>1, <2>2 DEF Fetch, Goto, TypeOK, Work
    <3> QED
      BY <3>1, <3>3, <3>4, <3>5, <3>6 DEF IssuedNext, RightNext
  <2>3. tasks'[q][u] # NoTask
    BY <1>3 DEF NoTask
  <2> QED
    BY <1>1, <1>3, <2>1, <2>2, <2>3, TaskCases
<1> QED
  BY <1>2, <1>3 DEF RowsRight, Issued, Right, IssuedNext, RightNext

(* A UID leaves the list of those to fetch only when it is taken care of. *)
LEMMA RemovedIsSafe ==
  ASSUME SkipInv, NEW q \in Passes, NEW u \in work[q].todo,
         u \notin work'[q].todo,
         DropHeld(q) \/ Identify(q) \/ Advance(q)
  PROVE  Safe(u)
<1>1. work \in [Passes -> Work]
  BY DEF SkipInv, IndInv, TypeOK
<1>2. CASE DropHeld(q)
  <2>1. work'[q].todo = work[q].todo \ HeldUids
    BY <1>1, <1>2 DEF DropHeld, Work
  <2> QED
    BY <2>1, HeldIsSafe
<1>3. CASE Advance(q)
  <2>1. work'[q].todo = work[q].todo \ work[q].chunk
    BY <1>1, <1>3 DEF Advance, EndBatch, Work
  <2> QED
    BY <1>3, <2>1, ChunkIsSafe
<1>4. CASE Identify(q)
  <2>1. PICK known \in SUBSET {v \in work[q].todo \cap DOMAIN source.box :
                                 Known(source.box[v])} :
           work'[q].todo = work[q].todo \ known
    BY <1>1, <1>4 DEF Identify, Work
  <2>2. ByIdentity /\ u \in DOMAIN source.box /\ Known(source.box[u])
    BY <1>4, <2>1 DEF Identify
  <2> QED
    BY <2>2 DEF Safe, Accounted, Archived
<1> QED
  BY <1>2, <1>3, <1>4

(* NextChunk takes the lowest UIDs. *)
LEMMA ChunkIsLowest ==
  ASSUME NEW todo \in SUBSET SourceUids, NEW c \in NextChunk(todo),
         NEW t \in todo, t < c
  PROVE  t \in NextChunk(todo)
<1> DEFINE Below(u) == {v \in todo : v < u}
<1>1. IsFiniteSet(SourceUids)
  BY IngestAssumption, FS_Interval DEF SourceUids
<1>2. IsFiniteSet(Below(c)) /\ IsFiniteSet(Below(t))
  BY <1>1, FS_Subset
<1>3. Below(t) \subseteq Below(c)
  <2>1. todo \subseteq Nat /\ t \in Nat /\ c \in Nat
    BY DEF SourceUids, NextChunk
  <2>2. \A v \in todo : v < t => v < c
    BY <2>1
  <2> QED
    BY <2>2
<1>4. /\ Cardinality(Below(t)) <= Cardinality(Below(c))
      /\ Cardinality(Below(t)) \in Nat /\ Cardinality(Below(c)) \in Nat
  BY <1>2, <1>3, FS_Subset, FS_CardinalityType
<1>5. Cardinality(Below(c)) < BatchSize
  BY DEF NextChunk
<1>6. Cardinality(Below(t)) < BatchSize
  BY <1>4, <1>5, IngestAssumption
<1> QED
  BY <1>6 DEF NextChunk

LEMMA TodoStep ==
  ASSUME source'.val = source.val, SkipInv, [Next]_vars
  PROVE  TodoIsAll'
<1>1. TypeOK /\ TypeOK'
  BY TypeStep DEF SkipInv, IndInv
<1>2. ASSUME NEW q \in Passes, Live(q)'
      PROVE  /\ \A t \in work'[q].todo : t < source'.next
             /\ \A t \in work'[q].todo : \A u \in DOMAIN source'.box :
                  u < t => u \in work'[q].todo \/ Safe(u)'
  <2>0. /\ work[q] \in Work /\ work'[q] \in Work
        /\ DOMAIN source.box \subseteq SourceUids
        /\ DOMAIN source'.box \subseteq SourceUids
        /\ source.next \in Nat
    BY <1>1, BoxType DEF TypeOK, Source
  <2>1. ASSUME Live(q), work'[q].todo \subseteq work[q].todo,
               \A u \in work[q].todo : u \in work'[q].todo \/ Safe(u)
        PROVE  /\ \A t \in work'[q].todo : t < source'.next
               /\ \A t \in work'[q].todo : \A u \in DOMAIN source'.box :
                    u < t => u \in work'[q].todo \/ Safe(u)'
    <3>1. ASSUME NEW t \in work'[q].todo
          PROVE  t < source.next /\ t < source'.next
      <4>1. t < source.next /\ t \in SourceUids
        BY <2>0, <2>1 DEF SkipInv, TodoIsAll, Work
      <4> QED
        BY <1>1, <4>1, Grows DEF SourceUids
    <3>2. ASSUME NEW t \in work'[q].todo, NEW u \in DOMAIN source'.box, u < t
          PROVE  u \in work'[q].todo \/ Safe(u)'
      <4>1. u \in SourceUids /\ t \in SourceUids
        BY <2>0 DEF Work
      <4>2. u < source.next
        BY <2>0, <3>1, <3>2, <4>1 DEF SourceUids
      <4>3. u \in DOMAIN source.box
        BY <1>1, <4>2, Grows
      <4>4. u \in work[q].todo \/ Safe(u)
        BY <2>1, <3>2, <4>3 DEF SkipInv, TodoIsAll
      <4>5. u \in work'[q].todo \/ Safe(u)
        BY <2>1, <4>4
      <4> QED
        BY <1>1, <4>1, <4>2, <4>5, SafeKept DEF Issued
    <3> QED
      BY <3>1, <3>2
  <2>2. CASE Search(q)
    <3>1. /\ work'[q].todo = {u \in DOMAIN source.box :
                 /\ u > work[q].last \/ \A v \in DOMAIN source.box : v <= u
                 /\ u > work[q].last}
          /\ source' = source
      BY <1>1, <2>0, <2>2 DEF Search, TypeOK, Work
    <3>2. \A u \in DOMAIN source.box : u < source'.next
      BY <3>1 DEF SkipInv, BehindIsSafe
    <3>3. ASSUME NEW u \in DOMAIN source.box, u \notin work'[q].todo
          PROVE  Safe(u)'
      <4>1. u <= work[q].last /\ u \in SourceUids
        BY <2>0, <3>1, <3>3 DEF Work, SourceUids
      <4>2. Live(q)
        BY <2>2 DEF Search, SessionAlive, Live
      <4> QED
        BY <1>1, <4>1, <4>2, SafeKept DEF SkipInv, BehindIsSafe
    <3> QED
      BY <3>1, <3>2, <3>3
  <2>3. Examine(q) \/ Finish(q) \/ Forget(q) => work'[q].todo = {}
    <3>1. work \in [Passes -> Work]
      BY <1>1 DEF TypeOK
    <3> QED
      BY <3>1 DEF Examine, Finish, Forget, NoWork
  <2>4. FolderForIngest(q) \/ Fetch(q) => work'[q].todo = work[q].todo
    BY <1>1, <2>0 DEF FolderForIngest, ReadFolder, ResetFolder, CreateFolder,
                      Fetch, TypeOK, Work
  <2>5. DropHeld(q) \/ Identify(q) \/ Advance(q)
          => work'[q].todo \subseteq work[q].todo
    BY <1>1, <2>0 DEF DropHeld, Identify, Advance, EndBatch, TypeOK, Work
  <2>a. ASSUME \/ work'[q] = work[q] \/ FolderForIngest(q) \/ Fetch(q)
               \/ DropHeld(q) \/ Identify(q) \/ Advance(q)
        PROVE  Live(q)
    <3>1. FolderForIngest(q) \/ Fetch(q) \/ DropHeld(q) \/ Identify(q)
            \/ Advance(q)
            => work'[q].val = work[q].val
      <4>1. FolderForIngest(q) => work'[q].val = work[q].val
        BY <1>1, <2>0 DEF FolderForIngest, ReadFolder, ResetFolder, CreateFolder,
                          TypeOK, Work
      <4>2. Fetch(q) \/ DropHeld(q) \/ Identify(q) \/ Advance(q)
              => work'[q].val = work[q].val
        BY <1>1, <2>0 DEF Fetch, DropHeld, Identify, Advance, EndBatch, TypeOK,
                          Work
      <4> QED
        BY <4>1, <4>2
    <3> QED
      BY <1>1, <1>2, <2>a, <3>1 DEF Live
  <2>6. CASE DropHeld(q) \/ Identify(q) \/ Advance(q)
    BY <2>1, <2>5, <2>6, <2>a, RemovedIsSafe
  <2>7. CASE Examine(q) \/ Finish(q) \/ Forget(q)
    BY <2>3, <2>7
  <2>8. CASE work'[q] = work[q] \/ FolderForIngest(q) \/ Fetch(q)
    BY <2>1, <2>4, <2>8, <2>a
  <2> QED
    BY <1>1, <2>2, <2>6, <2>7, <2>8, WorkCases
<1>3. ASSUME NEW q \in Passes, Live(q)', pc'[q] = "store"
      PROVE  /\ work'[q].chunk \subseteq work'[q].todo
             /\ \A c \in work'[q].chunk, t \in work'[q].todo :
                  t < c => t \in work'[q].chunk
             /\ \A c \in work'[q].chunk :
                  Safe(c)' \/ tasks'[q][c].stage # "none"
  <2>0. work[q] \in Work
    BY <1>1 DEF TypeOK
  <2>1. CASE pc[q] = "store" /\ work'[q] = work[q]
    <3>0. Live(q)
      BY <1>3, <2>1 DEF Live
    <3>1. ASSUME NEW c \in work[q].chunk
          PROVE  Safe(c)' \/ tasks'[q][c].stage # "none"
      <4>1. c < source.next /\ c \in SourceUids
        BY <2>0, <2>1, <3>0 DEF SkipInv, TodoIsAll, Work
      <4>2. Safe(c) \/ tasks[q][c].stage # "none"
        BY <2>1, <3>0 DEF SkipInv, TodoIsAll
      <4>3. Safe(c) => Safe(c)'
        BY <1>1, <4>1, SafeKept DEF Issued
      <4>4. ~Fetch(q)
        BY <2>1 DEF Fetch, Goto
      <4> QED
        BY <1>1, <1>3, <4>1, <4>2, <4>3, <4>4, TaskCases
    <3> QED
      BY <2>1, <3>0, <3>1 DEF SkipInv, TodoIsAll
  <2>2. CASE Fetch(q)
    <3> DEFINE chunk == NextChunk(work[q].todo)
    <3>1. /\ work'[q].chunk = chunk /\ work'[q].todo = work[q].todo
          /\ source' = source
      BY <1>1, <2>0, <2>2 DEF Fetch, TypeOK, Work
    <3>2. chunk \subseteq work[q].todo /\ work[q].todo \in SUBSET SourceUids
      BY <2>0 DEF NextChunk, Work
    <3>3. PICK bodies, missing :
             /\ chunk \cap DOMAIN source.box \subseteq DOMAIN bodies \cup missing
             /\ Receive(q, bodies, missing)
      BY <1>1, <2>2, FetchBodies
    <3> HIDE DEF chunk
    <3>4. ASSUME NEW c \in chunk
          PROVE  Safe(c)' \/ tasks'[q][c].stage # "none"
      <4>1. CASE c \in DOMAIN bodies
        BY <1>1, <3>2, <3>3, <4>1 DEF Receive, TypeOK
      <4>2. CASE c \in missing
        BY <3>3, <4>2 DEF Receive, Safe, Accounted
      <4>3. CASE c \notin DOMAIN source.box
        BY <3>1, <4>3 DEF Safe
      <4> QED
        BY <3>3, <4>1, <4>2, <4>3
    <3>5. \A c \in chunk, t \in work[q].todo : t < c => t \in chunk
      BY <3>2, ChunkIsLowest DEF chunk
    <3> QED
      BY <3>1, <3>2, <3>4, <3>5
  <2> QED
    BY <1>1, <1>3, <2>1, <2>2, StoreCases
<1> QED
  BY <1>2, <1>3 DEF TodoIsAll

LEMMA StaleStep ==
  ASSUME source'.val = source.val, SkipInv, [Next]_vars
  PROVE  StaleIsTaken'
<1>1. TypeOK
  BY DEF SkipInv, IndInv
<1> SUFFICES ASSUME NEW q \in Passes, pc'[q] = "store", ~Live(q)',
                    NEW c \in work'[q].chunk, NEW u \in SourceUids, u <= c
             PROVE  u \in taken'
  BY DEF StaleIsTaken
<1>2. ~Fetch(q)
  BY <1>1 DEF Fetch, SessionAlive, Live, TypeOK, Work
<1>3. pc[q] = "store" /\ work'[q] = work[q]
  BY <1>1, <1>2, StoreCases
<1>4. u \in taken
  BY <1>3 DEF SkipInv, StaleIsTaken, Live
<1> QED
  BY <1>1, <1>4, Grows

(* When the UIDVALIDITY changes, whatever a row or a task holds becomes taken,
   and the watermark and every pass belong to the old one. *)
LEMMA RenumberStep ==
  ASSUME SkipInv, NEW box \in Boxes, Renumber(box)
  PROVE  BehindIsSafe' /\ RowsRight' /\ TodoIsAll' /\ StaleIsTaken'
<1>1. TypeOK /\ source.val \in Nat
  BY IngestAssumption DEF SkipInv, IndInv, TypeOK, Source
<1>2. /\ source'.val = source.val + 1
      /\ source'.box = box /\ DOMAIN box = 1 .. Cardinality(DOMAIN box)
      /\ source'.next = Cardinality(DOMAIN box) + 1
      /\ taken' = InUse
      /\ UNCHANGED <<list, resume, pc, work, tasks>>
  BY DEF Renumber, archive
<1>3. Cardinality(DOMAIN box) \in Nat
  <2>1. IsFiniteSet(SourceUids)
    BY IngestAssumption, FS_Interval DEF SourceUids
  <2>2. IsFiniteSet(DOMAIN box)
    BY <2>1, BoxType, FS_Subset
  <2> QED
    BY <2>2, FS_CardinalityType
<1>4. /\ resume.val \in Nat /\ resume.val <= source.val
      /\ \A p \in Passes : work[p].val \in Nat /\ work[p].val <= source.val
  BY <1>1 DEF SkipInv, BehindIsSafe, TypeOK, Resume, Work
<1>5. resume'.val < source'.val /\ \A p \in Passes : work'[p].val < source'.val
  BY <1>1, <1>2, <1>4
<1>6. \A p \in Passes : ~Live(p)'
  BY <1>1, <1>2, <1>4, <1>5 DEF Live
<1>7. BehindIsSafe'
  <2>1. \A u \in DOMAIN source'.box : u < source'.next
    BY <1>2, <1>3
  <2>2. resume'.val <= source'.val /\ resume'.val # source'.val
    BY <1>1, <1>2, <1>4
  <2>3. \A p \in Passes : work'[p].val <= source'.val
    BY <1>1, <1>2, <1>4
  <2> QED
    BY <1>6, <2>1, <2>2, <2>3 DEF BehindIsSafe
<1>8. \A i \in DOMAIN list : list[i].src \in taken'
  <2>1. \A i \in DOMAIN list : list[i].src \in SourceUids
    <3>1. list \in Seq(Row)
      BY <1>1 DEF TypeOK
    <3>2. \A i \in DOMAIN list : list[i] \in Row
      BY <3>1
    <3> QED
      BY <3>2 DEF Row
  <2> QED
    BY <1>2, <2>1 DEF InUse
<1>9. ASSUME NEW p \in Passes, pc[p] = "store", NEW c \in work[p].chunk,
             NEW u \in SourceUids, u <= c
      PROVE  u \in taken'
  BY <1>2, <1>9 DEF InUse
<1>10. RowsRight'
  <2>1. ASSUME NEW p \in Passes, NEW u \in SourceUids, tasks[p][u].stage # "none"
        PROVE  pc[p] = "store" /\ u \in work[p].chunk /\ u \in taken'
    <3>1. pc[p] = "store" /\ u \in work[p].chunk /\ u <= u
      BY <2>1 DEF SkipInv, RowsRight, SourceUids
    <3> QED
      BY <1>9, <3>1
  <2> QED
    BY <1>2, <1>8, <2>1 DEF RowsRight, Issued, Right
<1>11. StaleIsTaken'
  BY <1>2, <1>9 DEF StaleIsTaken
<1> QED
  BY <1>6, <1>7, <1>10, <1>11 DEF TodoIsAll

LEMMA SkipInit == Init => SkipInv
<1> SUFFICES ASSUME Init PROVE SkipInv
  OBVIOUS
<1>1. DOMAIN source.box = {} /\ DOMAIN list = {}
  BY DEF Init
<1>2. \A u \in SourceUids : ~(u <= 0)
  BY DEF SourceUids
<1>3. BehindIsSafe
  BY <1>1, <1>2 DEF Init, BehindIsSafe, NoWork
<1>4. RowsRight
  BY <1>1 DEF Init, RowsRight, NoTasks, NoTask
<1>5. TodoIsAll
  BY DEF Init, TodoIsAll, NoWork
<1>6. StaleIsTaken
  BY DEF Init, StaleIsTaken
<1> QED
  BY <1>3, <1>4, <1>5, <1>6, IndInit DEF SkipInv

LEMMA SkipStep == SkipInv /\ [Next]_vars => SkipInv'
<1> SUFFICES ASSUME SkipInv, [Next]_vars
             PROVE  SkipInv'
  OBVIOUS
<1>1. IndInv' /\ TypeOK
  BY IndStep DEF SkipInv, IndInv
<1>2. CASE source'.val = source.val
  BY <1>1, <1>2, BehindStep, RowsRightStep, TodoStep, StaleStep DEF SkipInv
<1>3. CASE source'.val # source.val
  <2>1. PICK box \in Boxes : Renumber(box)
    <3>1. ASSUME (\E m \in Contents : Arrive(m)) \/ \E u \in SourceUids : Expunge(u)
          PROVE  source'.val = source.val
      BY <1>1, <3>1 DEF Arrive, Expunge, TypeOK, Source
    <3> QED
      BY <1>1, <1>3, <3>1, SourceCases
  <2> QED
    BY <1>1, <2>1, RenumberStep DEF SkipInv
<1> QED
  BY <1>2, <1>3

(* A message that no later pass will ask for is accounted for, whatever passes
   overlap, retry or die where and however often the source changes its
   UIDVALIDITY, unless its UID was in use when it last did. *)
THEOREM NothingSkipped == Spec => []NeverSkipped
<1>1. SkipInv => NeverSkipped
  <2> SUFFICES ASSUME SkipInv, NEW u \in DOMAIN source.box,
                      \/ resume.val = source.val /\ u <= resume.last
                      \/ u \in HeldUids
               PROVE  Safe(u)
    BY DEF NeverSkipped, Skipped, Safe
  <2>1. u \in SourceUids
    BY BoxType DEF SkipInv, IndInv, TypeOK, Source
  <2> QED
    BY <2>1, HeldIsSafe DEF SkipInv, BehindIsSafe
<1> QED
  BY <1>1, SkipInit, SkipStep, PTL DEF Spec
=============================================================================
