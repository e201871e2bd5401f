-------------------------- MODULE PlacementsProofs --------------------------
(***************************************************************************)
(* Theorems about Placements, for any number of folders, messages, store   *)
(* tasks and any bound.                                                    *)
(***************************************************************************)
EXTENDS Placements, TLAPS

(* The CHOOSE in NoJob names a folder. *)
LEMMA NoJobIsJob == NoJob \in Job
<1>1. (CHOOSE f \in Folders : TRUE) \in Folders
  BY ConstantsAssumption
<1>2. Empty \in Messages /\ NoSource \in Sources
  BY DEF Messages, Sources
<1> QED
  BY <1>1, <1>2 DEF NoJob, Job

(* What a commit leaves in the placements table is well typed. *)
LEMMA RowsAfterType ==
  ASSUME TypeOK, NEW t \in Processes
  PROVE  RowsAfter(t) \in SUBSET Placement
<1>1. job[t] \in Job /\ claimed[t] \in Nat /\ placed \subseteq Placement
  BY DEF TypeOK
<1>2. CASE claimed[t] # 0
  <2>1. [folder |-> job[t].folder, uid |-> claimed[t],
         msg |-> job[t].msg, src |-> job[t].src] \in Placement
    BY <1>1, <1>2 DEF Placement, Job
  <2> QED
    BY <1>1, <1>2, <2>1 DEF RowsAfter
<1>3. CASE claimed[t] = 0
  <2>1. ASSUME NEW p \in placed
        PROVE  /\ p \in Placement
               /\ [p EXCEPT !.msg = job[t].msg] \in Placement
               /\ [p EXCEPT !.src = job[t].src] \in Placement
    BY <1>1 DEF Placement, Job
  <2> QED
    BY <1>3, <2>1 DEF RowsAfter
<1> QED
  BY <1>2, <1>3

(* Every step keeps the types. *)
LEMMA TypeStep == TypeOK /\ [Next]_vars => TypeOK'
<1> SUFFICES ASSUME TypeOK, [Next]_vars
             PROVE  TypeOK'
  OBVIOUS
<1> USE NoJobIsJob
<1>1. ASSUME NEW t \in Tasks, NEW f \in Folders, NEW m \in Messages,
             NEW s \in SourceUids, BeginStore(t, f, m, s)
      PROVE  TypeOK'
  <2>1. [folder |-> f, msg |-> m, src |-> s, uid |-> 0] \in Job
    BY DEF Job, Sources
  <2> QED
    BY <1>1, <2>1 DEF BeginStore, TypeOK, Goto, Statements, Processes, rows, run
<1>2. CASE ListGaps
  BY <1>2 DEF ListGaps, TypeOK, rows
<1>3. ASSUME NEW p \in gaps, LeaveGap(p)
      PROVE  TypeOK'
  BY <1>3 DEF LeaveGap, TypeOK, rows
<1>4. ASSUME NEW p \in gaps, NEW m \in Contents, BeginRepair(p, m)
      PROVE  TypeOK'
  <2>1. [folder |-> p.folder, msg |-> m, src |-> p.src, uid |-> p.uid] \in Job
    BY DEF TypeOK, Placement, Job, Messages
  <2> QED
    BY <1>4, <2>1
    DEF BeginRepair, TypeOK, Goto, Statements, Processes, rows
<1>5. CASE BeginDrop
  BY <1>5 DEF BeginDrop, TypeOK, Goto, Statements, Processes, rows
<1>6. CASE Drop
  BY <1>6 DEF Drop, TypeOK, Goto, Statements, Processes, run
<1>7. CASE RepairDies
  BY <1>7 DEF RepairDies, EndTransaction, TypeOK, Goto, Statements, Processes, rows
<1>8. ASSUME NEW t \in Processes,
             \/ Upsert(t) \/ Backfill(t) \/ InsertPlacement(t) \/ Repoint(t)
      PROVE  TypeOK'
  BY <1>8 DEF Upsert, Backfill, InsertPlacement, Repoint, TypeOK, Goto,
              Statements, rows, run
<1>9. ASSUME NEW t \in Processes, Lookup(t)
      PROVE  TypeOK'
  <2>1. ASSUME NEW p \in placed
        PROVE  [job EXCEPT ![t].uid = p.uid] \in [Processes -> Job]
    BY DEF TypeOK, Placement, Job
  <2>2. UNCHANGED <<rows, claimed, run>>
    BY <1>9 DEF Lookup
  <2>3. job' \in [Processes -> Job]
    BY <1>9, <2>1 DEF Lookup, RowsOf, TypeOK
  <2>4. pc' \in [Processes -> Statements]
    BY <1>9 DEF Lookup, TypeOK, Goto, Statements
  <2> QED
    BY <2>2, <2>3, <2>4 DEF TypeOK, rows, run
<1>10. ASSUME NEW t \in Processes, Claim(t)
       PROVE  TypeOK'
  <2>1. uidnext[job[t].folder] \in Nat
    BY DEF TypeOK, Job
  <2> QED
    BY <1>10, <2>1 DEF Claim, TypeOK, Goto, Statements, rows, run
<1>11. ASSUME NEW t \in Processes, Commit(t)
       PROVE  TypeOK'
  <2>1. placed' \in SUBSET Placement
    BY <1>11, RowsAfterType DEF Commit
  <2>2. uidnext' \in [Folders -> Nat \ {0}]
    BY <1>11 DEF Commit, TypeOK, Job
  <2>3. messages' \in SUBSET Messages
    BY <1>11 DEF Commit, TypeOK, Job
  <2> QED
    BY <1>11, <2>1, <2>2, <2>3
    DEF Commit, EndTransaction, TypeOK, Goto, Statements
<1>12. ASSUME NEW t \in Processes, Abort(t)
       PROVE  TypeOK'
  BY <1>12 DEF Abort, EndTransaction, TypeOK, Goto, Statements, rows, run
<1>13. CASE UNCHANGED vars
  BY <1>13 DEF vars, rows, run, TypeOK
<1> QED
  BY <1>1, <1>2, <1>3, <1>4, <1>5, <1>6, <1>7, <1>8, <1>9, <1>10, <1>11,
     <1>12, <1>13 DEF Next

LEMMA TypeInit == Init => TypeOK
<1> SUFFICES ASSUME Init
             PROVE  TypeOK
  OBVIOUS
<1>1. placed \in SUBSET Placement /\ uidnext \in [Folders -> Nat \ {0}]
  BY LegacyAssumption DEF Init
<1>2. messages \in SUBSET Messages
  BY LegacyAssumption DEF Init, Placement
<1>3. /\ pc \in [Processes -> Statements]
      /\ job \in [Processes -> Job]
      /\ claimed \in [Processes -> Nat]
  BY NoJobIsJob DEF Init, Statements
<1> QED
  BY <1>1, <1>2, <1>3 DEF Init, TypeOK

(* Every variable has its type, in every reachable state. *)
THEOREM TypeCorrect == Spec => []TypeOK
  BY TypeInit, TypeStep, PTL DEF Spec
----------------------------------------------------------------------------
(* Only a commit changes what clients see. *)
LEMMA OnlyCommitsShow ==
  [Next]_vars => \/ UNCHANGED <<uidnext, placed>>
                 \/ \E t \in Processes : Commit(t)
  BY DEF Next, vars, rows, BeginStore, ListGaps, LeaveGap, BeginRepair, BeginDrop,
         Drop, RepairDies, Upsert, Lookup, Backfill, Claim, InsertPlacement,
         Repoint, Abort

(* A commit that claimed nothing rewrites rows where they are. *)
LEMMA RewrittenInPlace ==
  ASSUME TypeOK, NEW t \in Processes, Commit(t), claimed[t] = 0
  PROVE  \E New \in [placed -> Placement] :
           /\ placed' = {New[p] : p \in placed}
           /\ \A p \in placed :
                /\ SameRow(New[p], p)
                /\ p.src # NoSource => New[p].src = p.src
                /\ New[p].msg = IF t = Repairer /\ SameRow(p, job[t])
                                THEN job[t].msg ELSE p.msg
<1> DEFINE R(p) == IF ~(p.folder = job[t].folder /\ p.uid = job[t].uid) THEN p
                   ELSE IF t = Repairer THEN [p EXCEPT !.msg = job[t].msg]
                   ELSE IF p.src = NoSource THEN [p EXCEPT !.src = job[t].src]
                   ELSE p
           New == [p \in placed |-> R(p)]
<1>1. placed \subseteq Placement /\ job[t] \in Job
  BY DEF TypeOK
<1>2. \A p \in placed : /\ R(p) \in Placement
                        /\ SameRow(R(p), p)
                        /\ p.src # NoSource => R(p).src = p.src
                        /\ R(p).msg = IF t = Repairer /\ SameRow(p, job[t])
                                      THEN job[t].msg ELSE p.msg
  BY <1>1 DEF Placement, Job, SameRow
<1>3. placed' = {R(p) : p \in placed}
  BY DEF Commit, RowsAfter
<1>4. New \in [placed -> Placement] /\ \A p \in placed : New[p] = R(p)
  BY <1>2
<1>5. placed' = {New[p] : p \in placed}
  BY <1>3, <1>4
<1> HIDE DEF New, R
<1> QED
  BY <1>2, <1>4, <1>5

(* Every step keeps the UIDs of every folder gapless and unique. *)
LEMMA GaplessStep == IndInv /\ [Next]_vars => GaplessUids'
<1> SUFFICES ASSUME IndInv, [Next]_vars
             PROVE  GaplessUids'
  OBVIOUS
<1> USE DEF RowsOf
<1>1. CASE UNCHANGED <<uidnext, placed>>
  BY <1>1 DEF IndInv, GaplessUids
<1>2. ASSUME NEW t \in Processes, Commit(t), claimed[t] = 0
      PROVE  GaplessUids'
  <2>1. PICK New \in [placed -> Placement] :
          /\ placed' = {New[p] : p \in placed}
          /\ \A p \in placed : SameRow(New[p], p)
    BY <1>2, RewrittenInPlace DEF IndInv
  <2>2. uidnext' = uidnext
    BY <1>2 DEF Commit
  <2> SUFFICES ASSUME NEW f \in Folders
               PROVE  /\ {p.uid : p \in RowsOf(f)}' = 1 .. (uidnext[f] - 1)
                      /\ \A p, q \in RowsOf(f)' : p.uid = q.uid => p = q
    BY <2>2 DEF GaplessUids
  <2>3. /\ {p.uid : p \in RowsOf(f)} = 1 .. (uidnext[f] - 1)
        /\ \A p, q \in RowsOf(f) : p.uid = q.uid => p = q
    BY DEF IndInv, GaplessUids
  <2>4. {p.uid : p \in RowsOf(f)}' = {p.uid : p \in RowsOf(f)}
    BY <2>1 DEF SameRow
  <2>5. ASSUME NEW p \in RowsOf(f)', NEW q \in RowsOf(f)', p.uid = q.uid
        PROVE  p = q
    <3>1. PICK p0 \in placed : p = New[p0]
      BY <2>1
    <3>2. PICK q0 \in placed : q = New[q0]
      BY <2>1
    <3>3. p0 \in RowsOf(f) /\ q0 \in RowsOf(f) /\ p0.uid = q0.uid
      BY <2>1, <2>5, <3>1, <3>2 DEF SameRow
    <3> QED
      BY <2>3, <3>1, <3>2, <3>3
  <2> QED
    BY <2>3, <2>4, <2>5
<1>3. ASSUME NEW t \in Processes, Commit(t), claimed[t] # 0
      PROVE  GaplessUids'
  <2> DEFINE f == job[t].folder
             new == [folder |-> f, uid |-> claimed[t],
                     msg |-> job[t].msg, src |-> job[t].src]
  <2>1. f \in Folders /\ uidnext \in [Folders -> Nat \ {0}]
    BY DEF IndInv, TypeOK, Job
  <2>2. claimed[t] = uidnext[f]
    BY <1>3 DEF IndInv, ClaimsAreNext
  <2>3. placed' = placed \cup {new}
    BY <1>3 DEF Commit, RowsAfter
  <2>4. uidnext' = [uidnext EXCEPT ![f] = uidnext[f] + 1]
    BY <1>3, <2>2 DEF Commit
  <2> HIDE DEF f
  <2> SUFFICES ASSUME NEW g \in Folders
               PROVE  /\ {p.uid : p \in RowsOf(g)}' = 1 .. (uidnext'[g] - 1)
                      /\ \A p, q \in RowsOf(g)' : p.uid = q.uid => p = q
    BY DEF GaplessUids
  <2>5. /\ {p.uid : p \in RowsOf(g)} = 1 .. (uidnext[g] - 1)
        /\ \A p, q \in RowsOf(g) : p.uid = q.uid => p = q
    BY DEF IndInv, GaplessUids
  <2>6. CASE g # f
    <3>1. RowsOf(g)' = RowsOf(g) /\ uidnext'[g] = uidnext[g]
      BY <2>1, <2>3, <2>4, <2>6
    <3> QED
      BY <2>5, <3>1
  <2>7. CASE g = f
    <3>1. RowsOf(g)' = RowsOf(g) \cup {new} /\ uidnext'[g] = uidnext[g] + 1
      BY <2>1, <2>3, <2>4, <2>7
    <3>0. new.uid = uidnext[g]
      BY <2>2, <2>7
    <3> HIDE DEF RowsOf, new
    <3>2. {p.uid : p \in RowsOf(g)'} = {p.uid : p \in RowsOf(g)} \cup {uidnext[g]}
      BY <3>0, <3>1
    <3>3. uidnext[g] \in Nat \ {0}
      BY <2>1
    <3>4. 1 .. (uidnext[g] - 1) \cup {uidnext[g]} = 1 .. (uidnext'[g] - 1)
      BY <3>1, <3>3
    <3>5. \A p \in RowsOf(g) : p.uid # new.uid
      BY <2>5, <3>0, <3>3
    <3>6. {p.uid : p \in RowsOf(g)'} = 1 .. (uidnext'[g] - 1)
      BY <2>5, <3>2, <3>4
    <3>7. \A p, q \in RowsOf(g) \cup {new} : p.uid = q.uid => p = q
      BY <2>5, <3>5
    <3> QED
      BY <3>1, <3>6, <3>7
  <2> QED
    BY <2>6, <2>7
<1> QED
  BY <1>1, <1>2, <1>3, OnlyCommitsShow
(* A message row is only deleted when no placement refers to it. *)
LEMMA DanglesStep == IndInv /\ [Next]_vars => NothingDangles'
<1> SUFFICES ASSUME IndInv, [Next]_vars
             PROVE  NothingDangles'
  OBVIOUS
<1>1. CASE UNCHANGED <<placed, messages>>
  BY <1>1 DEF IndInv, NothingDangles
<1>2. CASE Drop
  BY <1>2 DEF Drop, IndInv, NothingDangles
<1>3. ASSUME NEW t \in Processes, Commit(t)
      PROVE  NothingDangles'
  <2>1. messages' = messages \cup {job[t].msg}
    BY <1>3 DEF Commit
  <2>2. CASE claimed[t] # 0
    BY <1>3, <2>1, <2>2 DEF Commit, RowsAfter, IndInv, NothingDangles
  <2>3. CASE claimed[t] = 0
    <3>1. PICK New \in [placed -> Placement] :
            /\ placed' = {New[p] : p \in placed}
            /\ \A p \in placed :
                 New[p].msg = IF t = Repairer /\ SameRow(p, job[t])
                              THEN job[t].msg ELSE p.msg
      BY <1>3, <2>3, RewrittenInPlace DEF IndInv
    <3> QED
      BY <2>1, <3>1 DEF IndInv, NothingDangles
  <2> QED
    BY <2>2, <2>3
<1>4. \/ UNCHANGED <<placed, messages>>
      \/ Drop
      \/ \E t \in Processes : Commit(t)
  BY DEF Next, vars, rows, BeginStore, ListGaps, LeaveGap, BeginRepair, BeginDrop,
         RepairDies, Upsert, Lookup, Backfill, Claim, InsertPlacement, Repoint, Abort
<1> QED
  BY <1>1, <1>2, <1>3, <1>4

(* A statement of t that hands out or gives back no claim and touches no other
   process keeps the claims as they are. *)
LEMMA ClaimsKept ==
  ASSUME IndInv, NEW t \in Processes,
         UNCHANGED <<uidnext, claimed>>,
         \A v \in Processes \ {t} : pc'[v] = pc[v] /\ job'[v] = job[v],
         claimed[t] # 0 => pc'[t] \in {"insert", "commit"} /\ job'[t] = job[t]
  PROVE  ClaimsAreNext'
  BY DEF IndInv, ClaimsAreNext

(* A claimed UID stays the next one of its folder until its transaction
   ends, because the folder row is locked for as long. *)
LEMMA ClaimsStep == IndInv /\ [Next]_vars => ClaimsAreNext'
<1> SUFFICES ASSUME IndInv, [Next]_vars
             PROVE  ClaimsAreNext'
  OBVIOUS
<1> USE DEF Goto
<1>0. /\ TypeOK
      /\ \A t \in Processes : claimed[t] # 0 => pc[t] \in {"insert", "commit"} /\ t \in Tasks
      /\ Repairer \in Processes
      /\ Repairer \notin Tasks
  BY ConstantsAssumption DEF IndInv, ClaimsAreNext, Processes
<1>1. ASSUME NEW t \in Tasks, NEW f \in Folders, NEW m \in Messages,
             NEW s \in SourceUids, BeginStore(t, f, m, s)
      PROVE  ClaimsAreNext'
  <2>1. t \in Processes
    BY DEF Processes
  <2> QED
    BY <1>0, <1>1, <2>1, ClaimsKept DEF BeginStore, rows, TypeOK
<1>2. ASSUME ListGaps \/ (\E p \in gaps : LeaveGap(p)) \/ UNCHANGED vars
      PROVE  ClaimsAreNext'
  BY <1>2 DEF ListGaps, LeaveGap, rows, vars, IndInv, ClaimsAreNext
<1>3. ASSUME NEW p \in gaps, NEW m \in Contents, BeginRepair(p, m)
      PROVE  ClaimsAreNext'
  BY <1>0, <1>3, ClaimsKept DEF BeginRepair, rows, TypeOK
<1>4. CASE BeginDrop
  BY <1>0, <1>4, ClaimsKept DEF BeginDrop, rows, TypeOK
<1>5. CASE Drop
  BY <1>0, <1>5, ClaimsKept DEF Drop, Runs, TypeOK
<1>6. ASSUME NEW t \in Processes,
             \/ Upsert(t) \/ Lookup(t) \/ Backfill(t) \/ InsertPlacement(t) \/ Repoint(t)
      PROVE  ClaimsAreNext'
  BY <1>0, <1>6, ClaimsKept
  DEF Upsert, Lookup, Backfill, InsertPlacement, Repoint, Runs, rows, TypeOK
<1>7. ASSUME NEW t \in Processes, Claim(t)
      PROVE  ClaimsAreNext'
  <2>1. \A v \in Processes : claimed[v] # 0 => job[v].folder # job[t].folder
    BY <1>0, <1>7 DEF Claim, Runs, WaitsFor, HoldsFolder
  <2>2. t \in Tasks
    BY <1>7 DEF Claim, Runs, IndInv, JobsFit, Processes
  <2>3. /\ claimed' = [claimed EXCEPT ![t] = uidnext[job[t].folder]]
        /\ pc' = [pc EXCEPT ![t] = "insert"]
        /\ UNCHANGED <<uidnext, job>>
    BY <1>7 DEF Claim, rows
  <2> QED
    BY <1>0, <2>1, <2>2, <2>3 DEF TypeOK, IndInv, ClaimsAreNext
<1>8. ASSUME NEW t \in Processes, Commit(t)
      PROVE  ClaimsAreNext'
  <2>1. \A v \in Processes \ {t} :
          claimed[v] # 0 /\ claimed[t] # 0 => job[v].folder # job[t].folder
    BY DEF IndInv, ClaimsAreNext
  <2>2. \A v \in Processes \ {t} :
          claimed[v] # 0 => uidnext'[job[v].folder] = uidnext[job[v].folder]
    BY <1>0, <1>8, <2>1 DEF Commit, TypeOK, Job
  <2> QED
    BY <1>0, <1>8, <2>2
    DEF Commit, EndTransaction, TypeOK, IndInv, ClaimsAreNext
<1>9. ASSUME NEW t \in Processes, Abort(t) \/ (t = Repairer /\ RepairDies)
      PROVE  ClaimsAreNext'
  BY <1>0, <1>9
  DEF Abort, RepairDies, EndTransaction, rows, TypeOK, IndInv, ClaimsAreNext
<1> QED
  BY <1>0, <1>1, <1>2, <1>3, <1>4, <1>5, <1>6, <1>7, <1>8, <1>9 DEF Next
(* No two transactions hold one message row: only upsert_message takes it,
   and it waits for the holder. *)
LEMMA HolderStep == IndInv /\ [Next]_vars => OneHolder'
<1> SUFFICES ASSUME IndInv, [Next]_vars
             PROVE  OneHolder'
  OBVIOUS
<1> USE DEF Goto, HoldsMessage
<1>0. TypeOK /\ Repairer \in Processes /\ Tasks \subseteq Processes
  BY DEF IndInv, Processes
<1>1. ASSUME NEW t \in Processes,
             \A v \in Processes \ {t} : pc'[v] = pc[v] /\ job'[v] = job[v],
             \A m \in Messages : HoldsMessage(t, m)' => HoldsMessage(t, m)
      PROVE  OneHolder'
  BY <1>1 DEF IndInv, OneHolder
<1>2. ASSUME NEW t \in Tasks, NEW f \in Folders, NEW m \in Messages,
             NEW s \in SourceUids, BeginStore(t, f, m, s)
      PROVE  OneHolder'
  BY <1>0, <1>1, <1>2 DEF BeginStore, TypeOK
<1>3. ASSUME ListGaps \/ (\E p \in gaps : LeaveGap(p)) \/ UNCHANGED vars
      PROVE  OneHolder'
  BY <1>3 DEF ListGaps, LeaveGap, vars, IndInv, OneHolder
<1>4. ASSUME NEW p \in gaps, NEW m \in Contents, BeginRepair(p, m)
      PROVE  OneHolder'
  BY <1>0, <1>1, <1>4 DEF BeginRepair, TypeOK
<1>5. CASE BeginDrop
  BY <1>0, <1>1, <1>5 DEF BeginDrop, TypeOK
<1>6. CASE Drop
  BY <1>0, <1>1, <1>6 DEF Drop, TypeOK
<1>7. ASSUME NEW t \in Processes, Upsert(t)
      PROVE  OneHolder'
  <2>1. \A v \in Processes \ {t} : ~HoldsMessage(v, job[t].msg)
    BY <1>7 DEF Upsert, Runs, WaitsFor
  <2> QED
    BY <1>0, <1>7, <2>1 DEF Upsert, TypeOK, IndInv, OneHolder
<1>8. ASSUME NEW t \in Processes, Lookup(t)
      PROVE  OneHolder'
  <2>1. job'[t].msg = job[t].msg
    BY <1>0, <1>8 DEF Lookup, TypeOK, Job
  <2>2. pc[t] = "lookup"
    BY <1>8 DEF Lookup
  <2>3. \A v \in Processes \ {t} : pc'[v] = pc[v] /\ job'[v] = job[v]
    BY <1>0, <1>8 DEF Lookup, TypeOK
  <2> QED
    BY <1>1, <2>1, <2>2, <2>3
<1>9. ASSUME NEW t \in Processes,
             Backfill(t) \/ Claim(t) \/ InsertPlacement(t) \/ Repoint(t)
      PROVE  OneHolder'
  BY <1>0, <1>1, <1>9
  DEF Backfill, Claim, InsertPlacement, Repoint, Runs, TypeOK
<1>10. ASSUME NEW t \in Processes,
              Commit(t) \/ Abort(t) \/ (t = Repairer /\ RepairDies)
       PROVE  OneHolder'
  BY <1>0, <1>1, <1>10 DEF Commit, Abort, RepairDies, EndTransaction, TypeOK
<1> QED
  BY <1>0, <1>2, <1>3, <1>4, <1>5, <1>6, <1>7, <1>8, <1>9, <1>10 DEF Next

(* Each kind of process keeps to its own statements. *)
LEMMA JobsStep == IndInv /\ [Next]_vars => JobsFit'
<1> SUFFICES ASSUME IndInv, [Next]_vars
             PROVE  JobsFit'
  OBVIOUS
<1> USE DEF Goto
<1>0. /\ TypeOK /\ JobsFit
      /\ Repairer \in Processes /\ Repairer \notin Tasks
      /\ Tasks \subseteq Processes
      /\ \A t \in Processes : t \in Tasks \/ t = Repairer
      /\ claimed[Repairer] = 0
  BY ConstantsAssumption DEF IndInv, ClaimsAreNext, Processes
<1>1. ASSUME NEW t \in Tasks, NEW f \in Folders, NEW m \in Messages,
             NEW s \in SourceUids, BeginStore(t, f, m, s)
      PROVE  JobsFit'
  BY <1>0, <1>1 DEF BeginStore, TypeOK, JobsFit
<1>2. ASSUME ListGaps \/ (\E p \in gaps : LeaveGap(p)) \/ UNCHANGED vars
      PROVE  JobsFit'
  BY <1>0, <1>2 DEF ListGaps, LeaveGap, vars, JobsFit
<1>3. ASSUME NEW p \in gaps, NEW m \in Contents, BeginRepair(p, m)
      PROVE  JobsFit'
  BY <1>0, <1>3 DEF BeginRepair, TypeOK, JobsFit
<1>4. CASE BeginDrop
  BY <1>0, <1>4 DEF BeginDrop, TypeOK, JobsFit, NoJob
<1>5. CASE Drop
  BY <1>0, <1>5 DEF Drop, TypeOK, JobsFit
<1>6. ASSUME NEW t \in Processes, Lookup(t)
      PROVE  JobsFit'
  <2>1. pc[t] = "lookup" /\ t \in Tasks
    BY <1>0, <1>6 DEF Lookup, JobsFit
  <2>2. pc'[t] \in {"backfill", "claim"}
    BY <1>0, <1>6 DEF Lookup, TypeOK
  <2>3. \A v \in Processes \ {t} : pc'[v] = pc[v] /\ job'[v] = job[v]
    BY <1>0, <1>6 DEF Lookup, TypeOK
  <2>4. claimed' = claimed
    BY <1>6 DEF Lookup
  <2>5. pc'[t] = "backfill" => job'[t].uid # 0
    BY <1>0, <1>6 DEF Lookup, RowsOf, TypeOK, Placement, Job
  <2> QED
    BY <1>0, <2>1, <2>2, <2>3, <2>4, <2>5 DEF JobsFit
<1>7. ASSUME NEW t \in Processes, Upsert(t)
      PROVE  JobsFit'
  <2>1. CASE t \in Tasks
    BY <1>0, <1>7, <2>1 DEF Upsert, Runs, TypeOK, JobsFit
  <2>2. CASE t = Repairer
    <3>1. job[t].uid # 0
      BY <1>7, <2>2 DEF Upsert, Runs, IndInv, GapsAreEmpty
    <3> QED
      BY <1>0, <1>7, <2>2, <3>1 DEF Upsert, Runs, TypeOK, JobsFit
  <2> QED
    BY <1>0, <2>1, <2>2
<1>8. ASSUME NEW t \in Processes, Claim(t)
      PROVE  JobsFit'
  <2>1. pc[t] = "claim" /\ t \in Tasks
    BY <1>0, <1>8 DEF Claim, Runs, JobsFit
  <2>2. uidnext[job[t].folder] # 0
    BY <1>0 DEF TypeOK, Job
  <2>3. /\ pc' = [pc EXCEPT ![t] = "insert"]
        /\ claimed' = [claimed EXCEPT ![t] = uidnext[job[t].folder]]
        /\ job' = job
    BY <1>8 DEF Claim
  <2> QED
    BY <1>0, <2>1, <2>2, <2>3 DEF TypeOK, JobsFit
<1>9. ASSUME NEW t \in Processes, Backfill(t) \/ InsertPlacement(t) \/ Repoint(t)
      PROVE  JobsFit'
  <2>1. /\ pc' = [pc EXCEPT ![t] = "commit"]
        /\ UNCHANGED <<job, claimed>>
        /\ pc[t] \in {"backfill", "insert", "repoint"}
    BY <1>9 DEF Backfill, InsertPlacement, Repoint, Runs
  <2> QED
    BY <1>0, <2>1 DEF TypeOK, JobsFit
<1>10. ASSUME NEW t \in Processes,
              Commit(t) \/ Abort(t) \/ (t = Repairer /\ RepairDies)
       PROVE  JobsFit'
  <2>1. /\ pc' = [pc EXCEPT ![t] = "idle"]
        /\ job' = [job EXCEPT ![t] = NoJob]
        /\ claimed' = [claimed EXCEPT ![t] = 0]
    BY <1>10 DEF Commit, Abort, RepairDies, EndTransaction
  <2> QED
    BY <1>0, <2>1 DEF TypeOK, JobsFit
<1> QED
  BY <1>0, <1>1, <1>2, <1>3, <1>4, <1>5, <1>6, <1>7, <1>8, <1>9, <1>10 DEF Next

(* What a task is going to insert stays out of the folder until it commits:
   whoever could put it there needs the message row it holds. *)
LEMMA NewStep == IndInv /\ [Next]_vars => NewIsAbsent'
<1> SUFFICES ASSUME IndInv, [Next]_vars
             PROVE  NewIsAbsent'
  OBVIOUS
<1> USE DEF Goto, RowsOf
<1> DEFINE About(t) == pc[t] \in {"claim", "insert"} \/ claimed[t] # 0
           Absent(t) == \A p \in placed : p.folder = job[t].folder => p.msg # job[t].msg
<1>0. /\ TypeOK /\ JobsFit /\ OneHolder
      /\ Repairer \in Processes /\ Repairer \notin Tasks
      /\ Tasks \subseteq Processes
      /\ claimed[Repairer] = 0
      /\ \A t \in Processes : About(t) => t \in Tasks /\ HoldsMessage(t, job[t].msg)
      /\ \A t \in Tasks : About(t) => Absent(t)
      /\ NewIsAbsent' <=> \A t \in Tasks : About(t)' => Absent(t)'
  BY ConstantsAssumption
  DEF IndInv, ClaimsAreNext, Processes, JobsFit, NewIsAbsent, HoldsMessage
<1>1. ASSUME UNCHANGED placed, NEW t \in Processes,
             \A v \in Tasks \ {t} : /\ pc'[v] = pc[v] /\ job'[v] = job[v]
                                    /\ claimed'[v] = claimed[v],
             About(t)' => Absent(t)'
      PROVE  NewIsAbsent'
  <2> SUFFICES ASSUME NEW v \in Tasks, About(v)'
               PROVE  Absent(v)'
    BY <1>0
  <2>1. CASE v = t
    BY <1>1, <2>1
  <2>2. CASE v # t
    <3>1. About(v) /\ job'[v] = job[v]
      BY <1>1, <2>2
    <3> QED
      BY <1>0, <1>1, <3>1
  <2> QED
    BY <2>1, <2>2
<1>2. ASSUME NEW t \in Tasks, NEW f \in Folders, NEW m \in Messages,
             NEW s \in SourceUids, BeginStore(t, f, m, s)
      PROVE  NewIsAbsent'
  <2>1. claimed[t] = 0
    BY <1>0, <1>2 DEF BeginStore, IndInv, ClaimsAreNext
  <2>2. /\ ~About(t)' /\ UNCHANGED placed
        /\ \A v \in Tasks \ {t} : /\ pc'[v] = pc[v] /\ job'[v] = job[v]
                                 /\ claimed'[v] = claimed[v]
    BY <1>0, <1>2, <2>1 DEF BeginStore, TypeOK, rows
  <2> QED
    BY <1>0, <1>1, <2>2
<1>3. ASSUME \/ ListGaps \/ BeginDrop \/ Drop \/ RepairDies
             \/ \E p \in gaps : LeaveGap(p)
             \/ \E p \in gaps, m \in Contents : BeginRepair(p, m)
             \/ UNCHANGED vars
      PROVE  NewIsAbsent'
  <2>1. /\ UNCHANGED placed
        /\ \A v \in Tasks : /\ pc'[v] = pc[v] /\ job'[v] = job[v]
                            /\ claimed'[v] = claimed[v]
    BY <1>0, <1>3 DEF ListGaps, BeginDrop, Drop, RepairDies, LeaveGap, BeginRepair,
                      EndTransaction, vars, rows, TypeOK
  <2> QED
    BY <1>0, <2>1
<1>4. ASSUME NEW t \in Processes,
             \/ Upsert(t) \/ Backfill(t) \/ Claim(t) \/ InsertPlacement(t)
             \/ Repoint(t) \/ Abort(t)
      PROVE  NewIsAbsent'
  <2>1. UNCHANGED placed
    BY <1>4 DEF Upsert, Backfill, Claim, InsertPlacement, Repoint, Abort, rows
  <2>2. \A v \in Tasks \ {t} : /\ pc'[v] = pc[v] /\ job'[v] = job[v]
                               /\ claimed'[v] = claimed[v]
    BY <1>0, <1>4 DEF Upsert, Backfill, Claim, InsertPlacement, Repoint, Abort,
                      EndTransaction, TypeOK
  <2>3. About(t)' => About(t) /\ job'[t] = job[t]
    BY <1>0, <1>4 DEF Upsert, Backfill, Claim, InsertPlacement, Repoint, Runs,
                      Abort, EndTransaction, TypeOK
  <2>4. t \in Tasks \/ ~About(t)
    BY <1>0
  <2> QED
    BY <1>0, <1>1, <2>1, <2>2, <2>3, <2>4
<1>5. ASSUME NEW t \in Processes, Lookup(t)
      PROVE  NewIsAbsent'
  <2>1. UNCHANGED placed
    BY <1>5 DEF Lookup, rows
  <2>2. \A v \in Tasks \ {t} : /\ pc'[v] = pc[v] /\ job'[v] = job[v]
                               /\ claimed'[v] = claimed[v]
    BY <1>0, <1>5 DEF Lookup, TypeOK
  <2>3. claimed'[t] = 0
    BY <1>5 DEF Lookup, IndInv, ClaimsAreNext
  <2>4. pc'[t] \in {"claim", "insert"} => Absent(t)'
    BY <1>0, <1>5, <2>1 DEF Lookup, TypeOK
  <2> QED
    BY <1>1, <2>1, <2>2, <2>3, <2>4
<1>6. ASSUME NEW t \in Processes, Commit(t)
      PROVE  NewIsAbsent'
  <2>1. /\ pc'[t] = "idle" /\ claimed'[t] = 0
        /\ \A v \in Tasks \ {t} : /\ pc'[v] = pc[v] /\ job'[v] = job[v]
                                  /\ claimed'[v] = claimed[v]
    BY <1>0, <1>6 DEF Commit, EndTransaction, TypeOK
  <2> SUFFICES ASSUME NEW v \in Tasks, v # t, About(v)
               PROVE  Absent(v)'
    BY <1>0, <2>1
  <2>2. HoldsMessage(t, job[t].msg) /\ job[t].msg \in Messages
    BY <1>0, <1>6 DEF Commit, HoldsMessage, TypeOK, Job
  <2>3. job[v].msg # job[t].msg
    BY <1>0, <2>2 DEF OneHolder
  <2>4. Absent(v) /\ job'[v] = job[v]
    BY <1>0, <2>1
  <2>5. CASE claimed[t] # 0
    BY <1>6, <2>3, <2>4, <2>5 DEF Commit, RowsAfter
  <2>6. CASE claimed[t] = 0
    <3>1. PICK New \in [placed -> Placement] :
            /\ placed' = {New[p] : p \in placed}
            /\ \A p \in placed :
                 /\ SameRow(New[p], p)
                 /\ New[p].msg = IF t = Repairer /\ SameRow(p, job[t])
                                 THEN job[t].msg ELSE p.msg
      BY <1>0, <1>6, <2>6, RewrittenInPlace
    <3> QED
      BY <2>3, <2>4, <3>1 DEF SameRow
  <2> QED
    BY <2>5, <2>6
<1> QED
  BY <1>0, <1>2, <1>3, <1>4, <1>5, <1>6 DEF Next
(* A commit leaves every gap a gap but the one the repair is filling. *)
LEMMA GapsOutlive ==
  ASSUME TypeOK, NEW t \in Processes, Commit(t), NEW g,
         ~(t = Repairer /\ SameRow(g, job[t])),
         \E p \in placed : SameRow(p, g) /\ p.msg = Empty
  PROVE  \E p \in placed' : SameRow(p, g) /\ p.msg = Empty
<1>1. CASE claimed[t] # 0
  BY <1>1 DEF Commit, RowsAfter
<1>2. CASE claimed[t] = 0
  <2>1. PICK New \in [placed -> Placement] :
          /\ placed' = {New[p] : p \in placed}
          /\ \A p \in placed :
               /\ SameRow(New[p], p)
               /\ New[p].msg = IF t = Repairer /\ SameRow(p, job[t])
                               THEN job[t].msg ELSE p.msg
    BY <1>2, RewrittenInPlace
  <2>2. PICK p \in placed : SameRow(p, g) /\ p.msg = Empty
    OBVIOUS
  <2>3. ~(t = Repairer /\ SameRow(p, job[t]))
    BY <2>2 DEF SameRow
  <2>4. New[p] \in placed' /\ SameRow(New[p], g) /\ New[p].msg = Empty
    BY <2>1, <2>2, <2>3 DEF SameRow
  <2> QED
    BY <2>4
<1> QED
  BY <1>1, <1>2

(* What repair listed is a gap until repair itself fills it. *)
LEMMA GapsStep == IndInv /\ [Next]_vars => GapsAreEmpty'
<1> SUFFICES ASSUME IndInv, [Next]_vars
             PROVE  GapsAreEmpty'
  OBVIOUS
<1> USE DEF Goto
<1>0. /\ TypeOK /\ GapsAreEmpty
      /\ Repairer \in Processes /\ Repairer \notin Tasks
      /\ \A t \in Tasks : t \in Processes /\ t # Repairer
  BY ConstantsAssumption DEF IndInv, Processes
<1>1. ASSUME UNCHANGED <<placed, gaps>>,
             pc'[Repairer] \notin {"upsert", "repoint", "commit"}
      PROVE  GapsAreEmpty'
  BY <1>0, <1>1 DEF GapsAreEmpty
<1>2. ASSUME UNCHANGED <<placed, gaps>>, job'[Repairer] = job[Repairer],
             pc'[Repairer] \in {"upsert", "repoint", "commit"} =>
               pc[Repairer] \in {"upsert", "repoint", "commit"}
      PROVE  GapsAreEmpty'
  BY <1>0, <1>2 DEF GapsAreEmpty
<1>3. ASSUME NEW t \in Tasks, NEW f \in Folders, NEW m \in Messages,
             NEW s \in SourceUids, BeginStore(t, f, m, s)
      PROVE  GapsAreEmpty'
  BY <1>0, <1>2, <1>3 DEF BeginStore, TypeOK, rows, run
<1>4. CASE ListGaps
  <2>1. \A g, h \in placed : SameRow(g, h) => g = h
    BY DEF IndInv, GaplessUids, TypeOK, Placement, RowsOf, SameRow
  <2> QED
    BY <1>0, <1>4, <2>1 DEF ListGaps, rows, GapsAreEmpty, SameRow
<1>5. ASSUME NEW p \in gaps, LeaveGap(p)
      PROVE  GapsAreEmpty'
  BY <1>0, <1>5 DEF LeaveGap, rows, GapsAreEmpty
<1>6. ASSUME NEW p \in gaps, NEW m \in Contents, BeginRepair(p, m)
      PROVE  GapsAreEmpty'
  <2>1. /\ gaps' = gaps \ {p} /\ UNCHANGED placed
        /\ job'[Repairer] = [folder |-> p.folder, msg |-> m, src |-> p.src, uid |-> p.uid]
    BY <1>0, <1>6 DEF BeginRepair, rows, TypeOK
  <2>2. p.uid # 0
    BY <1>0 DEF TypeOK, Placement
  <2>3. \A g \in gaps \ {p} : ~SameRow(g, job'[Repairer])
    BY <1>0, <2>1 DEF GapsAreEmpty, SameRow
  <2>4. \E q \in placed : SameRow(q, job'[Repairer]) /\ q.msg = Empty
    BY <1>0, <2>1 DEF GapsAreEmpty, SameRow
  <2> QED
    BY <1>0, <2>1, <2>2, <2>3, <2>4 DEF GapsAreEmpty
<1>7. CASE BeginDrop \/ Drop
  <2>1. pc'[Repairer] \in {"idle", "drop"} /\ UNCHANGED <<placed, gaps>>
    BY <1>0, <1>7 DEF BeginDrop, Drop, TypeOK, rows, run
  <2> QED
    BY <1>1, <2>1
<1>8. CASE RepairDies
  <2>1. pc'[Repairer] = "idle" /\ gaps' = {}
    BY <1>0, <1>8 DEF RepairDies, EndTransaction, TypeOK
  <2> QED
    BY <2>1 DEF GapsAreEmpty
<1>9. ASSUME NEW t \in Processes,
             \/ Upsert(t) \/ Lookup(t) \/ Backfill(t) \/ Claim(t)
             \/ InsertPlacement(t) \/ Repoint(t)
      PROVE  GapsAreEmpty'
  <2>1. UNCHANGED <<placed, gaps>>
    BY <1>9 DEF Upsert, Lookup, Backfill, Claim, InsertPlacement, Repoint, rows, run
  <2>2. CASE t # Repairer
    <3>1. pc'[Repairer] = pc[Repairer] /\ job'[Repairer] = job[Repairer]
      BY <1>0, <1>9, <2>2
      DEF Upsert, Lookup, Backfill, Claim, InsertPlacement, Repoint, TypeOK
    <3> QED
      BY <1>2, <2>1, <3>1
  <2>3. CASE t = Repairer
    <3>1. Upsert(t) \/ Repoint(t)
      BY <1>9, <2>3 DEF Lookup, Backfill, Claim, InsertPlacement, Runs, IndInv, JobsFit
    <3>2. job' = job /\ pc[Repairer] \in {"upsert", "repoint"}
      BY <2>3, <3>1 DEF Upsert, Repoint, Runs
    <3> QED
      BY <1>2, <2>1, <3>2
  <2> QED
    BY <2>2, <2>3
<1>10. ASSUME NEW t \in Processes, Abort(t)
       PROVE  GapsAreEmpty'
  <2>1. UNCHANGED <<placed, gaps>>
    BY <1>10 DEF Abort, rows, run
  <2>2. CASE t = Repairer
    <3>1. pc'[Repairer] = "idle"
      BY <1>0, <1>10, <2>2 DEF Abort, EndTransaction, TypeOK
    <3> QED
      BY <1>1, <2>1, <3>1
  <2>3. CASE t # Repairer
    <3>1. pc'[Repairer] = pc[Repairer] /\ job'[Repairer] = job[Repairer]
      BY <1>0, <1>10, <2>3 DEF Abort, EndTransaction, TypeOK
    <3> QED
      BY <1>2, <2>1, <3>1
  <2> QED
    BY <2>2, <2>3
<1>11. ASSUME NEW t \in Processes, Commit(t)
       PROVE  GapsAreEmpty'
  <2>1. /\ gaps' = gaps
        /\ t = Repairer => pc'[Repairer] = "idle" /\ pc[Repairer] = "commit"
        /\ t # Repairer => pc'[Repairer] = pc[Repairer] /\ job'[Repairer] = job[Repairer]
    BY <1>0, <1>11 DEF Commit, EndTransaction, TypeOK
  <2>2. ASSUME NEW g \in gaps
        PROVE  \E p \in placed' : SameRow(p, g) /\ p.msg = Empty
    <3>1. ~(t = Repairer /\ SameRow(g, job[t]))
      BY <1>0, <2>1 DEF GapsAreEmpty
    <3>2. \E p \in placed : SameRow(p, g) /\ p.msg = Empty
      BY <1>0 DEF GapsAreEmpty
    <3> QED
      BY <1>0, <1>11, <3>1, <3>2, GapsOutlive
  <2>3. CASE t = Repairer
    BY <1>0, <2>1, <2>2, <2>3 DEF GapsAreEmpty
  <2>4. CASE t # Repairer
    <3>1. ASSUME pc[Repairer] \in {"upsert", "repoint", "commit"}
          PROVE  \E p \in placed' : SameRow(p, job[Repairer]) /\ p.msg = Empty
      <4>1. \E p \in placed : SameRow(p, job[Repairer]) /\ p.msg = Empty
        BY <1>0, <3>1 DEF GapsAreEmpty
      <4> QED
        BY <1>0, <1>11, <2>4, <4>1, GapsOutlive
    <3> QED
      BY <1>0, <2>1, <2>2, <2>4, <3>1 DEF GapsAreEmpty
  <2> QED
    BY <2>3, <2>4
<1>12. CASE UNCHANGED vars
  BY <1>2, <1>12 DEF vars, rows, run
<1> QED
  BY <1>0, <1>3, <1>4, <1>5, <1>6, <1>7, <1>8, <1>9, <1>10, <1>11, <1>12 DEF Next
LEMMA IndInit == Init => IndInv
<1> SUFFICES ASSUME Init
             PROVE  IndInv
  OBVIOUS
<1>1. TypeOK
  BY TypeInit
<1>2. GaplessUids
  <2>1. \A f \in Folders : RowsOf(f) = {q \in Legacy : q.folder = f}
    BY DEF Init, RowsOf
  <2>2. \A f \in Folders : {p.uid : p \in RowsOf(f)} = 1 .. (uidnext[f] - 1)
    BY <2>1, LegacyAssumption DEF Init
  <2>3. \A f \in Folders : \A p, q \in RowsOf(f) : p.uid = q.uid => p = q
    BY <2>1, LegacyAssumption
  <2> QED
    BY <2>2, <2>3 DEF GaplessUids
<1>3. NothingDangles
  BY DEF Init, NothingDangles
<1>4. /\ \A t \in Processes : pc[t] = "idle" /\ claimed[t] = 0
      /\ gaps = {}
      /\ Tasks \subseteq Processes /\ Repairer \in Processes
  BY DEF Init, Processes
<1>5. ClaimsAreNext /\ OneHolder /\ JobsFit /\ NewIsAbsent /\ GapsAreEmpty
  BY <1>4
  DEF ClaimsAreNext, OneHolder, HoldsMessage, JobsFit, NewIsAbsent, GapsAreEmpty
<1> QED
  BY <1>1, <1>2, <1>3, <1>5 DEF IndInv

LEMMA IndStep == IndInv /\ [Next]_vars => IndInv'
<1> SUFFICES ASSUME IndInv, [Next]_vars
             PROVE  IndInv'
  OBVIOUS
<1>1. TypeOK'
  BY TypeStep DEF IndInv
<1>2. /\ GaplessUids' /\ NothingDangles' /\ ClaimsAreNext' /\ OneHolder'
      /\ JobsFit' /\ NewIsAbsent' /\ GapsAreEmpty'
  BY GaplessStep, DanglesStep, ClaimsStep, HolderStep, JobsStep, NewStep, GapsStep
<1> QED
  BY <1>1, <1>2 DEF IndInv

THEOREM Inductive == Spec => []IndInv
  BY IndInit, IndStep, PTL DEF Spec

(* The UIDs of a folder are 1 .. uidnext-1 at every moment, each used once. *)
THEOREM Gapless == Spec => []GaplessUids
<1>1. IndInv => GaplessUids
  BY DEF IndInv
<1> QED
  BY <1>1, Inductive, PTL

(* Every placement resolves to a message row. *)
THEOREM NothingEverDangles == Spec => []NothingDangles
<1>1. IndInv => NothingDangles
  BY DEF IndInv
<1> QED
  BY <1>1, Inductive, PTL

----------------------------------------------------------------------------
(* Transactions take the message row, then the folder row or the placement
   row, and wait for nothing once they have the second. *)
LEMMA LockOrder ==
  ASSUME IndInv, NEW t \in Processes, NEW v \in Processes, WaitsFor(t, v)
  PROVE  /\ pc[t] \in {"upsert", "drop", "claim", "backfill", "repoint"}
         /\ pc[v] \notin {"upsert", "drop"}
         /\ pc[t] \in {"claim", "backfill", "repoint"} => pc[v] \in {"insert", "commit"}
<1>1. claimed[v] # 0 => pc[v] \in {"insert", "commit"}
  BY DEF IndInv, ClaimsAreNext
<1> QED
  BY <1>1 DEF WaitsFor, HoldsMessage, HoldsFolder, HoldsPlacement

(* No set of transactions waits on itself, so none is ever deadlocked. *)
LEMMA NoCycle == IndInv => NoLockCycle
<1> SUFFICES ASSUME IndInv, NEW ts \in (SUBSET Processes) \ {{}},
                    ~(\E t \in ts : \A v \in ts : ~WaitsFor(t, v))
             PROVE  FALSE
  BY Zenon DEF NoLockCycle
<1>1. PICK t \in ts : TRUE
  OBVIOUS
<1>2. PICK v \in ts : WaitsFor(t, v)
  OBVIOUS
<1>3. PICK w \in ts : WaitsFor(v, w)
  OBVIOUS
<1>4. PICK x \in ts : WaitsFor(w, x)
  OBVIOUS
<1>5. pc[v] \in {"claim", "backfill", "repoint"}
  BY <1>2, <1>3, LockOrder
<1>6. pc[w] \in {"insert", "commit"}
  BY <1>3, <1>5, LockOrder
<1> QED
  BY <1>4, <1>6, LockOrder

THEOREM DeadlockFree == Spec => []NoLockCycle
  BY NoCycle, Inductive, PTL

----------------------------------------------------------------------------
(* A placement keeps its row, and a source_uid it has. *)
THEOREM SourceUidsKept == Spec => SourceUidKept
<1> DEFINE Kept == \A p \in placed : \E q \in placed' :
                     /\ q.folder = p.folder /\ q.uid = p.uid
                     /\ p.src # NoSource => q.src = p.src
<1>1. ASSUME IndInv, [Next]_vars
      PROVE  Kept
  <2>1. CASE UNCHANGED <<uidnext, placed>>
    BY <2>1
  <2>2. ASSUME NEW t \in Processes, Commit(t), claimed[t] # 0
        PROVE  Kept
    BY <2>2 DEF Commit, RowsAfter
  <2>3. ASSUME NEW t \in Processes, Commit(t), claimed[t] = 0
        PROVE  Kept
    <3>1. PICK New \in [placed -> Placement] :
            /\ placed' = {New[p] : p \in placed}
            /\ \A p \in placed : /\ SameRow(New[p], p)
                                 /\ p.src # NoSource => New[p].src = p.src
      BY <1>1, <2>3, RewrittenInPlace DEF IndInv
    <3> QED
      BY <3>1 DEF SameRow
  <2> QED
    BY <1>1, <2>1, <2>2, <2>3, OnlyCommitsShow
<1>2. IndInv /\ [Next]_vars => [Kept]_vars
  BY <1>1
<1> QED
  BY <1>2, Inductive, PTL DEF Spec, SourceUidKept
----------------------------------------------------------------------------
(* Refinement of UidLog. *)

Shown(p) == [folder |-> p.folder, uid |-> p.uid, msg |-> p.msg]

LEMMA LogInitHolds == IndInv => Log!LogInit
<1> SUFFICES ASSUME IndInv
             PROVE  Log!LogInit
  OBVIOUS
<1>1. uidnext \in [Folders -> Nat \ {0}] /\ placed \subseteq Placement
  BY DEF IndInv, TypeOK
<1>2. Visible \in SUBSET Log!Entry
  BY <1>1 DEF Visible, Log!Entry, Placement, Messages
<1>3. ASSUME NEW f \in Folders
      PROVE  {e.uid : e \in Log!EntriesOf(f)} = 1 .. (uidnext[f] - 1)
  <2>1. Log!EntriesOf(f) = {Shown(p) : p \in RowsOf(f)}
    BY DEF Log!EntriesOf, Visible, RowsOf, Shown
  <2>2. \A p \in RowsOf(f) : Shown(p).uid = p.uid
    BY DEF Shown
  <2>3. {e.uid : e \in Log!EntriesOf(f)} = {p.uid : p \in RowsOf(f)}
    BY <2>1, <2>2
  <2> QED
    BY <2>3 DEF IndInv, GaplessUids
<1>4. ASSUME NEW d \in Visible, NEW e \in Visible, d.folder = e.folder, d.uid = e.uid
      PROVE  d = e
  <2>1. PICK p \in placed : d = Shown(p)
    BY DEF Visible, Shown
  <2>2. PICK q \in placed : e = Shown(q)
    BY DEF Visible, Shown
  <2>3. p.folder = q.folder /\ p.uid = q.uid /\ p.folder \in Folders
    BY <1>1, <1>4, <2>1, <2>2 DEF Shown, Placement
  <2>4. p = q
    BY <2>3 DEF IndInv, GaplessUids, RowsOf
  <2> QED
    BY <2>1, <2>2, <2>4
<1> QED
  BY <1>1, <1>2, <1>3, <1>4 DEF Log!LogInit

LEMMA LogStepHolds == IndInv /\ [Next]_vars => [Log!LogNext]_(Log!logVars)
<1> SUFFICES ASSUME IndInv, [Next]_vars
             PROVE  [Log!LogNext]_(Log!logVars)
  OBVIOUS
<1>0. /\ TypeOK /\ placed \subseteq Placement
      /\ Visible = {Shown(p) : p \in placed}
      /\ Visible' = {Shown(p) : p \in placed'}
  BY DEF IndInv, TypeOK, Visible, Shown
<1>1. CASE UNCHANGED <<uidnext, placed>>
  BY <1>1 DEF Log!logVars, Visible
<1>2. ASSUME NEW t \in Processes, Commit(t), claimed[t] # 0
      PROVE  Log!LogNext
  <2> DEFINE f == job[t].folder
             m == job[t].msg
             new == [folder |-> f, uid |-> claimed[t], msg |-> m, src |-> job[t].src]
  <2>1. f \in Folders /\ m \in Contents \cup {Empty}
    BY <1>0 DEF TypeOK, Job, Messages
  <2>2. claimed[t] = uidnext[f] /\ t \in Tasks
    BY <1>2 DEF IndInv, ClaimsAreNext
  <2>3. placed' = placed \cup {new}
    BY <1>2 DEF Commit, RowsAfter
  <2>4. uidnext' = [uidnext EXCEPT ![f] = @ + 1]
    BY <1>2, <2>2 DEF Commit
  <2>5. Visible' = Visible \cup {[folder |-> f, uid |-> uidnext[f], msg |-> m]}
    <3>1. Shown(new) = [folder |-> f, uid |-> uidnext[f], msg |-> m]
      BY <2>2 DEF Shown
    <3> QED
      BY <1>0, <2>3, <3>1
  <2>6. \A e \in Log!EntriesOf(f) : e.msg # m
    <3>1. \A p \in placed : p.folder = f => p.msg # m
      BY <1>2, <2>2 DEF IndInv, NewIsAbsent, RowsOf
    <3> QED
      BY <1>0, <3>1 DEF Log!EntriesOf, Shown
  <2>7. Log!Deliver(f, m)
    BY <2>4, <2>5, <2>6 DEF Log!Deliver
  <2> QED
    BY <2>1, <2>7 DEF Log!LogNext
<1>3. ASSUME NEW t \in Processes, Commit(t), claimed[t] = 0
      PROVE  [Log!LogNext]_(Log!logVars)
  <2>1. PICK New \in [placed -> Placement] :
          /\ placed' = {New[p] : p \in placed}
          /\ \A p \in placed :
               /\ SameRow(New[p], p)
               /\ New[p].msg = IF t = Repairer /\ SameRow(p, job[t])
                               THEN job[t].msg ELSE p.msg
    BY <1>0, <1>3, RewrittenInPlace
  <2>2. uidnext' = uidnext
    BY <1>3 DEF Commit
  <2>3. Visible' = {Shown(New[p]) : p \in placed}
    BY <1>0, <2>1
  <2>4. CASE t # Repairer
    <3>1. \A p \in placed : Shown(New[p]) = Shown(p)
      BY <2>1, <2>4 DEF Shown, SameRow
    <3>2. Visible' = Visible
      BY <1>0, <2>3, <3>1
    <3> QED
      BY <2>2, <3>2 DEF Log!logVars
  <2>5. CASE t = Repairer
    <3> DEFINE m == job[t].msg
    <3>1. /\ m \in Contents
          /\ \E p \in placed : SameRow(p, job[t]) /\ p.msg = Empty
      BY <1>3, <2>5 DEF Commit, IndInv, GapsAreEmpty
    <3>2. PICK gap \in placed : SameRow(gap, job[t]) /\ gap.msg = Empty
      BY <3>1
    <3> DEFINE e == Shown(gap)
    <3>3. \A p \in placed : SameRow(p, job[t]) => p = gap
      BY <1>0, <3>2 DEF SameRow, Placement, IndInv, GaplessUids, RowsOf
    <3>4. Shown(New[gap]) = [e EXCEPT !.msg = m]
      BY <2>1, <2>5, <3>2 DEF Shown, SameRow
    <3>5. \A p \in placed \ {gap} : Shown(New[p]) = Shown(p) /\ Shown(p) # e
      BY <2>1, <3>2, <3>3 DEF Shown, SameRow
    <3>6. Visible' = (Visible \ {e}) \cup {[e EXCEPT !.msg = m]}
      BY <1>0, <2>3, <3>4, <3>5
    <3>7. e \in Visible /\ e.msg = Empty /\ m # Empty
      BY <1>0, <3>1, <3>2, ConstantsAssumption DEF Shown
    <3>8. Log!Fill(e, m)
      BY <2>2, <3>6, <3>7 DEF Log!Fill
    <3> QED
      BY <3>1, <3>7, <3>8 DEF Log!LogNext
  <2> QED
    BY <2>4, <2>5
<1> QED
  BY <1>1, <1>2, <1>3, OnlyCommitsShow

(* The transactions implement the append-only log of UIDs. *)
THEOREM Refinement == Spec => ImplementsUidLog
  BY IndInit, LogInitHolds, LogStepHolds, Inductive, PTL
  DEF Spec, ImplementsUidLog, Log!LogSpec

(* What a step of UidLog does to the entries a client knows. *)
LEMMA LogKeepsUids == Log!LogNext => Log!KeepsUids
<1> USE DEF Log!SameUid
<1>1. ASSUME NEW f \in Folders, NEW m \in Contents \cup {Empty}, Log!Deliver(f, m)
      PROVE  Log!KeepsUids
  <2>1. Visible' = Visible \cup {[folder |-> f, uid |-> uidnext[f], msg |-> m]}
    BY <1>1 DEF Log!Deliver
  <2> QED
    BY <2>1 DEF Log!KeepsUids
<1>2. ASSUME NEW e \in Visible, NEW m \in Contents, Log!Fill(e, m)
      PROVE  Log!KeepsUids
  <2> DEFINE filled == [e EXCEPT !.msg = m]
  <2>1. e.msg = Empty /\ Visible' = (Visible \ {e}) \cup {filled}
    BY <1>2 DEF Log!Fill
  <2>2. filled.folder = e.folder /\ filled.uid = e.uid
    BY DEF Visible
  <2> HIDE DEF filled
  <2>3. ASSUME NEW d \in Visible
        PROVE  \E c \in Visible' : Log!SameUid(c, d) /\ (c.msg = d.msg \/ d.msg = Empty)
    BY <2>1, <2>2
  <2>4. ASSUME NEW d \in Visible'
        PROVE  \E c \in Visible : Log!SameUid(d, c)
    BY <2>1, <2>2
  <2> QED
    BY <2>3, <2>4 DEF Log!KeepsUids
<1> QED
  BY <1>1, <1>2 DEF Log!LogNext

(* No transaction, whatever it meets or however it ends, takes a UID away from
   a reader or gives one it knows to another message; only repair's gaps get
   the message they were kept for. *)
THEOREM UidsAreForGood == Spec => Log!UidsStay
  BY LogKeepsUids, Refinement, PTL
  DEF ImplementsUidLog, Log!LogSpec, Log!UidsStay
=============================================================================
