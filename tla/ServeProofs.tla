----------------------------- MODULE ServeProofs -----------------------------
(***************************************************************************)
(* Theorems about Sweeps, CertReloader and Serve, for any accounts and     *)
(* folders, whichever of them fail and however often.                      *)
(***************************************************************************)
EXTENDS Serve, WellFoundedInduction, TLAPS

(* Of the members of a set that are in a sequence, one comes first. *)
LEMMA FirstOfSome ==
  ASSUME NEW R, NEW s \in Seq(R), NEW S \in SUBSET ToSet(s), S # {}
  PROVE  First(s, S) \in S
<1> DEFINE Places == {i \in DOMAIN s : s[i] \in S}
<1>1. /\ DOMAIN s = 1 .. Len(s) /\ Len(s) \in Nat
      /\ Places \subseteq Nat /\ Places # {}
  BY DEF ToSet
<1>2. PICK i \in Places : \A j \in Nat : j \in Places => ~(j < i)
  <2>1. PICK i \in Places : \A j \in Places : <<j, i>> \notin OpToRel(<, Nat)
    <3> HIDE DEF Places
    <3> QED
      BY <1>1, NatLessThanWellFounded, WFMin
  <2> QED
    BY <1>1, <2>1 DEF OpToRel
<1>3. /\ i \in DOMAIN s /\ s[i] \in S
      /\ \A j \in 1 .. i - 1 : s[j] \notin S
  BY <1>1, <1>2
<1> QED
  BY <1>3 DEF First
----------------------------------------------------------------------------
(* The scheduler *)

SweepsInv == SweepsTypeOK /\ LoopInv

LEMMA SweepsBegin == SweepsInit => SweepsInv
<1> SUFFICES ASSUME SweepsInit
             PROVE  SweepsInv
  OBVIOUS
<1>1. /\ 0 \in 0 .. FullEvery - 1 /\ 0 \in 0 .. MaxAttempts
      /\ 0 \in 0 .. MaxFaults
  BY SweepsAssumption
<1>2. LoopInv
  BY DEF SweepsInit, LoopInv, Connecting
<1> QED
  BY <1>1, <1>2 DEF SweepsInit, SweepsInv, SweepsTypeOK

(* There is a current account, and while a folder is left a current folder. *)
LEMMA CurrentOnes ==
  ASSUME SweepsInv, accounts # {}
  PROVE  /\ Account \in accounts /\ Account \in ToSet(Accounts)
         /\ folders # {} => /\ Name \in folders /\ Name \in ToSet(FoldersOf[Account])
                            /\ Folder \in AllFolders
<1>1. Account \in accounts /\ Account \in ToSet(Accounts)
  BY SweepsAssumption, FirstOfSome DEF SweepsInv, SweepsTypeOK, Account
<1>2. ASSUME folders # {}
      PROVE  Name \in folders /\ Name \in ToSet(FoldersOf[Account])
  <2>1. folders \in SUBSET ToSet(FoldersOf[Account])
    BY <1>2 DEF SweepsInv, SweepsTypeOK
  <2>2. FoldersOf[Account] \in Seq(ToSet(FoldersOf[Account]))
    BY <1>1, SweepsAssumption
  <2> QED
    BY <1>2, <2>1, <2>2, FirstOfSome DEF Name
<1>3. ASSUME folders # {}
      PROVE  Folder \in AllFolders
  BY <1>1, <1>2, <1>3 DEF Folder, AllFolders
<1> QED
  BY <1>1, <1>2, <1>3

(* What a step must leave as the invariant says, when neither the accounts of
   the sweep nor the operator's variables change. *)
LEMMA SameAccount ==
  ASSUME SweepsInv, UNCHANGED <<follow, valid, tick, accounts>>,
         attempt' \in 0 .. MaxAttempts,
         at' \in Steps \cup {"sleep", "sweep", "backoff"},
         held' \in BOOLEAN, live' \in BOOLEAN, hung' \in BOOLEAN,
         swept' \in AllFolders \cup {<<>>},
         faults' \in 0 .. MaxFaults,
         folders' # {} => accounts # {} /\ folders' \subseteq ToSet(FoldersOf[Account]),
         LoopInv'
  PROVE  SweepsInv'
<1>1. Account' = Account
  BY DEF Account
<1> QED
  BY <1>1 DEF SweepsInv, SweepsTypeOK

LEMMA AttemptsAreNumbers ==
  ASSUME SweepsInv
  PROVE  /\ attempt \in Nat /\ MaxAttempts \in Nat /\ MaxAttempts >= 1
         /\ attempt <= MaxAttempts
         /\ faults \in Nat /\ MaxFaults \in Nat /\ faults <= MaxFaults
BY SweepsAssumption DEF SweepsInv, SweepsTypeOK

(* An account is left, for the next one. *)
LEMMA LeavingIsFine ==
  ASSUME SweepsInv, LeaveAccount, UNCHANGED operatorVars,
         hung' \in BOOLEAN, faults' \in 0 .. MaxFaults
  PROVE  SweepsInv'
<1>1. LoopInv'
  BY DEF LeaveAccount, LoopInv, Connecting
<1>2. 0 \in 0 .. MaxAttempts
  BY AttemptsAreNumbers
<1>3. SweepsTypeOK'
  BY <1>2 DEF LeaveAccount, SweepsInv, SweepsTypeOK, operatorVars
<1> QED
  BY <1>1, <1>3 DEF SweepsInv

LEMMA FolderFailsFine ==
  ASSUME SweepsInv, at = "folder", FolderFails, UNCHANGED operatorVars,
         live' \in BOOLEAN, hung' \in BOOLEAN, faults' \in 0 .. MaxFaults
  PROVE  SweepsInv'
<1>1. CASE LeaveAccount
  BY <1>1, LeavingIsFine
<1>2. CASE /\ attempt < MaxAttempts
           /\ at' = "backoff"
           /\ UNCHANGED <<tick, accounts, folders, attempt, held, swept>>
  <2>1. LoopInv'
    BY <1>2, AttemptsAreNumbers DEF SweepsInv, LoopInv, Connecting
  <2> QED
    BY <1>2, <2>1, SameAccount DEF SweepsInv, SweepsTypeOK, operatorVars
<1> QED
  BY <1>1, <1>2 DEF FolderFails

LEMMA FailingIsFine ==
  ASSUME SweepsInv, at \in Steps, StepFails, UNCHANGED operatorVars,
         hung' \in BOOLEAN, faults' \in 0 .. MaxFaults
  PROVE  SweepsInv'
<1>1. CASE LeaveAccount
  BY <1>1, LeavingIsFine
<1>2. CASE /\ attempt > 0 /\ at = "resolve"
           /\ at' = "tcp"
           /\ UNCHANGED <<tick, accounts, folders, attempt, held, live, swept>>
  <2>1. LoopInv'
    BY <1>2, AttemptsAreNumbers DEF SweepsInv, LoopInv, Connecting
  <2> QED
    BY <1>2, <2>1, SameAccount
    DEF SweepsInv, SweepsTypeOK, operatorVars, Steps, Connecting
<1>3. CASE /\ attempt > 0 /\ at \in Connecting \ {"resolve"}
           /\ at' = "folder" /\ attempt' = attempt + 1
           /\ UNCHANGED <<tick, accounts, folders, held, live, swept>>
  <2>1. attempt < MaxAttempts /\ attempt' \in 0 .. MaxAttempts /\ attempt' # 0
    BY <1>3, AttemptsAreNumbers DEF SweepsInv, LoopInv
  <2>2. folders # {} /\ accounts # {}
    BY <1>3, AttemptsAreNumbers DEF SweepsInv, LoopInv, Connecting
  <2>3. LoopInv'
    BY <1>3, <2>1, <2>2 DEF LoopInv, Connecting
  <2> QED
    BY <1>3, <2>1, <2>3, SameAccount
    DEF SweepsInv, SweepsTypeOK, operatorVars, Steps
<1>4. CASE at = "folder" /\ live' = FALSE /\ FolderFails
  BY <1>4, FolderFailsFine
<1> QED
  BY <1>1, <1>2, <1>3, <1>4 DEF StepFails

LEMMA LoopKeeps ==
  ASSUME SweepsInv, Loop
  PROVE  SweepsInv'
<1> USE AttemptsAreNumbers DEF operatorVars
<1>0. UNCHANGED <<follow, valid>>
  BY DEF Loop
<1>f. ASSUME Fault
      PROVE  faults' \in 0 .. MaxFaults
  BY <1>f DEF Fault
<1>1. CASE Wake
  BY <1>0, <1>1, SweepsAssumption
  DEF Wake, SweepsInv, SweepsTypeOK, LoopInv, Connecting
<1>1a. CASE WakeInVain
  <2>1. tick' \in 0 .. FullEvery - 1 /\ faults' \in 0 .. MaxFaults
    BY <1>1a, SweepsAssumption DEF WakeInVain, SweepsInv, SweepsTypeOK
  <2>2. LoopInv'
    BY <1>1a DEF WakeInVain, SweepsInv, LoopInv, Connecting
  <2>3. UNCHANGED <<accounts, folders, attempt, at, held, live, hung, swept>>
    BY <1>1a DEF WakeInVain
  <2>4. Account' = Account
    BY <2>3 DEF Account
  <2> QED
    BY <1>0, <2>1, <2>2, <2>3, <2>4 DEF SweepsInv, SweepsTypeOK
<1>2. CASE StartAccount
  <2>1. LoopInv'
    BY <1>2 DEF StartAccount, SweepsInv, LoopInv, Connecting
  <2> QED
    BY <1>0, <1>2, <2>1, SameAccount
    DEF StartAccount, SweepsInv, SweepsTypeOK, Steps, Connecting
<1>3. CASE EndSweep
  <2>1. LoopInv'
    BY <1>3 DEF EndSweep, SweepsInv, LoopInv, Connecting
  <2> QED
    BY <1>0, <1>3, <2>1, SameAccount DEF EndSweep, SweepsInv, SweepsTypeOK
<1>4. CASE Resolve
  <2>1. LoopInv'
    BY <1>4 DEF Resolve, SweepsInv, LoopInv, Connecting
  <2> QED
    BY <1>0, <1>4, <2>1, SameAccount
    DEF Resolve, SweepsInv, SweepsTypeOK, Steps, Connecting
<1>5. CASE Connect
  <2>1. at \in Connecting /\ at' \in Connecting
        /\ UNCHANGED <<tick, accounts, folders, attempt, held, live, hung, swept, faults>>
    BY <1>5 DEF Connect, Connecting
  <2>2. LoopInv'
    BY <2>1 DEF SweepsInv, LoopInv, Connecting
  <2> QED
    BY <1>0, <2>1, <2>2, SameAccount DEF SweepsInv, SweepsTypeOK, Steps
<1>6. CASE Login
  <2>1. /\ attempt < MaxAttempts /\ accounts # {}
        /\ attempt' \in 0 .. MaxAttempts
    BY <1>6 DEF Login, SweepsInv, LoopInv, Connecting
  <2>2. LoopInv'
    BY <1>6, <2>1 DEF Login, SweepsInv, LoopInv, Connecting
  <2> QED
    BY <1>0, <1>6, <2>1, <2>2, SameAccount
    DEF Login, SweepsInv, SweepsTypeOK, Steps
<1>7. CASE List
  <2>1. accounts # {}
    BY <1>7 DEF List, SweepsInv, LoopInv
  <2>2. /\ folders' \subseteq ToSet(FoldersOf[Account])
        /\ \/ folders' # {} /\ attempt' = 1 /\ at' = "folder"
           \/ folders' = {} /\ attempt' = 0 /\ at' = "logout"
        /\ UNCHANGED <<tick, accounts, held, live, hung, swept, faults>>
    BY <1>7 DEF List
  <2>3. LoopInv'
    BY <2>1, <2>2 DEF LoopInv, Connecting
  <2> QED
    BY <1>0, <2>1, <2>2, <2>3, SameAccount DEF SweepsInv, SweepsTypeOK, Steps
<1>8. CASE IngestFolder
  <2>1. accounts # {} /\ folders # {}
    BY <1>8 DEF IngestFolder, SweepsInv, LoopInv
  <2>2. /\ Folder \in AllFolders /\ Name \in folders
        /\ folders \subseteq ToSet(FoldersOf[Account])
    BY <2>1, CurrentOnes DEF SweepsInv, SweepsTypeOK
  <2>3. /\ swept' \in AllFolders /\ folders' = folders \ {Name}
        /\ \/ folders # {Name} /\ attempt' = 1 /\ at' = at
           \/ folders = {Name} /\ attempt' = 0 /\ at' = "logout"
        /\ at = "folder"
        /\ UNCHANGED <<tick, accounts, held, live, hung, faults>>
    BY <1>8, <2>2 DEF IngestFolder
  <2>4. LoopInv'
    BY <2>1, <2>2, <2>3 DEF LoopInv, Connecting
  <2> QED
    BY <1>0, <2>1, <2>2, <2>3, <2>4, SameAccount DEF SweepsInv, SweepsTypeOK, Steps
<1>9. CASE Logout
  BY <1>0, <1>9, LeavingIsFine DEF Logout, SweepsInv, SweepsTypeOK
<1>10. CASE Backoff
  <2>1. LoopInv'
    BY <1>10 DEF Backoff, SweepsInv, LoopInv, Connecting
  <2> QED
    BY <1>0, <1>10, <2>1, SameAccount
    DEF Backoff, SweepsInv, SweepsTypeOK, Steps, Connecting
<1>11. CASE Fail
  BY <1>0, <1>11, <1>f, FailingIsFine DEF Fail, SweepsInv, SweepsTypeOK
<1>12. CASE Reject
  BY <1>0, <1>12, FailingIsFine DEF Reject, SweepsInv, SweepsTypeOK, Steps, Connecting
<1>13. CASE FailFolder
  <2>1. live' \in BOOLEAN
    BY <1>13 DEF FailFolder, SweepsInv, SweepsTypeOK
  <2> QED
    BY <1>0, <1>13, <2>1, FolderFailsFine DEF FailFolder, SweepsInv, SweepsTypeOK
<1>14. CASE Silence
  <2>1. LoopInv'
    BY <1>14 DEF Silence, SweepsInv, LoopInv
  <2> QED
    BY <1>0, <1>14, <1>f, <2>1, SameAccount DEF Silence, SweepsInv, SweepsTypeOK
<1>15. CASE Timeout
  BY <1>0, <1>15, FailingIsFine
  DEF Timeout, SweepsInv, SweepsTypeOK, Deadlines, Steps, Connecting
<1> QED
  BY <1>1, <1>2, <1>3, <1>4, <1>5, <1>6, <1>7, <1>8, <1>9, <1>10, <1>11, <1>12,
     <1>13, <1>14, <1>15, <1>1a DEF Loop, LoopStep

(* One lemma for each thing a step of a sweep may do. *)
LEMMA LeavingAdvances ==
  ASSUME SweepsInv, accounts # {}, LeaveAccount
  PROVE  Advances
<1>1. Account \in accounts
  BY CurrentOnes
<1> QED
  BY <1>1 DEF LeaveAccount, Advances, Fewer

LEMMA NextStageAdvances ==
  ASSUME at \in DOMAIN Stage, at' \in DOMAIN Stage, Stage[at] < Stage[at'],
         at # "logout", at' # "logout", UNCHANGED <<accounts, folders, attempt>>
  PROVE  Advances
BY DEF Advances, Listed

LEMMA NextAttemptAdvances ==
  ASSUME SweepsInv, at \in Connecting, at' = "folder", attempt' = attempt + 1,
         UNCHANGED <<accounts, folders>>
  PROVE  Advances
<1>1. attempt < MaxAttempts /\ attempt \in Nat /\ MaxAttempts \in Nat
  BY AttemptsAreNumbers DEF SweepsInv, LoopInv
<1>2. attempt < attempt' /\ attempt' <= MaxAttempts
  BY <1>1
<1>3. Listed' = Listed
  BY DEF Listed, Connecting
<1> QED
  BY <1>2, <1>3 DEF Advances

LEMMA FolderFailsAdvances ==
  ASSUME SweepsInv, at = "folder", FolderFails
  PROVE  Advances
<1>1. accounts # {}
  BY DEF SweepsInv, LoopInv
<1>2. CASE LeaveAccount
  BY <1>1, <1>2, LeavingAdvances
<1>3. CASE at' = "backoff" /\ UNCHANGED <<accounts, folders, attempt>>
  BY <1>3, NextStageAdvances DEF Stage
<1> QED
  BY <1>2, <1>3 DEF FolderFails

LEMMA FailingAdvances ==
  ASSUME SweepsInv, at \in Steps, StepFails
  PROVE  Advances
<1>1. accounts # {}
  BY DEF SweepsInv, LoopInv, Steps, Connecting
<1>2. CASE LeaveAccount
  BY <1>1, <1>2, LeavingAdvances
<1>3. CASE at = "resolve" /\ at' = "tcp" /\ UNCHANGED <<accounts, folders, attempt>>
  BY <1>3, NextStageAdvances DEF Stage
<1>4. CASE /\ at \in Connecting /\ at' = "folder" /\ attempt' = attempt + 1
           /\ UNCHANGED <<accounts, folders>>
  BY <1>4, NextAttemptAdvances
<1>5. CASE at = "folder" /\ FolderFails
  BY <1>5, FolderFailsAdvances
<1> QED
  BY <1>2, <1>3, <1>4, <1>5 DEF StepFails

LEMMA LoopAdvances ==
  ASSUME SweepsInv, Loop, at # "sleep"
  PROVE  Advances
<1>1. CASE StartAccount
  BY <1>1, NextStageAdvances DEF StartAccount, Stage
<1>2. CASE EndSweep
  BY <1>2, NextStageAdvances DEF EndSweep, Stage
<1>3. CASE Resolve
  BY <1>3, NextStageAdvances DEF Resolve, Stage
<1>4. CASE Connect
  BY <1>4, NextStageAdvances DEF Connect, Stage
<1>5. CASE Login
  <2>1. CASE attempt = 0 /\ at' = "list" /\ UNCHANGED attempt
    BY <1>5, <2>1, NextStageAdvances DEF Login, Stage
  <2>2. CASE attempt > 0 /\ at' = "folder" /\ attempt' = attempt + 1
    BY <1>5, <2>2, NextAttemptAdvances DEF Login, Connecting
  <2> QED
    BY <1>5, <2>1, <2>2 DEF Login
<1>6. CASE List
  <2>1. ~Listed
    BY <1>6 DEF List, Listed, SweepsInv, LoopInv
  <2>2. Listed' /\ accounts' = accounts
    BY <1>6 DEF List, Listed
  <2> QED
    BY <2>1, <2>2 DEF Advances
<1>7. CASE IngestFolder
  <2>1. accounts # {} /\ folders # {}
    BY <1>7 DEF IngestFolder, SweepsInv, LoopInv
  <2>2. Name \in folders
    BY <2>1, CurrentOnes
  <2>3. Fewer(folders', folders) /\ accounts' = accounts
    BY <1>7, <2>2 DEF IngestFolder, Fewer
  <2>4. Listed /\ Listed'
    BY <1>7, <2>1, <2>2 DEF IngestFolder, Listed
  <2> QED
    BY <2>3, <2>4 DEF Advances
<1>8. CASE Logout
  <2>1. accounts # {}
    BY <1>8 DEF Logout, SweepsInv, LoopInv
  <2> QED
    BY <1>8, <2>1, LeavingAdvances DEF Logout
<1>9. CASE Backoff
  BY <1>9, NextStageAdvances DEF Backoff, Stage
<1>10. CASE Fail
  BY <1>10, FailingAdvances DEF Fail
<1>11. CASE Reject
  BY <1>11, FailingAdvances DEF Reject, Steps, Connecting
<1>12. CASE FailFolder
  BY <1>12, FolderFailsAdvances DEF FailFolder
<1>13. CASE Silence
  BY <1>13 DEF Silence, Advances, Listed
<1>14. CASE Timeout
  BY <1>14, FailingAdvances DEF Timeout, Deadlines, Steps, Connecting
<1> QED
  BY <1>1, <1>2, <1>3, <1>4, <1>5, <1>6, <1>7, <1>8, <1>9, <1>10, <1>11, <1>12,
     <1>13, <1>14 DEF Loop, LoopStep, Wake, WakeInVain

LEMMA OperatorKeeps ==
  ASSUME SweepsInv, Operator
  PROVE  SweepsInv'
<1> USE DEF loopVars, SweepsInv, SweepsTypeOK, LoopInv, Account, Connecting
<1>1. ASSUME NEW a \in ToSet(Accounts), SetFollow(a)
      PROVE  SweepsInv'
  BY <1>1 DEF SetFollow
<1>2. ASSUME NEW a \in ToSet(Accounts), SetSource(a)
      PROVE  SweepsInv'
  BY <1>2 DEF SetSource
<1>3. ASSUME NEW a \in ToSet(Accounts), Revoke(a)
      PROVE  SweepsInv'
  BY <1>3, AttemptsAreNumbers DEF Revoke
<1> QED
  BY <1>1, <1>2, <1>3 DEF Operator

LEMMA StartKeeps ==
  ASSUME SweepsInv, Start, UNCHANGED <<operatorVars, swept, faults>>
  PROVE  SweepsInv'
<1>1. 0 \in 0 .. FullEvery - 1 /\ 0 \in 0 .. MaxAttempts
  BY SweepsAssumption
<1>2. LoopInv'
  BY DEF Start, LoopInv, Connecting
<1> QED
  BY <1>1, <1>2 DEF Start, operatorVars, SweepsInv, SweepsTypeOK
----------------------------------------------------------------------------
(* The certificate *)

CertInv == CertTypeOK /\ ReloadInv /\ StampHonest

LEMMA CertBegins == CertInit => CertInv
<1> SUFFICES ASSUME CertInit
             PROVE  CertInv
  OBVIOUS
<1>1. 1 \in Versions
  BY RenewalsAssumption DEF Versions
<1>2. CertTypeOK
  BY <1>1 DEF CertInit, CertTypeOK, Starting
<1>3. ReloadInv /\ StampHonest
  BY DEF CertInit, ReloadInv, ReadWhole, NoneAhead, ReadPresent, StampHonest,
         Listening, Starting
<1> QED
  BY <1>2, <1>3 DEF CertInv

(* One lemma per part of the invariant. *)
LEMMA CertificateIsAFile == Certificate \in Files
BY DEF Files

LEMMA OnDisk ==
  ASSUME CertTypeOK
  PROVE  disk[Certificate] \in Versions \cup {Half}
BY CertificateIsAFile DEF CertTypeOK

LEMMA CertTypeStep ==
  ASSUME CertTypeOK, ReadWhole
  PROVE  Reloader \/ Certbot \/ Renew \/ Down => CertTypeOK'
<1> USE DEF CertTypeOK, Starting, diskVars, loadedVars
<1>1. ASSUME NewCert
      PROVE  CertTypeOK'
  BY <1>1, OnDisk DEF NewCert
<1>2. ASSUME NewKey
      PROVE  CertTypeOK'
  BY <1>2 DEF ReadWhole, NewKey
<1>3. ASSUME NewStamp
      PROVE  CertTypeOK'
  BY <1>3 DEF NewStamp
<1>4. ASSUME Stat
      PROVE  CertTypeOK'
  BY <1>4 DEF Stat
<1>5. ASSUME LoadCert
      PROVE  CertTypeOK'
  BY <1>5, OnDisk DEF LoadCert
<1>6. ASSUME LoadKey
      PROVE  CertTypeOK'
  BY <1>6 DEF ReadWhole, LoadKey
<1>7. ASSUME NEW f \in Files, Write(f)
      PROVE  CertTypeOK'
  <2>1. /\ disk' \in [Files -> Versions \cup {Half}]
        /\ todo' \subseteq Files /\ written' \in Nat
    <3>1. todo' \subseteq Files
      BY <1>7 DEF Write
    <3>2. written' \in Nat
      <4>1. written' = written \/ written' = written + 1
        BY <1>7 DEF Write
      <4>2. written \in Nat
        OBVIOUS
      <4> HIDE DEF CertTypeOK
      <4> QED
        BY <4>1, <4>2
    <3>3. disk' \in [Files -> Versions \cup {Half}]
      BY <1>7 DEF Write
    <3> QED
      BY <3>1, <3>2, <3>3
  <2> QED
    BY <1>7, <2>1 DEF Write
<1>8. ASSUME Renew
      PROVE  CertTypeOK'
  <2>1. newest' \in Versions
    <3>1. newest \in Versions /\ newest <= MaxRenewals /\ newest' = newest + 1
      BY <1>8 DEF Renew
    <3> HIDE DEF CertTypeOK
    <3> QED
      BY <3>1, RenewalsAssumption DEF Versions
  <2> QED
    BY <1>8, <2>1 DEF Renew
<1>9. ASSUME Down
      PROVE  CertTypeOK'
  BY <1>9 DEF Down
<1> QED
  BY <1>1, <1>2, <1>3, <1>4, <1>5, <1>6, <1>7, <1>8, <1>9 DEF Reloader, Certbot

LEMMA WholeStep ==
  ASSUME ReadWhole
  PROVE  Reloader \/ Certbot \/ Renew \/ Down => ReadWhole'
<1> USE DEF ReadWhole, diskVars, loadedVars
<1>1. ASSUME NewCert
      PROVE  ReadWhole'
  BY <1>1 DEF NewCert
<1>2. ASSUME NewKey
      PROVE  ReadWhole'
  BY <1>2 DEF NewKey
<1>3. ASSUME NewStamp
      PROVE  ReadWhole'
  BY <1>3 DEF NewStamp
<1>4. ASSUME Stat
      PROVE  ReadWhole'
  BY <1>4 DEF Stat
<1>5. ASSUME LoadCert
      PROVE  ReadWhole'
  BY <1>5 DEF LoadCert
<1>6. ASSUME LoadKey
      PROVE  ReadWhole'
  BY <1>6 DEF LoadKey
<1>7. ASSUME NEW f \in Files, Write(f)
      PROVE  ReadWhole'
  BY <1>7 DEF Write
<1>8. ASSUME Renew
      PROVE  ReadWhole'
  BY <1>8 DEF Renew
<1>9. ASSUME Down
      PROVE  ReadWhole'
  BY <1>9 DEF Down
<1> QED
  BY <1>1, <1>2, <1>3, <1>4, <1>5, <1>6, <1>7, <1>8, <1>9 DEF Reloader, Certbot

LEMMA AheadStep ==
  ASSUME written \in Nat, seen \in Nat, stamp \in Nat, NoneAhead
  PROVE  Reloader \/ Certbot \/ Renew \/ Down => NoneAhead'
<1> USE DEF NoneAhead, diskVars, loadedVars
<1>1. ASSUME NewCert
      PROVE  NoneAhead'
  BY <1>1 DEF NewCert
<1>2. ASSUME NewKey
      PROVE  NoneAhead'
  BY <1>2 DEF NewKey
<1>3. ASSUME NewStamp
      PROVE  NoneAhead'
  <2>1. stamp' = written /\ written' = written /\ seen' = seen
    BY <1>3 DEF NewStamp
  <2> QED
    BY <2>1
<1>4. ASSUME Stat
      PROVE  NoneAhead'
  BY <1>4 DEF Stat
<1>5. ASSUME LoadCert
      PROVE  NoneAhead'
  BY <1>5 DEF LoadCert
<1>6. ASSUME LoadKey
      PROVE  NoneAhead'
  BY <1>6 DEF LoadKey
<1>7. ASSUME NEW f \in Files, Write(f)
      PROVE  NoneAhead'
  BY <1>7 DEF Write
<1>8. ASSUME Renew
      PROVE  NoneAhead'
  BY <1>8 DEF Renew
<1>9. ASSUME Down
      PROVE  NoneAhead'
  BY <1>9 DEF Down
<1> QED
  BY <1>1, <1>2, <1>3, <1>4, <1>5, <1>6, <1>7, <1>8, <1>9 DEF Reloader, Certbot

LEMMA PresentStep ==
  ASSUME written \in Nat, seen \in Nat, NoneAhead, ReadPresent
  PROVE  Reloader \/ Certbot \/ Renew \/ Down => ReadPresent'
<1> USE DEF ReadPresent, diskVars, loadedVars
<1>1. ASSUME NewCert
      PROVE  ReadPresent'
  BY <1>1 DEF NewCert
<1>2. ASSUME NewKey
      PROVE  ReadPresent'
  BY <1>2 DEF NewKey
<1>3. ASSUME NewStamp
      PROVE  ReadPresent'
  BY <1>3 DEF NewStamp
<1>4. ASSUME Stat
      PROVE  ReadPresent'
  BY <1>4 DEF Stat
<1>5. ASSUME LoadCert
      PROVE  ReadPresent'
  BY <1>5 DEF LoadCert
<1>6. ASSUME LoadKey
      PROVE  ReadPresent'
  BY <1>6 DEF LoadKey
<1>7. ASSUME NEW f \in Files, Write(f)
      PROVE  ReadPresent'
  <2>1. CASE f = Certificate
    <3>1. seen' # written'
      BY <1>7, <2>1 DEF Write, NoneAhead
    <3> QED
      BY <3>1
  <2>2. CASE f # Certificate
    <3>1. written' = written /\ disk'[Certificate] = disk[Certificate]
      BY <1>7, <2>2, CertificateIsAFile DEF Write
    <3> QED
      BY <1>7, <3>1 DEF Write
  <2> QED
    BY <2>1, <2>2
<1>8. ASSUME Renew
      PROVE  ReadPresent'
  BY <1>8 DEF Renew
<1>9. ASSUME Down
      PROVE  ReadPresent'
  BY <1>9 DEF Down
<1> QED
  BY <1>1, <1>2, <1>3, <1>4, <1>5, <1>6, <1>7, <1>8, <1>9 DEF Reloader, Certbot

LEMMA StampStep ==
  ASSUME written \in Nat, stamp \in Nat, raced \in BOOLEAN,
         NoneAhead, ReadPresent, StampHonest
  PROVE  Reloader \/ Certbot \/ Renew \/ Down => StampHonest'
<1> USE DEF StampHonest, Starting, Listening, diskVars, loadedVars
<1>1. ASSUME NewCert
      PROVE  StampHonest'
  BY <1>1 DEF NewCert
<1>2. ASSUME NewKey
      PROVE  StampHonest'
  BY <1>2 DEF NewKey
<1>3. ASSUME NewStamp
      PROVE  StampHonest'
  BY <1>3 DEF NewStamp
<1>4. ASSUME Stat
      PROVE  StampHonest'
  BY <1>4 DEF Stat
<1>5. ASSUME LoadCert
      PROVE  StampHonest'
  BY <1>5 DEF LoadCert
<1>6. ASSUME LoadKey
      PROVE  StampHonest'
  BY <1>6 DEF ReadPresent, LoadKey
<1>7. ASSUME NEW f \in Files, Write(f)
      PROVE  StampHonest'
  <2>1. CASE f = Certificate
    <3>1. stamp' = stamp /\ written' = written + 1 /\ stamp <= written
      <4> HIDE DEF StampHonest
      <4> QED
        BY <1>7, <2>1 DEF Write, NoneAhead
    <3>2. stamp' # written'
      <4> HIDE DEF StampHonest
      <4> QED
        BY <3>1
    <3> QED
      BY <3>2
  <2>2. CASE f # Certificate
    <3>1. written' = written /\ disk'[Certificate] = disk[Certificate]
      <4> HIDE DEF StampHonest
      <4> QED
        BY <1>7, <2>2, CertificateIsAFile DEF Write
    <3> QED
      BY <1>7, <3>1 DEF Write
  <2> QED
    BY <2>1, <2>2
<1>8. ASSUME Renew
      PROVE  StampHonest'
  BY <1>8 DEF Renew
<1>9. ASSUME Down
      PROVE  StampHonest'
  BY <1>9 DEF Down
<1> QED
  BY <1>1, <1>2, <1>3, <1>4, <1>5, <1>6, <1>7, <1>8, <1>9 DEF Reloader, Certbot

LEMMA CertStep ==
  ASSUME CertInv, Reloader \/ Certbot \/ Renew \/ Down
  PROVE  CertInv'
<1>1. CertTypeOK'
  BY CertTypeStep DEF CertInv, ReloadInv
<1>2. ReadWhole'
  BY WholeStep DEF CertInv, ReloadInv
<1>3. NoneAhead'
  BY AheadStep DEF CertInv, ReloadInv, CertTypeOK
<1>4. ReadPresent'
  BY PresentStep DEF CertInv, ReloadInv, CertTypeOK
<1>5. StampHonest'
  BY StampStep DEF CertInv, ReloadInv, CertTypeOK
<1> QED
  BY <1>1, <1>2, <1>3, <1>4, <1>5 DEF CertInv, ReloadInv

LEMMA SweepsStay ==
  ASSUME SweepsInv, UNCHANGED sweepVars
  PROVE  SweepsInv'
BY DEF SweepsInv, SweepsTypeOK, LoopInv, Account, sweepVars, operatorVars, loopVars

LEMMA CertStays ==
  ASSUME CertInv, UNCHANGED certVars
  PROVE  CertInv'
BY DEF CertInv, CertTypeOK, ReloadInv, ReadWhole, NoneAhead, ReadPresent,
       StampHonest, Listening, certVars, diskVars, loadedVars
----------------------------------------------------------------------------
(* The process *)

LEMMA Inductive == Spec => []IndInv
<1>1. Init => IndInv
  BY SweepsBegin, CertBegins, RestartsAssumption
  DEF Init, IndInv, TypeOK, SweepsInv, CertInv
<1>2. IndInv /\ [Next]_vars => IndInv'
  <2> SUFFICES ASSUME IndInv, [Next]_vars
               PROVE  IndInv'
    OBVIOUS
  <2>0. SweepsInv /\ CertInv /\ restarts \in 0 .. MaxRestarts
    BY DEF IndInv, TypeOK, SweepsInv, CertInv
  <2>1. CASE Schedule
    BY <2>0, <2>1, LoopKeeps, CertStays DEF Schedule, IndInv, TypeOK, SweepsInv, CertInv
  <2>2. CASE Reload
    BY <2>0, <2>2, SweepsStay, CertStep DEF Reload, IndInv, TypeOK, SweepsInv, CertInv
  <2>3. CASE Replace
    BY <2>0, <2>3, SweepsStay, CertStep DEF Replace, IndInv, TypeOK, SweepsInv, CertInv
  <2>4. CASE Operator /\ UNCHANGED <<certVars, restarts>>
    BY <2>0, <2>4, OperatorKeeps, CertStays DEF IndInv, TypeOK, SweepsInv, CertInv
  <2>5. CASE Renew /\ UNCHANGED <<sweepVars, restarts>>
    BY <2>0, <2>5, SweepsStay, CertStep DEF IndInv, TypeOK, SweepsInv, CertInv
  <2>6. CASE Restart
    <3>1. SweepsInv' /\ CertInv'
      BY <2>0, <2>6, StartKeeps, CertStep DEF Restart
    <3>2. restarts' \in 0 .. MaxRestarts
      BY <2>0, <2>6, RestartsAssumption DEF Restart
    <3> QED
      BY <3>1, <3>2 DEF IndInv, TypeOK, SweepsInv, CertInv
  <2>7. CASE UNCHANGED vars
    BY <2>0, <2>7, SweepsStay, CertStays DEF vars, IndInv, TypeOK, SweepsInv, CertInv
  <2> QED
    BY <2>1, <2>2, <2>3, <2>4, <2>5, <2>6, <2>7 DEF Next
<1> QED
  BY <1>1, <1>2, PTL DEF Spec

(* Every variable has its type: no folder is attempted more than MAX_ATTEMPTS
   times in a sweep, whatever fails. *)
THEOREM TypeCorrect == Spec => []TypeOK
<1>1. IndInv => TypeOK
  BY DEF IndInv
<1> QED
  BY <1>1, Inductive, PTL

(* A stamp that matches the file means that the certificate served is the one
   on disk, unless new raced with a renewal. *)
THEOREM StampIsHonest == Spec => []StampHonest
<1>1. IndInv => StampHonest
  BY DEF IndInv
<1> QED
  BY <1>1, Inductive, PTL

(* A sweep comes to its end whatever fails on the way: the accounts, the
   folders, the attempts and the stages it has left only ever decrease. *)
THEOREM SweepsEnd == Spec => SweepEnds
<1>1. IndInv => SweepsInv
  BY DEF IndInv, TypeOK, SweepsInv
<1>2. IndInv /\ [Next]_vars => [Loop /\ at # "sleep" => Advances]_sweepVars
  BY <1>1, LoopAdvances
<1> QED
  BY <1>2, Inductive, PTL DEF Spec, SweepEnds
=============================================================================
