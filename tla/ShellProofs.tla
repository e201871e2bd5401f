----------------------------- MODULE ShellProofs -----------------------------
(***************************************************************************)
(* Theorems about Shell, for any folders, messages and searches.           *)
(***************************************************************************)
EXTENDS Shell, Integers, SequenceTheorems, WellFoundedInduction, TLAPS

(* The reading pane: its types, and that it is honest. *)
Pane ==
  /\ open \in Messages \cup {None}
  /\ remote \in BOOLEAN /\ html \in BOOLEAN
  /\ fetch \in Details \cup {None} /\ shown \in Details \cup {None}
  /\ consent \in Messages \cup {None}
  /\ RequestHonest /\ ReaderShows

(* The list and what the server knows. *)
Rows ==
  /\ selected \in Folders \cup {None} /\ query \in Searches \cup {None}
  /\ list \in [stage : Stages, grey : SUBSET Places]
  /\ list.stage = "away" <=> (query = None /\ selected = None)
  /\ list.grey \subseteq Listed
  /\ seen \subseteq Places /\ failed \subseteq Places
  /\ marks \in [Places -> 0 .. MaxMarks]
  /\ GreyHonest

LEMMA Parts == IndInv <=> expanded \subseteq Parents /\ Pane /\ Rows
BY DEF IndInv, TypeOK, Pane, Rows

(* The names of nothing are the names of no thing. *)
LEMMA NoneIsNone ==
  /\ None \notin Messages /\ None \notin Searches /\ None \notin Folders
  /\ \A r \in Details : r # None => r.message # None
BY ShellAssumption DEF Details

LEMMA ReadKeepsPane ==
  ASSUME Pane, NEW m \in Messages \cup {None}, Read(m)
  PROVE  Pane'
<1>1. CASE m = open
  BY <1>1 DEF Read, Pane, reader, RequestHonest, ReaderShows
<1>2. CASE m # open
  <2>1. m # None => /\ Request(m, FALSE) \in Details
                    /\ Request(m, FALSE).message = m
                    /\ ~Request(m, FALSE).images
    BY DEF Request, Details
  <2> QED
    BY <1>2, <2>1 DEF Read, Pane, RequestHonest, ReaderShows
<1> QED
  BY <1>1, <1>2

(* The list that is asked for has no row in grey, and nor has no list. *)
LEMMA FreshRows ==
  ASSUME Rows, UNCHANGED server,
         selected' \in Folders \cup {None}, query' \in Searches \cup {None},
         \/ list' = Asked /\ (query' # None \/ selected' # None)
         \/ list' = Away /\ query' = None /\ selected' = None
         \/ /\ \E s \in Stages : /\ list' = [stage |-> s, grey |-> {}]
                                 /\ s # "away"
            /\ query' # None \/ selected' # None
  PROVE  Rows'
BY DEF Rows, server, Asked, Away, Stages, GreyHonest

LEMMA RowsStay ==
  ASSUME Rows, UNCHANGED <<lists, server>>
  PROVE  Rows'
BY DEF Rows, lists, server, GreyHonest, Listed

LEMMA PaneStays ==
  ASSUME Pane, UNCHANGED <<open, reader>>
  PROVE  Pane'
BY DEF Pane, reader, RequestHonest, ReaderShows

(* Every step keeps the pane as it should be. *)
LEMMA PaneStep ==
  ASSUME Pane, Rows, [Next]_vars
  PROVE  Pane'
<1>1. ASSUME NEW p \in Places, OpenHit(p) \/ OpenMessage(p)
      PROVE  Pane'
  <2>1. MessageAt(p) \in Messages
    BY DEF Messages
  <2> QED
    BY <1>1, <2>1, ReadKeepsPane DEF OpenHit, OpenMessage
<1>2. ASSUME Read(None)
      PROVE  Pane'
  BY <1>2, ReadKeepsPane
<1>3. CASE Answer
  BY <1>3, NoneIsNone DEF Answer, Pane, RequestHonest, ReaderShows
<1>4. CASE NoAnswer
  BY <1>4 DEF NoAnswer, Pane, RequestHonest, ReaderShows
<1>5. CASE SwitchBody
  BY <1>5 DEF SwitchBody, Pane, RequestHonest, ReaderShows
<1>6. CASE LoadImages
  <2>1. open # None /\ open \in Messages /\ shown # None /\ shown.message = open
        /\ ~shown.images
    BY <1>6, NoneIsNone
    DEF LoadImages, ShowingHtml, Pane, RequestHonest, ReaderShows
  <2>2. /\ Request(open, TRUE) \in Details
        /\ Request(open, TRUE).message = open
    BY <2>1 DEF Request, Details
  <2> QED
    BY <1>6, <2>1, <2>2 DEF LoadImages, Pane, RequestHonest, ReaderShows
<1>7. ASSUME UNCHANGED <<open, reader>>
      PROVE  Pane'
  BY <1>7, PaneStays
<1>8. \/ UNCHANGED <<open, reader>>
      \/ Read(None) \/ Answer \/ NoAnswer \/ SwitchBody \/ LoadImages
      \/ \E p \in Places : OpenHit(p) \/ OpenMessage(p)
  BY DEF Next, vars, Toggle, Select, SubmitSearch, SetScope, Clear, ServeList,
         ReceiveList, FailList, SetSeen, FailSeen, SeenElsewhere, Mount
<1> QED
  BY <1>1, <1>2, <1>3, <1>4, <1>5, <1>6, <1>7, <1>8

(* Every step keeps the rows as they should be. *)
LEMMA RowsStep ==
  ASSUME Rows, [Next]_vars
  PROVE  Rows'
<1> USE NoneIsNone
<1>1. ASSUME NEW f \in Folders, Select(f)
      PROVE  Rows'
  <2>1. CASE list' = Asked
    <3>1. /\ selected' \in Folders \cup {None} /\ selected' # None
          /\ query' = query /\ query \in Searches \cup {None}
          /\ UNCHANGED server
      BY <1>1 DEF Select, Rows
    <3> QED
      BY <2>1, <3>1, FreshRows
  <2>2. CASE ~(query = None /\ f # selected)
    <3>1. /\ list' = list /\ query' = query /\ selected' = f
          /\ UNCHANGED server
          /\ query # None \/ f = selected
      BY <1>1, <2>2 DEF Select
    <3>2. Listed' = Listed
      BY <3>1 DEF Listed
    <3>3. list.stage # "away" /\ f # None
      BY <3>1 DEF Rows
    <3>4. UNCHANGED <<seen, marks, failed>>
      BY <3>1 DEF server
    <3> QED
      BY <3>1, <3>2, <3>3, <3>4 DEF Rows, GreyHonest
  <2> QED
    BY <1>1, <2>1, <2>2 DEF Select
<1>2. ASSUME NEW q \in Searches, SubmitSearch(q)
      PROVE  Rows'
  <2>1. CASE q # query
    <3>1. /\ query' = q /\ list' = Asked /\ selected' = selected
          /\ UNCHANGED server
      BY <1>2, <2>1 DEF SubmitSearch
    <3> QED
      BY <3>1, FreshRows DEF Rows
  <2>2. CASE q = query
    <3>1. UNCHANGED <<lists, server>>
      BY <1>2, <2>2 DEF SubmitSearch, lists
    <3> QED
      BY <3>1, RowsStay
  <2> QED
    BY <2>1, <2>2
<1>3. ASSUME NEW q \in Searches, SetScope(q)
      PROVE  Rows'
  <2>1. /\ query' = q /\ list' = Asked /\ selected' = selected
        /\ UNCHANGED server
    BY <1>3 DEF SetScope
  <2> QED
    BY <2>1, FreshRows DEF Rows
<1>4. CASE Clear
  <2>1. /\ query' = None /\ selected' = selected /\ UNCHANGED server
        /\ list' = IF selected = None THEN Away ELSE Asked
    BY <1>4 DEF Clear
  <2> QED
    BY <2>1, FreshRows DEF Rows
<1>5. CASE ServeList
  <2>1. list' = [stage |-> "coming", grey |-> Listed \cap seen]
        /\ list.stage = "asked" /\ UNCHANGED <<selected, query, server>>
    BY <1>5 DEF ServeList
  <2>2. Listed' = Listed
    BY <2>1 DEF Listed
  <2>3. Listed \cap seen \in SUBSET Places
    BY DEF Rows
  <2> QED
    BY <2>1, <2>2, <2>3 DEF Rows, server, Stages, GreyHonest
<1>6. CASE ReceiveList
  <2>1. list' = [list EXCEPT !.stage = "there"]
        /\ list.stage = "coming" /\ UNCHANGED <<selected, query, server>>
    BY <1>6 DEF ReceiveList
  <2>2. Listed' = Listed
    BY <2>1 DEF Listed
  <2> QED
    BY <2>1, <2>2 DEF Rows, server, Stages, GreyHonest
<1>7. CASE FailList
  <2>1. /\ list' = [stage |-> "failed", grey |-> {}]
        /\ list.stage # "away" /\ UNCHANGED <<selected, query, server>>
    BY <1>7 DEF FailList
  <2>2. query # None \/ selected # None
    BY <2>1 DEF Rows
  <2>3. "failed" \in Stages /\ "failed" # "away"
    BY DEF Stages
  <2> QED
    BY <2>1, <2>2, <2>3, FreshRows DEF Rows
<1>8. ASSUME NEW p \in Places, OpenMessage(p)
      PROVE  Rows'
  <2>1. /\ UNCHANGED <<selected, query, seen, failed>> /\ p \in Listed
        /\ \/ UNCHANGED <<list, marks>>
           \/ /\ list' = [list EXCEPT !.grey = @ \cup {p}]
              /\ marks' = [marks EXCEPT ![p] = @ + 1] /\ marks[p] < MaxMarks
    BY <1>8 DEF OpenMessage
  <2>2. Listed' = Listed
    BY <2>1 DEF Listed
  <2>3. CASE UNCHANGED <<list, marks>>
    BY <2>1, <2>2, <2>3 DEF Rows, GreyHonest
  <2>4. CASE /\ list' = [list EXCEPT !.grey = @ \cup {p}]
             /\ marks' = [marks EXCEPT ![p] = @ + 1] /\ marks[p] < MaxMarks
    <3>1. marks' \in [Places -> 0 .. MaxMarks] /\ marks'[p] > 0
          /\ \A q \in Places : marks'[q] >= marks[q]
      BY <2>4, ShellAssumption DEF Rows
    <3>2. /\ list' \in [stage : Stages, grey : SUBSET Places]
          /\ list'.stage = list.stage /\ list'.grey = list.grey \cup {p}
      BY <2>4 DEF Rows
    <3>3. GreyHonest'
      BY <2>1, <3>1, <3>2, ShellAssumption DEF Rows, GreyHonest
    <3> QED
      BY <2>1, <2>2, <3>1, <3>2, <3>3 DEF Rows
  <2> QED
    BY <2>1, <2>3, <2>4
<1>9. ASSUME NEW p \in Places, SetSeen(p) \/ FailSeen(p)
      PROVE  Rows'
  <2>1. /\ UNCHANGED lists /\ marks[p] > 0
        /\ marks' = [marks EXCEPT ![p] = @ - 1]
        /\ seen \subseteq seen' /\ seen' \subseteq seen \cup {p}
        /\ failed \subseteq failed' /\ failed' \subseteq failed \cup {p}
        /\ p \in seen' \/ p \in failed'
    BY <1>9 DEF SetSeen, FailSeen
  <2>2. marks' \in [Places -> 0 .. MaxMarks]
        /\ \A q \in Places : q # p => marks'[q] = marks[q]
    BY <2>1, ShellAssumption DEF Rows
  <2>3. Listed' = Listed /\ UNCHANGED <<selected, query, list>>
    BY <2>1 DEF Listed, lists
  <2>4. GreyHonest'
    BY <2>1, <2>2, <2>3 DEF Rows, GreyHonest
  <2> QED
    BY <2>1, <2>2, <2>3, <2>4 DEF Rows
<1>10. ASSUME NEW p \in Places, SeenElsewhere(p)
       PROVE  Rows'
  <2>1. UNCHANGED <<selected, query, list, marks, failed>> /\ seen' = seen \cup {p}
    BY <1>10 DEF SeenElsewhere, lists
  <2>2. Listed' = Listed
    BY <2>1 DEF Listed
  <2> QED
    BY <2>1, <2>2 DEF Rows, GreyHonest
<1>11. CASE Mount
  BY <1>11, FreshRows DEF Mount
<1>12. ASSUME UNCHANGED <<lists, server>>
       PROVE  Rows'
  BY <1>12, RowsStay
<1> QED
  BY <1>1, <1>2, <1>3, <1>4, <1>5, <1>6, <1>7, <1>8, <1>9, <1>10, <1>11, <1>12
  DEF Next, vars, Toggle, OpenHit, Answer, NoAnswer, SwitchBody, LoadImages

LEMMA IndInvInit == Init => IndInv
<1> SUFFICES ASSUME Init
             PROVE  IndInv
  OBVIOUS
<1>1. marks \in [Places -> 0 .. MaxMarks]
  BY ShellAssumption DEF Init
<1>2. Pane
  BY DEF Init, Pane, RequestHonest, ReaderShows
<1>3. list = [stage |-> "away", grey |-> {}] /\ "away" \in Stages
  BY DEF Init, Away, Stages
<1>4. Rows
  BY <1>1, <1>3 DEF Init, Rows, GreyHonest
<1> QED
  BY <1>2, <1>4, Parts DEF Init

LEMMA ExpandedStep ==
  expanded \subseteq Parents /\ [Next]_vars => expanded' \subseteq Parents
BY DEF Next, vars, tree, Toggle, Select, SubmitSearch, SetScope, Clear, ServeList,
       ReceiveList, FailList, OpenHit, OpenMessage, SetSeen, FailSeen,
       SeenElsewhere, Answer, NoAnswer, SwitchBody, LoadImages, Mount

LEMMA IndInvStep == IndInv /\ [Next]_vars => IndInv'
<1> SUFFICES ASSUME IndInv, [Next]_vars
             PROVE  IndInv'
  OBVIOUS
<1>1. expanded' \subseteq Parents /\ Pane' /\ Rows'
  BY Parts, ExpandedStep, PaneStep, RowsStep
<1> QED
  BY <1>1 DEF IndInv, TypeOK, Pane, Rows

LEMMA Inductive == Spec => []IndInv
BY IndInvInit, IndInvStep, PTL DEF Spec

(* Every variable of the three panes has its type. *)
THEOREM TypeCorrect == Spec => []TypeOK
<1>1. IndInv => TypeOK
  BY DEF IndInv
<1> QED
  BY <1>1, Inductive, PTL

(* The pane shows what was opened, and images only if they were asked for. *)
THEOREM ReaderIsHonest == Spec => []ReaderShows
<1>1. IndInv => ReaderShows
  BY DEF IndInv
<1> QED
  BY <1>1, Inductive, PTL

(* A row in grey is one the archive knows of, or was told in vain. *)
THEOREM GreyIsHonest == Spec => []GreyHonest
<1>1. IndInv => GreyHonest
  BY DEF IndInv
<1> QED
  BY <1>1, Inductive, PTL
----------------------------------------------------------------------------
(* The tree, whichever of its nodes are open. *)

(* A set of naturals has a least member. *)
LEMMA Least ==
  ASSUME NEW K \in SUBSET Nat, K # {}
  PROVE  \E k \in K : \A j \in K : k <= j
<1>1. PICK k \in K : \A j \in K : <<j, k>> \notin OpToRel(<, Nat)
  BY WFMin, NatLessThanWellFounded, Zenon
<1>2. ASSUME NEW j \in K
      PROVE  ~(j < k)
  BY <1>1 DEF OpToRel
<1> QED
  BY <1>2

(* The beginning of a path that is k segments long. *)
Start(f, k) == SubSeq(f, 1, k)

LEMMA StartProperties ==
  ASSUME NEW f \in Seq(Segments), NEW k \in 1 .. Len(f)
  PROVE  /\ Start(f, k) \in Seq(Segments) /\ Len(Start(f, k)) = k
         /\ \A i \in 1 .. k : Start(f, k)[i] = f[i]
         /\ \A j \in 1 .. k : Start(Start(f, k), j) = Start(f, j)
         /\ Start(f, Len(f)) = f
<1>1. ASSUME NEW s \in Seq(Segments), NEW n \in 1 .. Len(s)
      PROVE  /\ Start(s, n) \in Seq(Segments) /\ Len(Start(s, n)) = n
             /\ \A i \in 1 .. n : Start(s, n)[i] = s[i]
  <2>1. \A i \in 1 .. n : s[i] \in Segments
    OBVIOUS
  <2>2. 1 \in Int /\ n \in Int
    BY LenProperties
  <2> HIDE DEF Start
  <2> QED
    BY <2>1, <2>2, SubSeqProperties DEF Start
<1>2. ASSUME NEW j \in 1 .. k
      PROVE  Start(Start(f, k), j) = Start(f, j)
  <2>1. /\ Start(f, k) \in Seq(Segments) /\ Len(Start(f, k)) = k
        /\ \A i \in 1 .. k : Start(f, k)[i] = f[i]
    BY <1>1
  <2>2. j \in 1 .. Len(f) /\ j \in 1 .. Len(Start(f, k))
    BY <2>1, LenProperties
  <2>3. /\ Start(f, j) \in Seq(Segments) /\ Len(Start(f, j)) = j
        /\ \A i \in 1 .. j : Start(f, j)[i] = f[i]
    BY <1>1, <2>2
  <2>4. /\ Start(Start(f, k), j) \in Seq(Segments)
        /\ Len(Start(Start(f, k), j)) = j
        /\ \A i \in 1 .. j : Start(Start(f, k), j)[i] = Start(f, k)[i]
    BY <1>1, <2>1, <2>2
  <2>5. \A i \in 1 .. j : Start(Start(f, k), j)[i] = Start(f, j)[i]
    BY <2>1, <2>3, <2>4
  <2> QED
    BY <2>3, <2>4, <2>5, SeqEqual
<1>3. Start(f, Len(f)) = f
  BY SubSeqFull DEF Start
<1> QED
  BY <1>1, <1>2, <1>3

(* Who counts a folder: a beginning of its path. *)
LEMMA CountedByStart ==
  ASSUME NEW f \in Folders, NEW n \in Nodes, f \in Counted(n)
  PROVE  \E k \in 1 .. Len(f) : n = Start(f, k) /\ (k < Len(f) => n \notin expanded)
<1>1. f \in Seq(Segments) /\ f # <<>>
  BY ShellAssumption
<1>2. Len(f) \in Nat /\ Len(f) >= 1
  BY <1>1, LenProperties, EmptySeq
<1>3. CASE f = n
  BY <1>1, <1>2, <1>3, StartProperties
<1>4. CASE n \notin expanded /\ n \in Above(f)
  BY <1>2, <1>4 DEF Above, Start
<1> QED
  BY <1>3, <1>4 DEF Counted

LEMMA AboveStart ==
  ASSUME NEW f \in Folders, NEW k \in 1 .. Len(f)
  PROVE  /\ Start(f, k) \in Nodes
         /\ Above(Start(f, k)) = {Start(f, j) : j \in 1 .. k - 1}
<1>1. f \in Seq(Segments)
  BY ShellAssumption
<1>2. Start(f, k) \in Nodes
  BY DEF Nodes, Start
<1>3. Len(Start(f, k)) = k /\ \A j \in 1 .. k : Start(Start(f, k), j) = Start(f, j)
  BY <1>1, StartProperties
<1>4. Above(Start(f, k)) = {Start(Start(f, k), j) : j \in 1 .. k - 1}
  BY <1>3 DEF Above, Start
<1>5. \A j \in 1 .. k - 1 : j \in 1 .. k
  BY <1>1, LenProperties
<1> QED
  BY <1>2, <1>3, <1>4, <1>5

LEMMA CountedOnce ==
  ASSUME NEW f \in Folders
  PROVE  /\ \E n \in OnScreen : f \in Counted(n)
         /\ \A m, n \in OnScreen :
              f \in Counted(m) /\ f \in Counted(n) => m = n
<1>1. /\ f \in Seq(Segments) /\ Len(f) \in Nat /\ Len(f) >= 1
      /\ Start(f, Len(f)) = f
  <2>1. f \in Seq(Segments) /\ f # <<>>
    BY ShellAssumption
  <2>2. Len(f) \in Nat /\ Len(f) >= 1
    BY <2>1, LenProperties, EmptySeq
  <2> QED
    BY <2>1, <2>2, StartProperties
<1>2. \E n \in OnScreen : f \in Counted(n)
  <2> DEFINE K == {k \in 1 .. Len(f) : k = Len(f) \/ Start(f, k) \notin expanded}
  <2>1. K \in SUBSET Nat /\ Len(f) \in K
    BY <1>1
  <2>2. PICK k \in K : \A j \in K : k <= j
    BY <2>1, Least
  <2>3. \A j \in 1 .. k - 1 : Start(f, j) \in expanded
    BY <1>1, <2>2
  <2>4. Start(f, k) \in OnScreen
    BY <2>2, <2>3, AboveStart DEF OnScreen
  <2>5. f \in Counted(Start(f, k))
    <3>1. CASE k = Len(f)
      BY <1>1, <3>1 DEF Counted
    <3>2. CASE k # Len(f)
      <4>1. k \in 1 .. Len(f) - 1 /\ Start(f, k) \notin expanded
        BY <1>1, <2>2, <3>2
      <4>2. Start(f, k) \in Above(f)
        BY <4>1 DEF Above, Start
      <4> QED
        BY <4>1, <4>2 DEF Counted
    <3> QED
      BY <3>1, <3>2
  <2> QED
    BY <2>4, <2>5
<1>3. ASSUME NEW m \in OnScreen, NEW n \in OnScreen,
             f \in Counted(m), f \in Counted(n)
      PROVE  m = n
  <2>1. m \in Nodes /\ n \in Nodes
    BY DEF OnScreen
  <2>2. PICK i \in 1 .. Len(f) :
          m = Start(f, i) /\ (i < Len(f) => m \notin expanded)
    BY <1>3, <2>1, CountedByStart
  <2>3. PICK j \in 1 .. Len(f) :
          n = Start(f, j) /\ (j < Len(f) => n \notin expanded)
    BY <1>3, <2>1, CountedByStart
  <2>4. ASSUME i < j
        PROVE  FALSE
    <3>1. m \in Above(n)
      BY <1>1, <2>2, <2>3, <2>4, AboveStart
    <3> QED
      BY <1>1, <2>2, <2>4, <3>1 DEF OnScreen
  <2>5. ASSUME j < i
        PROVE  FALSE
    <3>1. n \in Above(m)
      BY <1>1, <2>2, <2>3, <2>5, AboveStart
    <3> QED
      BY <1>1, <2>3, <2>5, <3>1 DEF OnScreen
  <2>6. i = j
    BY <1>1, <2>4, <2>5
  <2> QED
    BY <2>2, <2>3, <2>6
<1> QED
  BY <1>2, <1>3

(* Every folder is in the badge of exactly one node on the screen, whichever
   are open. *)
THEOREM NothingIsConcealed == Spec => []NothingConcealed
<1>1. IndInv => NothingConcealed
  BY CountedOnce DEF NothingConcealed
<1> QED
  BY <1>1, Inductive, PTL
=============================================================================
