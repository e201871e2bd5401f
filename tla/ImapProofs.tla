----------------------------- MODULE ImapProofs -----------------------------
(***************************************************************************)
(* Proofs about ImapSession, for any users, folders and messages, any      *)
(* names and delimiters, and either reading of a backward range.           *)
(***************************************************************************)
EXTENDS ImapSession, FiniteSetTheorems, SequenceTheorems, TLAPS

----------------------------------------------------------------------------
(* Names. *)

(* What is shown translates back, if the source does not use our delimiter
   but as its own. *)
LEMMA RoundTrip ==
  ASSUME NEW s \in Seq(Chars), NEW d \in Chars \cup {Unknown}, Reversible(s, d)
  PROVE  /\ ToDisplay(s, d) \in Seq(Chars)
         /\ FromDisplay(ToDisplay(s, d), d) = s
  <1>1. CASE ~Translates(d) BY <1>1 DEF ToDisplay, FromDisplay
  <1>2. CASE Translates(d)
    <2>1. d \in Chars /\ OURS \in Chars /\ d # OURS
      BY <1>2, NamingAssumption DEF Translates
    <2>2. PICK t : t = Replace(s, d, OURS) OBVIOUS
    <2>3. /\ t \in Seq(Chars) /\ Len(t) = Len(s)
          /\ \A i \in 1 .. Len(s) : t[i] = IF s[i] = d THEN OURS ELSE s[i]
      BY <2>1, <2>2 DEF Replace
    <2>4. PICK u : u = Replace(t, OURS, d) OBVIOUS
    <2>5. /\ u \in Seq(Chars) /\ Len(u) = Len(s)
          /\ \A i \in 1 .. Len(s) : u[i] = IF t[i] = OURS THEN d ELSE t[i]
      BY <2>1, <2>3, <2>4 DEF Replace
    <2>6. \A i \in 1 .. Len(s) : s[i] # OURS BY <1>2 DEF Reversible
    <2>7. \A i \in 1 .. Len(s) : u[i] = s[i] BY <2>1, <2>3, <2>5, <2>6
    <2>8. u = s BY <2>5, <2>7
    <2> QED BY <1>2, <2>2, <2>3, <2>4, <2>8 DEF ToDisplay, FromDisplay
  <1> QED BY <1>1, <1>2

(* n is l up to its first delimiter, and r behind it. *)
Splits(n, l, r) ==
  /\ n \in Seq(Chars)
  /\ Len(l) + 1 \in DOMAIN n /\ n[Len(l) + 1] = OURS
  /\ \A j \in 1 .. Len(l) : n[j] # OURS
  /\ SubSeq(n, 1, Len(l)) = l
  /\ SubSeq(n, Len(l) + 2, Len(n)) = r

LEMMA SplitsAtLabel ==
  ASSUME NEW l \in Seq(Chars), NEW r \in Seq(Chars),
         \A i \in DOMAIN l : l[i] # OURS
  PROVE  Splits(l \o <<OURS>> \o r, l, r)
  <1>a. PICK n : n = l \o <<OURS>> \o r OBVIOUS
  <1>1. <<OURS>> \in Seq(Chars) /\ Len(<<OURS>>) = 1 /\ <<OURS>>[1] = OURS
    BY NamingAssumption
  <1>2. PICK m : m = l \o <<OURS>> OBVIOUS
  <1>3. /\ m \in Seq(Chars)
        /\ Len(m) = Len(l) + 1 /\ m[Len(l) + 1] = OURS
        /\ \A j \in 1 .. Len(l) : m[j] = l[j]
    <2>1. /\ m \in Seq(Chars) /\ Len(m) = Len(l) + Len(<<OURS>>)
          /\ \A i \in 1 .. Len(l) + Len(<<OURS>>) :
               m[i] = IF i <= Len(l) THEN l[i] ELSE <<OURS>>[i - Len(l)]
      BY <1>1, <1>2, ConcatProperties
    <2>2. Len(l) \in Nat OBVIOUS
    <2> QED BY <1>1, <2>1, <2>2
  <1>4. n = m \o r BY <1>a, <1>2
  <1>5. /\ n \in Seq(Chars) /\ Len(n) = Len(m) + Len(r)
        /\ \A i \in 1 .. Len(m) + Len(r) :
             n[i] = IF i <= Len(m) THEN m[i] ELSE r[i - Len(m)]
    BY <1>3, <1>4, ConcatProperties
  <1>0. Len(l) \in Nat /\ Len(r) \in Nat /\ Len(m) \in Nat BY <1>3
  <1>6. \A j \in 1 .. Len(m) : n[j] = m[j] BY <1>0, <1>5
  <1>7. \A j \in 1 .. Len(r) : n[Len(m) + j] = r[j] BY <1>0, <1>5
  <1>8. SubSeq(n, 1, Len(l)) = l
    <2>1. /\ SubSeq(n, 1, Len(l)) \in Seq(Chars)
          /\ Len(SubSeq(n, 1, Len(l))) = Len(l)
          /\ \A j \in 1 .. Len(l) : SubSeq(n, 1, Len(l))[j] = n[j]
      BY <1>3, <1>5
    <2> QED BY <1>3, <1>6, <2>1
  <1>9. SubSeq(n, Len(l) + 2, Len(n)) = r
    <2>1. /\ SubSeq(n, Len(l) + 2, Len(n)) \in Seq(Chars)
          /\ Len(SubSeq(n, Len(l) + 2, Len(n))) = Len(r)
          /\ \A j \in 1 .. Len(r) :
               SubSeq(n, Len(l) + 2, Len(n))[j] = n[Len(m) + j]
      BY <1>3, <1>5
    <2>2. PICK u : u = SubSeq(n, Len(l) + 2, Len(n)) OBVIOUS
    <2>3. u \in Seq(Chars) /\ Len(u) = Len(r) /\ \A j \in 1 .. Len(r) : u[j] = r[j]
      BY <1>7, <2>1, <2>2
    <2>4. u = r BY <2>3, SeqEqual
    <2> QED BY <2>2, <2>4
  <1>10. Len(l) + 1 \in DOMAIN n /\ n[Len(l) + 1] = OURS
    BY <1>0, <1>3, <1>5, <1>6
  <1>11. \A j \in 1 .. Len(l) : n[j] # OURS BY <1>0, <1>3, <1>6
  <1>12. Splits(n, l, r) BY <1>5, <1>8, <1>9, <1>10, <1>11 DEF Splits
  <1> QED BY <1>a, <1>12

(* The folder a displayed name opens is the one it is the name of. *)
LEMMA NameOpens ==
  ASSUME NEW f \in Folders,
         \A g \in Folders : delimiter[AccountOf[g]] \in Chars \cup {Unknown}
                            /\ Reversible(Source[g], delimiter[AccountOf[g]])
  PROVE  Found(Owner(f), DisplayName(f)) = {f}
  <1> DEFINE a == AccountOf[f]
             l == Label[a]
             r == ToDisplay(Source[f], delimiter[a])
             n == DisplayName(f)
  <1>1. a \in Accounts /\ l \in Seq(Chars) /\ Source[f] \in Seq(Chars)
        /\ \A i \in DOMAIN l : l[i] # OURS
    BY ImapAssumption
  <1>2. r \in Seq(Chars) /\ FromDisplay(r, delimiter[a]) = Source[f]
    BY <1>1, RoundTrip
  <1>3. /\ n \in Seq(Chars)
        /\ Len(l) + 1 \in DOMAIN n /\ n[Len(l) + 1] = OURS
        /\ \A j \in 1 .. Len(l) : n[j] # OURS
        /\ SubSeq(n, 1, Len(l)) = l
        /\ SubSeq(n, Len(l) + 2, Len(n)) = r
    <2>1. n = l \o <<OURS>> \o r BY DEF DisplayName
    <2>2. l \in Seq(Chars) /\ r \in Seq(Chars) BY <1>1, <1>2
    <2>3. \A i \in DOMAIN l : l[i] # OURS BY <1>1
    <2> HIDE DEF a, l, r, n
    <2> QED
      <3>1. Splits(n, l, r) BY <2>1, <2>2, <2>3, SplitsAtLabel
      <3> QED BY <3>1 DEF Splits
  <1>4. Len(l) \in Nat BY <1>1
  <1>5. Opens(n, f)
    <2>1. (Len(l) + 1) - 1 = Len(l) /\ (Len(l) + 1) + 1 = Len(l) + 2 BY <1>4
    <2> QED BY <1>2, <1>3, <2>1 DEF Opens
  <1>6. ASSUME NEW g \in Folders, Owner(g) = Owner(f), Opens(n, g)
        PROVE  g = f
    <2>1. PICK i \in DOMAIN n :
            /\ n[i] = OURS /\ \A j \in 1 .. (i - 1) : n[j] # OURS
            /\ SubSeq(n, 1, i - 1) = Label[AccountOf[g]]
            /\ Source[g] =
                 FromDisplay(SubSeq(n, i + 1, Len(n)), delimiter[AccountOf[g]])
      BY <1>6 DEF Opens
    <2>2. i = Len(l) + 1
      <3>1. i \in Nat \ {0} BY <1>3
      <3>2. ~(i < Len(l) + 1) BY <1>3, <1>4, <2>1, <3>1
      <3>3. ~(i > Len(l) + 1) BY <1>3, <1>4, <2>1, <3>1
      <3> QED BY <1>4, <3>1, <3>2, <3>3
    <2>3. i - 1 = Len(l) /\ i + 1 = Len(l) + 2 BY <1>4, <2>2
    <2>4. Label[AccountOf[g]] = l BY <1>3, <2>1, <2>3
    <2>5. AccountOf[g] = a
      BY <1>1, <1>6, <2>4, ImapAssumption DEF Owner
    <2>6. Source[g] = FromDisplay(r, delimiter[a]) BY <1>3, <2>1, <2>3, <2>5
    <2> QED BY <1>2, <2>5, <2>6, ImapAssumption
  <1> HIDE DEF n
  <1>7. Found(Owner(f), n) = {f} BY <1>5, <1>6 DEF Found
  <1> QED BY <1>7 DEF n

----------------------------------------------------------------------------
(* Positions. *)

(* A set numbered from 1 to n has n elements. *)
LEMMA NumberedCount ==
  ASSUME NEW S, NEW n \in Nat,
         {e.uid : e \in S} = 1 .. n,
         \A d, e \in S : d.uid = e.uid => d = e
  PROVE  Cardinality(S) = n
  <1> DEFINE g == [i \in 1 .. n |-> CHOOSE e \in S : e.uid = i]
  <1>1. \A i \in 1 .. n : \E e \in S : e.uid = i OBVIOUS
  <1>2. \A i \in 1 .. n : g[i] \in S /\ g[i].uid = i BY <1>1
  <1>3. g \in [1 .. n -> S] BY <1>2
  <1> HIDE DEF g
  <1>4. \A i, j \in 1 .. n : g[i] = g[j] => i = j BY <1>2
  <1>5. \A e \in S : \E i \in 1 .. n : g[i] = e
    <2> SUFFICES ASSUME NEW e \in S PROVE \E i \in 1 .. n : g[i] = e OBVIOUS
    <2>1. e.uid \in 1 .. n OBVIOUS
    <2>2. g[e.uid] = e BY <1>2, <2>1
    <2> QED BY <2>1, <2>2
  <1>6. g \in Bijection(1 .. n, S)
    <2>1. g \in Injection(1 .. n, S) BY <1>3, <1>4 DEF Injection, IsInjective
    <2>2. g \in Surjection(1 .. n, S) BY <1>3, <1>5 DEF Surjection
    <2> QED BY <2>1, <2>2 DEF Bijection
  <1>7. ExistsBijection(1 .. n, S) BY <1>6 DEF ExistsBijection
  <1> QED BY <1>7, FS_CountingElements

(* A folder has as many rows as its highest UID, and a row's position is its
   UID: that is all `*` and sequence numbers rest on. *)
LEMMA PositionIsUid ==
  ASSUME TypeOK, Numbered, NEW f \in Folders
  PROVE  /\ Cardinality(EntriesOf(f)) = next[f] - 1
         /\ \A e \in EntriesOf(f) :
              /\ e.uid \in 1 .. (next[f] - 1)
              /\ Position(e) = e.uid
  <1>1. next[f] \in Nat \ {0} BY DEF TypeOK
  <1>2. {e.uid : e \in EntriesOf(f)} = 1 .. (next[f] - 1) BY DEF Numbered
  <1>3. \A d, e \in EntriesOf(f) : d.uid = e.uid => d = e
    BY DEF Numbered, EntriesOf
  <1>4. Cardinality(EntriesOf(f)) = next[f] - 1
    BY <1>1, <1>2, <1>3, NumberedCount
  <1>5. ASSUME NEW e \in EntriesOf(f)
        PROVE  e.uid \in 1 .. (next[f] - 1) /\ Position(e) = e.uid
    <2>1. e.uid \in 1 .. (next[f] - 1) BY <1>2
    <2>2. e.folder = f BY DEF EntriesOf
    <2> DEFINE S == {d \in EntriesOf(f) : UpTo(d, e)}
    <2>3. {d.uid : d \in S} = 1 .. e.uid
      <3>1. \A d \in S : d.uid \in 1 .. e.uid BY <1>2, <2>1 DEF UpTo
      <3>2. ASSUME NEW u \in 1 .. e.uid PROVE \E d \in S : d.uid = u
        <4>1. u \in 1 .. (next[f] - 1) BY <1>1, <2>1
        <4>2. PICK d \in EntriesOf(f) : d.uid = u BY <1>2, <4>1
        <4> QED BY <2>1, <4>2 DEF UpTo
      <3> QED BY <3>1, <3>2
    <2>4. Cardinality(S) = e.uid
      <3>1. e.uid \in Nat BY <2>1
      <3>2. \A c, d \in S : c.uid = d.uid => c = d BY <1>3
      <3> HIDE DEF S
      <3> QED BY <2>3, <3>1, <3>2, NumberedCount
    <2> QED BY <2>1, <2>2, <2>4 DEF Position
  <1> QED BY <1>4, <1>5

----------------------------------------------------------------------------
LEMMA RecordTypes ==
  /\ Nothing \in Views /\ Nothing.folder = NoFolder
  /\ Idle \in Pendings /\ Idle.folder = NoFolder
  BY DEF Nothing, Idle, Views, Pendings

LEMMA InitHolds == Init => IndInv
  <1> SUFFICES ASSUME Init PROVE IndInv OBVIOUS
  <1>1. TypeOK
    <2>1. next \in [Folders -> Nat \ {0}] BY DEF Init
    <2> QED BY <2>1, ImapAssumption, RecordTypes DEF Init, TypeOK
  <1>2. Numbered BY ImapAssumption DEF Init, Numbered
  <1> QED
    BY <1>1, <1>2, ImapAssumption, RecordTypes
       DEF Init, IndInv, SelectionAgrees, PendingFits, ViewFits, QueueFits,
           MirrorFits, SyncFits, NothingMissed, NeverWrong, DelimitersKnown

----------------------------------------------------------------------------
(* The archive moves; the connection does not. *)

LEMMA ArchiveGrows ==
  ASSUME IndInv, TypeOK', Numbered', DelimitersKnown',
         UNCHANGED <<session, view, queue, mirror, due>>,
         \A f \in Folders : next[f] <= next'[f]
  PROVE  IndInv'
  <1> USE DEF IndInv
  <1>1. UNCHANGED <<user, selected, pending, view, queue, mirror, due>>
    BY DEF session
  <1>2. \A f \in Folders : next[f] \in Nat /\ next'[f] \in Nat BY DEF TypeOK
  <1>3. SelectionAgrees' /\ ViewFits' /\ NothingMissed' /\ NeverWrong'
    BY <1>1 DEF SelectionAgrees, ViewFits, NothingMissed, NeverWrong
  <1>4. PendingFits'
    BY <1>1, <1>2 DEF PendingFits, TypeOK, Pendings
  <1>5. QueueFits'
    <2>1. \A r \in queue : selected \in Folders /\ r.uid \in 1 .. (next'[selected] - 1)
      BY <1>2 DEF QueueFits, TypeOK
    <2> QED BY <1>1, <2>1 DEF QueueFits
  <1>6. MirrorFits'
    <2>1. \A f \in Folders : \A h \in mirror[f] : h.uid \in 1 .. (next'[f] - 1)
      BY <1>2 DEF MirrorFits
    <2> QED BY <1>1, <2>1 DEF MirrorFits, HoldsUid
  <1>7. SyncFits' BY <1>1 DEF SyncFits, HoldsUid
  <1> QED BY <1>3, <1>4, <1>5, <1>6, <1>7

LEMMA OwnerIsUser == \A f \in Folders : Owner(f) \in Users
  BY ImapAssumption DEF Owner

LEMMA ArriveHolds ==
  ASSUME IndInv, NEW f \in Folders, NEW m \in Messages, Arrive(f, m)
  PROVE  IndInv'
  <1>1. /\ next' = [next EXCEPT ![f] = @ + 1]
        /\ entries' = entries \cup {[folder |-> f, uid |-> next[f], msg |-> m]}
        /\ UNCHANGED <<delimiter, session, view, queue, mirror, due>>
        /\ cached' = cached \cup {<<Owner(f), m>>}
    BY DEF Arrive, Deliver
  <1>2. TypeOK /\ Numbered BY DEF IndInv
  <1>3. next[f] \in Nat \ {0} /\ \A g \in Folders : next[g] \in Nat \ {0}
    BY <1>2 DEF TypeOK
  <1> DEFINE new == [folder |-> f, uid |-> next[f], msg |-> m]
  <1>4. new \in Entry /\ new.folder = f /\ new.uid = next[f]
    BY <1>3 DEF Entry, Messages
  <1> HIDE DEF new
  <1>5. entries' = entries \cup {new} BY <1>1 DEF new
  <1>6. next' \in [Folders -> Nat \ {0}] /\ \A g \in Folders : next[g] <= next'[g]
    BY <1>1, <1>2, <1>3 DEF TypeOK
  <1>7. TypeOK'
    BY <1>1, <1>2, <1>4, <1>5, <1>6, OwnerIsUser DEF TypeOK, session
  <1>8. Numbered'
    <2>1. ASSUME NEW g \in Folders
          PROVE  {e.uid : e \in EntriesOf(g)'} = 1 .. (next'[g] - 1)
      <3>1. {e.uid : e \in EntriesOf(g)} = 1 .. (next[g] - 1) BY <1>2 DEF Numbered
      <3>2. CASE g = f
        <4>1. EntriesOf(g)' = EntriesOf(g) \cup {new}
          BY <1>4, <1>5, <3>2 DEF EntriesOf
        <4>2. {e.uid : e \in EntriesOf(g)'} = (1 .. (next[g] - 1)) \cup {next[f]}
          BY <1>4, <3>1, <4>1
        <4>3. next'[g] = next[f] + 1 BY <1>1, <1>2, <3>2 DEF TypeOK
        <4> QED BY <1>3, <3>2, <4>2, <4>3
      <3>3. CASE g # f
        <4>1. EntriesOf(g)' = EntriesOf(g) BY <1>4, <1>5, <3>3 DEF EntriesOf
        <4>2. next'[g] = next[g] BY <1>1, <1>2, <3>3 DEF TypeOK
        <4> QED BY <3>1, <4>1, <4>2
      <3> QED BY <3>2, <3>3
    <2>2. \A e \in entries : e.folder = f => e.uid # next[f]
      <3>1. \A e \in EntriesOf(f) : e.uid \in 1 .. (next[f] - 1) BY <1>2 DEF Numbered
      <3> QED BY <1>3, <3>1 DEF EntriesOf
    <2>3. \A d, e \in entries' : d.folder = e.folder /\ d.uid = e.uid => d = e
      BY <1>2, <1>4, <1>5, <2>2 DEF Numbered
    <2> QED BY <2>1, <2>3 DEF Numbered
  <1>9. DelimitersKnown' BY <1>1 DEF IndInv, DelimitersKnown
  <1> QED BY <1>1, <1>6, <1>7, <1>8, <1>9, ArchiveGrows

LEMMA RepairHolds ==
  ASSUME IndInv, NEW e \in entries, NEW m \in Contents, Repair(e, m)
  PROVE  IndInv'
  <1> DEFINE new == [e EXCEPT !.msg = m]
  <1>1. /\ entries' = (entries \ {e}) \cup {new}
        /\ UNCHANGED <<next, delimiter, session, view, queue, mirror, due>>
        /\ cached' = cached \cup {<<Owner(e.folder), m>>}
    BY DEF Repair, Fill
  <1>2. TypeOK /\ Numbered BY DEF IndInv
  <1>3. e \in Entry BY <1>2 DEF TypeOK
  <1>4. new \in Entry /\ new.folder = e.folder /\ new.uid = e.uid
    BY <1>3 DEF Entry
  <1> HIDE DEF new
  <1>5. TypeOK'
    <2>1. <<Owner(e.folder), m>> \in Users \X Messages
      BY <1>3, OwnerIsUser DEF Entry, Messages
    <2>2. entries' \in SUBSET Entry BY <1>1, <1>2, <1>4 DEF TypeOK
    <2>3. cached' \in SUBSET (Users \X Messages) BY <1>1, <1>2, <2>1 DEF TypeOK
    <2> QED BY <1>1, <1>2, <2>2, <2>3 DEF TypeOK, session
  <1>6. Numbered'
    <2>1. ASSUME NEW g \in Folders
          PROVE  {d.uid : d \in EntriesOf(g)'} = {d.uid : d \in EntriesOf(g)}
      <3>1. EntriesOf(g)' = IF g = e.folder THEN (EntriesOf(g) \ {e}) \cup {new}
                            ELSE EntriesOf(g)
        BY <1>1, <1>4 DEF EntriesOf
      <3>2. g = e.folder => e \in EntriesOf(g) BY DEF EntriesOf
      <3> QED BY <1>4, <3>1, <3>2
    <2>2. \A c, d \in entries' : c.folder = d.folder /\ c.uid = d.uid => c = d
      BY <1>1, <1>2, <1>4 DEF Numbered
    <2> QED BY <1>1, <1>2, <2>1, <2>2 DEF Numbered
  <1>7. DelimitersKnown' BY <1>1 DEF IndInv, DelimitersKnown
  <1>8. \A f \in Folders : next[f] <= next'[f] BY <1>1, <1>2 DEF TypeOK
  <1> QED BY <1>1, <1>5, <1>6, <1>7, <1>8, ArchiveGrows

LEMMA BackfillHolds ==
  ASSUME IndInv, NEW e \in entries, Backfill(e)
  PROVE  IndInv'
  <1>1. TypeOK /\ Numbered /\ DelimitersKnown BY DEF IndInv
  <1>2. TypeOK'
    <2>1. <<Owner(e.folder), e.msg>> \in Users \X Messages
      BY <1>1, OwnerIsUser DEF TypeOK, Entry, Messages
    <2> QED BY <1>1, <2>1 DEF Backfill, TypeOK, session
  <1>3. Numbered' /\ DelimitersKnown'
    BY <1>1 DEF Backfill, Numbered, EntriesOf, DelimitersKnown
  <1>4. \A f \in Folders : next[f] <= next'[f] BY <1>1 DEF Backfill, TypeOK
  <1> QED BY <1>2, <1>3, <1>4, ArchiveGrows DEF Backfill

LEMMA SetDelimiterHolds ==
  ASSUME IndInv, NEW a \in Accounts, NEW d \in Delimiters[a], SetDelimiter(a, d)
  PROVE  IndInv'
  <1>1. TypeOK /\ Numbered /\ DelimitersKnown BY DEF IndInv
  <1>2. d \in Chars \cup {Unknown} BY ImapAssumption
  <1>3. TypeOK' BY <1>1, <1>2 DEF SetDelimiter, TypeOK, session
  <1>4. Numbered' BY <1>1 DEF SetDelimiter, Numbered, EntriesOf
  <1>5. DelimitersKnown' BY <1>1 DEF SetDelimiter, DelimitersKnown, TypeOK
  <1>6. \A f \in Folders : next[f] <= next'[f] BY <1>1 DEF SetDelimiter, TypeOK
  <1> QED BY <1>3, <1>4, <1>5, <1>6, ArchiveGrows DEF SetDelimiter

----------------------------------------------------------------------------
(* The session moves; the archive does not, and nothing is on its way. *)

LEMMA Quiet ==
  ASSUME IndInv, UNCHANGED <<archive, mirror>>, queue' = {}, due' = {},
         user' \in Users \cup {NoUser}, selected' \in Folders \cup {NoFolder},
         pending' \in Pendings, view' \in Views,
         SelectionAgrees', PendingFits', ViewFits'
  PROVE  IndInv'
  <1> USE DEF IndInv
  <1>1. UNCHANGED <<next, entries, delimiter, cached, mirror>> BY DEF archive
  <1>2. TypeOK' BY <1>1 DEF TypeOK
  <1>3. Numbered' /\ DelimitersKnown'
    BY <1>1 DEF Numbered, EntriesOf, DelimitersKnown
  <1>4. QueueFits' /\ SyncFits' /\ NothingMissed' /\ NeverWrong'
    BY DEF QueueFits, SyncFits, NothingMissed, NeverWrong
  <1>5. MirrorFits' BY <1>1 DEF MirrorFits, HoldsUid
  <1> QED BY <1>2, <1>3, <1>4, <1>5

LEMMA LoginHolds ==
  ASSUME IndInv, NEW u \in Users, Login(u)
  PROVE  IndInv'
  <1>1. /\ user' = u /\ selected' = NoFolder /\ view' = Nothing
        /\ pending' = pending /\ pending.folder = NoFolder
    BY DEF Login, Ready
  <1>2. pending \in Pendings BY DEF IndInv, TypeOK
  <1>3. SelectionAgrees' /\ PendingFits' /\ ViewFits'
    BY <1>1, RecordTypes, ImapAssumption
       DEF SelectionAgrees, PendingFits, ViewFits
  <1> QED BY <1>1, <1>2, <1>3, RecordTypes, Quiet DEF Login, Ready

LEMMA SelectInboxHolds == ASSUME IndInv, SelectInbox PROVE IndInv'
  <1>1. /\ user' = user /\ selected' = NoFolder
        /\ view' = [folder |-> Inbox, exists |-> 0, uidnext |-> 1]
        /\ pending' = pending /\ pending.folder = NoFolder
    BY DEF SelectInbox, Ready
  <1>2. pending \in Pendings /\ user \in Users \cup {NoUser}
    BY DEF IndInv, TypeOK
  <1>3. view' \in Views /\ view'.folder = Inbox BY <1>1 DEF Views
  <1>4. SelectionAgrees' /\ PendingFits' /\ ViewFits'
    BY <1>1, <1>3, ImapAssumption DEF SelectionAgrees, PendingFits, ViewFits
  <1> QED BY <1>1, <1>2, <1>3, <1>4, Quiet DEF SelectInbox, Ready

LEMMA SelectHolds ==
  ASSUME IndInv, NEW name, Select(name)
  PROVE  IndInv'
  <1>1. PICK f \in Found(user, name) :
          pending' = [folder |-> f, uidnext |-> next[f]]
    BY DEF Select
  <1>2. f \in Folders /\ Owner(f) = user BY DEF Found
  <1>3. /\ UNCHANGED <<archive, user, selected, queue, mirror>>
        /\ view' = Nothing /\ due' = {} /\ queue = {}
    BY DEF Select, Ready
  <1>4. next' = next BY <1>3 DEF archive
  <1>5. /\ user \in Users \cup {NoUser} /\ selected \in Folders \cup {NoFolder}
        /\ next[f] \in Nat
    BY <1>2 DEF IndInv, TypeOK
  <1>6. /\ pending' \in Pendings
        /\ pending'.folder = f /\ pending'.uidnext = next[f]
    BY <1>1, <1>2, <1>5 DEF Pendings
  <1>7. SelectionAgrees'
    BY <1>3, RecordTypes, ImapAssumption DEF IndInv, SelectionAgrees
  <1>8. PendingFits'
    BY <1>2, <1>3, <1>4, <1>5, <1>6 DEF PendingFits
  <1>9. ViewFits' BY <1>3, RecordTypes, ImapAssumption DEF ViewFits
  <1> QED BY <1>3, <1>5, <1>6, <1>7, <1>8, <1>9, RecordTypes, Quiet

LEMMA SelectUnknownHolds ==
  ASSUME IndInv, NEW name, SelectUnknown(name)
  PROVE  IndInv'
  <1>1. /\ UNCHANGED <<archive, user, selected, pending, queue, mirror>>
        /\ view' = Nothing /\ due' = {} /\ queue = {}
        /\ pending.folder = NoFolder
    BY DEF SelectUnknown, Ready, session
  <1>2. /\ user \in Users \cup {NoUser} /\ selected \in Folders \cup {NoFolder}
        /\ pending \in Pendings
    BY DEF IndInv, TypeOK
  <1>3. SelectionAgrees' /\ PendingFits' /\ ViewFits'
    BY <1>1, RecordTypes, ImapAssumption
       DEF IndInv, SelectionAgrees, PendingFits, ViewFits
  <1> QED BY <1>1, <1>2, <1>3, RecordTypes, Quiet

LEMMA CountHolds == ASSUME IndInv, Count PROVE IndInv'
  <1> DEFINE f == pending.folder
  <1>1. /\ UNCHANGED <<archive, user, queue, mirror, due>>
        /\ selected' = f /\ pending' = Idle
        /\ view' = [folder |-> f, exists |-> Cardinality(EntriesOf(f)),
                    uidnext |-> pending.uidnext]
        /\ f # NoFolder
    BY DEF Count
  <1>2. /\ f \in Folders /\ pending.uidnext \in Nat
        /\ user \in Users \cup {NoUser}
    BY <1>1 DEF IndInv, TypeOK, Pendings
  <1>3. /\ Owner(f) = user /\ pending.uidnext <= next[f]
        /\ queue = {} /\ due = {}
    BY <1>2 DEF IndInv, PendingFits
  <1>4. Cardinality(EntriesOf(f)) = next[f] - 1 /\ next[f] \in Nat \ {0}
    BY <1>2, PositionIsUid DEF IndInv, TypeOK
  <1>5. /\ view' \in Views /\ view'.folder = f
        /\ view'.uidnext <= view'.exists + 1
    BY <1>1, <1>2, <1>3, <1>4 DEF Views
  <1> HIDE DEF f
  <1>6. SelectionAgrees' /\ PendingFits' /\ ViewFits'
    <2>1. user' = user BY <1>1
    <2> QED
      BY <1>1, <1>2, <1>3, <1>5, <2>1, RecordTypes, ImapAssumption
         DEF SelectionAgrees, PendingFits, ViewFits
  <1> QED BY <1>1, <1>2, <1>3, <1>5, <1>6, RecordTypes, Quiet

LEMMA CloseHolds == ASSUME IndInv, Close PROVE IndInv'
  <1>1. /\ user' = NoUser /\ selected' = NoFolder /\ pending' = Idle
        /\ view' = Nothing
    BY DEF Close
  <1>2. SelectionAgrees' /\ PendingFits' /\ ViewFits'
    BY <1>1, RecordTypes, ImapAssumption
       DEF SelectionAgrees, PendingFits, ViewFits
  <1> QED BY <1>1, <1>2, RecordTypes, Quiet DEF Close

----------------------------------------------------------------------------
(* Answers. *)

IsOf(r, e, sync) ==
  /\ r \in Responses
  /\ r.seq = e.uid /\ r.uid = e.uid /\ r.sync = sync
  /\ \A x \in r.items : x[2] = <<x[1], r.msg>>

(* Whatever the header cache holds, the items are the message's own. *)
LEMMA ResponseType ==
  ASSUME TypeOK, Numbered, NEW f \in Folders, NEW e \in EntriesOf(f),
         NEW names \in SUBSET Items, NEW sync \in BOOLEAN
  PROVE  IsOf(Response(e, names, sync), e, sync)
  <1> DEFINE form == IF NeedsObject(names) \/ <<user, e.msg>> \notin cached
                     THEN "object" ELSE "cache"
             items == {<<n, Part(n, form, e.msg)>> : n \in names \ {"other"}}
  <1>1. e \in Entry BY DEF TypeOK, EntriesOf
  <1>2. e.uid \in Nat /\ e.msg \in Messages BY <1>1 DEF Entry, Messages
  <1>3. Position(e) = e.uid BY PositionIsUid
  <1>4. ASSUME NEW n \in names \ {"other"}
        PROVE  Part(n, form, e.msg) = <<n, e.msg>>
    <2>1. n \in {"text", "whole"} => form = "object" BY DEF NeedsObject
    <2> HIDE DEF form
    <2>2. CASE form = "object" BY <2>2 DEF Part
    <2>3. CASE n \notin {"text", "whole"} BY <2>3 DEF Part
    <2> QED BY <2>1, <2>2, <2>3
  <1>5. items \in SUBSET (Items \X (Items \X Messages))
    BY <1>2, <1>4
  <1>6. \A x \in items : x[2] = <<x[1], e.msg>> BY <1>4
  <1>7. Response(e, names, sync) =
          [seq |-> e.uid, uid |-> e.uid, msg |-> e.msg, sync |-> sync,
           items |-> items]
    BY <1>3 DEF Response
  <1> HIDE DEF items
  <1> QED BY <1>2, <1>5, <1>6, <1>7 DEF Responses, IsOf

LEMMA AnswerHolds ==
  ASSUME IndInv, NEW set, NEW uid \in BOOLEAN, NEW names \in Asked,
         NEW sync \in BOOLEAN, Answer(set, uid, names, sync)
  PROVE  /\ selected \in Folders /\ pending.folder = NoFolder
         /\ \A r \in queue' :
              /\ r \in Responses /\ r.seq = r.uid /\ r.sync = sync
              /\ r.uid \in 1 .. (next[selected] - 1)
              /\ \A x \in r.items : x[2] = <<x[1], r.msg>>
              /\ \E e \in Wanted(set, uid) : e.uid = r.uid
         /\ uid => \A e \in Wanted(set, uid) :
                     \E r \in queue' : r.uid = e.uid /\ r.sync = sync
  <1>1. /\ selected # NoFolder /\ pending.folder = NoFolder
        /\ queue' = {r \in {Response(e, names, sync) : e \in Wanted(set, uid)} :
                       uid \/ r.items # {}}
    BY DEF Answer, Ready
  <1>2. selected \in Folders /\ TypeOK /\ Numbered
    BY <1>1 DEF IndInv, TypeOK
  <1>3. names \in SUBSET Items BY ImapAssumption
  <1>4. ASSUME NEW e \in Wanted(set, uid)
        PROVE  /\ IsOf(Response(e, names, sync), e, sync)
               /\ e.uid \in 1 .. (next[selected] - 1)
    <2>1. e \in EntriesOf(selected) BY DEF Wanted
    <2>2. e.uid \in 1 .. (next[selected] - 1) BY <1>2, <2>1, PositionIsUid
    <2>3. IsOf(Response(e, names, sync), e, sync)
      BY <1>2, <1>3, <2>1, ResponseType
    <2> QED BY <2>2, <2>3
  <1>5. ASSUME NEW r \in queue'
        PROVE  /\ r \in Responses /\ r.seq = r.uid /\ r.sync = sync
               /\ r.uid \in 1 .. (next[selected] - 1)
               /\ \A x \in r.items : x[2] = <<x[1], r.msg>>
               /\ \E e \in Wanted(set, uid) : e.uid = r.uid
    <2>1. PICK e \in Wanted(set, uid) : r = Response(e, names, sync) BY <1>1
    <2> QED BY <1>4, <2>1 DEF IsOf
  <1>6. ASSUME uid, NEW e \in Wanted(set, uid)
        PROVE  \E r \in queue' : r.uid = e.uid /\ r.sync = sync
    BY <1>1, <1>4, <1>6 DEF IsOf
  <1> QED BY <1>1, <1>2, <1>5, <1>6

(* What of the invariant every answer keeps. *)
LEMMA AnswerKeeps ==
  ASSUME IndInv, NEW set, NEW uid \in BOOLEAN, NEW names \in Asked,
         NEW sync \in BOOLEAN, Answer(set, uid, names, sync), due' \in SUBSET Nat
  PROVE  /\ TypeOK' /\ Numbered' /\ SelectionAgrees' /\ PendingFits' /\ ViewFits'
         /\ MirrorFits' /\ NeverWrong' /\ DelimitersKnown'
  <1>1. /\ UNCHANGED <<next, entries, delimiter, cached, user, selected, pending,
                       view, mirror>>
    BY DEF Answer, archive, session
  <1>2. /\ selected \in Folders /\ pending.folder = NoFolder
        /\ \A r \in queue' :
             r \in Responses /\ \A x \in r.items : x[2] = <<x[1], r.msg>>
    BY AnswerHolds
  <1>3. TypeOK' BY <1>1, <1>2 DEF IndInv, TypeOK
  <1>4. Numbered' /\ DelimitersKnown'
    BY <1>1 DEF IndInv, Numbered, EntriesOf, DelimitersKnown
  <1>5. SelectionAgrees' /\ ViewFits'
    BY <1>1 DEF IndInv, SelectionAgrees, ViewFits
  <1>6. PendingFits' BY <1>1, <1>2, ImapAssumption DEF PendingFits
  <1>7. MirrorFits' BY <1>1 DEF IndInv, MirrorFits, HoldsUid
  <1>8. NeverWrong' BY <1>2 DEF NeverWrong
  <1> QED BY <1>3, <1>4, <1>5, <1>6, <1>7, <1>8

LEMMA FetchHolds ==
  ASSUME IndInv, NEW set \in SeqSets, NEW uid \in BOOLEAN, NEW names \in Asked,
         Fetch(set, uid, names)
  PROVE  IndInv'
  <1>1. Answer(set, uid, names, FALSE) /\ due' = {} BY DEF Fetch
  <1>2. /\ TypeOK' /\ Numbered' /\ SelectionAgrees' /\ PendingFits' /\ ViewFits'
        /\ MirrorFits' /\ NeverWrong' /\ DelimitersKnown'
    BY <1>1, AnswerKeeps
  <1>3. /\ selected \in Folders
        /\ \A r \in queue' : /\ r.seq = r.uid /\ r.sync = FALSE
                             /\ r.uid \in 1 .. (next[selected] - 1)
    BY <1>1, AnswerHolds
  <1>4. selected' = selected /\ next' = next
    BY <1>1 DEF Answer, archive, session
  <1>5. QueueFits' BY <1>1, <1>3, <1>4, ImapAssumption DEF QueueFits
  <1>6. SyncFits' /\ NothingMissed' BY <1>1, <1>3 DEF SyncFits, NothingMissed
  <1> QED BY <1>2, <1>5, <1>6 DEF IndInv

LEMMA SyncHolds ==
  ASSUME IndInv, NEW n \in 1 .. (MaxUid + 1), NEW names \in Asked, Sync(n, names)
  PROVE  IndInv'
  <1> DEFINE f == selected
             max == next[selected] - 1
             set == [from |-> n, to |-> 0]
  <1>1. /\ Answer(set, TRUE, names, TRUE) /\ view.folder \in Folders
        /\ n = 1 \/ HoldsUid(view.folder, n - 1)
        /\ due' = {e.uid : e \in EntriesOf(f)}
    BY DEF Sync, HoldsUid
  <1>2. selected = view.folder /\ f \in Folders
    BY <1>1 DEF IndInv, SelectionAgrees
  <1>3. /\ next[f] \in Nat \ {0} /\ max \in Nat /\ n \in Nat \ {0}
        /\ Cardinality(EntriesOf(f)) = max
        /\ {e.uid : e \in EntriesOf(f)} = 1 .. max
    <2>1. next[f] \in Nat \ {0} BY <1>2 DEF IndInv, TypeOK
    <2>2. max \in Nat BY <2>1
    <2>3. MaxUid \in Nat BY ImapAssumption
    <2>4. n \in Nat \ {0} BY <2>3
    <2>5. Cardinality(EntriesOf(f)) = max BY <1>2, PositionIsUid DEF IndInv
    <2>6. {e.uid : e \in EntriesOf(f)} = 1 .. max BY <1>2 DEF IndInv, Numbered
    <2> QED BY <2>1, <2>2, <2>4, <2>5, <2>6
  <1>4. due' = 1 .. max /\ due' \in SUBSET Nat
    <2>1. due' = 1 .. max BY <1>1, <1>3
    <2>2. \A u \in 1 .. max : u \in Nat BY <1>3
    <2> QED BY <2>1, <2>2
  <1>5. /\ TypeOK' /\ Numbered' /\ SelectionAgrees' /\ PendingFits' /\ ViewFits'
        /\ MirrorFits' /\ NeverWrong' /\ DelimitersKnown'
    BY <1>1, <1>4, AnswerKeeps
  <1>6. /\ \A r \in queue' : /\ r.seq = r.uid /\ r.sync = TRUE
                             /\ r.uid \in 1 .. max
        /\ \A e \in Wanted(set, TRUE) :
             \E r \in queue' : r.uid = e.uid /\ r.sync = TRUE
    BY <1>1, AnswerHolds
  <1>7. UNCHANGED <<next, selected, view, mirror>>
    BY <1>1 DEF Answer, archive, session
  <1>8. ASSUME NEW u \in 1 .. max
        PROVE  HoldsUid(f, u) \/ \E r \in queue' : r.sync /\ r.uid = u
    <2>1. CASE u < n
      <3>1. HoldsUid(f, n - 1) /\ n - 1 \in Nat BY <1>1, <1>2, <1>3, <1>8, <2>1
      <3>2. PICK h \in mirror[f] : h.uid = n - 1 BY <3>1 DEF HoldsUid
      <3>3. u \in 1 .. h.uid BY <1>3, <1>8, <2>1, <3>2
      <3> QED BY <1>2, <3>2, <3>3 DEF IndInv, MirrorFits
    <2>2. CASE u >= n
      <3>1. PICK e \in EntriesOf(f) : e.uid = u BY <1>3
      <3>2. Expand(n, max) = n /\ Expand(0, max) = max
        BY <1>3, <1>8 DEF Expand
      <3>3. InSet(set, e.uid, max) BY <1>8, <2>2, <3>1, <3>2 DEF InSet
      <3>4. e \in Wanted(set, TRUE) BY <1>3, <3>1, <3>3 DEF Wanted
      <3> QED BY <1>6, <3>1, <3>4
    <2> QED BY <1>3, <2>1, <2>2
  <1>9. QueueFits'
    BY <1>2, <1>6, <1>7, <1>1, ImapAssumption DEF QueueFits
  <1>10. SyncFits'
    <2> SUFFICES ASSUME NEW r \in queue', NEW u \in 1 .. r.uid
                 PROVE  HoldsUid(f, u) \/ \E q \in queue' : q.sync /\ q.uid = u
      BY <1>7 DEF SyncFits, HoldsUid
    <2>1. u \in 1 .. max BY <1>3, <1>6
    <2> QED BY <1>8, <2>1
  <1>11. NothingMissed' BY <1>4, <1>7, <1>8 DEF NothingMissed, HoldsUid
  <1> QED BY <1>5, <1>9, <1>10, <1>11 DEF IndInv

LEMMA ReceiveHolds ==
  ASSUME IndInv, NEW r \in queue, Receive(r)
  PROVE  IndInv'
  <1> USE DEF IndInv
  <1>1. /\ \A q \in queue : r.seq <= q.seq
        /\ queue' = queue \ {r}
        /\ UNCHANGED <<next, entries, delimiter, cached, user, selected, pending,
                       view, due>>
    BY DEF Receive, archive, session
  <1>2. /\ selected \in Folders /\ r.seq = r.uid /\ r \in Responses
        /\ r.uid \in 1 .. (next[selected] - 1)
    BY DEF QueueFits, TypeOK
  <1>3. r.sync => view.folder = selected
    BY DEF QueueFits, SelectionAgrees
  <1>4. PICK new : new = [seq |-> r.seq, uid |-> r.uid] OBVIOUS
  <1>5. new \in Held /\ new.seq = r.uid /\ new.uid = r.uid
    BY <1>2, <1>4 DEF Held, Responses
  <1>6. mirror' = IF r.sync THEN [mirror EXCEPT ![selected] = @ \cup {new}]
                  ELSE mirror
    BY <1>3, <1>4 DEF Receive
  <1>7. \A f \in Folders :
          mirror'[f] = IF r.sync /\ f = selected THEN mirror[f] \cup {new}
                       ELSE mirror[f]
    BY <1>6 DEF TypeOK
  <1>8. /\ \A f \in Folders : \A u : HoldsUid(f, u) => HoldsUid(f, u)'
        /\ r.sync => HoldsUid(selected, r.uid)'
    BY <1>1, <1>2, <1>5, <1>7 DEF HoldsUid
  <1>9. TypeOK' BY <1>1, <1>2, <1>5, <1>6 DEF TypeOK
  <1>10. Numbered' /\ DelimitersKnown'
    BY <1>1 DEF Numbered, EntriesOf, DelimitersKnown
  <1>11. SelectionAgrees' /\ ViewFits' /\ NeverWrong'
    BY <1>1 DEF SelectionAgrees, ViewFits, NeverWrong
  <1>12. PendingFits' BY <1>1 DEF PendingFits
  <1>13. QueueFits' BY <1>1 DEF QueueFits
  <1>14. r.sync => \A u \in 1 .. r.uid : HoldsUid(selected, u)'
    <2> SUFFICES ASSUME r.sync, NEW u \in 1 .. r.uid
                 PROVE  HoldsUid(selected, u)'
      OBVIOUS
    <2>1. CASE u = r.uid BY <1>8, <2>1
    <2>2. CASE u < r.uid
      <3>1. ~ \E q \in queue : q.uid = u
        <4>1. \A q \in queue : q.seq = q.uid /\ q.uid \in Nat
          BY DEF QueueFits, TypeOK, Responses
        <4> QED BY <1>1, <1>2, <2>2, <4>1
      <3>2. \/ HoldsUid(selected, u)
            \/ \E q \in queue : q.sync /\ q.uid = u
        BY DEF SyncFits
      <3>3. HoldsUid(selected, u) BY <3>1, <3>2
      <3>4. PICK s : s = selected OBVIOUS
      <3>5. HoldsUid(s, u) /\ s \in Folders /\ selected' = s
        BY <1>1, <1>2, <3>3, <3>4
      <3>6. HoldsUid(s, u)' BY <1>8, <3>5
      <3> QED BY <3>5, <3>6 DEF HoldsUid
    <2> QED BY <1>2, <2>1, <2>2
  <1>15. MirrorFits'
    <2> SUFFICES ASSUME NEW f \in Folders, NEW h \in mirror'[f]
                 PROVE  /\ h.seq = h.uid /\ h.uid \in 1 .. (next[f] - 1)
                        /\ \A u \in 1 .. h.uid : HoldsUid(f, u)'
      BY <1>1 DEF MirrorFits
    <2>1. CASE h \in mirror[f]
      <3>1. /\ h.seq = h.uid /\ h.uid \in 1 .. (next[f] - 1)
            /\ \A u \in 1 .. h.uid : HoldsUid(f, u)
        BY <2>1 DEF MirrorFits
      <3> QED BY <1>8, <3>1
    <2>2. CASE r.sync /\ f = selected /\ h = new
      <3>1. h.seq = h.uid /\ h.uid = r.uid /\ r.uid \in 1 .. (next[f] - 1)
        BY <1>2, <1>5, <2>2
      <3>2. selected' = f BY <1>1, <2>2
      <3>3. \A u \in 1 .. r.uid : HoldsUid(f, u)'
        BY <1>14, <2>2, <3>2 DEF HoldsUid
      <3> QED BY <3>1, <3>3
    <2>3. h \in mirror[f] \/ (r.sync /\ f = selected /\ h = new)
      <3>1. mirror'[f] = IF r.sync /\ f = selected THEN mirror[f] \cup {new}
                         ELSE mirror[f]
        BY <1>7
      <3> QED BY <3>1
    <2> QED BY <2>1, <2>2, <2>3
  <1>16. SyncFits'
    <2> SUFFICES ASSUME NEW p \in queue, p.sync, NEW u \in 1 .. p.uid
                 PROVE  \/ HoldsUid(selected, u)'
                        \/ \E q \in queue' : q.sync /\ q.uid = u
      BY <1>1 DEF SyncFits
    <2>1. HoldsUid(selected, u) \/ \E q \in queue : q.sync /\ q.uid = u
      BY DEF SyncFits
    <2> QED BY <1>1, <1>2, <1>8, <2>1
  <1>17. NothingMissed'
    <2> SUFFICES ASSUME NEW u \in due
                 PROVE  HoldsUid(selected, u)' \/ \E q \in queue' : q.uid = u
      BY <1>1 DEF NothingMissed, HoldsUid
    <2>1. r.sync BY DEF QueueFits
    <2>2. HoldsUid(selected, u) \/ \E q \in queue : q.uid = u
      BY DEF NothingMissed, HoldsUid
    <2> QED BY <1>1, <1>2, <1>8, <2>1, <2>2
  <1> QED
    BY <1>9, <1>10, <1>11, <1>12, <1>13, <1>15, <1>16, <1>17
----------------------------------------------------------------------------
LEMMA Invariance == Spec => []IndInv
  <1>1. IndInv /\ [Next]_vars => IndInv'
    <2> SUFFICES ASSUME IndInv, [Next]_vars PROVE IndInv' OBVIOUS
    <2>1. ASSUME NEW f \in Folders, NEW m \in Messages, Arrive(f, m) PROVE IndInv'
      BY <2>1, ArriveHolds
    <2>2. ASSUME NEW e \in entries, NEW m \in Contents, Repair(e, m) PROVE IndInv'
      BY <2>2, RepairHolds
    <2>3. ASSUME NEW e \in entries, Backfill(e) PROVE IndInv'
      BY <2>3, BackfillHolds
    <2>4. ASSUME NEW a \in Accounts, NEW d \in Delimiters[a], SetDelimiter(a, d)
          PROVE  IndInv'
      BY <2>4, SetDelimiterHolds
    <2>5. ASSUME NEW u \in Users, Login(u) PROVE IndInv' BY <2>5, LoginHolds
    <2>6. CASE SelectInbox BY <2>6, SelectInboxHolds
    <2>7. ASSUME NEW name \in Names, Select(name) PROVE IndInv'
      BY <2>7, SelectHolds
    <2>8. ASSUME NEW name \in Names, SelectUnknown(name) PROVE IndInv'
      BY <2>8, SelectUnknownHolds
    <2>9. CASE Count BY <2>9, CountHolds
    <2>10. CASE Close BY <2>10, CloseHolds
    <2>11. ASSUME NEW set \in SeqSets, NEW uid \in BOOLEAN, NEW names \in Asked,
                  Fetch(set, uid, names)
           PROVE  IndInv'
      BY <2>11, FetchHolds
    <2>12. ASSUME NEW n \in 1 .. (MaxUid + 1), NEW names \in Asked, Sync(n, names)
           PROVE  IndInv'
      BY <2>12, SyncHolds
    <2>13. ASSUME NEW r \in queue, Receive(r) PROVE IndInv'
      BY <2>13, ReceiveHolds
    <2>14. CASE UNCHANGED vars
      <3>1. /\ UNCHANGED <<next, entries, delimiter, cached, user, selected,
                           pending, view, queue, mirror, due>>
        BY <2>14 DEF vars, archive, session
      <3>2. UNCHANGED <<session, view, queue, mirror, due>>
        BY <3>1 DEF session
      <3>3. TypeOK' /\ Numbered' /\ DelimitersKnown'
        BY <3>1 DEF IndInv, TypeOK, Numbered, EntriesOf, DelimitersKnown
      <3>4. \A f \in Folders : next[f] <= next'[f]
        BY <3>1 DEF IndInv, TypeOK
      <3> QED BY <3>2, <3>3, <3>4, ArchiveGrows
    <2> QED
      BY <2>1, <2>2, <2>3, <2>4, <2>5, <2>6, <2>7, <2>8, <2>9, <2>10, <2>11,
         <2>12, <2>13, <2>14
         DEF Next
  <1> QED BY <1>1, InitHolds, PTL DEF Spec

(* Every variable keeps its type. *)
THEOREM TypeCorrect == Spec => []TypeOK
  <1>1. IndInv => TypeOK BY DEF IndInv
  <1> QED BY <1>1, Invariance, PTL

(* Server and client mean the same folder, and it is the user's own. *)
THEOREM SameSelection == Spec => []SelectionAgrees
  <1>1. IndInv => SelectionAgrees BY DEF IndInv
  <1> QED BY <1>1, Invariance, PTL

(* EXISTS, counted later, covers what UIDNEXT says is there. *)
THEOREM Covers == Spec => []ExistsCovers
  <1>1. IndInv => ExistsCovers
    <2> SUFFICES ASSUME IndInv, view.folder \in Folders,
                        NEW e \in EntriesOf(view.folder), e.uid < view.uidnext
                 PROVE  Position(e) <= view.exists
      BY DEF ExistsCovers
    <2>1. Position(e) = e.uid /\ e.uid \in 1 .. (next[view.folder] - 1)
      BY PositionIsUid DEF IndInv
    <2>2. view.uidnext <= view.exists + 1 BY DEF IndInv, ViewFits
    <2>3. view.uidnext \in Nat /\ view.exists \in Nat
      BY DEF IndInv, TypeOK, Views
    <2> QED BY <2>1, <2>2, <2>3
  <1> QED BY <1>1, Invariance, PTL

(* A sequence number means one message for ever. *)
THEOREM NumbersHold == Spec => []SequenceHolds
  <1>1. IndInv => SequenceHolds
    <2> SUFFICES ASSUME IndInv, NEW f \in Folders, NEW h \in mirror[f]
                 PROVE  \E e \in EntriesOf(f) : e.uid = h.uid /\ Position(e) = h.seq
      BY DEF SequenceHolds
    <2>1. h.seq = h.uid /\ h.uid \in 1 .. (next[f] - 1) BY DEF IndInv, MirrorFits
    <2>2. PICK e \in EntriesOf(f) : e.uid = h.uid BY <2>1 DEF IndInv, Numbered
    <2>3. Position(e) = e.uid BY PositionIsUid DEF IndInv
    <2> QED BY <2>1, <2>2, <2>3
  <1> QED BY <1>1, Invariance, PTL

(* What a client holds of a folder has no holes. *)
THEOREM HoldsWithoutHoles == Spec => []NoHoles
  <1>1. IndInv => NoHoles
    <2> SUFFICES ASSUME IndInv, NEW f \in Folders, NEW h \in mirror[f],
                        NEW e \in EntriesOf(f), e.uid < h.uid
                 PROVE  HoldsUid(f, e.uid)
      BY DEF NoHoles, HoldsUid
    <2>1. h.uid \in 1 .. (next[f] - 1) BY DEF IndInv, MirrorFits
    <2>2. e.uid \in 1 .. (next[f] - 1) BY DEF IndInv, Numbered
    <2>3. next[f] \in Nat BY DEF IndInv, TypeOK
    <2>4. e.uid \in 1 .. h.uid BY <2>1, <2>2, <2>3
    <2> QED BY <2>4 DEF IndInv, MirrorFits
  <1> QED BY <1>1, Invariance, PTL

(* UID FETCH n:* brings all there is. *)
THEOREM SyncMissesNothing == Spec => []NothingMissed
  <1>1. IndInv => NothingMissed BY DEF IndInv
  <1> QED BY <1>1, Invariance, PTL

(* A partial header cache never shows in an answer. *)
THEOREM CacheNeverWrong == Spec => []NeverWrong
  <1>1. IndInv => NeverWrong BY DEF IndInv
  <1> QED BY <1>1, Invariance, PTL

(* What LIST shows can be selected, if no name uses our delimiter but as the
   source's own. *)
THEOREM NamesOpen == Spec => []ListedOpens
  <1>1. IndInv => ListedOpens
    <2> SUFFICES ASSUME IndInv, NEW f \in Folders,
                        \A g \in Folders : \A d \in Delimiters[AccountOf[g]] :
                          Reversible(Source[g], d)
                 PROVE  Found(Owner(f), DisplayName(f)) = {f}
      BY DEF ListedOpens
    <2>1. ASSUME NEW g \in Folders
          PROVE  /\ delimiter[AccountOf[g]] \in Chars \cup {Unknown}
                 /\ Reversible(Source[g], delimiter[AccountOf[g]])
      <3>1. AccountOf[g] \in Accounts BY ImapAssumption
      <3>2. \/ delimiter[AccountOf[g]] \in Delimiters[AccountOf[g]]
            \/ delimiter[AccountOf[g]] = Unknown
        BY <3>1 DEF IndInv, DelimitersKnown
      <3>3. Reversible(Source[g], Unknown) BY DEF Reversible, Translates
      <3> QED BY <3>1, <3>2, <3>3, ImapAssumption
    <2> QED BY <2>1, NameOpens
  <1> QED BY <1>1, Invariance, PTL
=============================================================================
