----------------------------- MODULE ImapSession -----------------------------
(***************************************************************************)
(* One connection of the IMAP server (server.rs) and the client behind it, *)
(* over folders that ingest appends to and repair fills the gaps of.  What *)
(* those do to a folder is UidLog, which Placements implements.            *)
(*                                                                         *)
(* Connections share nothing but the database, so one of them is enough.   *)
(* Its client sends a command when the last one is answered.  It keeps     *)
(* what it fetched from one connection to the next, and brings a folder    *)
(* up to date with UID FETCH n:*, n being the first UID it does not hold.  *)
(***************************************************************************)
EXTENDS UidLog, Naming, FiniteSets

CONSTANTS
  Users, Accounts,
  UserOf,      \* the user an account feeds
  Label,       \* its label, which prefixes its folders
  AccountOf,   \* the account of a folder
  Source,      \* the name of a folder at the source
  Delimiters,  \* the delimiters an account's source may report
  NoUser, NoFolder, Inbox, NoSuchName,
  Legacy,      \* entries at the start; their headers are not cached
  Asked,       \* sets of items clients ask for together
  Backwards,   \* whether the library reads m:n as n:m when m > n
  MaxUid       \* bound: the folder's highest UID, and numbers in commands

Messages == Contents \cup {Empty}

(* Groups of FETCH items: of the row alone (UID, FLAGS, SIZE, DATE), of the
   header, of the text, of all of it, and those the server leaves out. *)
Items == {"row", "header", "text", "whole", "other"}

Owner(f) == UserOf[AccountOf[f]]

ASSUME ImapAssumption ==
  /\ UserOf \in [Accounts -> Users]
  /\ AccountOf \in [Folders -> Accounts]
  /\ Label \in [Accounts -> Seq(Chars)]
  /\ Source \in [Folders -> Seq(Chars)]
  /\ \A a \in Accounts : \A i \in DOMAIN Label[a] : Label[a][i] # OURS
  /\ \A a, b \in Accounts :
       UserOf[a] = UserOf[b] /\ Label[a] = Label[b] => a = b
  /\ \A f, g \in Folders :
       AccountOf[f] = AccountOf[g] /\ Source[f] = Source[g] => f = g
  /\ NoUser \notin Users
  /\ NoFolder \notin Folders /\ Inbox \notin Folders /\ NoFolder # Inbox
  /\ Empty \notin Contents
  /\ Legacy \in SUBSET Entry /\ IsFiniteSet(Legacy)
  /\ \A f \in Folders : \E n \in 0 .. Cardinality(Legacy) :
       {e.uid : e \in {d \in Legacy : d.folder = f}} = 1 .. n
  /\ \A d, e \in Legacy : d.folder = e.folder /\ d.uid = e.uid => d = e
  /\ Delimiters \in [Accounts -> SUBSET (Chars \cup {Unknown})]
  /\ Asked \subseteq SUBSET Items
  /\ Backwards \in BOOLEAN
  /\ MaxUid \in Nat

VARIABLES
  delimiter,   \* hierarchy_delimiter of each account
  cached,      \* whose messages have their headers column filled
  user,        \* the session: who logged in
  selected,    \*   and the folder selected
  pending,     \* a SELECT between its two queries
  view,        \* the client: what it believes selected, EXISTS and UIDNEXT
  queue,       \*   FETCH responses on their way to it
  mirror,      \*   sequence numbers and UIDs it holds, per folder
  due          \* history: UIDs in the folder when it last asked for n:*

archive == <<next, entries, delimiter, cached>>
session == <<user, selected, pending>>
vars    == <<archive, session, view, queue, mirror, due>>

Nothing == [folder |-> NoFolder, exists |-> 0, uidnext |-> 0]
Idle    == [folder |-> NoFolder, uidnext |-> 0]

Views     == [folder : Folders \cup {NoFolder, Inbox}, exists : Nat, uidnext : Nat]
Pendings  == [folder : Folders \cup {NoFolder}, uidnext : Nat]
Held      == [seq : Nat, uid : Nat]
Responses == [seq : Nat, uid : Nat, msg : Messages, sync : BOOLEAN,
              items : SUBSET (Items \X (Items \X Messages))]

Init ==
  /\ entries = Legacy
  /\ next \in [Folders -> 1 .. (Cardinality(Legacy) + 1)]
  /\ \A f \in Folders : {e.uid : e \in EntriesOf(f)} = 1 .. (next[f] - 1)
  /\ delimiter \in [Accounts -> {Unknown}]
  /\ cached = {}
  /\ user = NoUser /\ selected = NoFolder /\ pending = Idle
  /\ view = Nothing /\ queue = {} /\ due = {}
  /\ mirror = [f \in Folders |-> {}]

----------------------------------------------------------------------------
(* The rest of the system. *)

Arrive(f, m) ==
  /\ next[f] <= MaxUid
  /\ Deliver(f, m)
  /\ cached' = cached \cup {<<Owner(f), m>>}
  /\ UNCHANGED <<delimiter, session, view, queue, mirror, due>>

Repair(e, m) ==
  /\ Fill(e, m)
  /\ cached' = cached \cup {<<Owner(e.folder), m>>}
  /\ UNCHANGED <<delimiter, session, view, queue, mirror, due>>

(* backfill_headers, one message of a row. *)
Backfill(e) ==
  /\ <<Owner(e.folder), e.msg>> \notin cached
  /\ cached' = cached \cup {<<Owner(e.folder), e.msg>>}
  /\ UNCHANGED <<next, entries, delimiter, session, view, queue, mirror, due>>

(* Every ingest records what the source says. *)
SetDelimiter(a, d) ==
  /\ delimiter' = [delimiter EXCEPT ![a] = d]
  /\ UNCHANGED <<next, entries, cached, session, view, queue, mirror, due>>

----------------------------------------------------------------------------
(* Folder names. *)

DisplayName(f) ==
  Label[AccountOf[f]] \o <<OURS>>
    \o ToDisplay(Source[f], delimiter[AccountOf[f]])

(* split_once at the first '/', the account of that label, the folder whose
   name at the source is what the rest translates back to. *)
Opens(name, f) ==
  \E i \in DOMAIN name :
    /\ name[i] = OURS /\ \A j \in 1 .. (i - 1) : name[j] # OURS
    /\ SubSeq(name, 1, i - 1) = Label[AccountOf[f]]
    /\ Source[f] =
         FromDisplay(SubSeq(name, i + 1, Len(name)), delimiter[AccountOf[f]])

Found(u, name) == {f \in Folders : Owner(f) = u /\ Opens(name, f)}

----------------------------------------------------------------------------
(* The session. *)

(* The client has all answers, and the server nothing to do. *)
Ready == pending.folder = NoFolder /\ queue = {}

(* Mutant: the selection outlives the login. *)
LoginKeepsSelection(u) ==
  /\ Ready
  /\ user' = u
  /\ view' = Nothing /\ due' = {}
  /\ UNCHANGED <<archive, selected, pending, queue, mirror>>

(* A login, or another one on the same connection. *)
Login(u) ==
  /\ Ready
  /\ user' = u /\ selected' = NoFolder
  /\ view' = Nothing /\ due' = {}
  /\ UNCHANGED <<archive, pending, queue, mirror>>

(* INBOX is there and empty, and no folder. *)
SelectInbox ==
  /\ Ready /\ user # NoUser
  /\ selected' = NoFolder
  /\ view' = [folder |-> Inbox, exists |-> 0, uidnext |-> 1] /\ due' = {}
  /\ UNCHANGED <<archive, user, pending, queue, mirror>>

(* folder_meta up to its count: the folder and its uidnext. *)
Select(name) ==
  /\ Ready /\ user # NoUser
  /\ \E f \in Found(user, name) :
       pending' = [folder |-> f, uidnext |-> next[f]]
  /\ view' = Nothing /\ due' = {}
  /\ UNCHANGED <<archive, user, selected, queue, mirror>>

(* NO, and the server keeps its selection; the client has none. *)
SelectUnknown(name) ==
  /\ Ready /\ user # NoUser
  /\ Found(user, name) = {}
  /\ view' = Nothing /\ due' = {}
  /\ UNCHANGED <<archive, session, queue, mirror>>

(* Mutant: counted first, uidnext read after. *)
CountFirst ==
  /\ pending.folder # NoFolder
  /\ LET f == pending.folder
     IN  /\ selected' = f
         /\ view' = [folder  |-> f,
                     exists  |-> pending.uidnext - 1,
                     uidnext |-> next[f]]
  /\ pending' = Idle
  /\ UNCHANGED <<archive, user, queue, mirror, due>>

(* The count, in a later snapshot, and the answer. *)
Count ==
  /\ pending.folder # NoFolder
  /\ LET f == pending.folder
     IN  /\ selected' = f
         /\ view' = [folder  |-> f,
                     exists  |-> Cardinality(EntriesOf(f)),
                     uidnext |-> pending.uidnext]
  /\ pending' = Idle
  /\ UNCHANGED <<archive, user, queue, mirror, due>>

(* LOGOUT, a lost connection, or an error of a query or the bucket, which ends
   the connection: what was not received is gone. *)
Close ==
  /\ user # NoUser
  /\ user' = NoUser /\ selected' = NoFolder /\ pending' = Idle
  /\ view' = Nothing /\ queue' = {} /\ due' = {}
  /\ UNCHANGED <<archive, mirror>>

----------------------------------------------------------------------------
(* FETCH. *)

(* Mutant: ORDER BY uid DESC. *)
DownTo(d, e) == d.uid >= e.uid

UpTo(d, e) == d.uid <= e.uid

(* The place of a row in ORDER BY uid. *)
Position(e) == Cardinality({d \in EntriesOf(e.folder) : UpTo(d, e)})

(* `*` (here 0) is the number of rows, of UIDs too. *)
Expand(n, max) == IF n > 0 THEN n ELSE IF max > 0 THEN max ELSE 1

InSet(set, value, max) ==
  LET from == Expand(set.from, max)
      to   == Expand(set.to, max)
  IN  \/ from <= value /\ value <= to
      \/ Backwards /\ to <= value /\ value <= from

(* Mutant: RFC822.TEXT thought a matter of the header. *)
NeedsWhole(names) == "whole" \in names

NeedsObject(names) == names \cap {"text", "whole"} # {}

(* What an item is made of: the object, or the cached header block. *)
Part(item, form, m) ==
  CASE item = "whole" /\ form = "cache" -> <<"header", m>>
    [] item = "text" /\ form = "cache"  -> <<"other", m>>
    [] OTHER                            -> <<item, m>>

Response(e, names, sync) ==
  LET form == IF NeedsObject(names) \/ <<user, e.msg>> \notin cached
              THEN "object" ELSE "cache"
  IN  [seq |-> Position(e), uid |-> e.uid, msg |-> e.msg, sync |-> sync,
       items |-> {<<n, Part(n, form, e.msg)>> : n \in names \ {"other"}}]

Wanted(set, uid) ==
  {e \in EntriesOf(selected) :
     InSet(set, IF uid THEN e.uid ELSE Position(e),
           Cardinality(EntriesOf(selected)))}

(* One snapshot of the folder; a response for each row asked for, unless it
   has nothing to say. *)
Answer(set, uid, names, sync) ==
  /\ Ready /\ user # NoUser /\ selected # NoFolder
  /\ queue' = {r \in {Response(e, names, sync) : e \in Wanted(set, uid)} :
                 uid \/ r.items # {}}
  /\ UNCHANGED <<archive, session, view, mirror>>

Fetch(set, uid, names) == Answer(set, uid, names, FALSE) /\ due' = {}

(* The client asks for what is new, n being behind all it holds. *)
Sync(n, names) ==
  /\ view.folder \in Folders
  /\ \A h \in mirror[view.folder] : h.uid < n
  /\ n = 1 \/ \E h \in mirror[view.folder] : h.uid = n - 1
  /\ Answer([from |-> n, to |-> 0], TRUE, names, TRUE)
  /\ due' = {e.uid : e \in EntriesOf(selected)}

(* Responses come in the order of the rows. *)
Receive(r) ==
  /\ \A q \in queue : r.seq <= q.seq
  /\ queue' = queue \ {r}
  /\ mirror' =
       IF r.sync
       THEN [mirror EXCEPT ![view.folder] = @ \cup {[seq |-> r.seq, uid |-> r.uid]}]
       ELSE mirror
  /\ UNCHANGED <<archive, session, view, due>>

----------------------------------------------------------------------------
SeqSets == [from : 0 .. MaxUid, to : 0 .. MaxUid]

Names == {DisplayName(f) : f \in Folders} \cup {NoSuchName}

Next ==
  \/ \E f \in Folders, m \in Messages : Arrive(f, m)
  \/ \E e \in entries, m \in Contents : Repair(e, m)
  \/ \E e \in entries : Backfill(e)
  \/ \E a \in Accounts : \E d \in Delimiters[a] : SetDelimiter(a, d)
  \/ \E u \in Users : Login(u)
  \/ SelectInbox
  \/ \E name \in Names : Select(name) \/ SelectUnknown(name)
  \/ Count
  \/ Close
  \/ \E set \in SeqSets, uid \in BOOLEAN, names \in Asked : Fetch(set, uid, names)
  \/ \E n \in 1 .. (MaxUid + 1), names \in Asked : Sync(n, names)
  \/ \E r \in queue : Receive(r)

Spec == Init /\ [][Next]_vars
----------------------------------------------------------------------------
(* Every variable has its type. *)
TypeOK ==
  /\ next \in [Folders -> Nat \ {0}]
  /\ entries \in SUBSET Entry
  /\ delimiter \in [Accounts -> Chars \cup {Unknown}]
  /\ cached \in SUBSET (Users \X Messages)
  /\ user \in Users \cup {NoUser}
  /\ selected \in Folders \cup {NoFolder}
  /\ pending \in Pendings
  /\ view \in Views
  /\ queue \in SUBSET Responses
  /\ mirror \in [Folders -> SUBSET Held]
  /\ due \in SUBSET Nat

(* The server answers from the folder the client believes selected, and from
   the folders of the user who logged in last: after INBOX, after a SELECT
   that failed, after a second LOGIN. *)
SelectionAgrees ==
  /\ view.folder \in Folders => selected = view.folder
  /\ view.folder = Inbox => selected = NoFolder
  /\ selected # NoFolder => Owner(selected) = user

(* EXISTS covers UIDNEXT, although they come from two snapshots: a client that
   reads rows 1 to EXISTS has every message below UIDNEXT, now and later. *)
ExistsCovers ==
  view.folder \in Folders =>
    \A e \in EntriesOf(view.folder) :
      e.uid < view.uidnext => Position(e) <= view.exists

(* Sequence numbers are of the rows of each FETCH, not of the SELECT, and no
   EXISTS ever follows; still a number goes on meaning the message it was
   given with, in this session and the next. *)
SequenceHolds ==
  \A f \in Folders : \A h \in mirror[f] :
    \E e \in EntriesOf(f) : e.uid = h.uid /\ Position(e) = h.seq

(* Wherever a connection breaks, what the client holds of a folder has no
   holes, so asking for what is behind it misses nothing. *)
NoHoles ==
  \A f \in Folders : \A h \in mirror[f] : \A e \in EntriesOf(f) :
    e.uid < h.uid => \E g \in mirror[f] : g.uid = e.uid

(* UID FETCH n:* brings everything there is, although `*` is not the highest
   UID but the number of rows. *)
NothingMissed ==
  \A u \in due : \/ \E h \in mirror[selected] : h.uid = u
                 \/ \E r \in queue : r.uid = u

(* Whatever is cached, and whatever is asked for together: an item is what the
   message's own bytes give. *)
NeverWrong ==
  \A r \in queue : \A x \in r.items : x[2] = <<x[1], r.msg>>

(* With names that can be translated back, the name LIST shows for a folder
   selects that folder, whatever delimiter ingest has recorded. *)
ListedOpens ==
  (\A f \in Folders : \A d \in Delimiters[AccountOf[f]] : Reversible(Source[f], d))
    => \A f \in Folders : Found(Owner(f), DisplayName(f)) = {f}
----------------------------------------------------------------------------
(* What makes them inductive. *)

(* Each folder's UIDs are 1 to the last one given out. *)
Numbered ==
  /\ \A f \in Folders : {e.uid : e \in EntriesOf(f)} = 1 .. (next[f] - 1)
  /\ \A d, e \in entries : d.folder = e.folder /\ d.uid = e.uid => d = e

(* Between the queries of a SELECT nothing is under way; the uidnext it read
   is not ahead. *)
PendingFits ==
  pending.folder \in Folders =>
    /\ Owner(pending.folder) = user
    /\ pending.uidnext <= next[pending.folder]
    /\ view = Nothing /\ queue = {} /\ due = {}

(* What the SELECT said is still covered. *)
ViewFits ==
  view.folder \in Folders => view.uidnext <= view.exists + 1

(* A response is of a row of the folder selected. *)
QueueFits ==
  /\ queue # {} => selected # NoFolder
  /\ \A r \in queue :
       /\ r.seq = r.uid /\ r.uid \in 1 .. (next[selected] - 1)
       /\ r.sync => view.folder \in Folders
  /\ due # {} =>
       selected # NoFolder /\ view.folder = selected /\ \A r \in queue : r.sync

HoldsUid(f, u) == \E h \in mirror[f] : h.uid = u

MirrorFits ==
  \A f \in Folders : \A h \in mirror[f] :
    /\ h.seq = h.uid /\ h.uid \in 1 .. (next[f] - 1)
    /\ \A u \in 1 .. h.uid : HoldsUid(f, u)

(* What is below a response of a sync is held, or on its way as well. *)
SyncFits ==
  \A r \in queue : r.sync =>
    \A u \in 1 .. r.uid :
      HoldsUid(selected, u) \/ \E q \in queue : q.sync /\ q.uid = u

DelimitersKnown ==
  \A a \in Accounts : delimiter[a] \in Delimiters[a] \cup {Unknown}

IndInv ==
  /\ TypeOK /\ Numbered /\ SelectionAgrees /\ PendingFits /\ ViewFits
  /\ QueueFits /\ MirrorFits /\ SyncFits /\ NothingMissed /\ NeverWrong
  /\ DelimitersKnown
=============================================================================
