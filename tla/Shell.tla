-------------------------------- MODULE Shell --------------------------------
(***************************************************************************)
(* The three panes of the web client (web-ui/src/main.rs: Shell,           *)
(* FolderNode, MessageList, SearchResults, Reader, MessageView) over the   *)
(* handlers message and set_seen of src/web.rs.                            *)
(*                                                                         *)
(* A folder is its path, a sequence of segments, and no two have the same. *)
(* A place is <<folder, UID>>; a list comes as one page (Paging has the    *)
(* pages).  A search is a term with the folder kinds it covers.            *)
(***************************************************************************)
EXTENDS Naturals, Sequences

CONSTANTS
  Segments,  \* the names a path is made of
  Folders,
  Placed,    \* per folder the messages in it; the index is the UID
  Searches,
  Hits,      \* the places each search finds
  Html,      \* messages with an HTML body
  HtmlOnly,  \* those without a text
  Tracking,  \* those whose HTML names remote images
  None,
  MaxMarks   \* bound: set_seen requests of one place under way

Places       == UNION {{<<f, u>> : u \in DOMAIN Placed[f]} : f \in Folders}
MessageAt(p) == Placed[p[1]][p[2]]
Messages     == {MessageAt(p) : p \in Places}

ASSUME ShellAssumption ==
  /\ Folders \subseteq Seq(Segments) \ {<<>>}
  /\ DOMAIN Placed = Folders
  /\ Hits \in [Searches -> SUBSET Places]
  /\ HtmlOnly \subseteq Html /\ Tracking \subseteq Html
  /\ None \notin Messages \cup Searches \cup Folders
  /\ Folders \cap Searches = {}
  /\ MaxMarks \in Nat \ {0}

VARIABLES
  expanded,  \* the nodes of the tree that are open
  selected,  \* the folder, or None
  query,     \* the search, or None
  list,      \* the mounted list: how far it has come, and its rows in grey
  open,      \* the message in the reading pane, or None
  remote,    \* Reader: its signal for remote images
  fetch,     \* Reader: the request whose answer is awaited, or None
  shown,     \* Reader: the answer on the screen, or None
  html,      \* MessageView: show_html
  consent,   \* history: the message "Load images" was pressed for since it opened
  seen,      \* server: the places marked as seen
  marks,     \* set_seen requests under way
  failed     \* history: places for which one was lost

tree   == <<expanded>>
lists  == <<selected, query, list>>
reader == <<remote, fetch, shown, html, consent>>
server == <<seen, marks, failed>>
vars   == <<tree, lists, open, reader, server>>

Away  == [stage |-> "away", grey |-> {}]
Asked == [stage |-> "asked", grey |-> {}]

Init ==
  /\ expanded = {} /\ selected = None /\ query = None /\ list = Away
  /\ open = None
  /\ remote = FALSE /\ fetch = None /\ shown = None /\ html = FALSE
  /\ consent = None
  /\ seen \in SUBSET Places
  /\ marks = [p \in Places |-> 0] /\ failed = {}

----------------------------------------------------------------------------
(* The tree. *)

(* build_tree: a node for every prefix of a path, sent as a folder or not. *)
Nodes    == UNION {{SubSeq(f, 1, k) : k \in 1 .. Len(f)} : f \in Folders}
Above(n) == {SubSeq(n, 1, k) : k \in 1 .. Len(n) - 1}
Parents  == UNION {Above(n) : n \in Nodes}

OnScreen == {n \in Nodes : Above(n) \subseteq expanded}

(* Mutant: a badge is of the node's own folder only. *)
CountedOwn(n) == {n} \cap Folders

(* The folders whose unread messages the badge of a node counts: all under
   it, or its own when the others speak for themselves. *)
Counted(n) ==
  {f \in Folders : f = n \/ (n \notin expanded /\ n \in Above(f))}

(* The twisty, or a click on a node with no folder of its own. *)
Toggle(n) ==
  /\ n \in OnScreen \cap Parents
  /\ expanded' = IF n \in expanded THEN expanded \ {n} ELSE expanded \cup {n}
  /\ UNCHANGED <<lists, open, reader, server>>

----------------------------------------------------------------------------
(* The reading pane. *)

Request(m, images) == [message |-> m, images |-> images]

(* Mutant: the component is not keyed, and goes on with its signal. *)
ReadOn(m) ==
  /\ open' = m
  /\ fetch' = IF m = None THEN None ELSE Request(m, remote)
  /\ shown' = None /\ html' = FALSE
  /\ consent' = IF m = open THEN consent ELSE None
  /\ UNCHANGED remote

(* open.set: another message mounts another Reader, and with the old one its
   signals and its request go. *)
Read(m) ==
  /\ open' = m
  /\ IF m = open THEN UNCHANGED reader
     ELSE /\ remote' = FALSE /\ html' = FALSE /\ consent' = None
          /\ shown' = None
          /\ fetch' = IF m = None THEN None ELSE Request(m, FALSE)

(* message: the body, whose hash was verified, with or without the sources
   of its remote images. *)
Answer ==
  /\ fetch # None
  /\ shown' = fetch /\ fetch' = None
  /\ UNCHANGED <<tree, lists, open, remote, html, consent, server>>

(* No such message, no answer from the bucket or to the browser: the error
   takes the place of what was shown. *)
NoAnswer ==
  /\ fetch # None
  /\ shown' = None /\ fetch' = None /\ html' = FALSE
  /\ UNCHANGED <<tree, lists, open, remote, consent, server>>

ShowingHtml ==
  shown # None /\ (html \/ shown.message \in HtmlOnly)

SwitchBody ==
  /\ shown # None /\ shown.message \in Html \ HtmlOnly
  /\ html' = ~html
  /\ UNCHANGED <<tree, lists, open, remote, fetch, shown, consent, server>>

(* "Load images": the signal runs the resource again. *)
LoadImages ==
  /\ ShowingHtml /\ shown.message \in Tracking /\ ~shown.images /\ ~remote
  /\ remote' = TRUE
  /\ fetch' = Request(open, TRUE)
  /\ consent' = open
  /\ UNCHANGED <<tree, lists, open, shown, html, server>>

----------------------------------------------------------------------------
(* The list of the folder, or of the search. *)

Listed ==
  IF query # None THEN Hits[query] ELSE {p \in Places : p[1] = selected}

(* A folder: a search stays in the list until it is cleared. *)
Select(f) ==
  /\ f \in OnScreen
  /\ selected' = f
  /\ list' = IF query = None /\ f # selected THEN Asked ELSE list
  /\ Read(None)
  /\ UNCHANGED <<tree, query, server>>

SubmitSearch(q) ==
  /\ query' = q
  /\ list' = IF q # query THEN Asked ELSE list
  /\ Read(None)
  /\ UNCHANGED <<tree, selected, server>>

(* Another scope is another search, but the message stays open. *)
SetScope(q) ==
  /\ query # None /\ q # query
  /\ query' = q
  /\ list' = Asked
  /\ UNCHANGED <<tree, selected, open, reader, server>>

(* Mutant: the results stay where the list was. *)
ClearQuery ==
  /\ query # None
  /\ query' = None
  /\ UNCHANGED <<tree, selected, list, open, reader, server>>

Clear ==
  /\ query # None
  /\ query' = None
  /\ list' = IF selected = None THEN Away ELSE Asked
  /\ UNCHANGED <<tree, selected, open, reader, server>>

(* The server answers with the read state of the moment. *)
ServeList ==
  /\ list.stage = "asked"
  /\ list' = [stage |-> "coming", grey |-> Listed \cap seen]
  /\ UNCHANGED <<tree, selected, query, open, reader, server>>

ReceiveList ==
  /\ list.stage = "coming"
  /\ list' = [list EXCEPT !.stage = "there"]
  /\ UNCHANGED <<tree, selected, query, open, reader, server>>

FailList ==
  /\ list.stage \in {"asked", "coming"}
  /\ list' = [stage |-> "failed", grey |-> {}]
  /\ UNCHANGED <<tree, selected, query, open, reader, server>>

(* A hit is opened only. *)
OpenHit(p) ==
  /\ list.stage = "there" /\ query # None /\ p \in Listed
  /\ Read(MessageAt(p))
  /\ UNCHANGED <<tree, lists, server>>

(* Mutant: the row is looked for by its message. *)
OpenMessageByHash(p) ==
  /\ list.stage = "there" /\ query = None /\ p \in Listed
  /\ Read(MessageAt(p))
  /\ p \notin list.grey /\ marks[p] < MaxMarks
  /\ list' = [list EXCEPT !.grey = @ \cup
       {q \in Listed : MessageAt(q) = MessageAt(p)}]
  /\ marks' = [marks EXCEPT ![p] = @ + 1]
  /\ UNCHANGED <<tree, selected, query, seen, failed>>

(* open_message: the row is grey at once, and the request follows. *)
OpenMessage(p) ==
  /\ list.stage = "there" /\ query = None /\ p \in Listed
  /\ Read(MessageAt(p))
  /\ \/ p \in list.grey /\ UNCHANGED <<list, marks>>
     \/ /\ p \notin list.grey /\ marks[p] < MaxMarks
        /\ list' = [list EXCEPT !.grey = @ \cup {p}]
        /\ marks' = [marks EXCEPT ![p] = @ + 1]
  /\ UNCHANGED <<tree, selected, query, seen, failed>>

(* set_seen: one UPDATE, committed; its answer tells the client nothing. *)
SetSeen(p) ==
  /\ marks[p] > 0
  /\ seen' = seen \cup {p}
  /\ marks' = [marks EXCEPT ![p] = @ - 1]
  /\ UNCHANGED <<tree, lists, open, reader, failed>>

(* It does not arrive, or is refused, or its commit fails. *)
FailSeen(p) ==
  /\ marks[p] > 0
  /\ failed' = failed \cup {p}
  /\ marks' = [marks EXCEPT ![p] = @ - 1]
  /\ UNCHANGED <<tree, lists, open, reader, seen>>

(* Another tab marks a message. *)
SeenElsewhere(p) ==
  /\ seen' = seen \cup {p}
  /\ UNCHANGED <<tree, lists, open, reader, marks, failed>>

(* Signed out and in again, or the page is loaded anew. *)
Mount ==
  /\ expanded' = {} /\ selected' = None /\ query' = None /\ list' = Away
  /\ Read(None)
  /\ UNCHANGED server

Next ==
  \/ \E n \in Nodes : Toggle(n)
  \/ \E f \in Folders : Select(f)
  \/ \E q \in Searches : SubmitSearch(q) \/ SetScope(q)
  \/ Clear
  \/ ServeList \/ ReceiveList \/ FailList
  \/ \E p \in Places : OpenHit(p) \/ OpenMessage(p)
  \/ \E p \in Places : SetSeen(p) \/ FailSeen(p) \/ SeenElsewhere(p)
  \/ Answer \/ NoAnswer \/ SwitchBody \/ LoadImages
  \/ Mount

Spec == Init /\ [][Next]_vars
----------------------------------------------------------------------------
Details == [message : Messages, images : BOOLEAN]
Stages  == {"away", "asked", "coming", "there", "failed"}

(* Every variable has its type, and a list is there for a folder or a search
   only: it never outlives what it was mounted for. *)
TypeOK ==
  /\ expanded \subseteq Parents
  /\ selected \in Folders \cup {None}
  /\ query \in Searches \cup {None}
  /\ list \in [stage : Stages, grey : SUBSET Places]
  /\ list.stage = "away" <=> (query = None /\ selected = None)
  /\ list.grey \subseteq Listed
  /\ open \in Messages \cup {None}
  /\ remote \in BOOLEAN /\ html \in BOOLEAN
  /\ fetch \in Details \cup {None} /\ shown \in Details \cup {None}
  /\ consent \in Messages \cup {None}
  /\ seen \subseteq Places /\ failed \subseteq Places
  /\ marks \in [Places -> 0 .. MaxMarks]

(* However the tree is opened and closed, the unread messages of every folder
   are in the badge of exactly one node on the screen: a collapsed tree must
   not conceal them (unread_total), nor count them twice. *)
NothingConcealed ==
  \A f \in Folders :
    /\ \E n \in OnScreen : f \in Counted(n)
    /\ \A m, n \in OnScreen : f \in Counted(m) /\ f \in Counted(n) => m = n

(* The reading pane shows the message that is open, never the answer to an
   earlier one, and with its remote images only if they were asked for since
   it was opened: choosing to load one sender's says nothing of the next. *)
ReaderShows ==
  shown # None =>
    /\ shown.message = open
    /\ shown.images => consent = open

(* A row is grey only if the archive has that placement as seen, or is being
   told, or was told and did not hear: a message that lies in a folder twice
   is read once. *)
GreyHonest ==
  \A p \in list.grey : p \in seen \/ marks[p] > 0 \/ p \in failed
----------------------------------------------------------------------------
(* What makes them inductive. *)

(* The request is for the message that is open, with its images only if they
   were asked for; and so is the signal set. *)
RequestHonest ==
  /\ fetch # None =>
       /\ fetch.message = open
       /\ fetch.images => consent = open
  /\ remote => consent = open
  /\ open = None => fetch = None /\ shown = None /\ ~remote

IndInv == TypeOK /\ RequestHonest /\ ReaderShows /\ GreyHonest
=============================================================================
