------------------------------- MODULE Paging -------------------------------
(***************************************************************************)
(* The pages of a folder and of a search: messages_page and search of      *)
(* src/db.rs, their handlers and the cursor of src/web.rs, and the lists   *)
(* of web-ui/src/main.rs that append page after page while mail arrives    *)
(* and repair gives gaps their messages.                                   *)
(*                                                                         *)
(* A place is <<folder, UID>>.  What is shown is a set: a row knows the    *)
(* request it came with, and within one page the server has ordered it.    *)
(***************************************************************************)
EXTENDS Naturals, Sequences, FiniteSets

CONSTANTS
  Folders,     \* the user's folders
  Excluded,    \* folders of a kind the search leaves out
  Search,      \* the view that spans folders
  Contents,    \* messages that are not empty
  Empty,       \* the message of no bytes, kept for a failed fetch
  Found,       \* the messages the search term matches
  Date,        \* internaldate of each message
  Limit,       \* rows of a page, after the clamp
  Initial,     \* the placements at the start
  MaxUid,      \* bound: placements of a folder
  MaxRequests  \* bound: requests of one mounted list

Messages == Contents \cup {Empty}
Views    == Folders \cup {Search}

(* Milliseconds, and the microseconds beside them. *)
Dates == [milli : Nat, micro : Nat]

ASSUME PagingAssumption ==
  /\ Excluded \subseteq Folders /\ Search \notin Folders
  /\ IsFiniteSet(Folders)
  /\ Empty \notin Contents
  /\ Found \subseteq Messages
  /\ Date \in [Messages -> Dates]
  /\ Limit \in Nat \ {0}
  /\ Initial \in [Folders -> Seq(Messages)]
  /\ MaxUid \in Nat /\ MaxRequests \in Nat

VARIABLES
  placed,   \* per folder its messages; the index is the UID
  view,     \* what the mounted list shows
  shown,    \* the rows on the screen
  next,     \* the cursor for another page
  loading,  \* the component's signal: a page is awaited
  flight,   \* requests, answered or not, whose answer is awaited
  asked,    \* requests so far of this list
  there,    \* history: the places the first page was chosen from
  moved     \* history: places repaired since

client == <<view, shown, next, loading, flight, asked>>
vars   == <<placed, client, there, moved>>

Places == Folders \X Nat
Keys   == [milli : Nat, micro : Nat, uid : Nat]
Rows   == [place : Places, key : Keys, page : Nat]

NoKey  == [milli |-> 0, micro |-> 0, uid |-> 0]

(* No page yet, the position of the last row seen, or no more pages. *)
Cursors == {"top", "end"} \X {NoKey} \cup {"after"} \X Keys
Top     == <<"top", NoKey>>
End     == <<"end", NoKey>>

Requests ==
  [page : Nat, cursor : Cursors, served : BOOLEAN, rows : SUBSET Rows,
   next : Cursors]

Init ==
  /\ placed = Initial
  /\ view \in Views
  /\ shown = {} /\ next = End /\ loading = FALSE /\ flight = {} /\ asked = 0
  /\ there = {} /\ moved = {}

----------------------------------------------------------------------------
(* The two queries. *)

Placed == UNION {{<<f, u>> : u \in DOMAIN placed[f]} : f \in Folders}

MessageAt(p) == placed[p[1]][p[2]]

KeyOf(p) ==
  LET date == Date[MessageAt(p)]
  IN  [milli |-> date.milli, micro |-> date.micro, uid |-> p[2]]

(* (internaldate, uid) < (date, uid), as SQL compares rows. *)
Before(k, l) ==
  \/ k.milli < l.milli
  \/ k.milli = l.milli /\ k.micro < l.micro
  \/ k.milli = l.milli /\ k.micro = l.micro /\ k.uid < l.uid

Listed ==
  {p \in Placed :
     IF view = Search THEN p[1] \notin Excluded /\ MessageAt(p) \in Found
     ELSE p[1] = view}

(* Mutant: rows up to and including the cursor. *)
CandidatesUpTo(cursor) ==
  {p \in Listed : cursor[1] = "top" \/ ~Before(cursor[2], KeyOf(p))}

Candidates(cursor) ==
  {p \in Listed : cursor[1] = "top" \/ Before(KeyOf(p), cursor[2])}

(* encode_cursor and decode_cursor: the microseconds are not in it. *)
Encode(k) == <<"after", [k EXCEPT !.micro = 0]>>

(* ORDER BY date DESC, uid DESC: rows that tie come in any order. *)
Newest(page, all) ==
  \A p \in page, q \in all \ page : ~Before(KeyOf(p), KeyOf(q))

(* Mutant: the cursor is the row left over. *)
AnswersExtra(page, cursor, after) ==
  LET all == Candidates(cursor)
  IN  \/ Cardinality(all) <= Limit /\ page = all /\ after = End
      \/ /\ Cardinality(all) > Limit /\ Cardinality(page) = Limit
         /\ Newest(page, all)
         /\ \E extra \in all \ page :
              /\ Newest(page \cup {extra}, all)
              /\ after = Encode(KeyOf(extra))

(* Mutant: a full page is taken to have a successor. *)
AnswersFull(page, cursor, after) ==
  LET all == Candidates(cursor)
  IN  \/ Cardinality(all) < Limit /\ page = all /\ after = End
      \/ /\ Cardinality(all) >= Limit /\ Cardinality(page) = Limit
         /\ Newest(page, all)
         /\ \E last \in page :
              /\ \A p \in page : ~Before(KeyOf(p), KeyOf(last))
              /\ after = Encode(KeyOf(last))

(* The handler asks for one row more than the limit; when it gets it, the
   cursor is the last row it sends. *)
Answers(page, cursor, after) ==
  LET all == Candidates(cursor)
  IN  \/ Cardinality(all) <= Limit /\ page = all /\ after = End
      \/ /\ Cardinality(all) > Limit /\ Cardinality(page) = Limit
         /\ Newest(page, all)
         /\ \E last \in page :
              /\ \A p \in page : ~Before(KeyOf(p), KeyOf(last))
              /\ after = Encode(KeyOf(last))

----------------------------------------------------------------------------
(* The archive: store_message appends a placement the folder does not have;
   repair gives a gap its message. *)

Arrive(f, m) ==
  /\ Len(placed[f]) < MaxUid
  /\ \A u \in DOMAIN placed[f] : placed[f][u] # m
  /\ placed' = [placed EXCEPT ![f] = Append(@, m)]
  /\ UNCHANGED <<client, there, moved>>

Repoint(f, u, m) ==
  /\ placed[f][u] = Empty
  /\ placed' = [placed EXCEPT ![f][u] = m]
  /\ moved' = moved \cup {<<f, u>>}
  /\ UNCHANGED <<client, there>>

----------------------------------------------------------------------------
(* The client. *)

Request(page, cursor) ==
  [page |-> page, cursor |-> cursor, served |-> FALSE, rows |-> {},
   next |-> End]

(* Mutant: the list is not mounted anew, an answer may still come. *)
MountOver(v) ==
  /\ v # view \/ asked = 0
  /\ view' = v
  /\ shown' = {} /\ next' = End
  /\ loading' = TRUE
  /\ flight' = flight \cup {Request(1, Top)}
  /\ asked' = 1
  /\ there' = {} /\ moved' = {}
  /\ UNCHANGED placed

(* Another folder or another search: the list is mounted anew, nothing of the
   old one is left, and the first page is asked for. *)
Mount(v) ==
  /\ v # view \/ asked = 0
  /\ view' = v
  /\ shown' = {} /\ next' = End
  /\ loading' = TRUE
  /\ flight' = {Request(1, Top)}
  /\ asked' = 1
  /\ there' = {} /\ moved' = {}
  /\ UNCHANGED placed

(* Mutant: no look at the signal. *)
LoadMoreAgain ==
  /\ next[1] = "after"
  /\ asked < MaxRequests
  /\ asked' = asked + 1
  /\ loading' = TRUE
  /\ flight' = flight \cup {Request(asked + 1, next)}
  /\ UNCHANGED <<placed, view, shown, next, there, moved>>

LoadMore ==
  /\ ~loading
  /\ next[1] = "after"
  /\ asked < MaxRequests
  /\ asked' = asked + 1
  /\ loading' = TRUE
  /\ flight' = flight \cup {Request(asked + 1, next)}
  /\ UNCHANGED <<placed, view, shown, next, there, moved>>

Answered(r, page, after) ==
  [page |-> r.page, cursor |-> r.cursor, served |-> TRUE,
   rows |-> {[place |-> p, key |-> KeyOf(p), page |-> r.page] : p \in page},
   next |-> after]

(* The server answers from one snapshot. *)
Serve(r) ==
  /\ ~r.served
  /\ \E page \in SUBSET Candidates(r.cursor),
        after \in {End} \cup {Encode(KeyOf(p)) : p \in Candidates(r.cursor)} :
       /\ Answers(page, r.cursor, after)
       /\ flight' = (flight \ {r}) \cup
            {Answered(r, page, after)}
  /\ IF r.cursor = Top THEN there' = Listed /\ moved' = {}
     ELSE UNCHANGED <<there, moved>>
  /\ UNCHANGED <<placed, view, shown, next, loading, asked>>

(* The first page is set, the others are appended. *)
Receive(r) ==
  /\ r.served
  /\ shown' = (IF r.cursor = Top THEN {} ELSE shown) \cup r.rows
  /\ next' = r.next
  /\ loading' = FALSE
  /\ flight' = flight \ {r}
  /\ UNCHANGED <<placed, view, asked, there, moved>>

(* An error answer, or none: what was there stays, and so does the cursor. *)
Fail(r) ==
  /\ loading' = FALSE
  /\ flight' = flight \ {r}
  /\ UNCHANGED <<placed, view, shown, next, asked, there, moved>>

----------------------------------------------------------------------------
Next ==
  \/ \E f \in Folders, m \in Messages : Arrive(f, m)
  \/ \E f \in Folders : \E u \in DOMAIN placed[f], m \in Contents :
       Repoint(f, u, m)
  \/ \E v \in Views : Mount(v)
  \/ LoadMore
  \/ \E r \in flight : Serve(r) \/ Receive(r) \/ Fail(r)

Spec == Init /\ [][Next]_vars
----------------------------------------------------------------------------
(* Every variable has its type; one page at a time is awaited. *)
TypeOK ==
  /\ placed \in [Folders -> Seq(Messages)]
  /\ view \in Views
  /\ shown \in SUBSET Rows
  /\ next \in Cursors
  /\ loading \in BOOLEAN
  /\ flight \in SUBSET Requests /\ \A q, r \in flight : q = r
  /\ loading <=> flight # {}
  /\ asked \in Nat
  /\ there \in SUBSET Places
  /\ moved \in SUBSET Places

(* No place is on the screen twice, however often the user asks for more and
   whatever arrives, but for a gap that was repaired, and so dated anew, after
   it was shown.  In a search, too. *)
NothingTwice ==
  \A x, y \in shown : x.place = y.place => x = y \/ x.place \in moved

(* Every row of a later page is older than every row of an earlier one:
   appending never breaks the order the list is read in. *)
NewestFirst ==
  \A x, y \in shown : x.page < y.page => Before(y.key, x.key)

AtEnd == ~loading /\ asked > 0 /\ next = End

Seen(p, rows) == \E x \in rows : x.place = p

(* p is no newer than the last row of a page and yet not older than the cursor
   made of it, which has lost the microseconds (web.rs:674) and does not name
   the folder: p has that row's millisecond, or in a search ties with it, and
   the pages that follow do not ask for it. *)
PassedOver(p, rows) ==
  \E last \in rows :
    /\ \A x \in rows : x.page = last.page => ~Before(x.key, last.key)
    /\ ~Before(last.key, KeyOf(p))
    /\ ~Before(KeyOf(p), Encode(last.key)[2])

(* Who pages through a folder or a search to its end has seen every message
   that was in it at the first page and was not repaired since, whatever has
   come in; but for those that are passed over where a page ends within their
   millisecond. *)
ReachesAll ==
  AtEnd /\ shown # {} =>
    \A p \in there \ moved : Seen(p, shown) \/ PassedOver(p, shown)

(* "Load more" is offered only when more comes, unless a repair has dated the
   rest anew or what is left is passed over. *)
MoreComes ==
  moved = {} =>
    \A r \in flight :
      r.served /\ r.cursor # Top /\ r.rows = {} =>
        \E p \in Listed : ~Seen(p, shown) /\ PassedOver(p, shown)
----------------------------------------------------------------------------
(* What makes them inductive. *)

(* The page awaited has the last number, and the cursor on the screen. *)
Awaited ==
  /\ next[1] # "top"
  /\ \A x \in shown : x.page <= asked
  /\ \A r \in flight :
       /\ r.page = asked
       /\ \A x \in shown : x.page < asked
       /\ \A x \in r.rows : x.page = asked
       /\ ~r.served => r.rows = {}
       /\ r.next[1] # "top"
       /\ IF r.cursor = Top THEN shown = {} /\ next = End
          ELSE r.cursor = next /\ next[1] = "after"

(* A cursor lies before everything that came with it or earlier. *)
Behind(cursor, rows) ==
  cursor[1] = "after" => \A x \in rows : ~Before(x.key, cursor[2])

CursorsBehind ==
  /\ Behind(next, shown)
  /\ \A r \in flight :
       /\ Behind(r.next, shown) /\ Behind(r.next, r.rows)
       /\ r.cursor # Top => \A x \in r.rows : Before(x.key, r.cursor[2])

(* What a row says of a place that was not repaired is still so. *)
Truthful(rows) ==
  \A x \in rows :
    x.place \in moved \/ (x.place \in Placed /\ x.key = KeyOf(x.place))

RowsTruthful ==
  /\ Truthful(shown)
  /\ \A r \in flight :
       /\ Truthful(r.rows)
       /\ \A x, y \in r.rows : x.place = y.place => x = y

IndInv ==
  TypeOK /\ Awaited /\ CursorsBehind /\ RowsTruthful /\ NewestFirst
  /\ NothingTwice

(* What was there is on the screen, in the page that comes, still to come or
   passed over. *)
Reached(p, rows, cursor) ==
  \/ Seen(p, rows)
  \/ cursor[1] = "after" /\ Before(KeyOf(p), cursor[2])
  \/ PassedOver(p, rows)

NothingLost ==
  \A p \in there \ moved :
    /\ p \in Listed
    /\ shown # {} => Reached(p, shown, next)
    /\ \A r \in flight : r.served => Reached(p, shown \cup r.rows, r.next)

(* A cursor has rows before it, or has passed one over. *)
MoreAfter(rows, cursor) ==
  cursor[1] = "after" =>
    \E p \in Listed :
      \/ Before(KeyOf(p), cursor[2])
      \/ ~Seen(p, rows) /\ PassedOver(p, rows)

MoreIsThere ==
  moved = {} =>
    /\ MoreAfter(shown, next)
    /\ \A r \in flight : MoreAfter(shown \cup r.rows, r.next)

(* A cursor comes with the row it was made of. *)
CursorsEarned ==
  /\ next[1] = "after" => shown # {}
  /\ \A r \in flight : r.next[1] = "after" => r.rows # {}

CompleteInv == CursorsEarned /\ NothingLost /\ MoreIsThere /\ MoreComes
=============================================================================
