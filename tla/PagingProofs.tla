---------------------------- MODULE PagingProofs ----------------------------
(***************************************************************************)
(* Proofs about Paging, for any folders and messages, any page size and    *)
(* any number of requests.                                                 *)
(***************************************************************************)
EXTENDS Paging, FiniteSetTheorems, TLAPS

(* Rows are ordered by date and UID. *)
LEMMA KeyOrder ==
  ASSUME NEW k \in Keys, NEW l \in Keys, NEW m \in Keys
  PROVE  /\ ~Before(k, k)
         /\ k # l => Before(k, l) \/ Before(l, k)
         /\ ~Before(k, m) /\ Before(l, m) => Before(l, k)
         /\ ~Before(l, k) /\ ~Before(m, l) => ~Before(m, k)
         /\ Before(k, l) /\ Before(l, m) => Before(k, m)
  BY DEF Keys, Before

LEMMA CursorTypes ==
  /\ Top \in Cursors /\ End \in Cursors
  /\ Top[1] = "top" /\ End[1] = "end" /\ Top # End /\ NoKey \in Keys
  /\ \A c \in Cursors : c[1] \in {"top", "end", "after"}
  /\ \A c \in Cursors : c[1] = "after" => c[2] \in Keys
  /\ \A c \in Cursors : c[1] = "top" => c = Top
  /\ \A c \in Cursors : c[1] = "end" => c = End
  BY DEF Cursors, Top, End, Keys, NoKey

(* The cursor of a row is not newer than the row. *)
LEMMA EncodeType ==
  ASSUME NEW k \in Keys
  PROVE  /\ Encode(k) \in Cursors
         /\ Encode(k)[1] = "after"
         /\ Encode(k)[2] \in Keys
         /\ ~Before(k, Encode(k)[2])
  <1>1. Encode(k) = <<"after", [milli |-> k.milli, micro |-> 0, uid |-> k.uid]>>
    BY DEF Encode, Keys
  <1> QED BY <1>1 DEF Cursors, Keys, Before

(* What is placed has a message and a key. *)
LEMMA PlacedType ==
  ASSUME TypeOK, NEW p \in Placed
  PROVE  /\ p \in Places
         /\ p = <<p[1], p[2]>>
         /\ p[1] \in Folders /\ p[2] \in DOMAIN placed[p[1]]
         /\ MessageAt(p) \in Messages
         /\ KeyOf(p) \in Keys
         /\ KeyOf(p).uid = p[2]
  <1>0. PICK f \in Folders : p \in {<<f, u>> : u \in DOMAIN placed[f]}
    BY DEF Placed
  <1>1. PICK u \in DOMAIN placed[f] : p = <<f, u>> BY <1>0
  <1>2. placed[f] \in Seq(Messages) BY DEF TypeOK
  <1>3. u \in Nat /\ placed[f][u] \in Messages BY <1>2
  <1>4. Date[placed[f][u]] \in Dates BY <1>3, PagingAssumption
  <1> QED BY <1>1, <1>3, <1>4 DEF Places, MessageAt, KeyOf, Keys, Dates

(* What a page is, whichever rows of a tie the server chose. *)
LEMMA AnswersPage ==
  ASSUME TypeOK, NEW r \in flight,
         NEW page \in SUBSET Candidates(r.cursor), NEW after,
         Answers(page, r.cursor, after)
  PROVE  /\ page \subseteq Placed /\ page \subseteq Listed
         /\ after \in Cursors /\ after[1] # "top"
         /\ \/ after = End /\ page = Candidates(r.cursor)
            \/ /\ after[1] = "after"
               /\ page # {} /\ page # Candidates(r.cursor)
               /\ Newest(page, Candidates(r.cursor))
               /\ \E last \in page :
                    /\ \A p \in page : ~Before(KeyOf(p), KeyOf(last))
                    /\ after = Encode(KeyOf(last))
  <1>1. page \subseteq Placed /\ page \subseteq Listed
    BY DEF Candidates, Listed
  <1>2. CASE page = Candidates(r.cursor) /\ after = End
    BY <1>1, <1>2, CursorTypes
  <1>3. CASE /\ Cardinality(Candidates(r.cursor)) > Limit
             /\ Cardinality(page) = Limit
             /\ Newest(page, Candidates(r.cursor))
             /\ \E last \in page :
                  /\ \A p \in page : ~Before(KeyOf(p), KeyOf(last))
                  /\ after = Encode(KeyOf(last))
    <2>1. page # {} BY <1>3, FS_EmptySet, PagingAssumption
    <2>2. page # Candidates(r.cursor) BY <1>3, PagingAssumption
    <2>3. after \in Cursors /\ after[1] = "after"
      BY <1>1, <1>3, PlacedType, EncodeType
    <2> QED BY <1>1, <1>3, <2>1, <2>2, <2>3
  <1> QED BY <1>2, <1>3 DEF Answers

(* The archive only grows, and only repair changes what is there. *)
LEMMA Grows ==
  ASSUME TypeOK, NEW f \in Folders, NEW m \in Messages, Arrive(f, m),
         NEW p \in Placed
  PROVE  /\ p \in Placed' /\ KeyOf(p)' = KeyOf(p)
         /\ MessageAt(p)' = MessageAt(p)
  <1>0. PICK g \in Folders : p \in {<<g, w>> : w \in DOMAIN placed[g]}
    BY DEF Placed
  <1>1. PICK u \in DOMAIN placed[g] : p = <<g, u>> BY <1>0
  <1>2. placed[f] \in Seq(Messages) /\ placed[g] \in Seq(Messages) BY DEF TypeOK
  <1>3. placed'[g] = IF g = f THEN Append(placed[f], m) ELSE placed[g]
    BY DEF Arrive, TypeOK
  <1>4. u \in DOMAIN placed'[g] /\ placed'[g][u] = placed[g][u]
    BY <1>2, <1>3
  <1> QED BY <1>1, <1>4 DEF Placed, KeyOf, MessageAt

LEMMA Repoints ==
  ASSUME TypeOK, NEW f \in Folders, NEW u \in DOMAIN placed[f],
         NEW m \in Contents, Repoint(f, u, m), NEW p \in Placed
  PROVE  /\ p \in Placed'
         /\ p \notin moved' => KeyOf(p)' = KeyOf(p)
                               /\ MessageAt(p)' = MessageAt(p)
  <1>0. PICK g \in Folders : p \in {<<g, w>> : w \in DOMAIN placed[g]}
    BY DEF Placed
  <1>1. PICK v \in DOMAIN placed[g] : p = <<g, v>> BY <1>0
  <1>2. placed[f] \in Seq(Messages) /\ placed[g] \in Seq(Messages) BY DEF TypeOK
  <1>3. placed'[g] = IF g = f THEN [placed[f] EXCEPT ![u] = m] ELSE placed[g]
    BY DEF Repoint, TypeOK
  <1>4. v \in DOMAIN placed'[g] BY <1>1, <1>3
  <1>5. p \notin moved' => placed'[g][v] = placed[g][v]
    BY <1>1, <1>3 DEF Repoint
  <1> QED BY <1>1, <1>4, <1>5 DEF Placed, KeyOf, MessageAt

----------------------------------------------------------------------------
LEMMA InitTypes == Init => TypeOK
  <1> SUFFICES ASSUME Init PROVE TypeOK OBVIOUS
  <1>1. placed \in [Folders -> Seq(Messages)] BY PagingAssumption DEF Init
  <1>2. loading = FALSE /\ flight = {} /\ shown = {} BY DEF Init
  <1>3. next \in Cursors BY CursorTypes DEF Init
  <1> QED BY <1>1, <1>2, <1>3 DEF Init, TypeOK

LEMMA RequestType ==
  ASSUME NEW n \in Nat, NEW cursor \in Cursors
  PROVE  Request(n, cursor) \in Requests
  BY CursorTypes DEF Request, Requests

LEMMA ServedType ==
  ASSUME TypeOK, NEW r \in flight,
         NEW page \in SUBSET Candidates(r.cursor), NEW after,
         Answers(page, r.cursor, after)
  PROVE  /\ Answered(r, page, after) \in Requests
         /\ Answered(r, page, after).page = r.page
         /\ Answered(r, page, after).cursor = r.cursor
         /\ Answered(r, page, after).served
         /\ Answered(r, page, after).next = after
         /\ \A x \in Answered(r, page, after).rows :
              /\ x.place \in page /\ x.key = KeyOf(x.place) /\ x.page = r.page
              /\ x = [place |-> x.place, key |-> x.key, page |-> x.page]
         /\ \A p \in page : \E x \in Answered(r, page, after).rows : x.place = p
  <1>1. r \in Requests BY DEF TypeOK
  <1>2. after \in Cursors /\ page \subseteq Placed BY AnswersPage
  <1> DEFINE rows == {[place |-> p, key |-> KeyOf(p), page |-> r.page] : p \in page}
  <1>3. rows \in SUBSET Rows
    BY <1>1, <1>2, PlacedType DEF Rows, Requests
  <1>4. /\ \A x \in rows : /\ x.place \in page /\ x.key = KeyOf(x.place)
                         /\ x.page = r.page
        /\ \A p \in page : \E x \in rows : x.place = p
    <2>1. ASSUME NEW x \in rows
          PROVE  x.place \in page /\ x.key = KeyOf(x.place) /\ x.page = r.page
      <3>1. PICK p \in page :
              x = [place |-> p, key |-> KeyOf(p), page |-> r.page]
        OBVIOUS
      <3>2. x.place = p /\ x.key = KeyOf(p) /\ x.page = r.page BY <3>1
      <3> QED BY <3>2
    <2>2. ASSUME NEW p \in page PROVE \E x \in rows : x.place = p
      <3>1. [place |-> p, key |-> KeyOf(p), page |-> r.page] \in rows OBVIOUS
      <3> QED BY <3>1
    <2> QED BY <2>1, <2>2
  <1>5. \A x \in rows : x = [place |-> x.place, key |-> x.key, page |-> x.page]
    BY <1>3 DEF Rows
  <1>6. Answered(r, page, after) =
          [page |-> r.page, cursor |-> r.cursor, served |-> TRUE,
           rows |-> rows, next |-> after]
    BY DEF Answered
  <1> HIDE DEF rows
  <1>7. Answered(r, page, after) \in Requests
    BY <1>1, <1>2, <1>3, <1>6 DEF Requests
  <1> QED BY <1>4, <1>5, <1>6, <1>7

LEMMA ServeFlight ==
  ASSUME TypeOK, NEW r \in flight, Serve(r)
  PROVE  \E page \in SUBSET Candidates(r.cursor), after \in Cursors :
           /\ Answers(page, r.cursor, after)
           /\ flight' = {Answered(r, page, after)}
  <1>1. PICK page \in SUBSET Candidates(r.cursor),
             after \in {End} \cup {Encode(KeyOf(p)) : p \in Candidates(r.cursor)} :
          /\ Answers(page, r.cursor, after)
          /\ flight' = (flight \ {r}) \cup {Answered(r, page, after)}
    BY DEF Serve
  <1>2. flight \ {r} = {} BY DEF TypeOK
  <1>3. after \in Cursors BY <1>1, AnswersPage
  <1> QED BY <1>1, <1>2, <1>3

LEMMA NextTypes == TypeOK /\ [Next]_vars => TypeOK'
  <1> SUFFICES ASSUME TypeOK, [Next]_vars PROVE TypeOK'
    OBVIOUS
  <1>1. ASSUME NEW f \in Folders, NEW m \in Messages, Arrive(f, m)
        PROVE  TypeOK'
    <2>1. placed' \in [Folders -> Seq(Messages)] BY <1>1 DEF Arrive, TypeOK
    <2> QED BY <1>1, <2>1 DEF Arrive, TypeOK, client
  <1>2. ASSUME NEW f \in Folders, NEW u \in DOMAIN placed[f],
               NEW m \in Contents, Repoint(f, u, m)
        PROVE  TypeOK'
    <2>1. placed[f] \in Seq(Messages) BY DEF TypeOK
    <2>2. [placed[f] EXCEPT ![u] = m] \in Seq(Messages)
      BY <2>1 DEF Messages
    <2>3. placed' \in [Folders -> Seq(Messages)] BY <1>2, <2>2 DEF Repoint, TypeOK
    <2>4. <<f, u>> \in Places BY <2>1 DEF Places
    <2> QED BY <1>2, <2>3, <2>4 DEF Repoint, TypeOK, client
  <1>3. ASSUME NEW v \in Views, Mount(v) PROVE TypeOK'
    BY <1>3, CursorTypes, RequestType DEF Mount, TypeOK
  <1>4. CASE LoadMore
    <2>1. flight = {} BY <1>4 DEF LoadMore, TypeOK
    <2>2. Request(asked + 1, next) \in Requests BY RequestType DEF TypeOK
    <2> QED BY <1>4, <2>1, <2>2 DEF LoadMore, TypeOK
  <1>5. ASSUME NEW r \in flight, Serve(r) PROVE TypeOK'
    <2>1. PICK page \in SUBSET Candidates(r.cursor), after \in Cursors :
            /\ Answers(page, r.cursor, after)
            /\ flight' = {Answered(r, page, after)}
      BY <1>5, ServeFlight
    <2>2. Answered(r, page, after) \in Requests BY <2>1, ServedType
    <2>3. Listed \subseteq Places BY PlacedType DEF Listed
    <2>4. there' \in SUBSET Places /\ moved' \in SUBSET Places
      BY <1>5, <2>3 DEF Serve, TypeOK
    <2>5. flight # {} OBVIOUS
    <2> QED BY <1>5, <2>1, <2>2, <2>4, <2>5 DEF Serve, TypeOK
  <1>6. ASSUME NEW r \in flight, Receive(r) PROVE TypeOK'
    <2>1. r \in Requests BY DEF TypeOK
    <2>2. r.rows \in SUBSET Rows /\ r.next \in Cursors BY <2>1 DEF Requests
    <2>3. flight' = {} BY <1>6 DEF Receive, TypeOK
    <2> QED BY <1>6, <2>2, <2>3 DEF Receive, TypeOK
  <1>7. ASSUME NEW r \in flight, Fail(r) PROVE TypeOK'
    <2>1. flight' = {} BY <1>7 DEF Fail, TypeOK
    <2> QED BY <1>7, <2>1 DEF Fail, TypeOK
  <1>8. CASE UNCHANGED vars BY <1>8 DEF vars, client, TypeOK
  <1> QED BY <1>1, <1>2, <1>3, <1>4, <1>5, <1>6, <1>7, <1>8 DEF Next

(* Every variable keeps its type, and the client awaits one page at a time. *)
THEOREM TypeCorrect == Spec => []TypeOK
  BY InitTypes, NextTypes, PTL DEF Spec

----------------------------------------------------------------------------
(* Order and rows, whatever the dates: one lemma per action. *)

LEMMA ArriveKeeps ==
  ASSUME IndInv, NEW f \in Folders, NEW m \in Messages, Arrive(f, m), TypeOK'
  PROVE  IndInv'
  <1>1. UNCHANGED <<client, there, moved>> BY DEF Arrive
  <1>2. Awaited' BY <1>1 DEF IndInv, Awaited, client
  <1>3. CursorsBehind' BY <1>1 DEF IndInv, CursorsBehind, Behind, client
  <1>4. NewestFirst' BY <1>1 DEF IndInv, NewestFirst, client
  <1>5. NothingTwice' BY <1>1 DEF IndInv, NothingTwice, client
  <1>6. ASSUME NEW rows, Truthful(rows) PROVE Truthful(rows)'
    BY <1>1, <1>6, Grows DEF IndInv, Truthful
  <1>7. RowsTruthful'
    <2>1. Truthful(shown) /\ \A r \in flight : Truthful(r.rows)
      BY DEF IndInv, RowsTruthful
    <2> QED BY <1>1, <1>6, <2>1 DEF IndInv, RowsTruthful, client
  <1> QED BY <1>2, <1>3, <1>4, <1>5, <1>7 DEF IndInv

LEMMA RepointKeeps ==
  ASSUME IndInv, NEW f \in Folders, NEW u \in DOMAIN placed[f],
         NEW m \in Contents, Repoint(f, u, m), TypeOK'
  PROVE  IndInv'
  <1>1. UNCHANGED <<client, there>> /\ moved \subseteq moved' BY DEF Repoint
  <1>2. Awaited' BY <1>1 DEF IndInv, Awaited, client
  <1>3. CursorsBehind' BY <1>1 DEF IndInv, CursorsBehind, Behind, client
  <1>4. NewestFirst' BY <1>1 DEF IndInv, NewestFirst, client
  <1>5. NothingTwice' BY <1>1 DEF IndInv, NothingTwice, client
  <1>6. ASSUME NEW rows, Truthful(rows) PROVE Truthful(rows)'
    BY <1>1, <1>6, Repoints DEF IndInv, Truthful
  <1>7. RowsTruthful'
    <2>1. Truthful(shown) /\ \A r \in flight : Truthful(r.rows)
      BY DEF IndInv, RowsTruthful
    <2> QED BY <1>1, <1>6, <2>1 DEF IndInv, RowsTruthful, client
  <1> QED BY <1>2, <1>3, <1>4, <1>5, <1>7 DEF IndInv

LEMMA MountKeeps ==
  ASSUME IndInv, NEW v \in Views, Mount(v), TypeOK'
  PROVE  IndInv'
  <1>1. /\ shown' = {} /\ next' = End /\ asked' = 1
        /\ flight' = {Request(1, Top)}
    BY DEF Mount
  <1>2. /\ Request(1, Top).page = 1 /\ Request(1, Top).cursor = Top
        /\ Request(1, Top).rows = {} /\ Request(1, Top).next = End
    BY DEF Request
  <1>3. Awaited' BY <1>1, <1>2, CursorTypes DEF Awaited
  <1>4. CursorsBehind' BY <1>1, <1>2, CursorTypes DEF CursorsBehind, Behind
  <1>5. RowsTruthful' BY <1>1, <1>2 DEF RowsTruthful, Truthful
  <1> QED BY <1>1, <1>3, <1>4, <1>5 DEF IndInv, NewestFirst, NothingTwice

LEMMA SamePlaced ==
  ASSUME placed' = placed
  PROVE  /\ Placed' = Placed
         /\ \A p : KeyOf(p)' = KeyOf(p) /\ MessageAt(p)' = MessageAt(p)
  BY DEF Placed, KeyOf, MessageAt

LEMMA LoadMoreKeeps ==
  ASSUME IndInv, LoadMore, TypeOK'
  PROVE  IndInv'
  <1>1. flight = {} BY DEF LoadMore, IndInv, TypeOK
  <1>2. /\ UNCHANGED <<placed, view, shown, next, there, moved>>
        /\ flight' = {Request(asked + 1, next)} /\ asked' = asked + 1
        /\ next[1] = "after"
    BY <1>1 DEF LoadMore
  <1>3. /\ Request(asked + 1, next).page = asked + 1
        /\ Request(asked + 1, next).cursor = next
        /\ Request(asked + 1, next).rows = {}
        /\ Request(asked + 1, next).next = End
    BY DEF Request
  <1>4. asked \in Nat /\ \A x \in shown : x.page \in Nat
    BY DEF IndInv, TypeOK, Rows
  <1>5. Awaited' BY <1>2, <1>3, <1>4, CursorTypes DEF IndInv, Awaited
  <1>6. CursorsBehind'
    BY <1>2, <1>3, CursorTypes DEF IndInv, CursorsBehind, Behind
  <1>7. Truthful(shown)'
    BY <1>2, SamePlaced DEF IndInv, RowsTruthful, Truthful
  <1>8. RowsTruthful' BY <1>2, <1>3, <1>7 DEF RowsTruthful, Truthful
  <1> QED BY <1>2, <1>5, <1>6, <1>8 DEF IndInv, NewestFirst, NothingTwice

LEMMA FailKeeps ==
  ASSUME IndInv, NEW r \in flight, Fail(r), TypeOK'
  PROVE  IndInv'
  <1>1. flight' = {} BY DEF Fail, IndInv, TypeOK
  <1>2. UNCHANGED <<placed, view, shown, next, asked, there, moved>> BY DEF Fail
  <1>3. Truthful(shown)'
    BY <1>2, SamePlaced DEF IndInv, RowsTruthful, Truthful
  <1> QED BY <1>1, <1>2, <1>3 DEF IndInv, Awaited, CursorsBehind, Behind,
                                  RowsTruthful, NewestFirst, NothingTwice

(* The rows an answer adds are older than what is shown, and say the truth. *)
LEMMA ServeKeeps ==
  ASSUME IndInv, NEW r \in flight, Serve(r), TypeOK'
  PROVE  IndInv'
  <1> USE DEF IndInv
  <1>1. PICK page \in SUBSET Candidates(r.cursor), after \in Cursors :
          /\ Answers(page, r.cursor, after)
          /\ flight' = {Answered(r, page, after)}
    BY ServeFlight
  <1>2. UNCHANGED <<placed, view, shown, next, asked>> BY DEF Serve
  <1>3. PICK a : a = Answered(r, page, after) OBVIOUS
  <1>4. /\ a.page = r.page /\ a.cursor = r.cursor /\ a.served /\ a.next = after
        /\ \A x \in a.rows :
             /\ x.place \in page /\ x.key = KeyOf(x.place) /\ x.page = r.page
             /\ x = [place |-> x.place, key |-> x.key, page |-> x.page]
    BY <1>1, <1>3, ServedType
  <1>5. flight' = {a} BY <1>1, <1>3
  <1>6. /\ page \subseteq Placed /\ after \in Cursors /\ after[1] # "top"
        /\ after[1] = "after" =>
             \E last \in page :
               /\ \A p \in page : ~Before(KeyOf(p), KeyOf(last))
               /\ after = Encode(KeyOf(last))
    <2>1. TypeOK OBVIOUS
    <2> HIDE DEF IndInv
    <2>2. /\ page \subseteq Placed /\ after \in Cursors /\ after[1] # "top"
          /\ \/ after = End
             \/ \E last \in page :
                  /\ \A p \in page : ~Before(KeyOf(p), KeyOf(last))
                  /\ after = Encode(KeyOf(last))
      BY <1>1, <2>1, AnswersPage
    <2> QED BY <2>2, CursorTypes
  <1>7. Awaited'
    BY <1>2, <1>4, <1>5, <1>6 DEF Awaited
  <1>8. r.cursor # Top =>
          /\ r.cursor = next /\ next[1] = "after" /\ next[2] \in Keys
          /\ \A p \in page : Before(KeyOf(p), next[2])
    <2>1. r.cursor # Top => r.cursor = next /\ next[1] = "after"
      BY DEF Awaited
    <2>2. next \in Cursors BY DEF TypeOK
    <2> QED BY <2>1, <2>2, CursorTypes DEF Candidates
  <1>9. r.cursor = Top => shown = {} BY DEF Awaited
  <1>10. Behind(after, a.rows)
    <2> SUFFICES ASSUME after[1] = "after", NEW x \in a.rows
                 PROVE  ~Before(x.key, after[2])
      BY DEF Behind
    <2>1. PICK last \in page :
            /\ \A p \in page : ~Before(KeyOf(p), KeyOf(last))
            /\ after = Encode(KeyOf(last))
      BY <1>6
    <2>2. /\ KeyOf(last) \in Keys /\ x.key \in Keys
          /\ ~Before(x.key, KeyOf(last))
      BY <1>4, <1>6, <2>1, PlacedType
    <2>3. after[2] \in Keys /\ ~Before(KeyOf(last), after[2])
      BY <2>1, <2>2, EncodeType
    <2> QED BY <2>2, <2>3, KeyOrder
  <1>11. Behind(after, shown)
    <2> SUFFICES ASSUME after[1] = "after", NEW x \in shown
                 PROVE  ~Before(x.key, after[2])
      BY DEF Behind
    <2>1. PICK last \in page : after = Encode(KeyOf(last)) BY <1>6
    <2>2. KeyOf(last) \in Keys BY <1>6, PlacedType
    <2>3. after[2] \in Keys /\ ~Before(KeyOf(last), after[2])
      BY <2>1, <2>2, EncodeType
    <2>4. next[2] \in Keys /\ Before(KeyOf(last), next[2])
          /\ ~Before(x.key, next[2])
      BY <1>8, <1>9 DEF CursorsBehind, Behind
    <2>5. x.key \in Keys BY DEF TypeOK, Rows
    <2>6. Before(KeyOf(last), x.key) BY <2>2, <2>4, <2>5, KeyOrder
    <2> QED BY <2>2, <2>3, <2>5, <2>6, KeyOrder
  <1>12. CursorsBehind'
    BY <1>2, <1>4, <1>5, <1>8, <1>10, <1>11 DEF CursorsBehind, Behind
  <1>13. RowsTruthful'
    <2>1. r.cursor # Top => moved' = moved BY DEF Serve
    <2>2. Truthful(shown)'
      BY <1>2, <1>9, <2>1, SamePlaced DEF RowsTruthful, Truthful
    <2>3. \A x \in a.rows : x.place \in Placed' /\ x.key = KeyOf(x.place)'
      BY <1>2, <1>4, <1>6, SamePlaced
    <2>4. \A x, y \in a.rows : x.place = y.place => x = y BY <1>4
    <2> QED BY <1>5, <2>2, <2>3, <2>4 DEF RowsTruthful, Truthful
  <1>14. NewestFirst' BY <1>2 DEF NewestFirst
  <1>15. NothingTwice'
    <2>1. r.cursor # Top => moved' = moved BY DEF Serve
    <2> QED BY <1>2, <1>9, <2>1 DEF NothingTwice
  <1> QED BY <1>7, <1>12, <1>13, <1>14, <1>15

LEMMA ReceiveKeeps ==
  ASSUME IndInv, NEW r \in flight, Receive(r), TypeOK'
  PROVE  IndInv'
  <1> USE DEF IndInv
  <1>1. flight' = {} BY DEF Receive, TypeOK
  <1>2. /\ UNCHANGED <<placed, view, asked, there, moved>>
        /\ next' = r.next
        /\ shown' = shown \cup r.rows
    BY DEF Receive, Awaited
  <1>3. asked \in Nat /\ r \in Requests /\ shown \in SUBSET Rows BY DEF TypeOK
  <1>4. \A x \in shown \cup r.rows :
          x.place \in Places /\ x.key \in Keys /\ x.page \in Nat
    BY <1>3 DEF Requests, Rows
  <1>5. /\ r.next[1] # "top"
        /\ \A x \in r.rows : x.page = asked
        /\ \A x \in shown : x.page < asked
    BY DEF Awaited
  <1>6. Awaited' BY <1>1, <1>2, <1>3, <1>4, <1>5 DEF Awaited
  <1>7. CursorsBehind' BY <1>1, <1>2 DEF CursorsBehind, Behind
  <1>8. ASSUME NEW x \in r.rows, NEW y \in shown PROVE Before(x.key, y.key)
    <2>1. r.cursor # Top /\ r.cursor = next /\ next[1] = "after"
      BY <1>8 DEF Awaited
    <2>2. next[2] \in Keys BY <2>1, CursorTypes DEF TypeOK
    <2>3. Before(x.key, next[2]) /\ ~Before(y.key, next[2])
      BY <1>8, <2>1 DEF CursorsBehind, Behind
    <2> QED BY <1>4, <1>8, <2>2, <2>3, KeyOrder
  <1>9. RowsTruthful'
    BY <1>1, <1>2, SamePlaced DEF RowsTruthful, Truthful
  <1>10. NewestFirst'
    <2> SUFFICES ASSUME NEW x \in shown \cup r.rows, NEW y \in shown \cup r.rows,
                        x.page < y.page
                 PROVE  Before(y.key, x.key)
      BY <1>2 DEF NewestFirst
    <2>1. CASE x \in shown /\ y \in shown BY <2>1 DEF NewestFirst
    <2>2. CASE x \in shown /\ y \in r.rows BY <1>8, <2>2
    <2>3. CASE x \in r.rows BY <1>3, <1>4, <1>5, <2>3
    <2> QED BY <2>1, <2>2, <2>3
  <1>11. NothingTwice'
    <2> SUFFICES ASSUME NEW x \in shown \cup r.rows, NEW y \in shown \cup r.rows,
                        x.place = y.place, x.place \notin moved
                 PROVE  x = y
      BY <1>2 DEF NothingTwice
    <2>1. x.key = y.key BY DEF RowsTruthful, Truthful
    <2>2. ~Before(x.key, y.key) /\ ~Before(y.key, x.key)
      BY <1>4, <2>1, KeyOrder
    <2>3. CASE x \in shown /\ y \in shown BY <2>3 DEF NothingTwice
    <2>4. CASE x \in r.rows /\ y \in r.rows BY <2>4 DEF RowsTruthful
    <2> QED BY <1>8, <2>2, <2>3, <2>4
  <1> QED BY <1>6, <1>7, <1>9, <1>10, <1>11

LEMMA Invariance == Spec => []IndInv
  <1>1. Init => IndInv
    BY InitTypes, CursorTypes
       DEF Init, IndInv, Awaited, CursorsBehind, Behind, RowsTruthful, Truthful,
           NewestFirst, NothingTwice
  <1>2. IndInv /\ [Next]_vars => IndInv'
    <2> SUFFICES ASSUME IndInv, [Next]_vars PROVE IndInv' OBVIOUS
    <2>1. TypeOK' BY NextTypes DEF IndInv
    <2>2. CASE UNCHANGED vars
      BY <2>1, <2>2
         DEF vars, client, IndInv, Awaited, CursorsBehind, Behind, RowsTruthful,
             Truthful, NewestFirst, NothingTwice, Placed, KeyOf, MessageAt
    <2>3. ASSUME NEW f \in Folders, NEW m \in Messages, Arrive(f, m)
          PROVE  IndInv'
      BY <2>1, <2>3, ArriveKeeps
    <2>4. ASSUME NEW f \in Folders, NEW u \in DOMAIN placed[f],
                 NEW m \in Contents, Repoint(f, u, m)
          PROVE  IndInv'
      BY <2>1, <2>4, RepointKeeps
    <2>5. ASSUME NEW v \in Views, Mount(v) PROVE IndInv'
      BY <2>1, <2>5, MountKeeps
    <2>6. CASE LoadMore BY <2>1, <2>6, LoadMoreKeeps
    <2>7. ASSUME NEW r \in flight, Serve(r) PROVE IndInv'
      BY <2>1, <2>7, ServeKeeps
    <2>8. ASSUME NEW r \in flight, Receive(r) PROVE IndInv'
      BY <2>1, <2>8, ReceiveKeeps
    <2>9. ASSUME NEW r \in flight, Fail(r) PROVE IndInv'
      BY <2>1, <2>9, FailKeeps
    <2> QED BY <2>2, <2>3, <2>4, <2>5, <2>6, <2>7, <2>8, <2>9 DEF Next
  <1> QED BY <1>1, <1>2, PTL DEF Spec

(* A list that grows page by page, in a folder or a search, shows no place
   twice unless a repair has dated it anew. *)
THEOREM ShownOnce == Spec => []NothingTwice
  <1>1. IndInv => NothingTwice BY DEF IndInv
  <1> QED BY <1>1, Invariance, PTL

(* Later pages are older: appending them keeps the list in order. *)
THEOREM ShownInOrder == Spec => []NewestFirst
  <1>1. IndInv => NewestFirst BY DEF IndInv
  <1> QED BY <1>1, Invariance, PTL

----------------------------------------------------------------------------
(* Completeness of the pages. *)

(* A row the page leaves out is behind the page's cursor, or passed over. *)
LEMMA PageReaches ==
  ASSUME TypeOK, Awaited, NEW r \in flight,
         NEW page \in SUBSET Candidates(r.cursor), NEW after,
         Answers(page, r.cursor, after), NEW q \in Candidates(r.cursor),
         q \notin page
  PROVE  /\ after[1] = "after"
         /\ \/ Before(KeyOf(q), after[2])
            \/ PassedOver(q, shown \cup Answered(r, page, after).rows)
  <1>1. PICK last \in page :
           /\ \A p \in page : ~Before(KeyOf(p), KeyOf(last))
           /\ after = Encode(KeyOf(last)) /\ after[1] = "after"
    BY AnswersPage
  <1>2. ~Before(KeyOf(last), KeyOf(q))
    <2>1. Newest(page, Candidates(r.cursor)) BY AnswersPage
    <2> QED BY <2>1 DEF Newest
  <1> DEFINE rows == Answered(r, page, after).rows
             x    == [place |-> last, key |-> KeyOf(last), page |-> r.page]
  <1>3. rows = {[place |-> p, key |-> KeyOf(p), page |-> r.page] : p \in page}
    BY DEF Answered
  <1>4. x \in rows BY <1>3
  <1>5. \A y \in rows : \E p \in page : y.key = KeyOf(p)
    BY <1>3
  <1>6. ASSUME NEW y \in shown \cup rows, y.page = r.page
        PROVE  ~Before(y.key, KeyOf(last))
    <2>1. r.page = asked /\ r \in flight BY DEF Awaited
    <2>2. asked \in Nat BY DEF TypeOK
    <2>3. y \notin shown BY <1>6, <2>1, <2>2 DEF Awaited
    <2> QED BY <1>1, <1>5, <1>6, <2>3
  <1>7. ~Before(KeyOf(q), after[2]) => PassedOver(q, shown \cup rows)
    <2> SUFFICES ASSUME ~Before(KeyOf(q), after[2])
                 PROVE  PassedOver(q, shown \cup rows)
      OBVIOUS
    <2>1. x.key = KeyOf(last) /\ x.page = r.page OBVIOUS
    <2> HIDE DEF x, rows
    <2> QED BY <1>1, <1>2, <1>4, <1>6, <2>1 DEF PassedOver
  <1> QED BY <1>1, <1>7

(* What is listed and not repaired stays listed, under the same key. *)
LEMMA ArriveLists ==
  ASSUME TypeOK, NEW f \in Folders, NEW m \in Messages, Arrive(f, m),
         NEW p \in Listed
  PROVE  p \in Listed' /\ KeyOf(p)' = KeyOf(p)
  <1>1. p \in Placed BY DEF Listed
  <1>2. /\ p \in Placed' /\ KeyOf(p)' = KeyOf(p)
        /\ MessageAt(p)' = MessageAt(p)
    BY <1>1, Grows
  <1>3. view' = view BY DEF Arrive, client
  <1> QED BY <1>2, <1>3 DEF Listed

LEMMA RepointLists ==
  ASSUME TypeOK, NEW f \in Folders, NEW u \in DOMAIN placed[f],
         NEW m \in Contents, Repoint(f, u, m), NEW p \in Listed, p \notin moved'
  PROVE  p \in Listed' /\ KeyOf(p)' = KeyOf(p)
  <1>1. p \in Placed BY DEF Listed
  <1>2. /\ p \in Placed' /\ KeyOf(p)' = KeyOf(p)
        /\ MessageAt(p)' = MessageAt(p)
    BY <1>1, Repoints
  <1>3. view' = view BY DEF Repoint, client
  <1> QED BY <1>2, <1>3 DEF Listed

LEMMA CompleteInit == Init => CompleteInv
  BY CursorTypes
     DEF Init, CompleteInv, CursorsEarned, NothingLost, MoreIsThere, MoreComes,
         MoreAfter

LEMMA ArriveComplete ==
  ASSUME TypeOK, CompleteInv, NEW f \in Folders, NEW m \in Messages,
         Arrive(f, m)
  PROVE  CompleteInv'
  <1>1. UNCHANGED <<view, shown, next, loading, flight, asked, there, moved>>
    BY DEF Arrive, client
  <1>2. \A p \in Listed : p \in Listed' /\ KeyOf(p)' = KeyOf(p)
    BY ArriveLists
  <1>3. CursorsEarned' BY <1>1 DEF CompleteInv, CursorsEarned
  <1>4. NothingLost'
    BY <1>1, <1>2
       DEF CompleteInv, NothingLost, Reached, Seen, PassedOver
  <1>5. MoreIsThere'
    BY <1>1, <1>2 DEF CompleteInv, MoreIsThere, MoreAfter, Seen, PassedOver
  <1>6. MoreComes'
    BY <1>1, <1>2 DEF CompleteInv, MoreComes, Seen, PassedOver
  <1> QED BY <1>3, <1>4, <1>5, <1>6 DEF CompleteInv

LEMMA RepointComplete ==
  ASSUME TypeOK, CompleteInv, NEW f \in Folders, NEW u \in DOMAIN placed[f],
         NEW m \in Contents, Repoint(f, u, m)
  PROVE  CompleteInv'
  <1>1. /\ UNCHANGED <<view, shown, next, loading, flight, asked, there>>
        /\ moved' = moved \cup {<<f, u>>}
    BY DEF Repoint, client
  <1>2. CursorsEarned' BY <1>1 DEF CompleteInv, CursorsEarned
  <1>3. MoreComes' /\ MoreIsThere' BY <1>1 DEF MoreComes, MoreIsThere
  <1>4. \A p \in Listed : p \notin moved' => p \in Listed' /\ KeyOf(p)' = KeyOf(p)
    BY RepointLists
  <1>5. NothingLost'
    BY <1>1, <1>4 DEF CompleteInv, NothingLost, Reached, Seen, PassedOver
  <1> QED BY <1>2, <1>3, <1>5 DEF CompleteInv

LEMMA ServeComplete ==
  ASSUME IndInv, CompleteInv, NEW r \in flight, Serve(r)
  PROVE  CompleteInv'
  <1>0. TypeOK /\ Awaited /\ CursorsBehind /\ RowsTruthful BY DEF IndInv
  <1>1. PICK page \in SUBSET Candidates(r.cursor), after \in Cursors :
          /\ Answers(page, r.cursor, after)
          /\ flight' = {Answered(r, page, after)}
    BY <1>0, ServeFlight
  <1>2. UNCHANGED <<placed, view, shown, next, asked>> BY DEF Serve
  <1>3. PICK a : a = Answered(r, page, after) OBVIOUS
  <1>4. /\ a.cursor = r.cursor /\ a.next = after
        /\ \A p \in page : \E x \in a.rows : x.place = p
        /\ \A x \in a.rows : x.place \in page
    <2>1. a.cursor = r.cursor /\ a.next = after BY <1>3 DEF Answered
    <2>2. a.rows = {[place |-> p, key |-> KeyOf(p), page |-> r.page] : p \in page}
      BY <1>3 DEF Answered
    <2>3. ASSUME NEW p \in page PROVE \E x \in a.rows : x.place = p
      <3>1. [place |-> p, key |-> KeyOf(p), page |-> r.page] \in a.rows BY <2>2
      <3> QED BY <3>1
    <2> QED BY <2>1, <2>2, <2>3
  <1>5. flight' = {a} BY <1>1, <1>3
  <1>6. \/ after = End /\ page = Candidates(r.cursor)
        \/ page # {} /\ page # Candidates(r.cursor)
    BY <1>0, <1>1, AnswersPage
  <1>7. CursorsEarned'
    BY <1>2, <1>4, <1>5, <1>6, CursorTypes DEF CompleteInv, CursorsEarned
  <1>8. IF r.cursor = Top THEN shown = {} /\ next = End /\ there' = Listed
        ELSE /\ r.cursor = next /\ next[1] = "after"
             /\ UNCHANGED <<there, moved>>
    BY <1>0 DEF Awaited, Serve
  <1>9. Listed' = Listed /\ \A p : KeyOf(p)' = KeyOf(p)
    BY <1>2, SamePlaced DEF Listed
  <1>10. \A p : /\ PassedOver(p, shown)' <=> PassedOver(p, shown)
                /\ PassedOver(p, shown \cup a.rows)'
                     <=> PassedOver(p, shown \cup a.rows)
    BY <1>2, <1>9 DEF PassedOver
  <1>11. \A p : PassedOver(p, shown) => PassedOver(p, shown \cup a.rows)
    <2> SUFFICES ASSUME NEW p, PassedOver(p, shown)
                 PROVE  PassedOver(p, shown \cup a.rows)
      OBVIOUS
    <2>1. PICK last \in shown :
            /\ \A x \in shown : x.page = last.page => ~Before(x.key, last.key)
            /\ ~Before(last.key, KeyOf(p))
            /\ ~Before(KeyOf(p), Encode(last.key)[2])
      BY DEF PassedOver
    <2>2. \A x \in a.rows : x.page # last.page
      <3>1. \A x \in a.rows : x.page = r.page
        BY <1>3 DEF Answered
      <3>2. r.page = asked /\ last.page < asked BY <1>0, <2>1 DEF Awaited
      <3>3. last.page \in Nat /\ asked \in Nat
        BY <1>0, <2>1 DEF TypeOK, Rows
      <3> QED BY <3>1, <3>2, <3>3
    <2> QED BY <2>1, <2>2 DEF PassedOver
  <1>12. ASSUME NEW q \in Candidates(r.cursor), q \notin page
         PROVE  /\ after[1] = "after"
                /\ \/ Before(KeyOf(q), after[2])
                   \/ PassedOver(q, shown \cup a.rows)
    BY <1>0, <1>1, <1>3, <1>12, PageReaches
  <1>13. ASSUME NEW q \in Candidates(r.cursor)
         PROVE  Reached(q, shown \cup a.rows, after)'
    <2>1. CASE q \in page BY <1>2, <1>4, <2>1 DEF Reached, Seen
    <2>2. CASE q \notin page
      BY <1>9, <1>10, <1>12, <2>2 DEF Reached
    <2> QED BY <2>1, <2>2
  <1>14. NothingLost'
    <2> SUFFICES ASSUME NEW p \in there' \ moved'
                 PROVE  /\ p \in Listed
                        /\ shown # {} => Reached(p, shown, next)'
                        /\ Reached(p, shown \cup a.rows, after)'
      BY <1>2, <1>4, <1>5, <1>9 DEF NothingLost
    <2>1. CASE r.cursor = Top
      <3>1. p \in Listed /\ p \in Candidates(r.cursor)
        BY <1>8, <2>1, CursorTypes DEF Candidates
      <3> QED BY <1>8, <1>13, <2>1, <3>1
    <2>2. CASE r.cursor # Top
      <3>1. p \in there \ moved /\ r.cursor = next /\ next[1] = "after"
        BY <1>8, <2>2
      <3>2. p \in Listed /\ Reached(p, shown, next)
        BY <3>1 DEF CompleteInv, CursorsEarned, NothingLost
      <3>3. Reached(p, shown, next)'
        BY <1>2, <1>9, <1>10, <3>2 DEF Reached, Seen
      <3>4. CASE Seen(p, shown)
        BY <1>2, <3>2, <3>3, <3>4 DEF Reached, Seen
      <3>5. CASE PassedOver(p, shown)
        BY <1>10, <1>11, <3>2, <3>3, <3>5 DEF Reached
      <3>6. CASE Before(KeyOf(p), next[2])
        BY <1>13, <3>1, <3>2, <3>3, <3>6 DEF Candidates
      <3> QED BY <3>2, <3>4, <3>5, <3>6 DEF Reached
    <2> QED BY <2>1, <2>2
  <1>15. ASSUME moved' = {}, NEW q \in Candidates(r.cursor), q \notin page
         PROVE  ~Seen(q, shown \cup a.rows)
    <2> SUFFICES ASSUME NEW x \in shown, x.place = q PROVE FALSE
      BY <1>4, <1>15 DEF Seen
    <2>1. /\ r.cursor # Top /\ r.cursor = next /\ next[1] = "after"
          /\ moved = {}
      BY <1>8, <1>15
    <2>2. x.key = KeyOf(q) /\ ~Before(x.key, next[2])
      BY <1>0, <2>1 DEF RowsTruthful, Truthful, CursorsBehind, Behind
    <2> QED BY <1>15, <2>1, <2>2, CursorTypes DEF Candidates
  <1>16. MoreIsThere'
    <2> SUFFICES ASSUME moved' = {}
                 PROVE  /\ MoreAfter(shown, next)'
                        /\ MoreAfter(shown \cup a.rows, after)'
      BY <1>2, <1>4, <1>5 DEF MoreIsThere
    <2>1. MoreAfter(shown, next)
      BY <1>8, CursorTypes DEF CompleteInv, MoreIsThere, MoreAfter
    <2>2. MoreAfter(shown, next)'
      BY <1>2, <1>9, <1>10, <2>1 DEF MoreAfter, Seen
    <2>3. ASSUME after[1] = "after"
          PROVE  \E q \in Listed :
                   \/ Before(KeyOf(q), after[2])
                   \/ /\ ~Seen(q, shown \cup a.rows)
                      /\ PassedOver(q, shown \cup a.rows)
      <3>1. PICK q \in Candidates(r.cursor) : q \notin page
        BY <1>6, <2>3, CursorTypes
      <3>2. q \in Listed BY DEF Candidates
      <3> QED BY <1>12, <1>15, <3>1, <3>2
    <2>4. MoreAfter(shown \cup a.rows, after)'
      BY <1>2, <1>9, <1>10, <2>3 DEF MoreAfter, Seen
    <2> QED BY <2>2, <2>4
  <1>17. MoreComes'
    <2> SUFFICES ASSUME moved' = {}, r.cursor # Top, a.rows = {}
                 PROVE  \E p \in Listed : ~Seen(p, shown) /\ PassedOver(p, shown)
      BY <1>2, <1>4, <1>5, <1>9, <1>10 DEF MoreComes, Seen
    <2>1. moved = {} /\ r.cursor = next /\ next[1] = "after" BY <1>8
    <2>2. PICK p \in Listed :
            \/ Before(KeyOf(p), next[2])
            \/ ~Seen(p, shown) /\ PassedOver(p, shown)
      BY <2>1 DEF CompleteInv, MoreIsThere, MoreAfter
    <2>3. Candidates(r.cursor) = {} BY <1>4, <1>6
    <2> QED BY <2>1, <2>2, <2>3 DEF Candidates
  <1> QED BY <1>7, <1>14, <1>16, <1>17 DEF CompleteInv

LEMMA ClientComplete ==
  ASSUME TypeOK, Awaited, CompleteInv,
         \/ \E v \in Views : Mount(v)
         \/ LoadMore
         \/ \E r \in flight : Receive(r) \/ Fail(r)
         \/ UNCHANGED vars
  PROVE  CompleteInv'
  <1>1. ASSUME NEW v \in Views, Mount(v) PROVE CompleteInv'
    <2>1. /\ next' = End /\ there' = {} /\ flight' = {Request(1, Top)}
      BY <1>1 DEF Mount
    <2>2. Request(1, Top).next = End /\ ~Request(1, Top).served BY DEF Request
    <2> QED BY <2>1, <2>2, CursorTypes
            DEF CompleteInv, CursorsEarned, NothingLost, MoreIsThere, MoreComes,
                MoreAfter
  <1>2. ASSUME placed' = placed, view' = view
        PROVE  /\ Listed' = Listed /\ \A p : KeyOf(p)' = KeyOf(p)
    BY <1>2, SamePlaced DEF Listed
  <1>3. CASE LoadMore
    <2>1. /\ UNCHANGED <<placed, view, shown, next, there, moved>>
          /\ flight' = {Request(asked + 1, next)}
      BY <1>3 DEF LoadMore, TypeOK
    <2>2. /\ Request(asked + 1, next).next = End
          /\ ~Request(asked + 1, next).served
      BY DEF Request
    <2>3. PICK q : q = Request(asked + 1, next) OBVIOUS
    <2> QED BY <1>2, <2>1, <2>2, <2>3, CursorTypes
            DEF CompleteInv, CursorsEarned, NothingLost, MoreIsThere, MoreComes,
                MoreAfter, Reached, Seen, PassedOver
  <1>4. ASSUME NEW r \in flight, Receive(r) PROVE CompleteInv'
    <2>1. /\ UNCHANGED <<placed, view, there, moved>> /\ flight' = {}
          /\ next' = r.next /\ shown' = shown \cup r.rows /\ r.served
      BY <1>4 DEF Receive, Awaited, TypeOK
    <2> QED BY <1>2, <2>1
            DEF CompleteInv, CursorsEarned, NothingLost, MoreIsThere, MoreComes,
                MoreAfter, Reached, Seen, PassedOver
  <1>5. ASSUME NEW r \in flight, Fail(r) PROVE CompleteInv'
    <2>1. /\ UNCHANGED <<placed, view, shown, next, there, moved>>
          /\ flight' = {}
      BY <1>5 DEF Fail, TypeOK
    <2> QED BY <1>2, <2>1
            DEF CompleteInv, CursorsEarned, NothingLost, MoreIsThere, MoreComes,
                MoreAfter, Reached, Seen, PassedOver
  <1>6. CASE UNCHANGED vars
    <2>1. UNCHANGED <<placed, view, shown, next, flight, there, moved>>
      BY <1>6 DEF vars, client
    <2> QED BY <1>2, <2>1
            DEF CompleteInv, CursorsEarned, NothingLost, MoreIsThere, MoreComes,
                MoreAfter, Reached, Seen, PassedOver
  <1> QED BY <1>1, <1>3, <1>4, <1>5, <1>6

LEMMA CompleteInvariance == Spec => []CompleteInv
  <1>1. IndInv /\ CompleteInv /\ [Next]_vars => CompleteInv'
    <2> SUFFICES ASSUME IndInv, CompleteInv, [Next]_vars PROVE CompleteInv'
      OBVIOUS
    <2>1. TypeOK /\ Awaited BY DEF IndInv
    <2> QED BY <2>1, ArriveComplete, RepointComplete, ServeComplete,
               ClientComplete
            DEF Next
  <1> QED BY <1>1, CompleteInit, Invariance, PTL DEF Spec

(* Paging to the end shows every message that was there at the first page and
   was not repaired, but for those passed over within the millisecond of a
   page's last row; whatever the dates are. *)
THEOREM Complete == Spec => []ReachesAll
  <1>1. CompleteInv => ReachesAll
    <2> SUFFICES ASSUME CompleteInv, AtEnd, shown # {}, NEW p \in there \ moved
                 PROVE  Seen(p, shown) \/ PassedOver(p, shown)
      BY DEF ReachesAll
    <2>1. Reached(p, shown, next) BY DEF CompleteInv, NothingLost
    <2> QED BY <2>1, CursorTypes DEF Reached, AtEnd
  <1> QED BY <1>1, CompleteInvariance, PTL

(* More is offered only when more comes, or has been passed over. *)
THEOREM OfferKept == Spec => []MoreComes
  <1>1. CompleteInv => MoreComes BY DEF CompleteInv
  <1> QED BY <1>1, CompleteInvariance, PTL
=============================================================================
