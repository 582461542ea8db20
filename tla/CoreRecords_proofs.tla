-------------------------- MODULE CoreRecords_proofs --------------------------
(***************************************************************************)
(* Proofs about the records of core-go: the keyset-paged feeds for any     *)
(* rows, page size and writes between the pages, what topology discovery   *)
(* stores for any switches, cables, names and failures, and the tags of a  *)
(* device for any requests and runs; then all of it together, with what    *)
(* DeviceIdentity_proofs shows of the addresses, as the run MCCoreRecords  *)
(* composes them.                                                          *)
(***************************************************************************)
EXTENDS MCCoreRecords, DeviceIdentity_proofs, FiniteSetTheorems, SequenceTheorems, TLAPS

-----------------------------------------------------------------------------
(* The feeds.  A cursor splits the feed in two: whatever was not written   *)
(* since the client began is either not below the cursor and then          *)
(* delivered once, or below it and then still to come.                     *)

(* Listings and pages.                                                     *)

\* A listing of R is a sequence of distinct rows of R, in order.
LEMMA ListingIsOrdered ==
  ASSUME NEW R, IsFiniteSet(R), NEW n \in Nat, NEW l \in Listings(R, n)
  PROVE  /\ l \in Seq(R)
         /\ Len(l) = IF Cardinality(R) < n THEN Cardinality(R) ELSE n
         /\ \A k \in 1 .. Len(l) : l[k] \in R
         /\ \A j, k \in 1 .. Len(l) : j < k => l[j] # l[k] /\ ~Precedes(l[k], l[j])
         /\ \A r \in R : (\A k \in 1 .. Len(l) : l[k] # r) =>
                           \A k \in 1 .. Len(l) : ~Precedes(r, l[k])
<1> DEFINE m == IF Cardinality(R) < n THEN Cardinality(R) ELSE n
<1>1. m \in Nat
  BY FS_CardinalityType
<1>2. /\ l \in [1 .. m -> R]
      /\ \A j, k \in 1 .. m : j < k => l[j] # l[k] /\ ~Precedes(l[k], l[j])
      /\ \A r \in R : (\A k \in 1 .. m : l[k] # r) => \A k \in 1 .. m : ~Precedes(r, l[k])
  BY DEF Listings
<1> HIDE DEF m
<1>3. l \in Seq(R) /\ Len(l) = m
  BY <1>1, <1>2
<1>4. m = IF Cardinality(R) < n THEN Cardinality(R) ELSE n
  BY DEF m
<1> QED BY <1>2, <1>3, <1>4

\* A listing shorter than was asked for has every row.
LEMMA ShortListingHasAll ==
  ASSUME NEW R, IsFiniteSet(R), NEW n \in Nat, NEW l \in Listings(R, n), Len(l) < n,
         NEW r \in R
  PROVE  \E k \in 1 .. Len(l) : l[k] = r
<1>1. Cardinality(R) \in Nat
  BY FS_CardinalityType
<1>2. Len(l) = Cardinality(R)
  BY ListingIsOrdered, <1>1
<1>3. l \in [1 .. Len(l) -> R]
  BY ListingIsOrdered
<1>4. \A j, k \in 1 .. Len(l) : j # k => l[j] # l[k]
  <2> SUFFICES ASSUME NEW j \in 1 .. Len(l), NEW k \in 1 .. Len(l), j # k
               PROVE  l[j] # l[k]
    OBVIOUS
  <2>1. j < k \/ k < j
    BY <1>1, <1>2
  <2> QED BY <2>1, ListingIsOrdered
<1>5. l \in Injection(1 .. Len(l), R)
  BY <1>3, <1>4 DEF Injection, IsInjective
<1>6. IsFiniteSet(1 .. Len(l)) /\ Cardinality(1 .. Len(l)) = Cardinality(R)
  BY <1>1, <1>2, FS_Interval
<1>7. l \in Surjection(1 .. Len(l), R)
  BY <1>5, <1>6, FS_Injection
<1> QED BY <1>7 DEF Surjection

\* What a handler makes of a listing.
LEMMA PageIsPrefix ==
  ASSUME NEW R, NEW l \in Seq(R), NEW limit \in Nat \ {0}
  PROVE  LET p == PageOf(l, limit)
         IN /\ p.rows \in Seq(R)
            /\ Len(p.rows) = IF Len(l) > limit THEN limit ELSE Len(l)
            /\ \A k \in 1 .. Len(p.rows) : p.rows[k] = l[k]
            /\ p.cursor = IF Len(l) > limit THEN CursorOf(l[limit]) ELSE NoCursor
<1>1. CASE Len(l) > limit
  <2>1. PageOf(l, limit) = [rows |-> SubSeq(l, 1, limit), cursor |-> CursorOf(l[limit])]
    BY <1>1 DEF PageOf
  <2>2. /\ SubSeq(l, 1, limit) \in Seq(R)
        /\ Len(SubSeq(l, 1, limit)) = limit
        /\ \A k \in 1 .. limit : SubSeq(l, 1, limit)[k] = l[k]
    BY <1>1
  <2> QED BY <1>1, <2>1, <2>2
<1>2. CASE ~(Len(l) > limit)
  BY <1>2 DEF PageOf
<1> QED BY <1>1, <1>2

\* Every row the query selects that is not below the cursor of its page is on
\* the page, itself or a row of the same id and time.
LEMMA PageCovers ==
  ASSUME NEW R, IsFiniteSet(R), \A r \in R : r.at \in Nat \ {0} /\ r.id \in Nat,
         NEW limit \in Nat \ {0}, NEW l \in Listings(R, limit + 1),
         NEW q \in R,
         LET p == PageOf(l, limit) IN p.cursor = NoCursor \/ ~Below(q, p.cursor)
  PROVE  \E k \in 1 .. Len(PageOf(l, limit).rows) : PageOf(l, limit).rows[k].id = q.id
<1> DEFINE p == PageOf(l, limit)
<1>1. /\ l \in Seq(R)
      /\ Len(l) <= limit + 1
      /\ \A k \in 1 .. Len(l) : l[k] \in R
      /\ \A j, k \in 1 .. Len(l) : j < k => l[j] # l[k] /\ ~Precedes(l[k], l[j])
      /\ \A r \in R : (\A k \in 1 .. Len(l) : l[k] # r) =>
                        \A k \in 1 .. Len(l) : ~Precedes(r, l[k])
  BY ListingIsOrdered, FS_CardinalityType
<1>2. /\ p.rows \in Seq(R)
      /\ Len(p.rows) = IF Len(l) > limit THEN limit ELSE Len(l)
      /\ \A k \in 1 .. Len(p.rows) : p.rows[k] = l[k]
      /\ p.cursor = IF Len(l) > limit THEN CursorOf(l[limit]) ELSE NoCursor
  BY <1>1, PageIsPrefix
<1>3. p.cursor = NoCursor \/ ~Below(q, p.cursor)
  OBVIOUS
<1> SUFFICES \E k \in 1 .. Len(p.rows) : p.rows[k].id = q.id
  OBVIOUS
<1> HIDE DEF p
<1>4. CASE Len(l) <= limit
  <2>1. PICK k \in 1 .. Len(l) : l[k] = q
    BY <1>4, <1>1, ShortListingHasAll
  <2>2. k \in 1 .. Len(p.rows)
    BY <1>1, <1>2, <1>4
  <2> QED BY <1>2, <2>1, <2>2
<1>5. CASE Len(l) > limit
  <2> DEFINE last == l[limit]
  <2>1. Len(l) = limit + 1 /\ limit \in 1 .. Len(l) /\ limit + 1 \in 1 .. Len(l)
    BY <1>1, <1>5
  <2>2. last \in R /\ q.at \in Nat /\ q.id \in Nat /\ last.at \in Nat \ {0} /\ last.id \in Nat
    BY <1>1, <2>1
  <2>3. p.cursor = CursorOf(last) /\ Len(p.rows) = limit
    BY <1>2, <1>5
  <2>4. ~Below(q, last)
    BY <1>3, <2>2, <2>3 DEF CursorOf, NoCursor, Below
  <2>5. ~Precedes(q, last) => q.id = last.id
    BY <2>2, <2>4 DEF Below, Precedes
  <2>6. limit \in 1 .. Len(p.rows) /\ p.rows[limit] = last
    BY <1>2, <2>3
  <2>7. CASE \A k \in 1 .. Len(l) : l[k] # q
    <3>1. ~Precedes(q, last)
      BY <1>1, <2>1, <2>7
    <3> QED BY <2>5, <2>6, <3>1
  <2>8. CASE \E k \in 1 .. Len(l) : l[k] = q
    <3>1. PICK k \in 1 .. Len(l) : l[k] = q
      BY <2>8
    <3>2. CASE k <= limit
      <4>1. k \in 1 .. Len(p.rows)
        BY <2>1, <2>3, <3>2
      <4> QED BY <1>2, <3>1, <4>1
    <3>3. CASE k = limit + 1
      <4>1. limit < k
        BY <3>3
      <4>2. ~Precedes(q, last)
        BY <1>1, <2>1, <3>1, <4>1
      <4> QED BY <2>5, <2>6, <4>2
    <3> QED BY <2>1, <3>2, <3>3
  <2> QED BY <2>7, <2>8
<1> QED BY <1>1, <1>4, <1>5

-----------------------------------------------------------------------------
(* The rows of the feed.                                                   *)

\* A row shows the id, a side and the timestamp of what it is about, and
\* everything there is has a row for its first side.
LEMMA RowsAreTyped ==
  ASSUME TypeOK
  PROVE  /\ \A r \in Rows : /\ r \in AllRows
                            /\ r.id \in Present /\ r.at = ts[r.id] /\ r.side \in Sides(r.id)
                            /\ r.at \in Nat \ {0} /\ r.id \in Nat
         /\ \A i \in Present : [id |-> i, side |-> 1, at |-> ts[i]] \in Rows
<1>1. \A i \in Present : i \in Ids /\ i \in Nat /\ ts[i] \in 1 .. MaxClock
  BY ChangeFeedAssumption DEF TypeOK, Present
<1>2. \A i : 1 \in Sides(i) /\ Sides(i) \subseteq {1, 2}
  BY DEF Sides
<1>3. ASSUME NEW r \in Rows
      PROVE  /\ r \in AllRows
             /\ r.id \in Present /\ r.at = ts[r.id] /\ r.side \in Sides(r.id)
             /\ r.at \in Nat \ {0} /\ r.id \in Nat
  <2>0. PICK i \in Present : \E s \in Sides(i) : r = [id |-> i, side |-> s, at |-> ts[i]]
    BY DEF Rows
  <2>1. PICK s \in Sides(i) : r = [id |-> i, side |-> s, at |-> ts[i]]
    BY <2>0
  <2> QED BY <1>1, <1>2, <2>1, ChangeFeedAssumption DEF AllRows
<1>4. ASSUME NEW i \in Present PROVE [id |-> i, side |-> 1, at |-> ts[i]] \in Rows
  BY <1>2 DEF Rows
<1> QED BY <1>3, <1>4

\* There are finitely many sides.
LEMMA TwoAreFinite == IsFiniteSet(1 .. 2)
<1>1. 1 \in Int /\ 2 \in Int
  OBVIOUS
<1> QED BY <1>1, FS_Interval

\* The feed has finitely many rows.
LEMMA RowsAreFinite ==
  ASSUME TypeOK
  PROVE  IsFiniteSet(Rows)
<1> DEFINE S == Ids \X (1 .. 2)
           f == [x \in S |-> [id |-> x[1], side |-> x[2], at |-> ts[x[1]]]]
           T == {f[x] : x \in S}
<1>1. IsFiniteSet(S)
  BY TwoAreFinite, FS_Product, ChangeFeedAssumption
<1>2. f \in Surjection(S, T)
  BY DEF Surjection
<1>3. IsFiniteSet(T)
  BY <1>1, <1>2, FS_Surjection
<1>4. Rows \subseteq T
  <2> SUFFICES ASSUME NEW r \in Rows PROVE r \in T
    OBVIOUS
  <2>0. PICK i \in Present : \E s \in Sides(i) : r = [id |-> i, side |-> s, at |-> ts[i]]
    BY DEF Rows
  <2>1. PICK s \in Sides(i) : r = [id |-> i, side |-> s, at |-> ts[i]]
    BY <2>0
  <2>2. <<i, s>> \in S
    BY <2>1 DEF Present, Sides
  <2>3. r = f[<<i, s>>]
    BY <2>1, <2>2
  <2> QED BY <2>2, <2>3
<1> QED BY <1>3, <1>4, FS_Subset

-----------------------------------------------------------------------------
(* The invariant.                                                          *)

\* Before the first page there is nothing to remember.
Unstarted ==
  /\ known \subseteq Present
  /\ pages = <<>> => cursor = NoCursor /\ dirty = {} /\ known = {}

\* What was delivered is still as it was unless it was written since.
Fresh ==
  \A x \in Places : At(x).id \in dirty \/ ts[At(x).id] = At(x).at

\* Of that, nothing is below the cursor.
Passed ==
  cursor # NoCursor => \A x \in Places : At(x).id \in dirty \/ ~Below(At(x), cursor)

Key(i) == [at |-> ts[i], id |-> i]

\* What the client expects and is not below the cursor has been delivered.
Delivered ==
  pages # <<>> =>
    \A i \in Expected :
      cursor = NoCursor \/ ~Below(Key(i), cursor) => \E s \in Sides(i) : Got(i, s)

IInv == TypeOK /\ Unstarted /\ Fresh /\ Passed /\ NoRepeat /\ Delivered

\* At the start nothing was written or delivered.
LEMMA InitIInv == Init => IInv
<1> SUFFICES ASSUME Init PROVE IInv
  OBVIOUS
<1>1. Places = {}
  BY DEF Init, Places
<1>2. TypeOK
  BY ChangeFeedAssumption DEF Init, TypeOK, NoCursor
<1> QED BY <1>1, <1>2 DEF Init, IInv, Unstarted, Fresh, Passed, NoRepeat, Delivered, Present

\* A place is on one of the pages, and a row is there.
LEMMA PlacesAreTyped ==
  ASSUME TypeOK, NEW x \in Places
  PROVE  /\ x[1] \in 1 .. Len(pages) /\ x[2] \in 1 .. Len(pages[x[1]])
         /\ At(x) \in AllRows /\ At(x).at \in Nat \ {0} /\ At(x).id \in Ids /\ At(x).id \in Nat
<1>1. x[1] \in DOMAIN pages /\ x[2] \in 1 .. Limit /\ x[2] <= Len(pages[x[1]])
  BY DEF Places
<1>2. x[1] \in 1 .. Len(pages) /\ pages[x[1]] \in Seq(AllRows)
  BY <1>1 DEF TypeOK
<1>3. x[2] \in 1 .. Len(pages[x[1]])
  BY <1>1, <1>2, ChangeFeedAssumption
<1>4. At(x) \in AllRows
  BY <1>2, <1>3 DEF At
<1>5. \A r \in AllRows : r.at \in 1 .. MaxClock /\ r.id \in Ids
  BY DEF AllRows
<1>6. \A n \in 1 .. MaxClock : n \in Nat \ {0}
  BY ChangeFeedAssumption
<1>7. At(x).at \in Nat \ {0} /\ At(x).id \in Ids /\ At(x).id \in Nat
  BY <1>4, <1>5, <1>6, ChangeFeedAssumption, Zenon
<1> QED BY <1>2, <1>3, <1>4, <1>7

\* A cursor holds numbers.
LEMMA CursorIsTyped ==
  ASSUME TypeOK
  PROVE  cursor.at \in Nat /\ cursor.id \in Nat
<1>1. cursor.at \in 0 .. MaxClock /\ cursor.id \in Ids \cup {0}
  BY DEF TypeOK
<1>2. \A n \in 0 .. MaxClock : n \in Nat
  OBVIOUS
<1>3. \A n \in Ids \cup {0} : n \in Nat
  BY ChangeFeedAssumption
<1> QED BY <1>1, <1>2, <1>3, Zenon

\* Writing a row leaves the pages and what is not written alone.
LEMMA WriteKeeps ==
  ASSUME IInv, NEW i \in Ids, NEW t \in 1 .. MaxClock, Write(i, t)
  PROVE  IInv'
<1>1. /\ ts' = [ts EXCEPT ![i] = t]
      /\ clock' = IF t > clock THEN t ELSE clock
      /\ dirty' = IF pages = <<>> THEN {} ELSE dirty \cup {i}
      /\ pages' = pages /\ cursor' = cursor /\ since' = since /\ known' = known
  BY DEF Write
<1>2. TypeOK'
  <2>1. ts' \in [Ids -> 0 .. MaxClock] /\ clock' \in 1 .. MaxClock
    BY <1>1, ChangeFeedAssumption DEF IInv, TypeOK
  <2>2. dirty' \subseteq Ids
    BY <1>1 DEF IInv, TypeOK
  <2> QED BY <1>1, <2>1, <2>2 DEF IInv, TypeOK
<1>3. ts' \in [Ids -> 0 .. MaxClock] /\ ts'[i] = t /\ t # 0
      /\ \A j \in Ids \ {i} : ts'[j] = ts[j]
  BY <1>1, <1>2, ChangeFeedAssumption DEF IInv, TypeOK
<1>4. Places' = Places /\ \A x \in Places : At(x)' = At(x)
  BY <1>1 DEF Places, At
<1>5. Unstarted'
  <2>1. Present \subseteq Present'
    BY <1>3 DEF Present
  <2> QED BY <1>1, <2>1 DEF IInv, Unstarted
<1>6. pages = <<>> => Places = {}
  BY DEF Places
<1>7. pages # <<>> => dirty \subseteq dirty' /\ i \in dirty'
  BY <1>1
<1>8. Fresh'
  <2> SUFFICES ASSUME NEW x \in Places PROVE At(x).id \in dirty' \/ ts'[At(x).id] = At(x).at
    BY <1>4 DEF Fresh
  <2>1. At(x).id \in Ids /\ pages # <<>>
    BY <1>6, PlacesAreTyped DEF IInv
  <2> QED BY <1>3, <1>7, <2>1 DEF IInv, Fresh
<1>9. Passed'
  BY <1>1, <1>4, <1>6, <1>7 DEF IInv, Passed
<1>10. NoRepeat'
  BY <1>4, <1>6, <1>7 DEF IInv, NoRepeat
<1>11. Delivered'
  <2> SUFFICES ASSUME pages # <<>>, NEW j \in Expected',
                      cursor = NoCursor \/ ~Below(Key(j)', cursor)
               PROVE  \E s \in Sides(j) : Got(j, s)'
    BY <1>1 DEF Delivered
  <2>1. j \in known /\ j \notin dirty /\ j # i
    BY <1>1, <1>7 DEF Expected
  <2>2. j \in Ids /\ ts'[j] = ts[j]
    BY <1>3, <2>1 DEF IInv, TypeOK
  <2>3. j \in Expected /\ Key(j)' = Key(j)
    BY <1>1, <2>1, <2>2 DEF Expected, Key
  <2>4. \E s \in Sides(j) : Got(j, s)
    BY <2>3 DEF IInv, Delivered
  <2> QED BY <1>4, <2>4 DEF Got
<1> QED BY <1>2, <1>5, <1>8, <1>9, <1>10, <1>11 DEF IInv

\* Both requests: an answer below the last cursor, or from the beginning.
Answered(s) ==
  /\ s \in 0 .. MaxClock
  /\ pages = <<>> <=> cursor = NoCursor
  /\ pages # <<>> => s = since
  /\ Answer(cursor, s)
  /\ since' = s
  /\ known' = IF pages = <<>> THEN Present ELSE known
  /\ ts' = ts /\ clock' = clock /\ dirty' = dirty

\* What an answer adds.
NewPage(s, new) ==
  /\ new \in Seq(AllRows)
  /\ Len(new) <= Limit
  /\ pages' = Append(pages, new)
  /\ \A k \in 1 .. Len(new) : new[k] \in Selected(cursor, s)
  /\ \A j, k \in 1 .. Len(new) : j < k => new[j] # new[k] /\ ~Precedes(new[k], new[j])
  /\ cursor' = NoCursor \/ (Len(new) = Limit /\ cursor' = CursorOf(new[Limit]))
  /\ \A q \in Selected(cursor, s) :
       cursor' = NoCursor \/ ~Below(q, cursor') => \E k \in 1 .. Len(new) : new[k].id = q.id

\* An answer adds such a page.
LEMMA AnswerAddsPage ==
  ASSUME TypeOK, NEW s, Answered(s)
  PROVE  \E new : NewPage(s, new)
<1> DEFINE R == Selected(cursor, s)
<1>1. /\ R \subseteq Rows /\ IsFiniteSet(R) /\ R \subseteq AllRows
      /\ \A r \in R : r.at \in Nat \ {0} /\ r.id \in Nat
  <2>1. R \subseteq Rows
    BY DEF Selected
  <2> QED BY <2>1, RowsAreFinite, RowsAreTyped, FS_Subset
<1>2. PICK l \in Listings(R, Limit + 1) :
        pages' = Append(pages, PageOf(l, Limit).rows) /\ cursor' = PageOf(l, Limit).cursor
  BY DEF Answered, Answer
<1> DEFINE new == PageOf(l, Limit).rows
<1>3. /\ l \in Seq(R)
      /\ \A k \in 1 .. Len(l) : l[k] \in R
      /\ \A j, k \in 1 .. Len(l) : j < k => l[j] # l[k] /\ ~Precedes(l[k], l[j])
  BY <1>1, ListingIsOrdered, ChangeFeedAssumption
<1>4. /\ new \in Seq(R)
      /\ Len(new) = IF Len(l) > Limit THEN Limit ELSE Len(l)
      /\ \A k \in 1 .. Len(new) : new[k] = l[k]
      /\ cursor' = IF Len(l) > Limit THEN CursorOf(l[Limit]) ELSE NoCursor
  BY <1>2, <1>3, PageIsPrefix, ChangeFeedAssumption
<1>5. \A q \in R : cursor' = NoCursor \/ ~Below(q, cursor') =>
                     \E k \in 1 .. Len(new) : new[k].id = q.id
  BY <1>1, <1>2, PageCovers, ChangeFeedAssumption
<1>6. pages' = Append(pages, new)
  BY <1>2
<1> HIDE DEF new, R
<1>7. new \in Seq(AllRows) /\ Len(new) <= Limit /\ Len(new) <= Len(l) /\ Len(l) \in Nat
  BY <1>1, <1>3, <1>4, ChangeFeedAssumption
<1>8. \A k \in 1 .. Len(new) : k \in 1 .. Len(l)
  BY <1>7
<1>9. \A k \in 1 .. Len(new) : new[k] \in R
  BY <1>3, <1>4, <1>8
<1>10. \A j, k \in 1 .. Len(new) : j < k => new[j] # new[k] /\ ~Precedes(new[k], new[j])
  BY <1>3, <1>4, <1>8
<1>11. cursor' = NoCursor \/ (Len(new) = Limit /\ cursor' = CursorOf(new[Limit]))
  <2>1. CASE Len(l) > Limit
    <3>1. Len(new) = Limit /\ Limit \in 1 .. Len(new)
      BY <1>4, <2>1, ChangeFeedAssumption
    <3> QED BY <1>4, <2>1, <3>1
  <2>2. CASE ~(Len(l) > Limit)
    BY <1>4, <2>2
  <2> QED BY <2>1, <2>2
<1> QED BY <1>5, <1>6, <1>7, <1>9, <1>10, <1>11 DEF NewPage, R

\* A new page adds its places and leaves the others as they were.
LEMMA PlacesGrow ==
  ASSUME TypeOK, NEW s, NEW new, NewPage(s, new)
  PROVE  /\ \A x \in Places : x \in Places' /\ At(x)' = At(x)
         /\ \A k \in 1 .. Len(new) : \E x \in Places' : At(x)' = new[k]
         /\ \A x \in Places' : \/ x \in Places
                               \/ \E k \in 1 .. Len(new) :
                                    x = <<Len(pages) + 1, k>> /\ At(x)' = new[k]
<1>1. /\ pages \in Seq(Seq(AllRows)) /\ new \in Seq(AllRows)
      /\ pages' = Append(pages, new) /\ Len(new) <= Limit /\ Limit \in Nat
  BY ChangeFeedAssumption DEF NewPage, TypeOK
<1>2. /\ Len(pages) \in Nat /\ Len(pages') = Len(pages) + 1
      /\ DOMAIN pages = 1 .. Len(pages) /\ DOMAIN pages' = 1 .. Len(pages')
      /\ \A p \in 1 .. Len(pages) : pages'[p] = pages[p]
      /\ pages'[Len(pages) + 1] = new
  BY <1>1
<1>3. Places' = {x \in (DOMAIN pages') \X (1 .. Limit) : x[2] <= Len(pages'[x[1]])}
  BY DEF Places
<1>4. Places = {x \in (DOMAIN pages) \X (1 .. Limit) : x[2] <= Len(pages[x[1]])}
  BY DEF Places
<1>5. ASSUME NEW x \in Places PROVE x \in Places' /\ At(x)' = At(x)
  <2>1. x \in (DOMAIN pages) \X (1 .. Limit) /\ x[1] \in 1 .. Len(pages) /\ x[2] <= Len(pages[x[1]])
    BY <1>2, <1>4
  <2>2. pages'[x[1]] = pages[x[1]] /\ x \in (DOMAIN pages') \X (1 .. Limit)
    BY <1>2, <2>1
  <2> QED BY <1>3, <2>1, <2>2 DEF At
<1>6. ASSUME NEW k \in 1 .. Len(new), NEW x, x = <<Len(pages) + 1, k>>
      PROVE  x \in Places' /\ At(x)' = new[k]
  <2>1. k \in 1 .. Limit /\ k <= Len(new) /\ Len(pages) + 1 \in DOMAIN pages'
    BY <1>1, <1>2
  <2>2. x \in (DOMAIN pages') \X (1 .. Limit) /\ x[1] = Len(pages) + 1 /\ x[2] = k
    BY <1>6, <2>1
  <2>3. pages'[x[1]][x[2]] = new[k] /\ x[2] <= Len(pages'[x[1]])
    BY <1>2, <2>1, <2>2
  <2> QED BY <1>3, <2>2, <2>3 DEF At
<1>7. ASSUME NEW k \in 1 .. Len(new) PROVE \E x \in Places' : At(x)' = new[k]
  <2>1. PICK x : x = <<Len(pages) + 1, k>>
    OBVIOUS
  <2> QED BY <1>6, <2>1
<1>8. ASSUME NEW x \in Places', x \notin Places
      PROVE  \E k \in 1 .. Len(new) : x = <<Len(pages) + 1, k>> /\ At(x)' = new[k]
  <2>1. /\ x \in (DOMAIN pages') \X (1 .. Limit) /\ x = <<x[1], x[2]>>
        /\ x[1] \in 1 .. Len(pages) + 1 /\ x[2] \in 1 .. Limit /\ x[2] <= Len(pages'[x[1]])
    BY <1>2, <1>3
  <2>2. CASE x[1] = Len(pages) + 1
    <3>1. x[2] \in 1 .. Len(new)
      BY <1>1, <1>2, <2>1, <2>2
    <3>2. x = <<Len(pages) + 1, x[2]>>
      BY <2>1, <2>2
    <3> QED BY <1>6, <3>1, <3>2
  <2>3. CASE x[1] \in 1 .. Len(pages)
    <3>1. x \in (DOMAIN pages) \X (1 .. Limit)
      BY <1>2, <2>1, <2>3
    <3> QED BY <1>2, <1>4, <1>8, <2>1, <2>3, <3>1
  <2> QED BY <1>2, <2>1, <2>2, <2>3
<1> QED BY <1>5, <1>7, <1>8

\* An answer keeps the invariant.
LEMMA AnswerKeeps ==
  ASSUME IInv, NEW s, Answered(s)
  PROVE  IInv'
<1>0. TypeOK /\ Unstarted /\ Fresh /\ Passed /\ NoRepeat /\ Delivered
  BY DEF IInv
<1>1. PICK new : NewPage(s, new)
  BY <1>0, AnswerAddsPage
<1> DEFINE IsNew(x, k) == x = <<Len(pages) + 1, k>> /\ At(x)' = new[k]
<1>2. /\ s \in 0 .. MaxClock
      /\ pages = <<>> <=> cursor = NoCursor
      /\ pages # <<>> => s = since
      /\ since' = s /\ known' = IF pages = <<>> THEN Present ELSE known
      /\ ts' = ts /\ clock' = clock /\ dirty' = dirty
  BY DEF Answered
<1>3. /\ new \in Seq(AllRows) /\ Len(new) <= Limit
      /\ pages' = Append(pages, new)
      /\ cursor' = NoCursor \/ (Len(new) = Limit /\ cursor' = CursorOf(new[Limit]))
      /\ \A j, k \in 1 .. Len(new) : j < k => new[j] # new[k] /\ ~Precedes(new[k], new[j])
      /\ \A q \in Selected(cursor, s) :
           cursor' = NoCursor \/ ~Below(q, cursor') => \E k \in 1 .. Len(new) : new[k].id = q.id
  BY <1>1 DEF NewPage
<1>4. \A k \in 1 .. Len(new) :
        /\ new[k] \in AllRows /\ new[k].id \in Present /\ new[k].at = ts[new[k].id]
        /\ new[k].side \in Sides(new[k].id) /\ new[k].at \in Nat \ {0} /\ new[k].id \in Nat
        /\ cursor # NoCursor => Below(new[k], cursor)
        /\ new[k] = [id |-> new[k].id, side |-> new[k].side, at |-> new[k].at]
  <2>1. \A r \in AllRows : r = [id |-> r.id, side |-> r.side, at |-> r.at]
    BY DEF AllRows
  <2>2. \A k \in 1 .. Len(new) : new[k] \in Rows /\ (cursor # NoCursor => Below(new[k], cursor))
    BY <1>1 DEF NewPage, Selected
  <2> QED BY <1>0, <2>1, <2>2, RowsAreTyped
<1>5. /\ \A x \in Places : x \in Places' /\ At(x)' = At(x)
      /\ \A k \in 1 .. Len(new) : \E x \in Places' : At(x)' = new[k]
      /\ \A x \in Places' : x \in Places \/ \E k \in 1 .. Len(new) : IsNew(x, k)
  BY <1>0, <1>1, PlacesGrow
<1>5a. \A x, y : \A k \in 1 .. Len(new) : IsNew(x, k) => At(x)' = new[k] /\ (IsNew(y, k) => x = y)
  OBVIOUS
<1> HIDE DEF IsNew
<1>6. pages \in Seq(Seq(AllRows)) /\ pages' \in Seq(Seq(AllRows)) /\ pages' # <<>>
  BY <1>0, <1>3 DEF TypeOK
<1>7. cursor' # NoCursor =>
        /\ Limit \in 1 .. Len(new) /\ cursor' = CursorOf(new[Limit])
        /\ cursor'.at = new[Limit].at /\ cursor'.id = new[Limit].id
  BY <1>3, ChangeFeedAssumption DEF CursorOf
<1>8. cursor # NoCursor => cursor.at \in Nat /\ cursor.id \in Nat
  BY <1>0, CursorIsTyped
<1>9. TypeOK'
  <2>1. \A p \in DOMAIN pages' : Len(pages'[p]) <= Limit
    BY <1>0, <1>3, <1>6 DEF TypeOK
  <2>2. cursor' \in [at : 0 .. MaxClock, id : Ids \cup {0}]
    <3>1. CASE cursor' = NoCursor
      BY <3>1, ChangeFeedAssumption DEF NoCursor
    <3>2. CASE cursor' # NoCursor
      <4>1. new[Limit].at \in 1 .. MaxClock /\ new[Limit].id \in Ids
        BY <1>4, <1>7, <3>2 DEF AllRows
      <4> QED BY <1>7, <3>2, <4>1, ChangeFeedAssumption DEF CursorOf
    <3> QED BY <3>1, <3>2
  <2>3. known' \subseteq Ids
    BY <1>0, <1>2 DEF TypeOK, Present
  <2> QED BY <1>0, <1>2, <1>6, <2>1, <2>2, <2>3 DEF TypeOK
<1>10. Unstarted'
  <2>1. Present' = Present
    BY <1>2 DEF Present
  <2> QED BY <1>0, <1>2, <1>6, <2>1 DEF Unstarted
<1>11. Fresh'
  <2> SUFFICES ASSUME NEW x \in Places' PROVE (At(x)').id \in dirty \/ ts[(At(x)').id] = (At(x)').at
    BY <1>2 DEF Fresh
  <2>1. CASE x \in Places
    BY <1>0, <1>5, <2>1 DEF Fresh
  <2>2. CASE \E k \in 1 .. Len(new) : IsNew(x, k)
    BY <1>4, <1>5a, <2>2
  <2> QED BY <1>5, <2>1, <2>2
<1>12. Passed'
  <2> SUFFICES ASSUME cursor' # NoCursor, NEW x \in Places'
               PROVE  (At(x)').id \in dirty \/ ~Below(At(x)', cursor')
    BY <1>2 DEF Passed
  <2> DEFINE last == new[Limit]
  <2>1. /\ Limit \in 1 .. Len(new) /\ last.at \in Nat /\ last.id \in Nat
        /\ cursor'.at = last.at /\ cursor'.id = last.id
        /\ cursor # NoCursor => Below(last, cursor)
    BY <1>4, <1>7
  <2>2. CASE x \in Places
    <3>1. cursor # NoCursor
      BY <1>2, <2>2 DEF Places
    <3>2. At(x).id \in dirty \/ ~Below(At(x), cursor)
      BY <1>0, <2>2, <3>1 DEF Passed
    <3>3. At(x).at \in Nat /\ At(x).id \in Nat
      BY <1>0, <2>2, PlacesAreTyped
    <3>4. Below(At(x), cursor') => Below(At(x), cursor)
      BY <1>8, <2>1, <3>1, <3>3 DEF Below
    <3> QED BY <1>5, <2>2, <3>2, <3>4
  <2>3. CASE \E k \in 1 .. Len(new) : IsNew(x, k)
    <3>1. PICK k \in 1 .. Len(new) : IsNew(x, k)
      BY <2>3
    <3>2. k < Limit \/ k = Limit
      BY <1>3, ChangeFeedAssumption
    <3>3. ~Precedes(last, new[k])
      <4>1. CASE k < Limit
        BY <1>3, <2>1, <4>1
      <4>2. CASE k = Limit
        BY <2>1, <4>2 DEF Precedes
      <4> QED BY <3>2, <4>1, <4>2
    <3>4. ~Below(new[k], cursor')
      BY <1>4, <2>1, <3>3 DEF Below, Precedes
    <3> QED BY <1>5a, <3>1, <3>4
  <2> QED BY <1>5, <2>2, <2>3
<1>13. NoRepeat'
  <2>1. ASSUME NEW x \in Places, NEW k \in 1 .. Len(new),
               At(x).id = new[k].id
        PROVE  At(x).id \in dirty
    <3>1. cursor # NoCursor
      BY <1>2 DEF Places
    <3>2. At(x).id \in dirty \/ (~Below(At(x), cursor) /\ ts[At(x).id] = At(x).at)
      BY <1>0, <3>1 DEF Passed, Fresh
    <3>3. Below(new[k], cursor) /\ new[k].at = ts[new[k].id]
      BY <1>4, <3>1
    <3> QED BY <2>1, <3>2, <3>3 DEF Below
  <2>2. ASSUME NEW j \in 1 .. Len(new), NEW k \in 1 .. Len(new), j # k,
               new[j].id = new[k].id, new[j].side = new[k].side
        PROVE  FALSE
    <3>0. new[j].at = new[k].at
      BY <1>4, <2>2
    <3>1. new[j] = new[k]
      <4>1. /\ new[j] = [id |-> new[j].id, side |-> new[j].side, at |-> new[j].at]
            /\ new[k] = [id |-> new[k].id, side |-> new[k].side, at |-> new[k].at]
        BY <1>4
      <4> HIDE <1>4
      <4> QED BY <2>2, <3>0, <4>1, Zenon
    <3>2. j < k \/ k < j
      BY <1>3, <2>2
    <3> QED BY <1>3, <3>1, <3>2
  <2> SUFFICES ASSUME NEW x \in Places', NEW y \in Places', x # y,
                      (At(x)').id = (At(y)').id, (At(x)').side = (At(y)').side
               PROVE  (At(x)').id \in dirty
    BY <1>2 DEF NoRepeat
  <2>3. CASE x \in Places /\ y \in Places
    BY <1>0, <1>5, <2>3 DEF NoRepeat
  <2>4. CASE x \in Places /\ \E k \in 1 .. Len(new) : IsNew(y, k)
    BY <1>5, <1>5a, <2>1, <2>4
  <2>5. CASE y \in Places /\ \E k \in 1 .. Len(new) : IsNew(x, k)
    BY <1>5, <1>5a, <2>1, <2>5
  <2>6. CASE (\E k \in 1 .. Len(new) : IsNew(x, k)) /\ (\E k \in 1 .. Len(new) : IsNew(y, k))
    BY <1>5a, <2>2, <2>6
  <2> QED BY <1>5, <2>3, <2>4, <2>5, <2>6
<1>14. Delivered'
  <2> SUFFICES ASSUME NEW i \in Expected', cursor' = NoCursor \/ ~Below(Key(i)', cursor')
               PROVE  \E side \in Sides(i) : Got(i, side)'
    BY DEF Delivered
  <2>1. /\ i \in Present /\ i \in Ids /\ i \in Nat /\ ts[i] \in Nat \ {0} /\ ts[i] >= s
        /\ i \in known' /\ i \notin dirty
    BY <1>0, <1>2, ChangeFeedAssumption DEF Expected, Unstarted, Present, TypeOK
  <2>2. Key(i)' = Key(i) /\ Key(i) = [at |-> ts[i], id |-> i]
    BY <1>2 DEF Key
  <2>3. CASE cursor # NoCursor /\ ~Below(Key(i), cursor)
    <3>1. pages # <<>> /\ i \in Expected
      BY <1>2, <2>1, <2>3 DEF Expected
    <3>2. PICK side \in Sides(i) : Got(i, side)
      BY <1>0, <2>3, <3>1 DEF Delivered
    <3>3. PICK x \in Places : At(x).id = i /\ At(x).side = side
      BY <3>2 DEF Got
    <3>4. Got(i, side)'
      BY <1>5, <3>3 DEF Got
    <3> QED BY <3>4
  <2>4. CASE cursor = NoCursor \/ Below(Key(i), cursor)
    <3> DEFINE q == [id |-> i, side |-> 1, at |-> ts[i]]
    <3>1. q \in Rows
      BY <1>0, <2>1, RowsAreTyped
    <3>2. q \in Selected(cursor, s)
      BY <2>1, <2>2, <2>4, <3>1 DEF Selected, Below
    <3>3. cursor' = NoCursor \/ ~Below(q, cursor')
      BY <2>2 DEF Below
    <3>4. PICK k \in 1 .. Len(new) : new[k].id = i
      BY <1>3, <3>2, <3>3
    <3>5. new[k].side \in Sides(i) /\ Got(i, new[k].side)'
      BY <1>4, <1>5, <3>4 DEF Got
    <3> QED BY <3>5
  <2> QED BY <2>3, <2>4
<1> QED BY <1>9, <1>10, <1>11, <1>12, <1>13, <1>14 DEF IInv

-----------------------------------------------------------------------------
(* The theorems.                                                           *)

\* Either request answers.
LEMMA RequestsAnswer ==
  ASSUME IInv
  PROVE  /\ \A s \in 0 .. MaxClock : FirstPage(s) => Answered(s)
         /\ NextPage => Answered(since)
<1>1. pages = <<>> => cursor = NoCursor
  BY DEF IInv, Unstarted
<1>2. ASSUME NEW s \in 0 .. MaxClock, FirstPage(s) PROVE Answered(s)
  BY <1>1, <1>2 DEF FirstPage, Answered
<1>3. ASSUME NextPage PROVE Answered(since)
  BY <1>3 DEF NextPage, Answered, IInv, TypeOK
<1> QED BY <1>2, <1>3

\* Every step keeps the invariant.
LEMMA NextKeeps ==
  ASSUME IInv, [Next]_vars
  PROVE  IInv'
<1>1. ASSUME NEW i \in Ids, NEW t \in 1 .. MaxClock, Write(i, t) PROVE IInv'
  BY <1>1, WriteKeeps
<1>2. ASSUME NEW s \in 0 .. MaxClock, FirstPage(s) PROVE IInv'
  BY <1>2, RequestsAnswer, AnswerKeeps
<1>3. CASE NextPage
  <2>1. PICK s : s = since
    OBVIOUS
  <2> QED BY <1>3, <2>1, RequestsAnswer, AnswerKeeps
<1>4. CASE UNCHANGED vars
  <2>1. Places' = Places /\ \A x \in Places : At(x)' = At(x)
    BY <1>4 DEF vars, Places, At
  <2>2. Present' = Present /\ Expected' = Expected /\ \A i : Key(i)' = Key(i)
    BY <1>4 DEF vars, Present, Expected, Key
  <2>3. \A i : \A side \in Sides(i) : Got(i, side)' <=> Got(i, side)
    BY <2>1 DEF Got
  <2>4. TypeOK' /\ Unstarted' /\ Fresh' /\ Passed' /\ NoRepeat'
    BY <1>4, <2>1, <2>2 DEF vars, IInv, TypeOK, Unstarted, Fresh, Passed, NoRepeat
  <2>5. Delivered'
    BY <1>4, <2>2, <2>3 DEF vars, IInv, Delivered
  <2> QED BY <2>4, <2>5 DEF IInv
<1> QED BY <1>1, <1>2, <1>3, <1>4 DEF Next

\* So it always holds.
LEMMA SpecIInv == Spec => []IInv
<1> QED BY InitIInv, NextKeeps, PTL DEF Spec

\* The state is well typed: in particular no page is longer than was asked.
THEOREM FeedTypeCorrect == Spec => []TypeOK
<1>1. IInv => TypeOK
  BY DEF IInv
<1> QED BY <1>1, SpecIInv, PTL

\* No row that is not written again arrives twice.
THEOREM NothingTwice == Spec => []NoRepeat
<1>1. IInv => NoRepeat
  BY DEF IInv
<1> QED BY <1>1, SpecIInv, PTL

\* A client that came to the end has got all there was when it began.
THEOREM FeedIsComplete == Spec => []Complete
<1>1. IInv => Complete
  BY DEF IInv, Delivered, Complete, AtEnd
<1> QED BY <1>1, SpecIInv, PTL

\* Every page lies below the one before it.
THEOREM PagesGoDown == Spec => PagesDescend
<1> DEFINE Down == pages # <<>> /\ pages' # pages =>
                     \A k \in DOMAIN pages'[Len(pages')] :
                       Precedes(cursor, pages'[Len(pages')][k])
<1>1. ASSUME IInv, NEW s, Answered(s) PROVE Down
  <2>1. PICK new : NewPage(s, new)
    BY <1>1, AnswerAddsPage DEF IInv
  <2>2. pages'[Len(pages')] = new /\ DOMAIN new = 1 .. Len(new)
    BY <1>1, <2>1 DEF NewPage, IInv, TypeOK
  <2> SUFFICES ASSUME pages # <<>>, NEW k \in 1 .. Len(new) PROVE Precedes(cursor, new[k])
    BY <2>2
  <2>3. cursor # NoCursor
    BY <1>1 DEF Answered
  <2>4. Below(new[k], cursor)
    BY <2>1, <2>3 DEF NewPage, Selected
  <2>5. new[k].at \in Int /\ new[k].id \in Int /\ cursor.at \in Int /\ cursor.id \in Int
    <3>1. cursor.at \in Nat /\ cursor.id \in Nat
      BY <1>1, CursorIsTyped DEF IInv
    <3>2. new[k] \in Rows
      BY <2>1 DEF NewPage, Selected
    <3>3. new[k].at \in Nat /\ new[k].id \in Nat
      BY <1>1, <3>2, RowsAreTyped DEF IInv
    <3> QED BY <3>1, <3>3
  <2> QED BY <2>4, <2>5 DEF Below, Precedes
<1>2. ASSUME IInv, [Next]_vars PROVE [Down]_vars
  <2>1. ASSUME NEW i \in Ids, NEW t \in 1 .. MaxClock, Write(i, t) PROVE Down
    BY <2>1 DEF Write
  <2>2. ASSUME NEW s \in 0 .. MaxClock, FirstPage(s) PROVE Down
    BY <1>1, <1>2, <2>2, RequestsAnswer
  <2>3. CASE NextPage
    <3>1. PICK s : s = since
      OBVIOUS
    <3> QED BY <1>1, <1>2, <2>3, <3>1, RequestsAnswer
  <2> QED BY <1>2, <2>1, <2>2, <2>3 DEF Next
<1>3. [Down]_vars => [pages # <<>> /\ pages' # pages =>
                        LET new == pages'[Len(pages')]
                        IN \A k \in DOMAIN new : Precedes(cursor, new[k])]_vars
  OBVIOUS
<1> QED BY <1>2, <1>3, SpecIInv, PTL DEF Spec, PagesDescend

-----------------------------------------------------------------------------
(* Topology.  Rows of interfaces are only added: a row with an index has   *)
(* the name of that port from the start, so the upsert that finds it       *)
(* changes nothing the keys contain.  A row once found for a port is its   *)
(* row for ever.                                                           *)

PortNames == {IfName[p] : p \in Ports} \cup {ToldName[p] : p \in Ports}
PortRows == [dev : Switches, index : Nat, name : PortNames]

\* The id of a row of the port, or none.
Known(r, p) == r = None \/ (r \in RowIds /\ RowOf(r, p))

RowsInv ==
  /\ interfaces \in Seq(PortRows)
  /\ \A r \in RowIds, p \in Ports :
       interfaces[r].dev = p.dev /\ interfaces[r].index = p.index => interfaces[r].name = IfName[p]

IdsInv ==
  /\ idOf = [p \in Ports |-> idOf[p]]
  /\ \A p \in Ports : Known(idOf[p], p)

IsCable(n) == n \in Neighbours /\ {n.local, n.remote} \in Cables

HandledInv ==
  /\ handled = [d \in Switches |-> handled[d]]
  /\ \A d \in Switches : handled[d] # NoNeighbour =>
       /\ IsCable(handled[d].of) /\ handled[d].of.local.dev = d
       /\ Known(handled[d].row, handled[d].of.remote)

EndsMeet(l) ==
  \E p, q \in Ports :
    {p, q} \in Cables /\ l.a = p.dev /\ l.b = q.dev /\ Known(l.aIf, p) /\ Known(l.bIf, q)

CablesInv ==
  /\ walking \subseteq Ports
  /\ \A n \in neighbours : IsCable(n)
  /\ \A l \in links : EndsMeet(l)

TopInv == RowsInv /\ IdsInv /\ HandledInv /\ CablesInv

\* PortRows are added at the end.
Grows == Len(interfaces') >= Len(interfaces) /\ \A r \in RowIds : interfaces'[r] = interfaces[r]

-----------------------------------------------------------------------------
(* PortRows.                                                                   *)

LEMMA PortIsKey ==
  ASSUME NEW p \in Ports, NEW q \in Ports, p.dev = q.dev, p.index = q.index
  PROVE  p = q
BY TopologyAssumption

LEMMA PortFacts ==
  ASSUME NEW p \in Ports
  PROVE  p.dev \in Switches /\ p.index \in Nat /\ p.index # NoIndex /\ IfName[p] \in PortNames /\ ToldName[p] \in PortNames
<1>1. p.dev \in Switches
  BY Zenon DEF Switches
<1>2. IfName[p] \in PortNames /\ ToldName[p] \in PortNames
  BY Zenon DEF PortNames
<1>3. p.index \in Nat \ {0}
  BY TopologyAssumption, Zenon
<1> QED BY <1>1, <1>2, <1>3 DEF NoIndex

LEMMA RowAppended ==
  ASSUME RowsInv, NEW row \in PortRows, interfaces' = Append(interfaces, row),
         \A p \in Ports : row.dev = p.dev /\ row.index = p.index => row.name = IfName[p]
  PROVE  /\ RowsInv' /\ Grows
         /\ Len(interfaces) + 1 \in RowIds' /\ interfaces'[Len(interfaces) + 1] = row
<1>0. interfaces \in Seq(PortRows)
  BY DEF RowsInv
<1> HIDE DEF PortRows
<1>1. /\ interfaces' \in Seq(PortRows) /\ Len(interfaces') = Len(interfaces) + 1 /\ Len(interfaces) \in Nat
      /\ interfaces'[Len(interfaces) + 1] = row
      /\ \A r \in 1 .. Len(interfaces) : interfaces'[r] = interfaces[r]
  BY <1>0, AppendProperties
<1>2. RowIds = 1 .. Len(interfaces) /\ RowIds' = 1 .. Len(interfaces) + 1
  BY <1>1 DEF RowIds
<1>3. \A r \in RowIds' : r \in RowIds \/ r = Len(interfaces) + 1
  BY <1>1, <1>2
<1>4. ASSUME NEW r \in RowIds', NEW p \in Ports,
             interfaces'[r].dev = p.dev, interfaces'[r].index = p.index
      PROVE  interfaces'[r].name = IfName[p]
  <2>1. CASE r \in RowIds
    BY <1>1, <1>2, <1>4, <2>1 DEF RowsInv
  <2>2. CASE r = Len(interfaces) + 1
    BY <1>1, <1>4, <2>2
  <2> QED BY <1>3, <2>1, <2>2
<1>5. Grows
  BY <1>1, <1>2 DEF Grows
<1> QED BY <1>1, <1>2, <1>4, <1>5 DEF RowsInv

LEMMA GrowsReflexive == ASSUME RowsInv, interfaces' = interfaces PROVE Grows /\ RowsInv'
<1>1. Len(interfaces) \in Nat
  BY DEF RowsInv
<1>2. RowsInv'
  BY Zenon DEF RowsInv, RowIds
<1> QED BY <1>1, <1>2 DEF Grows

\* What was known of a port stays known.
LEMMA KnownStays ==
  ASSUME RowsInv, RowsInv', Grows, NEW r, NEW p, Known(r, p)
  PROVE  Known(r, p)'
<1>1. RowIds = 1 .. Len(interfaces) /\ RowIds' = 1 .. Len(interfaces') /\ Len(interfaces) \in Nat /\ Len(interfaces') \in Nat
  BY DEF RowsInv, RowIds
<1>2. r \in RowIds => r \in RowIds' /\ interfaces'[r] = interfaces[r]
  BY <1>1 DEF Grows
<1>3. CASE r = None
  BY <1>3 DEF Known
<1>4. CASE r \in RowIds /\ RowOf(r, p)
  BY <1>2, <1>4, Zenon DEF Known, RowOf
<1> QED BY <1>3, <1>4, Zenon DEF Known

-----------------------------------------------------------------------------
(* The statements.                                                         *)

\* Ids that were of ports' rows still are, and so is the one written last.
LEMMA IdsStay ==
  ASSUME RowsInv, RowsInv', Grows, IdsInv
  PROVE  /\ idOf' = idOf => IdsInv'
         /\ \A p \in Ports : \A r : Known(r, p)' /\ idOf' = [idOf EXCEPT ![p] = r] => IdsInv'
<1>1. \A r : \A q \in Ports : Known(r, q) => Known(r, q)'
  BY KnownStays
<1>2. ASSUME idOf' = idOf PROVE IdsInv'
  BY <1>1, <1>2, Zenon DEF IdsInv
<1>3. ASSUME NEW p \in Ports, NEW r, Known(r, p)', idOf' = [idOf EXCEPT ![p] = r]
      PROVE  IdsInv'
  <2>1. idOf' = [q \in Ports |-> IF q = p THEN r ELSE idOf[q]]
    BY <1>3, Zenon DEF IdsInv
  <2>2. idOf' = [q \in Ports |-> idOf'[q]] /\ \A q \in Ports : idOf'[q] = IF q = p THEN r ELSE idOf[q]
    BY <2>1
  <2>3. \A i : \A q \in Ports : i = idOf'[q] => Known(i, q)'
    BY <1>1, <1>3, <2>2, Zenon DEF IdsInv
  <2> QED BY <2>2, <2>3, Zenon DEF IdsInv
<1> QED BY <1>2, <1>3

\* SNMP's upsert appends the port's row or finds it; a row it finds keeps its name.
LEMMA UpsertFromSNMP ==
  ASSUME RowsInv, IdsInv, NEW p \in Ports, UpsertInterfaceFromSNMP(p, p.dev)
  PROVE  RowsInv' /\ Grows /\ IdsInv'
<1> DEFINE mine == ByIndex(p.dev, p.index)
           row == [dev |-> p.dev, index |-> p.index, name |-> IfName[p]]
<1>1. CASE UNCHANGED <<interfaces, idOf>>
  BY <1>1, GrowsReflexive, IdsStay
<1>2. CASE /\ interfaces' = Append(interfaces, row)
           /\ idOf' = [idOf EXCEPT ![p] = Len(interfaces) + 1]
  <2>1. row \in PortRows /\ \A q \in Ports : row.dev = q.dev /\ row.index = q.index => row.name = IfName[q]
    BY PortFacts, PortIsKey DEF PortRows
  <2>2. row.dev = p.dev /\ row.index = p.index
    OBVIOUS
  <2> HIDE DEF row
  <2>3. RowsInv' /\ Grows /\ Len(interfaces) + 1 \in RowIds' /\ interfaces'[Len(interfaces) + 1] = row
    BY <1>2, <2>1, RowAppended
  <2>4. \A r : r = Len(interfaces) + 1 => Known(r, p)'
    BY <2>2, <2>3, Zenon DEF Known, RowOf
  <2> QED BY <1>2, <2>3, <2>4, IdsStay
<1>3. ASSUME NEW r \in mine,
             interfaces' = [interfaces EXCEPT ![r].name = IfName[p]],
             idOf' = [idOf EXCEPT ![p] = r]
      PROVE  RowsInv' /\ Grows /\ IdsInv'
  <2>1. r \in RowIds /\ interfaces[r].dev = p.dev /\ interfaces[r].index = p.index
    BY <1>3 DEF ByIndex
  <2>2. interfaces[r].name = IfName[p]
    BY <2>1 DEF RowsInv
  <2>3. interfaces \in Seq(PortRows) /\ interfaces[r] \in PortRows
    BY <2>1 DEF RowsInv, RowIds
  <2>4. [interfaces[r] EXCEPT !.name = IfName[p]] = interfaces[r]
    BY <2>2, <2>3 DEF PortRows
  <2>5. interfaces' = interfaces
    BY <1>3, <2>3, <2>4
  <2>6. RowsInv' /\ Grows
    BY <2>5, GrowsReflexive
  <2>7. Known(r, p)
    BY <2>1 DEF Known, RowOf
  <2>8. Known(r, p)'
    BY <2>6, <2>7, KnownStays
  <2> QED BY <1>3, <2>6, <2>8, IdsStay
<1> QED BY <1>1, <1>2, <1>3 DEF UpsertInterfaceFromSNMP

\* A neighbour's upsert answers with a row of the port it names.
LEMMA UpsertByName ==
  ASSUME RowsInv, NEW p \in Ports, NEW r, UpsertInterfaceByName(p.dev, ToldName[p], r)
  PROVE  RowsInv' /\ Grows /\ Known(r, p)'
<1> DEFINE row == NamedRow(p.dev, ToldName[p])
<1>1. CASE r \in ByName(p.dev, ToldName[p]) /\ UNCHANGED interfaces
  <2>1. RowsInv' /\ Grows
    BY <1>1, GrowsReflexive
  <2>2. Known(r, p)
    BY <1>1, Zenon DEF ByName, Known, RowOf
  <2> QED BY <2>1, <2>2, KnownStays
<1>2. CASE InsertRow(row, r)
  <2>1. row.dev = p.dev /\ row.name = ToldName[p] /\ row.index = NoIndex
    BY DEF NamedRow
  <2>2. row \in PortRows
    BY PortFacts DEF NamedRow, PortRows, NoIndex
  <2>3. \A q \in Ports : row.index # q.index
    BY <2>1, PortFacts, Zenon
  <2>4. r = Len(interfaces) + 1 /\ interfaces' = Append(interfaces, row)
    BY <1>2 DEF InsertRow
  <2> HIDE DEF row
  <2>5. RowsInv' /\ Grows /\ r \in RowIds' /\ interfaces'[r] = row
    BY <2>2, <2>3, <2>4, RowAppended
  <2>6. Known(r, p)'
    BY <2>1, <2>5, Zenon DEF Known, RowOf
  <2> QED BY <2>5, <2>6
<1> QED BY <1>1, <1>2 DEF UpsertInterfaceByName

-----------------------------------------------------------------------------
(* Steps.                                                                  *)

LEMMA TopInitInv == TopologyInit => TopInv
<1> SUFFICES ASSUME TopologyInit PROVE TopInv
  OBVIOUS
<1>1. RowsInv
  BY DEF TopologyInit, RowsInv, RowIds
<1>2. IdsInv
  BY DEF TopologyInit, IdsInv, Known
<1>3. HandledInv
  BY Zenon DEF TopologyInit, HandledInv
<1>4. CablesInv
  BY DEF TopologyInit, CablesInv
<1> QED BY <1>1, <1>2, <1>3, <1>4 DEF TopInv

\* Links and looked-up ports survive new rows.
LEMMA EndsStay ==
  ASSUME RowsInv, RowsInv', Grows, NEW l, EndsMeet(l)
  PROVE  EndsMeet(l)'
<1>1. PICK p \in Ports : \E q \in Ports :
        {p, q} \in Cables /\ l.a = p.dev /\ l.b = q.dev /\ Known(l.aIf, p) /\ Known(l.bIf, q)
  BY DEF EndsMeet
<1>2. PICK q \in Ports :
        {p, q} \in Cables /\ l.a = p.dev /\ l.b = q.dev /\ Known(l.aIf, p) /\ Known(l.bIf, q)
  BY <1>1
<1>3. \A r, x : Known(r, x) => Known(r, x)'
  BY KnownStays
<1>4. Known(l.aIf, p)' /\ Known(l.bIf, q)'
  BY <1>2, <1>3
<1> QED BY <1>2, <1>4, Zenon DEF EndsMeet

LEMMA LinksStay ==
  ASSUME RowsInv, RowsInv', Grows, CablesInv, links' = links,
         walking' \subseteq Ports, \A n \in neighbours' : IsCable(n)
  PROVE  CablesInv'
<1>1. \A l : EndsMeet(l) => EndsMeet(l)'
  BY EndsStay
<1>2. ASSUME NEW l \in links' PROVE EndsMeet(l)'
  BY <1>1, <1>2, Zenon DEF CablesInv
<1>3. \A n \in neighbours' : IsCable(n)'
  BY Zenon DEF IsCable
<1> QED BY <1>2, <1>3 DEF CablesInv

LEMMA HandledStays ==
  ASSUME RowsInv, RowsInv', Grows, HandledInv, handled' = handled
  PROVE  HandledInv'
<1>1. \A r, x : Known(r, x) => Known(r, x)'
  BY KnownStays
<1>2. \A n : IsCable(n) => IsCable(n)'
  BY Zenon DEF IsCable
<1>3. ASSUME NEW d \in Switches, NEW h, h = handled[d], h # NoNeighbour
      PROVE  IsCable(h.of)' /\ h.of.local.dev = d /\ Known(h.row, h.of.remote)'
  BY <1>1, <1>2, <1>3, Zenon DEF HandledInv
<1> QED BY <1>3, Zenon DEF HandledInv

\* A neighbour of d is taken up, with a row known to be its port's or none.
LEMMA HoldInv ==
  ASSUME RowsInv, RowsInv', Grows, HandledInv, NEW n, IsCable(n), NEW r, Known(r, n.remote)', Hold(n, r)
  PROVE  HandledInv'
<1>1. n.local.dev \in Switches
  BY PortFacts DEF IsCable, Neighbours
<1>2. \A i, x : Known(i, x) => Known(i, x)'
  BY KnownStays
<1>3. \A m : IsCable(m) => IsCable(m)'
  BY Zenon DEF IsCable
<1> DEFINE new == [of |-> n, row |-> r]
<1>4. new.of = n /\ new.row = r
  OBVIOUS
<1>5. handled' = [handled EXCEPT ![n.local.dev] = new]
  BY DEF Hold
<1> HIDE DEF new
<1>6. handled' = [d \in Switches |-> IF d = n.local.dev THEN new ELSE handled[d]]
  BY <1>5, Zenon DEF HandledInv
<1>7. handled' = [d \in Switches |-> handled'[d]] /\ \A d \in Switches : handled'[d] = IF d = n.local.dev THEN new ELSE handled[d]
  BY <1>6
<1>8. ASSUME NEW d \in Switches, NEW h, h = handled'[d], h # NoNeighbour
      PROVE  IsCable(h.of)' /\ h.of.local.dev = d /\ Known(h.row, h.of.remote)'
  <2>1. CASE d = n.local.dev
    BY <1>3, <1>4, <1>7, <1>8, <2>1, Zenon
  <2>2. CASE d # n.local.dev
    BY <1>2, <1>3, <1>7, <1>8, <2>2, Zenon DEF HandledInv
  <2> QED BY <2>1, <2>2
<1> QED BY <1>7, <1>8, Zenon DEF HandledInv

\* Whatever keeps the rows, the ids and the looked-up ports.
LEMMA RowsUntouched ==
  ASSUME TopInv, interfaces' = interfaces, idOf' = idOf
  PROVE  RowsInv' /\ Grows /\ IdsInv' /\ (handled' = handled => HandledInv')
BY GrowsReflexive, IdsStay, HandledStays DEF TopInv

LEMMA PollInv == ASSUME TopInv, NEW d \in Switches, Poll(d) PROVE TopInv'
<1>1. UNCHANGED <<interfaces, links, handled>>
  BY DEF Poll
<1>2. RowsInv' /\ Grows
  BY <1>1, GrowsReflexive DEF TopInv
<1>3. IdsInv'
  <2>1. idOf' = [p \in Ports |-> IF p.dev = d THEN None ELSE idOf[p]]
    BY DEF Poll
  <2>2. idOf' = [p \in Ports |-> idOf'[p]] /\ \A p \in Ports : idOf'[p] = None \/ idOf'[p] = idOf[p]
    BY <2>1
  <2>3. \A i : \A p \in Ports : Known(i, p) => Known(i, p)'
    BY <1>2, KnownStays DEF TopInv
  <2>4. \A p : Known(None, p)'
    BY Zenon DEF Known
  <2>5. ASSUME NEW i, NEW p \in Ports, i = idOf'[p] PROVE Known(i, p)'
    BY <2>2, <2>3, <2>4, <2>5, Zenon DEF TopInv, IdsInv
  <2> QED BY <2>2, <2>5, Zenon DEF IdsInv
<1>4. walking' \subseteq Ports /\ \A n \in neighbours' : IsCable(n)
  BY DEF Poll, PortsOf, TopInv, CablesInv, IsCable
<1> QED BY <1>1, <1>2, <1>3, <1>4, HandledStays, LinksStay DEF TopInv

LEMMA WritePortInv == ASSUME TopInv, NEW p \in Ports, WritePort(p) \/ WritePortFails(p) PROVE TopInv'
<1>1. /\ UNCHANGED <<links, neighbours, handled>> /\ walking' \subseteq Ports
      /\ \A n \in neighbours' : IsCable(n)
  BY DEF WritePort, WritePortFails, TopInv, CablesInv
<1>2. RowsInv' /\ Grows /\ IdsInv'
  BY UpsertFromSNMP, RowsUntouched DEF WritePort, WritePortFails, TopInv
<1> QED BY <1>1, <1>2, HandledStays, LinksStay DEF TopInv

LEMMA LookUpInv ==
  ASSUME TopInv, NEW n \in neighbours, LookUpPort(n) \/ LookUpPortFails(n)
  PROVE  TopInv'
<1>1. /\ UNCHANGED <<links, walking, idOf>> /\ IsCable(n) /\ n.remote \in Ports
      /\ walking' \subseteq Ports /\ \A m \in neighbours' : IsCable(m)
  BY DEF LookUpPort, LookUpPortFails, TopInv, CablesInv, IsCable, Neighbours
<1>2. \A p : Known(None, p)'
  BY Zenon DEF Known
<1>3. PICK r : RowsInv' /\ Grows /\ Known(r, n.remote)' /\ Hold(n, r)
  <2>1. CASE UNCHANGED interfaces /\ Hold(n, None)
    BY <1>2, <2>1, GrowsReflexive DEF TopInv
  <2>2. ASSUME NEW r, UpsertInterfaceByName(n.remote.dev, ToldName[n.remote], r), Hold(n, r)
        PROVE  RowsInv' /\ Grows /\ Known(r, n.remote)'
    BY <1>1, <2>2, UpsertByName DEF TopInv
  <2> QED BY <2>1, <2>2 DEF LookUpPort, LookUpPortFails
<1>4. HandledInv'
  BY <1>1, <1>3, HoldInv DEF TopInv
<1>5. IdsInv'
  BY <1>1, <1>3, IdsStay DEF TopInv
<1> QED BY <1>1, <1>3, <1>4, <1>5, LinksStay DEF TopInv

LEMMA PassOverInv == ASSUME TopInv, NEW n \in neighbours, PassOver(n) PROVE TopInv'
<1>1. /\ UNCHANGED <<interfaces, links, walking, idOf, handled>>
      /\ walking' \subseteq Ports /\ \A m \in neighbours' : IsCable(m)
  BY DEF PassOver, TopInv, CablesInv
<1> QED BY <1>1, RowsUntouched, LinksStay DEF TopInv

\* The neighbour's handling ends.
LEMMA ReleaseInv ==
  ASSUME HandledInv, NEW e \in Switches, handled' = [handled EXCEPT ![e] = NoNeighbour],
         UNCHANGED interfaces
  PROVE  HandledInv'
<1>1. handled' = [d \in Switches |-> IF d = e THEN NoNeighbour ELSE handled[d]]
  BY Zenon DEF HandledInv
<1>2. handled' = [d \in Switches |-> handled'[d]] /\ \A d \in Switches : handled'[d] \in {NoNeighbour, handled[d]}
  BY <1>1
<1>3. \A r, x : Known(r, x) => Known(r, x)'
  BY Zenon DEF Known, RowOf, RowIds
<1>4. \A m : IsCable(m) => IsCable(m)'
  BY Zenon DEF IsCable
<1>5. ASSUME NEW d \in Switches, NEW h, h = handled'[d], h # NoNeighbour
      PROVE  IsCable(h.of)' /\ h.of.local.dev = d /\ Known(h.row, h.of.remote)'
  <2>1. h = handled[d]
    BY <1>2, <1>5
  <2> QED BY <1>3, <1>4, <1>5, <2>1, Zenon DEF HandledInv
<1> QED BY <1>2, <1>5, Zenon DEF HandledInv

\* A link keeps each interface with its own device, in whichever order.
LEMMA CanonicalEnds ==
  ASSUME NEW n, IsCable(n), NEW s, NEW i, NEW j, Known(i, n.local), Known(j, n.remote)
  PROVE  EndsMeet(CanonicalLink(s, n.local.dev, i, n.remote.dev, j))
<1>1. n.local \in Ports /\ n.remote \in Ports /\ {n.local, n.remote} \in Cables /\ {n.remote, n.local} \in Cables
  <2>1. {n.remote, n.local} = {n.local, n.remote}
    OBVIOUS
  <2> QED BY <2>1 DEF IsCable, Neighbours
<1>2. CASE n.local.dev <= n.remote.dev
  <2> DEFINE l == [source |-> s, a |-> n.local.dev, aIf |-> i, b |-> n.remote.dev, bIf |-> j]
  <2>1. l.a = n.local.dev /\ l.aIf = i /\ l.b = n.remote.dev /\ l.bIf = j
    OBVIOUS
  <2>2. CanonicalLink(s, n.local.dev, i, n.remote.dev, j) = l
    BY <1>2, Zenon DEF CanonicalLink
  <2> HIDE DEF l
  <2> QED BY <1>1, <2>1, <2>2, Zenon DEF EndsMeet
<1>3. CASE ~(n.local.dev <= n.remote.dev)
  <2> DEFINE l == [source |-> s, a |-> n.remote.dev, aIf |-> j, b |-> n.local.dev, bIf |-> i]
  <2>1. l.a = n.remote.dev /\ l.aIf = j /\ l.b = n.local.dev /\ l.bIf = i
    OBVIOUS
  <2>2. CanonicalLink(s, n.local.dev, i, n.remote.dev, j) = l
    BY <1>3, Zenon DEF CanonicalLink
  <2> HIDE DEF l
  <2> QED BY <1>1, <2>1, <2>2, Zenon DEF EndsMeet
<1> QED BY <1>2, <1>3

LEMMA WriteLinkInv == ASSUME TopInv, NEW d \in Switches, WriteLink(d) \/ WriteLinkFails(d) PROVE TopInv'
<1> DEFINE n == handled[d].of
           l == CanonicalLink(n.source, d, idOf[n.local], n.remote.dev, handled[d].row)
<1>1. /\ UNCHANGED <<interfaces, walking, idOf, neighbours>>
      /\ handled' = [handled EXCEPT ![d] = NoNeighbour] /\ handled[d] # NoNeighbour
      /\ links' \subseteq links \cup {l}
  BY DEF WriteLink, WriteLinkFails
<1>2. IsCable(n) /\ n.local.dev = d /\ Known(handled[d].row, n.remote)
  BY <1>1 DEF TopInv, HandledInv
<1>3. n.local \in Ports
  BY <1>2 DEF IsCable, Neighbours
<1>4. Known(idOf[n.local], n.local)
  BY <1>3 DEF TopInv, IdsInv
<1>5. EndsMeet(l)
  BY <1>2, <1>4, CanonicalEnds
<1> HIDE DEF n, l
<1>6. RowsInv' /\ IdsInv'
  BY <1>1, RowsUntouched DEF TopInv
<1>7. HandledInv'
  BY <1>1, ReleaseInv DEF TopInv
<1>8. \A k : EndsMeet(k) => EndsMeet(k)'
  BY <1>1, <1>6, GrowsReflexive, EndsStay DEF TopInv
<1>9. CablesInv'
  <2>1. \A k \in links' : EndsMeet(k)
    BY <1>1, <1>5 DEF TopInv, CablesInv
  <2> QED BY <1>1, <1>8, <2>1, Zenon DEF TopInv, CablesInv, IsCable
<1> QED BY <1>6, <1>7, <1>9 DEF TopInv

LEMMA TopStepInv == TopInv /\ [TopologyNext]_topologyVars => TopInv'
<1> SUFFICES ASSUME TopInv, [TopologyNext]_topologyVars PROVE TopInv'
  OBVIOUS
<1>1. CASE UNCHANGED topologyVars
  <2>1. /\ UNCHANGED <<interfaces, links, idOf, handled>>
        /\ walking' \subseteq Ports /\ \A m \in neighbours' : IsCable(m)
    BY <1>1 DEF topologyVars, TopInv, CablesInv
  <2> QED BY <2>1, RowsUntouched, LinksStay DEF TopInv
<1>2. CASE TopologyNext
  BY <1>2, PollInv, WriteLinkInv, WritePortInv, LookUpInv, PassOverInv DEF TopologyNext
<1> QED BY <1>1, <1>2

\* Every link joins the two ends of a cable, each interface being its own end's, for
\* any switches, cables and names, and whatever fails or overlaps.
THEOREM LinksJoinCables == TopologySpec => []LinksAreCables
<1>1. TopInv => LinksAreCables
  BY Zenon DEF TopInv, CablesInv, EndsMeet, Known, LinksAreCables, Joins
<1> QED BY TopInitInv, TopStepInv, <1>1, PTL DEF TopologySpec

-----------------------------------------------------------------------------
(* One link for each pair of known ends.  The name of a row is a key of    *)
(* its device, and both ways to find a row of a port that is called by its *)
(* own name lead to that key.                                              *)

NamesInv ==
  /\ \A r, s \in RowIds : interfaces[r].dev = interfaces[s].dev /\ interfaces[r].name = interfaces[s].name => r = s
  /\ \A r \in RowIds : interfaces[r].name # NoName

InOrder(l) == l = [source |-> l.source, a |-> l.a, aIf |-> l.aIf, b |-> l.b, bIf |-> l.bIf] /\ l.a <= l.b

OrderInv == \A l \in links : InOrder(l)

LEMMA NewName ==
  ASSUME RowsInv, NamesInv, NEW row \in PortRows, interfaces' = Append(interfaces, row),
         row.name # NoName, ByName(row.dev, row.name) = {}
  PROVE  NamesInv'
<1>0. interfaces \in Seq(PortRows)
  BY DEF RowsInv
<1>1. \A r \in RowIds : ~(interfaces[r].dev = row.dev /\ interfaces[r].name = row.name)
  BY Zenon DEF ByName
<1> HIDE DEF PortRows
<1>2. /\ Len(interfaces') = Len(interfaces) + 1 /\ Len(interfaces) \in Nat
      /\ interfaces'[Len(interfaces) + 1] = row
      /\ \A r \in 1 .. Len(interfaces) : interfaces'[r] = interfaces[r]
  BY <1>0, AppendProperties
<1>3. ASSUME NEW r \in RowIds'
      PROVE  \/ r \in RowIds /\ interfaces'[r] = interfaces[r]
             \/ r = Len(interfaces) + 1 /\ interfaces'[r] = row
  BY <1>2 DEF RowIds
<1> QED BY <1>1, <1>3, Zenon DEF NamesInv

LEMMA NamesFromSNMP ==
  ASSUME RowsInv, NamesInv, NEW p \in Ports, UpsertInterfaceFromSNMP(p, p.dev)
  PROVE  NamesInv'
<1> DEFINE mine == ByIndex(p.dev, p.index)
           row == [dev |-> p.dev, index |-> p.index, name |-> IfName[p]]
<1>1. CASE UNCHANGED interfaces
  BY <1>1, Zenon DEF NamesInv, RowIds
<1>2. CASE ByName(p.dev, IfName[p]) \ mine = {} /\ mine = {} /\ interfaces' = Append(interfaces, row)
  <2>1. row \in PortRows /\ row.dev = p.dev /\ row.name = IfName[p]
    BY PortFacts DEF PortRows
  <2>2. ByName(p.dev, IfName[p]) = {}
    BY <1>2
  <2>3. IfName[p] # NoName
    BY TopologyAssumption, Zenon
  <2>4. interfaces' = Append(interfaces, row)
    BY <1>2
  <2> HIDE DEF row
  <2> QED BY <2>1, <2>2, <2>3, <2>4, NewName
<1>3. ASSUME NEW r \in mine, interfaces' = [interfaces EXCEPT ![r].name = IfName[p]]
      PROVE  interfaces' = interfaces
  <2>1. r \in RowIds /\ interfaces[r].dev = p.dev /\ interfaces[r].index = p.index
    BY <1>3 DEF ByIndex
  <2>2. interfaces[r].name = IfName[p]
    BY <2>1 DEF RowsInv
  <2>3. interfaces \in Seq(PortRows) /\ interfaces[r] \in PortRows
    BY <2>1 DEF RowsInv, RowIds
  <2>4. [interfaces[r] EXCEPT !.name = IfName[p]] = interfaces[r]
    BY <2>2, <2>3 DEF PortRows
  <2> QED BY <1>3, <2>3, <2>4
<1> QED BY <1>1, <1>2, <1>3 DEF UpsertInterfaceFromSNMP

LEMMA NamesByName ==
  ASSUME RowsInv, NamesInv, NEW p \in Ports, NEW r, ToldName[p] # NoName,
         UpsertInterfaceByName(p.dev, ToldName[p], r)
  PROVE  NamesInv'
<1> DEFINE row == NamedRow(p.dev, ToldName[p])
<1>1. CASE UNCHANGED interfaces
  BY <1>1, Zenon DEF NamesInv, RowIds
<1>2. CASE ByName(p.dev, ToldName[p]) = {} /\ InsertRow(row, r)
  <2>1. row \in PortRows /\ row.dev = p.dev /\ row.name = ToldName[p]
    BY PortFacts DEF NamedRow, PortRows, NoIndex
  <2>2. interfaces' = Append(interfaces, row)
    BY <1>2 DEF InsertRow
  <2> HIDE DEF row
  <2> QED BY <1>2, <2>1, <2>2, NewName
<1> QED BY <1>1, <1>2 DEF UpsertInterfaceByName

LEMMA OrderedEnds ==
  ASSUME NEW s, NEW d \in Nat, NEW i, NEW e \in Nat, NEW j
  PROVE  InOrder(CanonicalLink(s, d, i, e, j))
<1>1. CASE d <= e
  BY <1>1 DEF CanonicalLink, InOrder
<1>2. CASE ~(d <= e)
  <2>1. e <= d
    BY <1>2
  <2> QED BY <1>2, <2>1 DEF CanonicalLink, InOrder
<1> QED BY <1>1, <1>2

LEMMA KeysStep ==
  ASSUME TopInv, NamesInv, OrderInv, [TopologyNext]_topologyVars
  PROVE  NamesInv' /\ OrderInv'
<1>1. ASSUME UNCHANGED interfaces PROVE NamesInv'
  BY <1>1, Zenon DEF NamesInv, RowIds
<1>2. ASSUME UNCHANGED links PROVE OrderInv'
  BY <1>2, Zenon DEF OrderInv
<1>3. CASE UNCHANGED topologyVars
  BY <1>1, <1>2, <1>3 DEF topologyVars
<1>4. ASSUME NEW d \in Switches, Poll(d) PROVE NamesInv' /\ OrderInv'
  BY <1>1, <1>2, <1>4 DEF Poll
<1>5. ASSUME NEW d \in Switches, WriteLink(d) \/ WriteLinkFails(d) PROVE NamesInv' /\ OrderInv'
  <2> DEFINE n == handled[d].of
             l == CanonicalLink(n.source, d, idOf[n.local], n.remote.dev, handled[d].row)
  <2>1. UNCHANGED interfaces /\ handled[d] # NoNeighbour /\ links' \subseteq links \cup {l}
    BY <1>5 DEF WriteLink, WriteLinkFails
  <2>2. n.local \in Ports /\ n.remote \in Ports /\ n.local.dev = d
    BY <2>1 DEF TopInv, HandledInv, IsCable, Neighbours
  <2>3. d \in Nat /\ n.remote.dev \in Nat
    BY <2>2, TopologyAssumption, Zenon
  <2>4. InOrder(l)
    BY <2>3, OrderedEnds
  <2> HIDE DEF l
  <2> QED BY <1>1, <2>1, <2>4 DEF OrderInv
<1>6. ASSUME NEW p \in Ports, WritePort(p) \/ WritePortFails(p) PROVE NamesInv' /\ OrderInv'
  BY <1>1, <1>2, <1>6, NamesFromSNMP DEF WritePort, WritePortFails, TopInv
<1>7. ASSUME NEW n \in neighbours, LookUpPort(n) \/ LookUpPortFails(n) PROVE NamesInv' /\ OrderInv'
  <2>1. n.remote \in Ports
    BY DEF TopInv, CablesInv, IsCable, Neighbours
  <2>2. OrderInv'
    BY <1>2, <1>7 DEF LookUpPort, LookUpPortFails
  <2>3. NamesInv'
    BY <1>1, <1>7, <2>1, NamesByName DEF LookUpPort, LookUpPortFails, TopInv
  <2> QED BY <2>2, <2>3
<1>8. ASSUME NEW n \in neighbours, PassOver(n) PROVE NamesInv' /\ OrderInv'
  BY <1>1, <1>2, <1>8 DEF PassOver
<1> QED BY <1>3, <1>4, <1>5, <1>6, <1>7, <1>8 DEF TopologyNext

\* PortRows of a port that neighbours call by its name are one row.
LEMMA OneRow ==
  ASSUME TopInv, NamesInv, NEW p \in Ports, CalledByItsName(p),
         NEW r \in RowIds, NEW s \in RowIds, RowOf(r, p), RowOf(s, p)
  PROVE  r = s
<1>1. \A i \in RowIds : RowOf(i, p) => interfaces[i].dev = p.dev /\ interfaces[i].name = IfName[p]
  BY Zenon DEF RowOf, CalledByItsName, NamesInv, TopInv, RowsInv
<1> QED BY <1>1 DEF NamesInv

\* Where neighbours call ports by the names SNMP has, two rows of one cable differ in
\* the ends they know: for any switches, cables and order of reports.
THEOREM LinksAreUnique == TopologySpec => []OneLinkPerKnownEnds
<1> DEFINE KeyInv == TopInv /\ NamesInv /\ OrderInv
<1>1. TopologyInit => KeyInv
  <2> SUFFICES ASSUME TopologyInit PROVE KeyInv
    OBVIOUS
  <2>1. NamesInv /\ OrderInv
    BY DEF TopologyInit, NamesInv, OrderInv, RowIds
  <2> QED BY <2>1, TopInitInv
<1>2. KeyInv /\ [TopologyNext]_topologyVars => KeyInv'
  BY KeysStep, TopStepInv
<1>3. KeyInv => OneLinkPerKnownEnds
  <2> SUFFICES ASSUME KeyInv, NEW s \in LinkSources, NEW c \in Cables,
                      \A p \in c : CalledByItsName(p),
                      NEW l \in LinksOf(s, c), NEW k \in LinksOf(s, c),
                      KnownEnds(l) = KnownEnds(k)
               PROVE  l = k
    BY Zenon DEF OneLinkPerKnownEnds
  <2>1. PICK x, y \in Ports : x.dev # y.dev /\ c = {x, y}
    BY TopologyAssumption
  <2>2. x.dev \in Nat /\ y.dev \in Nat
    BY TopologyAssumption, Zenon
  <2>3. ASSUME NEW m \in LinksOf(s, c)
        PROVE  /\ InOrder(m) /\ m.source = s /\ m \in links
               /\ m.aIf \in RowIds \cup {None} /\ m.bIf \in RowIds \cup {None}
               /\ x.dev < y.dev => Joins(m, x, y)
               /\ y.dev < x.dev => Joins(m, y, x)
    <3>1. m \in links /\ m.source = s /\ (Joins(m, x, y) \/ Joins(m, y, x))
      BY <2>1, Zenon DEF LinksOf
    <3>2. InOrder(m) /\ EndsMeet(m)
      BY <3>1, Zenon DEF OrderInv, TopInv, CablesInv
    <3>3. m.aIf \in RowIds \cup {None} /\ m.bIf \in RowIds \cup {None}
      BY <3>2 DEF EndsMeet, Known
    <3>4. m.a <= m.b
      BY <3>2 DEF InOrder
    <3>5. x.dev < y.dev => ~Joins(m, y, x)
      BY <2>2, <3>4 DEF Joins
    <3>6. y.dev < x.dev => ~Joins(m, x, y)
      BY <2>2, <3>4 DEF Joins
    <3> QED BY <3>1, <3>2, <3>3, <3>5, <3>6
  <2>4. ASSUME NEW p \in Ports, NEW q \in Ports, p \in c, q \in c, Joins(l, p, q), Joins(k, p, q)
        PROVE  l = k
    <3>1. (l.aIf # None <=> k.aIf # None) /\ (l.bIf # None <=> k.bIf # None)
      BY DEF KnownEnds
    <3>2. l.a = k.a /\ l.b = k.b /\ l.source = k.source
      BY <2>3, <2>4 DEF Joins
    <3>3. l.aIf = k.aIf
      BY <2>3, <2>4, <3>1, OneRow DEF Joins
    <3>4. l.bIf = k.bIf
      BY <2>3, <2>4, <3>1, OneRow DEF Joins
    <3> QED BY <2>3, <3>2, <3>3, <3>4 DEF InOrder
  <2>5. x \in c /\ y \in c
    BY <2>1
  <2>6. CASE x.dev < y.dev
    BY <2>3, <2>4, <2>5, <2>6
  <2>7. CASE y.dev < x.dev
    BY <2>3, <2>4, <2>5, <2>7
  <2> QED BY <2>1, <2>2, <2>6, <2>7
<1> QED BY <1>1, <1>2, <1>3, PTL DEF TopologySpec

-----------------------------------------------------------------------------
(* Tags.  A request that is inserting either deleted last or was inserting *)
(* at that delete, so what it still has to insert is asked for or late.    *)

Requests == [pc : {"new", "clear", "insert", "done"}, asked : SUBSET TagNames, todo : SUBSET TagNames]

PutInv ==
  /\ put \in [TagRequests -> Requests]
  /\ lastClear \in TagRequests \cup {NoRequest}
  /\ tagFaults \in Nat
  /\ \A q \in TagRequests :
       /\ put[q].todo \subseteq put[q].asked
       /\ put[q].pc = "clear" => put[q].todo = put[q].asked

\* What requests other than the last to delete have left to insert.
LateInv ==
  lastClear # NoRequest =>
    /\ put[lastClear].pc \in {"insert", "done"}
    /\ \A r \in TagRequests : r # lastClear /\ put[r].pc = "insert" => put[r].todo \subseteq late

AutoInv == TagsBy("auto") = suggested

ManualInv ==
  lastClear # NoRequest =>
    /\ TagsBy("manual") \subseteq put[lastClear].asked \cup late
    /\ tagFaults = 0 => put[lastClear].asked \ put[lastClear].todo \subseteq TagsBy("manual")

TagsInv == PutInv /\ LateInv /\ AutoInv /\ ManualInv

LEMMA TagsInitInv == TagsInit => TagsInv
<1> SUFFICES ASSUME TagsInit PROVE TagsInv
  OBVIOUS
<1>1. PutInv
  BY DEF TagsInit, PutInv, Requests
<1>2. AutoInv
  BY Zenon DEF TagsInit, AutoInv, TagsBy
<1>3. LateInv /\ ManualInv
  BY DEF TagsInit, LateInv, ManualInv
<1> QED BY <1>1, <1>2, <1>3 DEF TagsInv

\* What a statement does to the tags of either source.
LEMMA RowAdded ==
  ASSUME NEW t \in TagNames, NEW s, NEW r, s # r,
         tagRows' = tagRows \cup {[tag |-> t, source |-> s]}
  PROVE  TagsBy(s)' = TagsBy(s) \cup {t} /\ TagsBy(r)' = TagsBy(r)
<1>1. \A x, y : [tag |-> x, source |-> y].tag = x /\ [tag |-> x, source |-> y].source = y
  OBVIOUS
<1>2. \A x : [tag |-> x, source |-> s] = [tag |-> t, source |-> s] <=> x = t
  BY <1>1, Zenon
<1>3. \A x : [tag |-> x, source |-> r] # [tag |-> t, source |-> s]
  BY <1>1, Zenon
<1> QED BY <1>2, <1>3, Zenon DEF TagsBy

LEMMA RowsCleared ==
  ASSUME NEW s, NEW o, s # o, tagRows' = {r \in tagRows : r.source # s}
  PROVE  TagsBy(s)' = {} /\ TagsBy(o)' = TagsBy(o)
<1>1. \A x, y : [tag |-> x, source |-> y].source = y
  OBVIOUS
<1> QED BY <1>1, Zenon DEF TagsBy

-----------------------------------------------------------------------------
(* Steps.                                                                  *)

LEMMA SuggestInv ==
  ASSUME TagsInv, NEW w, NEW t \in TagNames, Suggest(w, t)
  PROVE  TagsInv'
<1>1. TagsBy("auto")' = TagsBy("auto") \cup {t} /\ TagsBy("manual")' = TagsBy("manual")
  BY RowAdded, "auto" # "manual" DEF Suggest
<1> QED BY <1>1 DEF TagsInv, Suggest, PutInv, LateInv, AutoInv, ManualInv

\* A run deletes the automatic tags and no other.
LEMMA ClearAutoInv ==
  ASSUME TagsInv, NEW w, ClearAuto(w)
  PROVE  TagsInv'
<1>1. TagsBy("auto")' = {} /\ TagsBy("manual")' = TagsBy("manual")
  BY RowsCleared, "auto" # "manual" DEF ClearAuto
<1> QED BY <1>1 DEF TagsInv, ClearAuto, PutInv, LateInv, AutoInv, ManualInv

\* A run moves on, whether or not its delete failed.
LEMMA ScanInv ==
  ASSUME TagsInv, NEW w, ScanBegins(w) \/ ClearAutoFails(w) \/ ScanEnds(w)
  PROVE  TagsInv'
<1>1. /\ UNCHANGED <<tagRows, put, lastClear, late, suggested>>
      /\ tagFaults' \in Nat /\ (tagFaults' = 0 => tagFaults = 0)
  BY DEF ScanBegins, ClearAutoFails, ScanEnds, TagsInv, PutInv
<1>2. TagsBy("auto")' = TagsBy("auto") /\ TagsBy("manual")' = TagsBy("manual")
  BY <1>1, Zenon DEF TagsBy
<1> QED BY <1>1, <1>2 DEF TagsInv, PutInv, LateInv, AutoInv, ManualInv

LEMMA PutTagsInv ==
  ASSUME TagsInv, NEW q \in TagRequests, NEW S \in SUBSET TagNames, PutTags(q, S)
  PROVE  TagsInv'
<1>1. /\ put' = [put EXCEPT ![q] = [pc |-> "clear", asked |-> S, todo |-> S]]
      /\ UNCHANGED <<tagRows, lastClear, late, suggested, tagFaults>> /\ put[q].pc = "new"
  BY DEF PutTags
<1>2. PutInv'
  BY <1>1 DEF TagsInv, PutInv, Requests
<1>3. lastClear # NoRequest => lastClear # q /\ put'[lastClear] = put[lastClear]
  BY <1>1 DEF TagsInv, LateInv, PutInv
<1>4. \A r \in TagRequests : put'[r].pc = "insert" => put'[r] = put[r]
  BY <1>1 DEF TagsInv, PutInv
<1>5. LateInv'
  BY <1>1, <1>3, <1>4, Zenon DEF TagsInv, LateInv
<1>6. AutoInv' /\ ManualInv'
  BY <1>1, <1>3, Zenon DEF TagsInv, AutoInv, ManualInv, TagsBy
<1> QED BY <1>2, <1>5, <1>6 DEF TagsInv

LEMMA ClearManualInv ==
  ASSUME TagsInv, NEW q \in TagRequests, ClearManual(q)
  PROVE  TagsInv'
<1>1. /\ put' = [put EXCEPT ![q].pc = "insert"] /\ lastClear' = q /\ put[q].pc = "clear"
      /\ late' = UNION {put[r].todo : r \in {x \in TagRequests : put[x].pc = "insert"}}
      /\ UNCHANGED <<suggested, tagFaults>>
      /\ tagRows' = {r \in tagRows : r.source # "manual"}
  BY DEF ClearManual, Cleared
<1>2. PutInv'
  BY <1>1 DEF TagsInv, PutInv, Requests
<1>3. put'[q].pc = "insert" /\ put'[q].asked = put[q].asked /\ put'[q].todo = put[q].asked
  BY <1>1 DEF TagsInv, PutInv, Requests
<1>4. \A r \in TagRequests : r # q => put'[r] = put[r]
  BY <1>1 DEF TagsInv, PutInv
<1>5. \A r \in TagRequests : put[r].pc = "insert" => put[r].todo \subseteq late'
  BY <1>1
<1>6. LateInv'
  BY <1>1, <1>3, <1>4, <1>5 DEF LateInv
<1>7. TagsBy("manual")' = {} /\ TagsBy("auto")' = TagsBy("auto")
  BY <1>1, RowsCleared, "auto" # "manual"
<1>8. AutoInv' /\ ManualInv'
  BY <1>1, <1>3, <1>7 DEF TagsInv, AutoInv, ManualInv
<1> QED BY <1>2, <1>6, <1>8 DEF TagsInv

LEMMA InsertTagInv ==
  ASSUME TagsInv, NEW q \in TagRequests, NEW t \in TagNames, InsertTag(q, t)
  PROVE  TagsInv'
<1>1. /\ put' = [put EXCEPT ![q].todo = @ \ {t}]
      /\ tagRows' = tagRows \cup {[tag |-> t, source |-> "manual"]}
      /\ UNCHANGED <<lastClear, late, suggested, tagFaults>>
      /\ put[q].pc = "insert" /\ t \in put[q].todo
  BY DEF InsertTag
<1>2. PutInv'
  BY <1>1 DEF TagsInv, PutInv, Requests
<1>3. \A r \in TagRequests :
        /\ put'[r].pc = put[r].pc /\ put'[r].asked = put[r].asked
        /\ put'[r].todo = put[r].todo \ (IF r = q THEN {t} ELSE {})
  BY <1>1 DEF TagsInv, PutInv, Requests
<1>4. LateInv'
  BY <1>1, <1>3 DEF TagsInv, LateInv, PutInv
<1>5. TagsBy("manual")' = TagsBy("manual") \cup {t} /\ TagsBy("auto")' = TagsBy("auto")
  BY <1>1, RowAdded, "auto" # "manual"
<1>6. lastClear # NoRequest => t \in put[lastClear].asked \cup late
  BY <1>1 DEF TagsInv, LateInv, PutInv
<1>7. ManualInv'
  <2>1. lastClear # NoRequest => put'[lastClear].asked = put[lastClear].asked
    BY <1>3 DEF TagsInv, PutInv
  <2>2. lastClear # NoRequest => put[lastClear].todo \subseteq put'[lastClear].todo \cup {t}
    BY <1>3 DEF TagsInv, PutInv
  <2> QED BY <1>1, <1>5, <1>6, <2>1, <2>2 DEF TagsInv, ManualInv
<1>8. AutoInv'
  BY <1>1, <1>5 DEF TagsInv, AutoInv
<1> QED BY <1>2, <1>4, <1>7, <1>8 DEF TagsInv

\* A statement or a request fails: nothing is inserted, and less is left to insert.
LEMMA FailureInv ==
  ASSUME TagsInv, NEW q \in TagRequests, CutShort(q) \/ \E t \in TagNames : InsertFails(q, t)
  PROVE  TagsInv'
<1>1. /\ UNCHANGED <<tagRows, lastClear, late, suggested>>
      /\ tagFaults' = tagFaults + 1
      /\ put[q].pc \in {"clear", "insert"}
  BY DEF CutShort, InsertFails
<1>2. /\ put' \in [TagRequests -> Requests]
      /\ \A r \in TagRequests :
           /\ put'[r].asked = put[r].asked /\ put'[r].todo \subseteq put[r].todo
           /\ r # q => put'[r] = put[r]
           /\ put'[r].pc = put[r].pc \/ put'[r].pc = "done"
      /\ put'[q].pc # "clear"
  BY DEF CutShort, InsertFails, TagsInv, PutInv, Requests
<1>3. PutInv'
  BY <1>1, <1>2 DEF TagsInv, PutInv
<1>4. LateInv'
  BY <1>1, <1>2 DEF TagsInv, LateInv, PutInv
<1>5. AutoInv' /\ TagsBy("manual")' = TagsBy("manual")
  BY <1>1, Zenon DEF TagsInv, AutoInv, TagsBy
<1>6. tagFaults' # 0
  BY <1>1 DEF TagsInv, PutInv
<1>7. ManualInv'
  BY <1>1, <1>2, <1>5, <1>6 DEF TagsInv, ManualInv, PutInv
<1> QED BY <1>3, <1>4, <1>5, <1>7 DEF TagsInv

LEMMA AnswerTagsInv ==
  ASSUME TagsInv, NEW q \in TagRequests, AnswerTags(q)
  PROVE  TagsInv'
<1>1. /\ put' = [put EXCEPT ![q].pc = "done"] /\ put[q].pc = "insert"
      /\ UNCHANGED <<tagRows, lastClear, late, suggested, tagFaults>>
  BY DEF AnswerTags
<1>2. PutInv'
  BY <1>1 DEF TagsInv, PutInv, Requests
<1>3. \A r \in TagRequests :
        /\ put'[r].asked = put[r].asked /\ put'[r].todo = put[r].todo
        /\ put'[r].pc = put[r].pc \/ put'[r].pc = "done"
  BY <1>1 DEF TagsInv, PutInv, Requests
<1>4. LateInv' /\ ManualInv'
  BY <1>1, <1>3 DEF TagsInv, LateInv, ManualInv, PutInv, TagsBy
<1>5. AutoInv'
  BY <1>1, Zenon DEF TagsInv, AutoInv, TagsBy
<1> QED BY <1>2, <1>4, <1>5 DEF TagsInv

LEMMA TagsStepInv == TagsInv /\ [TagsNext]_tagVars => TagsInv'
<1> SUFFICES ASSUME TagsInv, [TagsNext]_tagVars PROVE TagsInv'
  OBVIOUS
<1>1. CASE UNCHANGED tagVars
  BY <1>1, Zenon DEF tagVars, TagsInv, PutInv, LateInv, AutoInv, ManualInv, TagsBy
<1> QED BY <1>1, SuggestInv, ClearAutoInv, ScanInv, PutTagsInv, ClearManualInv, AnswerTagsInv, FailureInv, InsertTagInv DEF TagsNext

\* Whatever requests overlap and whichever statements fail, the one that deleted last
\* wins, up to what others were still inserting at its delete; the automatic tags are
\* those discovery has suggested since it deleted its own, however runs overlap.
THEOREM LastDeleteWins == TagsSpec => []LastClearWins
<1>1. TagsInv => LastClearWins
  BY DEF TagsInv, AutoInv, ManualInv, LastClearWins
<1> QED BY TagsInitInv, TagsStepInv, <1>1, PTL DEF TagsSpec

-----------------------------------------------------------------------------
(* Types.  What the tables hold is of the kind the invariants say; left    *)
(* are the counters and what the histories collect.                        *)

PollTypes == polled \in [Switches -> 0 .. MaxPolls] /\ topologyFaults \in 0 .. MaxTopologyFaults

LEMMA PollStepTypes == PollTypes /\ [TopologyNext]_topologyVars => PollTypes'
<1> SUFFICES ASSUME PollTypes, [TopologyNext]_topologyVars PROVE PollTypes'
  OBVIOUS
<1>1. CASE UNCHANGED <<polled, topologyFaults>>
  BY <1>1 DEF PollTypes
<1>2. ASSUME NEW d \in Switches, Poll(d) PROVE PollTypes'
  <2>1. polled[d] + 1 \in 0 .. MaxPolls
    BY <1>2, TopologyAssumption DEF Poll, PollTypes
  <2> QED BY <1>2, <2>1 DEF Poll, PollTypes
<1>3. CASE polled' = polled /\ topologyFaults < MaxTopologyFaults /\ topologyFaults' = topologyFaults + 1
  <2>1. topologyFaults' \in 0 .. MaxTopologyFaults
    BY <1>3, TopologyAssumption DEF PollTypes
  <2> QED BY <1>3, <2>1 DEF PollTypes
<1> QED BY <1>1, <1>2, <1>3, Zenon
    DEF TopologyNext, WriteLink, WriteLinkFails, WritePort, WritePortFails, LookUpPort, LookUpPortFails, PassOver, topologyVars

LEMMA LinkTyped ==
  ASSUME NEW l, EndsMeet(l)
  PROVE  l.a \in Switches /\ l.b \in Switches /\ {l.aIf, l.bIf} \subseteq RowIds \cup {None}
<1>1. PICK p, q \in Ports : l.a = p.dev /\ l.b = q.dev /\ Known(l.aIf, p) /\ Known(l.bIf, q)
  BY Zenon DEF EndsMeet
<1>2. p.dev \in Switches /\ q.dev \in Switches
  BY Zenon DEF Switches
<1>3. l.aIf \in RowIds \cup {None} /\ l.bIf \in RowIds \cup {None}
  BY <1>1, Zenon DEF Known
<1> QED BY <1>1, <1>2, <1>3, Zenon

LEMMA TopologyTyped == TopInv /\ PollTypes => TopologyTypeOK
<1> SUFFICES ASSUME TopInv, PollTypes PROVE TopologyTypeOK
  OBVIOUS
<1>1. interfaces \in Seq([dev : Switches, index : Nat, name : {IfName[p] : p \in Ports} \cup {ToldName[p] : p \in Ports}])
  BY Zenon DEF TopInv, RowsInv, PortRows, PortNames
<1>2. \A l \in links : l.a \in Switches /\ l.b \in Switches /\ {l.aIf, l.bIf} \subseteq RowIds \cup {None}
  BY LinkTyped, Zenon DEF TopInv, CablesInv
<1>3. walking \subseteq Ports /\ neighbours \subseteq Neighbours
  BY Zenon DEF TopInv, CablesInv, IsCable
<1>4. idOf \in [Ports -> RowIds \cup {None}]
  <2>1. idOf = [p \in Ports |-> idOf[p]] /\ \A p \in Ports : Known(idOf[p], p)
    BY DEF TopInv, IdsInv
  <2>2. \A p \in Ports : idOf[p] \in RowIds \cup {None}
    BY <2>1, Zenon DEF Known
  <2> QED BY <2>1, <2>2
<1>5. \A d \in Switches : handled[d] # NoNeighbour =>
        handled[d].of \in Neighbours /\ handled[d].row \in RowIds \cup {None}
  BY Zenon DEF TopInv, HandledInv, IsCable, Known
<1> QED BY <1>1, <1>2, <1>3, <1>4, <1>5, Zenon DEF PollTypes, TopologyTypeOK

\* Every link names devices and rows that are there, and every id a goroutine keeps is
\* of a row: for any switches, cables, names and failures.
THEOREM TopologyTypeCorrect == TopologySpec => []TopologyTypeOK
<1>1. TopologyInit => PollTypes
  BY TopologyAssumption DEF TopologyInit, PollTypes
<1> QED BY <1>1, TopInitInv, TopStepInv, PollStepTypes, TopologyTyped, PTL DEF TopologySpec

TagTypes ==
  /\ tagRows \subseteq TagRow
  /\ late \subseteq TagNames /\ suggested \subseteq TagNames
  /\ tagFaults \in 0 .. MaxTagFaults

LEMMA TagStepTypes == TagsInv /\ TagTypes /\ [TagsNext]_tagVars => TagTypes'
<1> SUFFICES ASSUME TagsInv, TagTypes, [TagsNext]_tagVars PROVE TagTypes'
  OBVIOUS
<1>0. \A t \in TagNames, s \in {"manual", "auto"} : [tag |-> t, source |-> s] \in TagRow
  BY DEF TagRow
<1>1. CASE UNCHANGED <<tagRows, late, suggested, tagFaults>>
  BY <1>1 DEF TagTypes
<1>2. ASSUME NEW w \in TagScanners, NEW t \in TagNames, Suggest(w, t) PROVE TagTypes'
  BY <1>0, <1>2 DEF Suggest, TagTypes
<1>3. ASSUME NEW q \in TagRequests, ClearManual(q) PROVE TagTypes'
  <2>1. \A r \in TagRequests : put[r].todo \subseteq TagNames
    BY DEF TagsInv, PutInv, Requests
  <2>2. late' \subseteq TagNames
    BY <1>3, <2>1 DEF ClearManual, Cleared
  <2> QED BY <1>3, <2>2 DEF ClearManual, Cleared, TagTypes
<1>4. ASSUME NEW q \in TagRequests, NEW t \in TagNames, InsertTag(q, t) PROVE TagTypes'
  BY <1>0, <1>4 DEF InsertTag, TagTypes
<1>5. CASE /\ tagFaults < MaxTagFaults /\ tagFaults' = tagFaults + 1
           /\ UNCHANGED <<tagRows, late, suggested>>
  <2>1. tagFaults' \in 0 .. MaxTagFaults
    BY <1>5, TagsAssumption DEF TagTypes
  <2> QED BY <1>5, <2>1 DEF TagTypes
<1>6. ASSUME NEW w \in TagScanners, ClearAuto(w) PROVE TagTypes'
  BY <1>6 DEF ClearAuto, TagTypes
<1> QED BY <1>1, <1>2, <1>3, <1>4, <1>5, <1>6, Zenon
    DEF TagsNext, ScanBegins, ClearAutoFails, ScanEnds, PutTags, AnswerTags, InsertFails,
        CutShort, tagVars

\* Every run is at one of its statements.
ScanTypes == scan \in [TagScanners -> {"idle", "clear", "suggest"}]

LEMMA ScanStepTypes == ScanTypes /\ [TagsNext]_tagVars => ScanTypes'
<1> SUFFICES ASSUME ScanTypes, [TagsNext]_tagVars PROVE ScanTypes'
  OBVIOUS
<1>1. CASE UNCHANGED scan
  BY <1>1 DEF ScanTypes
<1>2. ASSUME NEW w \in TagScanners, ScanBegins(w) \/ ClearAuto(w) \/ ClearAutoFails(w) \/ ScanEnds(w)
      PROVE  ScanTypes'
  BY <1>2 DEF ScanBegins, ClearAuto, ClearAutoFails, ScanEnds, ScanTypes
<1> QED BY <1>1, <1>2, Zenon
    DEF TagsNext, Suggest, PutTags, ClearManual, Cleared, InsertTag, AnswerTags, InsertFails,
        CutShort, tagVars

\* The rows are tags of the two sources and every request is at one of its statements,
\* for any tags, requests and failures.
THEOREM TagsTypeCorrect == TagsSpec => []TagsTypeOK
<1>1. TagsInit => TagTypes /\ ScanTypes
  BY TagsAssumption DEF TagsInit, TagTypes, ScanTypes
<1>2. TagsInv /\ TagTypes /\ ScanTypes => TagsTypeOK
  BY Zenon DEF TagsInv, PutInv, Requests, TagTypes, ScanTypes, TagsTypeOK
<1> QED BY <1>1, <1>2, TagsInitInv, TagsStepInv, TagStepTypes, ScanStepTypes, PTL DEF TagsSpec

-----------------------------------------------------------------------------
(* The run.  Each component moves by its own steps and stays where it is   *)
(* while another one moves.                                                *)

LEMMA RecordsBegin == MCInit => IdentityInit /\ Init /\ TopologyInit /\ TagsInit
BY Zenon DEF MCInit

LEMMA RecordsStep ==
  [MCNext]_allVars => /\ [IdentityNext]_identityVars /\ [Next]_vars
                      /\ [TopologyNext]_topologyVars /\ [TagsNext]_tagVars
<1> SUFFICES ASSUME [MCNext]_allVars
             PROVE  /\ [IdentityNext]_identityVars /\ [Next]_vars
                    /\ [TopologyNext]_topologyVars /\ [TagsNext]_tagVars
  OBVIOUS
<1>1. CASE UNCHANGED allVars
  BY <1>1, Zenon DEF allVars
<1> QED BY <1>1, Zenon DEF MCNext, MCIdentity, MCFeed, MCTopology, MCTags

\* Whichever component moves, the run is a behaviour of each.
LEMMA RunOfRecords == MCSpec => IdentitySpec /\ Spec /\ TopologySpec /\ TagsSpec
BY RecordsBegin, RecordsStep, PTL DEF MCSpec, IdentitySpec, Spec, TopologySpec, TagsSpec

\* Every table, goroutine and request of device resolution, of the feeds, of topology
\* discovery and of the tags keeps its type, in the composition the run checks.
THEOREM RecordsTypeCorrect == MCSpec => []TypesOK
<1>1. IdentityTypeOK /\ TypeOK /\ TopologyTypeOK /\ TagsTypeOK => TypesOK
  BY Zenon DEF TypesOK
<1> QED BY <1>1, RunOfRecords, IdentityTypeCorrect, FeedTypeCorrect, TopologyTypeCorrect,
           TagsTypeCorrect, PTL

\* All the properties of the run at once, for any finite number of writers and any values
\* of its other constants: duplicates and orphans are counted, settled addresses stay, a
\* client that follows a feed gets every row once and in order, links are cables, and of
\* two changes of a device's tags the last delete wins.
THEOREM RecordsAreSafe ==
  ASSUME IsFiniteSet(Actors)
  PROVE  MCSpec =>
           /\ [](ObservedIsFact /\ OwnersBounded /\ OrphansBounded)
           /\ [](NoRepeat /\ Complete /\ LinksAreCables /\ OneLinkPerKnownEnds /\ LastClearWins)
           /\ SettledOwner /\ PagesDescend
<1>1. MCSpec => [](ObservedIsFact /\ OwnersBounded /\ OrphansBounded)
  <2>1. IdentitySpec => []OwnersBounded
    BY OwnersAreBounded
  <2> QED BY <2>1, RunOfRecords, ObservationsAreFacts, OrphansNeedFaults, PTL
<1>2. MCSpec => [](NoRepeat /\ Complete /\ LinksAreCables /\ OneLinkPerKnownEnds /\ LastClearWins)
  BY RunOfRecords, NothingTwice, FeedIsComplete, LinksJoinCables, LinksAreUnique, LastDeleteWins, PTL
<1>3. MCSpec => SettledOwner /\ PagesDescend
  BY RunOfRecords, OwnerIsStable, PagesGoDown, PTL
<1> QED BY <1>1, <1>2, <1>3, PTL
===============================================================================
