------------------------------- MODULE Keyset -------------------------------
(* Keyset paging as core-go's list queries and handlers do it: rows ordered *)
(* by a timestamp and then an id, both descending; a cursor names the last  *)
(* row of a page and the next page starts strictly below it.  Rows are      *)
(* records with the fields at and id; rows equal in both are listed in any  *)
(* order.                                                                   *)
EXTENDS Integers, Sequences, FiniteSets

\* A WHERE clause that lets the cursor's row through.
BelowOrAt(r, c) == r.at < c.at \/ (r.at = c.at /\ r.id <= c.id)

\* WHERE at < $1 OR (at = $1 AND id < $2).
Below(r, c) == r.at < c.at \/ (r.at = c.at /\ r.id < c.id)

\* ORDER BY at DESC, id DESC puts r before q.
Precedes(r, q) == r.at > q.at \/ (r.at = q.at /\ r.id > q.id)

\* What the query may answer with LIMIT n: a longest list of distinct rows of
\* R, in order, such that no row left out precedes one listed.
Listings(R, n) ==
  LET m == IF Cardinality(R) < n THEN Cardinality(R) ELSE n
  IN {l \in [1 .. m -> R] :
        /\ \A j, k \in 1 .. m : j < k => l[j] # l[k] /\ ~Precedes(l[k], l[j])
        /\ \A r \in R : (\A k \in 1 .. m : l[k] # r) => \A k \in 1 .. m : ~Precedes(r, l[k])}

NoCursor == [at |-> 0, id |-> 0]

CursorOf(r) == [at |-> r.at, id |-> r.id]

\* A handler that asks for one row more to see whether there is a next page,
\* but makes the cursor from that row.
PageOfExtra(l, limit) ==
  IF Len(l) > limit
  THEN [rows |-> SubSeq(l, 1, limit), cursor |-> CursorOf(l[limit + 1])]
  ELSE [rows |-> l, cursor |-> NoCursor]

\* A handler that forgets to cut the extra row off.
PageUncut(l, limit) ==
  IF Len(l) > limit
  THEN [rows |-> l, cursor |-> CursorOf(l[limit])]
  ELSE [rows |-> l, cursor |-> NoCursor]

\* The handlers query limit + 1 rows; if they get them, the page is cut to
\* limit and the cursor made from its last row.
PageOf(l, limit) ==
  IF Len(l) > limit
  THEN [rows |-> SubSeq(l, 1, limit), cursor |-> CursorOf(l[limit])]
  ELSE [rows |-> l, cursor |-> NoCursor]
=============================================================================
