--------------------------- MODULE DeviceListUrl ---------------------------
(***************************************************************************)
(* The left half of the devices page: filters, sort and page position live *)
(* in the URL.  Every control pushes a URL built from the one the page was *)
(* rendered with; the server answers a push after a while, and a push made *)
(* meanwhile takes its place.  A cursor is a position in one ordering of   *)
(* one selection of devices, and means nothing in another.                 *)
(***************************************************************************)
EXTENDS Naturals

CONSTANTS
  NoCursor,  \* no cursor
  Texts,     \* search texts, "" among them
  Pages,     \* pages of every selection of devices
  MaxClicks  \* bound on the use of controls

ASSUME UrlAssumption == "" \in Texts /\ Pages \in Nat \ {0} /\ MaxClicks \in Nat

VALID_SORTS == {"created_desc", "last_seen_desc", "last_change_desc"}
VALID_STATUS == {"online", "offline", "changed"}
DEFAULT_SORT == "created_desc"

\* Values of a parameter in a URL somebody typed; "" is an absent one.
RawStatus == VALID_STATUS \cup {"", "all", "bogus"}
RawSort == VALID_SORTS \cup {"", "bogus"}

VARIABLES
  url,     \* parameters of the rendered page: [q, status, sort, cursor]
  asked,   \* what the server was asked for that page: a selection and a cursor
  next,    \* devicePage.cursor
  nav,     \* the push under way, or the url itself
  input,   \* searchInput
  clicks

urlVars == <<url, asked, next, nav, input, clicks>>

Cursors == [q : Texts, status : VALID_STATUS \cup {"all"}, sort : VALID_SORTS, page : 2 .. Pages]
Urls == [q : Texts, status : RawStatus, sort : RawSort, cursor : Cursors \cup {NoCursor}]

-----------------------------------------------------------------------------
(* The server's reading of a URL, and the page's.                          *)

\* normalizeSearchParams and initialFilters: unknown values count as absent.
Normalized(u) ==
  [q |-> u.q,
   status |-> IF u.status \in VALID_STATUS THEN u.status ELSE "all",
   sort |-> IF u.sort \in VALID_SORTS THEN u.sort ELSE DEFAULT_SORT]

\* currentSearch, currentStatus and currentSort: the URL's own value if it has
\* one, else what the server says it used.
Displayed(u, filters) ==
  [q |-> u.q,
   status |-> IF u.status = "" THEN filters.status
              ELSE IF u.status \in VALID_STATUS THEN u.status ELSE "all",
   sort |-> IF u.sort \in VALID_SORTS THEN u.sort ELSE filters.sort]

\* The filters of the request to core-go.
Selection(c) == [q |-> c.q, status |-> c.status, sort |-> c.sort]

PageNumber(c) == IF c = NoCursor THEN 1 ELSE c.page

CursorOf(selection, n) ==
  [q |-> selection.q, status |-> selection.status, sort |-> selection.sort, page |-> n]

\* fetchDevicePage for the URL u: the page, with the cursor of the next one.
PageRendered(u) ==
  /\ url' = u
  /\ asked' = [selection |-> Normalized(u), cursor |-> u.cursor]
  /\ next' = IF PageNumber(u.cursor) < Pages
             THEN CursorOf(Normalized(u), PageNumber(u.cursor) + 1) ELSE NoCursor

-----------------------------------------------------------------------------
UrlTypeOK ==
  /\ url \in Urls /\ nav \in Urls
  /\ next \in Cursors \cup {NoCursor}
  /\ input \in Texts /\ clicks \in 0 .. MaxClicks

\* A link somebody kept, without a cursor.
UrlInit ==
  /\ \E q \in Texts, s \in RawStatus, o \in RawSort :
       url = [q |-> q, status |-> s, sort |-> o, cursor |-> NoCursor]
  /\ asked = [selection |-> Normalized(url), cursor |-> NoCursor]
  /\ next = IF Pages > 1 THEN CursorOf(Normalized(url), 2) ELSE NoCursor
  /\ nav = url
  /\ input = url.q
  /\ clicks = 0

Pending == nav # url

\* router.push.
Push(u) == nav' = u

Use ==
  /\ clicks < MaxClicks /\ clicks' = clicks + 1
  /\ UNCHANGED <<url, asked, next>>

TypeSearch(t) ==
  /\ t # input /\ input' = t
  /\ clicks < MaxClicks /\ clicks' = clicks + 1
  /\ UNCHANGED <<url, asked, next, nav>>

\* handleSearchSubmit.
Search ==
  /\ Push([url EXCEPT !.q = input, !.cursor = NoCursor])
  /\ UNCHANGED input /\ Use

\* A status control that leaves the cursor where it is.
SetStatusKeeping(s) ==
  /\ Push([url EXCEPT !.status = IF s = "all" THEN "" ELSE s])
  /\ UNCHANGED input /\ Use

\* handleStatusToggle: "all" is the absent value.
SetStatus(s) ==
  /\ Push([url EXCEPT !.status = IF s = "all" THEN "" ELSE s, !.cursor = NoCursor])
  /\ UNCHANGED input /\ Use

\* handleSortChange.
SetSort(o) ==
  /\ Push([url EXCEPT !.sort = o, !.cursor = NoCursor])
  /\ UNCHANGED input /\ Use

\* goToCursor.
NextPage ==
  /\ next # NoCursor
  /\ Push([url EXCEPT !.cursor = next])
  /\ UNCHANGED input /\ Use

\* resetPagination.
FirstPage ==
  /\ url.cursor # NoCursor
  /\ Push([url EXCEPT !.cursor = NoCursor])
  /\ UNCHANGED input /\ Use

\* handleReset: the bare path.
Reset ==
  /\ Push([q |-> "", status |-> "", sort |-> "", cursor |-> NoCursor])
  /\ input' = ""
  /\ Use

\* The server's answer is rendered; the effect on currentSearch puts the text of
\* the URL in the input when it is another one.
Commit ==
  /\ Pending
  /\ PageRendered(nav)
  /\ input' = IF nav.q # url.q THEN nav.q ELSE input
  /\ UNCHANGED <<nav, clicks>>

UrlRest == ~Pending /\ UNCHANGED urlVars

UrlNext ==
  \/ \E t \in Texts : TypeSearch(t)
  \/ \E s \in VALID_STATUS \cup {"all"} : SetStatus(s)
  \/ \E o \in VALID_SORTS : SetSort(o)
  \/ Search \/ NextPage \/ FirstPage \/ Reset \/ Commit \/ UrlRest

UrlSpec == UrlInit /\ [][UrlNext]_urlVars

-----------------------------------------------------------------------------
(* Properties.                                                             *)

\* core-go is never asked for a position in one ordering with the filters or the
\* sort of another, whichever controls are used before an earlier push commits; and
\* the controls show what the list was selected by, for any link.
CursorOfSelection ==
  /\ asked.cursor # NoCursor => Selection(asked.cursor) = asked.selection
  /\ Displayed(url, asked.selection) = asked.selection
=============================================================================
