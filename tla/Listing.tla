------------------------------ MODULE Listing ------------------------------
(***************************************************************************)
(* GET /v1/events: a client walks the log newest first, page by page, with *)
(* the cursor of each answer, while producers go on recording events whose *)
(* occurred_at lies anywhere, late deliveries included.                    *)
(*                                                                         *)
(* A page is read by one SELECT, so it is one action.  Cursors are opaque  *)
(* to clients and encode the two sort columns without loss: a cursor is    *)
(* the row it was made of, of which only those columns are used.           *)
(***************************************************************************)
EXTENDS Naturals, Sequences, FiniteSets

CONSTANTS
    Row,       \* the events that may be recorded, with fields id, at, rank, source, kind
    Filter,    \* the filters clients ask for, as the schema lets them through
    Limit,     \* the page sizes clients ask for
    Naive,     \* a bound without a timezone offset
    None       \* Python's None

ASSUME RowType ==
    /\ Row \subseteq [id : Nat, at : Nat, rank : Nat, source : STRING, kind : STRING]
    /\ None \notin Row
ASSUME RowIds == \A r, s \in Row : r.id = s.id => r = s
ASSUME LimitType == Limit \subseteq Nat \ {0}

VARIABLES
    table,     \* the committed rows of system_event
    filter,    \* the filter of the client's walk, None before it starts
    cursor,    \* the cursor of its next request
    pages,     \* its answers so far; `saw' is what the table was, for the properties
    done       \* it was given a null cursor

vars == <<table, filter, cursor, pages, done>>

(***************************************************************************)
(* The query.                                                              *)
(***************************************************************************)

Bounded(x, least) == least = None \/ x >= least
Equal(x, wanted) == wanted = None \/ x = wanted

\* EventFilter refuses bounds without an offset, then an empty or inverted window.
ValidWindow(f) ==
    /\ Naive \notin {f.after, f.before}
    /\ None \notin {f.after, f.before} => f.after < f.before

\* The WHERE clauses of a filter.
Matches(r, f) ==
    /\ Equal(r.source, f.source)
    /\ Equal(r.kind, f.kind)
    /\ Bounded(r.rank, f.min)
    /\ f.after # None => r.at > f.after
    /\ f.before # None => r.at < f.before

\* The row-value comparison (s.at, s.id) < (r.at, r.id): s is listed after r.
Precedes(r, s) == s.at < r.at \/ (s.at = r.at /\ s.id < r.id)

\* Mutant of Selected: the position is resumed at, not after.
SelectedInclusive(f, after) ==
    {r \in table : Matches(r, f) /\ (after = None \/ r = after \/ Precedes(after, r))}

\* The rows a query selects, for a filter and the position to resume after.
Selected(f, after) ==
    {r \in table : Matches(r, f) /\ (after = None \/ Precedes(after, r))}

\* ORDER BY occurred_at DESC, id DESC LIMIT n.
Top(rows, n) == {r \in rows : Cardinality({s \in rows : Precedes(s, r)}) < n}

Last(rows) == CHOOSE r \in rows : \A s \in rows : s = r \/ Precedes(s, r)

\* Mutant of PageOf: the cursor is made of the extra row.
PageSkippingOne(f, after, limit) ==
    LET rows == Top(Selected(f, after), limit + 1)
    IN  [items |-> Top(rows, limit),
         next  |-> IF Cardinality(rows) > limit THEN Last(rows) ELSE None]

\* Mutant of PageOf: no extra row is fetched, a full page is taken for a hint of more.
PageWithoutExtraRow(f, after, limit) ==
    LET items == Top(Selected(f, after), limit)
    IN  [items |-> items,
         next  |-> IF Cardinality(items) = limit THEN Last(items) ELSE None]

\* Mutant of PageOf: the cursor is made without the tiebreaker.
PageWithoutTiebreaker(f, after, limit) ==
    LET rows == Top(Selected(f, after), limit + 1)
    IN  [items |-> Top(rows, limit),
         next  |-> IF Cardinality(rows) > limit
                   THEN [at |-> Last(Top(rows, limit)).at]
                   ELSE None]

\* One page: one row too many is fetched, which tells whether there is a next page.
PageOf(f, after, limit) ==
    LET rows  == Top(Selected(f, after), limit + 1)
        items == Top(rows, limit)
    IN  [items |-> items,
         next  |-> IF Cardinality(rows) > limit THEN Last(items) ELSE None]

(***************************************************************************)
(* The behaviours.                                                         *)
(***************************************************************************)

Init ==
    /\ table = {}
    /\ filter = None
    /\ cursor = None
    /\ pages = <<>>
    /\ done = FALSE

\* Some request commits an event.
Record(r) ==
    /\ r \notin table
    /\ table' = table \cup {r}
    /\ UNCHANGED <<filter, cursor, pages, done>>

\* A client starts a walk.
Start(f) ==
    /\ filter = None
    /\ ValidWindow(f)
    /\ filter' = f
    /\ UNCHANGED <<table, cursor, pages, done>>

\* Mutant of Fetch: a page without rows is an error.
FetchUnlessEmpty(limit) ==
    /\ filter # None
    /\ ~done
    /\ LET page == PageOf(filter, cursor, limit)
       IN  /\ page.items # {}
           /\ pages' = Append(pages, [items |-> page.items, next |-> page.next, saw |-> table])
           /\ cursor' = page.next
           /\ done' = (page.next = None)
    /\ UNCHANGED <<table, filter>>

\* The client follows the cursor it has, with whatever limit it likes this time.
Fetch(limit) ==
    /\ filter # None
    /\ ~done
    /\ LET page == PageOf(filter, cursor, limit)
       IN  /\ pages' = Append(pages, [items |-> page.items, next |-> page.next, saw |-> table])
           /\ cursor' = page.next
           /\ done' = (page.next = None)
    /\ UNCHANGED <<table, filter>>

Next ==
    \/ \E r \in Row : Record(r)
    \/ \E f \in Filter : Start(f)
    \/ \E limit \in Limit : Fetch(limit)

Spec == Init /\ [][Next]_vars

\* A client that started a walk goes on with it.
FairSpec == Spec /\ WF_vars(\E limit \in Limit : Fetch(limit))

(***************************************************************************)
(* Properties.                                                             *)
(***************************************************************************)

Walked == {r \in Row : \E i \in DOMAIN pages : r \in pages[i].items}

\* What is still to come for the client as of its i-th request.
Ahead(r, i) == i = 1 \/ Precedes(pages[i - 1].next, r)

\* The walk has gone past the place of row r.
Passed(r) == done \/ (cursor # None /\ ~Precedes(cursor, r))

TypeOK ==
    /\ table \subseteq Row
    /\ filter \in Filter \cup {None}
    /\ cursor \in Row \cup {None}
    /\ pages \in Seq([items : SUBSET Row, next : Row \cup {None}, saw : SUBSET Row])
    /\ done \in BOOLEAN

\* The sequence is stable under concurrent writes: across pages of any sizes, rows
\* come strictly newest first, so none is repeated and none is out of order.
NothingIsRepeated ==
    \A i, j \in DOMAIN pages :
        i < j => \A r \in pages[i].items, s \in pages[j].items : Precedes(r, s)

\* And none is skipped: a matching row that was recorded at the time of any request
\* of the walk, at a place the walk had yet to reach, is listed by the time the
\* walk is past that place, even where timestamps collide at a page boundary.
NothingIsSkipped ==
    \A i \in DOMAIN pages : \A r \in pages[i].saw :
        Matches(r, filter) /\ Ahead(r, i) /\ Passed(r) => r \in Walked

\* A cursor always leads to a row: it is handed out only if there is one left, and
\* in an append-only log with an unchanged filter that row cannot go away.
CursorLeadsSomewhere ==
    \A i \in DOMAIN pages : i > 1 => pages[i].items # {}

\* What a client is promised, in Walk, is what the pages and their cursors come to.
Promised == INSTANCE Walk WITH shown <- Walked, place <- cursor

\* Whatever page sizes a client asks for, and whatever is recorded between its
\* requests: each page is the next piece of what matches, no row of it was shown
\* before, and its cursor says truly whether there is more.
RefinesWalk == Promised!Spec

\* The places a client has yet to reach, whether or not there is a row at them.
ToCome == {r \in Row : cursor = None \/ Precedes(cursor, r)}

\* Each page but the last leaves fewer places to reach than there were, and nothing
\* that is recorded meanwhile sends a client back: what makes walks end.
WalkAdvances ==
    [][\/ done'
       \/ /\ ToCome' \subseteq ToCome
          /\ pages' # pages => ToCome' # ToCome]_vars

\* A walk ends, however many events are recorded meanwhile behind it.
WalkEnds == filter # None ~> done

\* What the filter's documentation says of its bounds: that adjacent time windows
\* tile, without double-counting, so that an event between the outer bounds of two
\* adjacent windows is in exactly one of them.
AdjacentWindowsTile ==
    \A f, g \in Filter :
        /\ ValidWindow(f) /\ ValidWindow(g)
        /\ None \notin {f.after, f.before, g.before}
        /\ g = [f EXCEPT !.after = f.before, !.before = g.before]
        => \A r \in table :
               Matches(r, [f EXCEPT !.before = g.before]) => Matches(r, f) # Matches(r, g)
=============================================================================
