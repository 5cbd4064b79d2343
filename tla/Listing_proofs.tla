--------------------------- MODULE Listing_proofs ---------------------------
(***************************************************************************)
(* Walks through a log of any size, with pages of any sizes, under writes: *)
(* nothing is repeated, nothing is skipped, and a cursor leads somewhere.  *)
(*                                                                         *)
(* A page is an initial piece of what the query selects, and its cursor    *)
(* the last row of it; what is not in the piece comes after that row.      *)
(***************************************************************************)
EXTENDS Listing, FiniteSetTheorems, SequenceTheorems, WellFoundedInduction, TLAPS

(***************************************************************************)
(* The order of the listing.                                               *)
(***************************************************************************)

\* The two sort columns order the rows, for ids tell them apart.
LEMMA ListingOrder ==
    /\ \A r \in Row : ~Precedes(r, r)
    /\ \A r, s, t \in Row : Precedes(r, s) /\ Precedes(s, t) => Precedes(r, t)
    /\ \A r, s \in Row : r = s \/ Precedes(r, s) \/ Precedes(s, r)
<1>1. \A r \in Row : r.at \in Nat /\ r.id \in Nat
  BY RowType
<1> QED
  BY <1>1, RowIds DEF Precedes

Before(rows, r) == {s \in rows : Precedes(s, r)}
After(rows, r) == {s \in rows : Precedes(r, s)}

\* Of any subsets of finitely many rows, one has none of the others inside it.
LEMMA LeastSubset ==
    ASSUME NEW rows, IsFiniteSet(rows), NEW family \in SUBSET SUBSET rows, family # {}
    PROVE  \E T \in family : \A U \in family : ~(U \subseteq T /\ U # T)
<1>1. IsWellFoundedOn(StrictSubsetOrdering(rows), FiniteSubsetsOf(rows))
  BY FS_StrictSubsetOrderingWellFounded
<1>2. family \subseteq FiniteSubsetsOf(rows)
  BY FS_Subset DEF FiniteSubsetsOf
<1>3. PICK T \in family : \A U \in family : <<U, T>> \notin StrictSubsetOrdering(rows)
  BY <1>1, <1>2, WFMin
<1> QED
  BY <1>3 DEF StrictSubsetOrdering

LEMMA LastExists ==
    ASSUME NEW rows \in SUBSET Row, IsFiniteSet(rows), rows # {}
    PROVE  /\ Last(rows) \in rows
           /\ \A s \in rows : s = Last(rows) \/ Precedes(s, Last(rows))
<1> DEFINE family == {After(rows, r) : r \in rows}
<1>1. family \in SUBSET SUBSET rows /\ family # {}
  BY DEF After
<1> HIDE DEF family
<1>2. PICK T \in family : \A U \in family : ~(U \subseteq T /\ U # T)
  BY <1>1, LeastSubset
<1>3. PICK r \in rows : T = After(rows, r)
  BY <1>2 DEF family
<1>4. ASSUME NEW s \in After(rows, r) PROVE FALSE
  <2>1. s \in rows /\ Precedes(r, s)
    BY <1>4 DEF After
  <2>2. After(rows, s) \subseteq After(rows, r) /\ s \notin After(rows, s)
    BY <2>1, ListingOrder DEF After
  <2>3. After(rows, s) \in family
    BY <2>1 DEF family
  <2> QED
    BY <1>2, <1>3, <1>4, <2>2, <2>3
<1>5. \A s \in rows : s = r \/ Precedes(s, r)
  BY <1>4, ListingOrder DEF After
<1> QED
  BY <1>5 DEF Last

LEMMA FirstExists ==
    ASSUME NEW rows \in SUBSET Row, IsFiniteSet(rows), rows # {}
    PROVE  \E r \in rows : Before(rows, r) = {}
<1> DEFINE family == {Before(rows, r) : r \in rows}
<1>1. family \in SUBSET SUBSET rows /\ family # {}
  BY DEF Before
<1> HIDE DEF family
<1>2. PICK T \in family : \A U \in family : ~(U \subseteq T /\ U # T)
  BY <1>1, LeastSubset
<1>3. PICK r \in rows : T = Before(rows, r)
  BY <1>2 DEF family
<1>4. ASSUME NEW s \in Before(rows, r) PROVE FALSE
  <2>1. s \in rows /\ Precedes(s, r)
    BY <1>4 DEF Before
  <2>2. Before(rows, s) \subseteq Before(rows, r) /\ s \notin Before(rows, s)
    BY <2>1, ListingOrder DEF Before
  <2>3. Before(rows, s) \in family
    BY <2>1 DEF family
  <2> QED
    BY <1>2, <1>3, <1>4, <2>2, <2>3
<1> QED
  BY <1>4

(***************************************************************************)
(* LIMIT.                                                                  *)
(***************************************************************************)

LEMMA BeforeCounts ==
    ASSUME NEW rows, IsFiniteSet(rows), NEW r
    PROVE  /\ IsFiniteSet(Before(rows, r)) /\ Cardinality(Before(rows, r)) \in Nat
           /\ Before(rows, r) \in SUBSET rows
BY FS_Subset, FS_CardinalityType DEF Before

LEMMA TopRows ==
    ASSUME NEW rows, IsFiniteSet(rows), NEW n
    PROVE  /\ Top(rows, n) \in SUBSET rows
           /\ IsFiniteSet(Top(rows, n)) /\ Cardinality(Top(rows, n)) \in Nat
           /\ \A r \in rows : r \in Top(rows, n) <=> Cardinality(Before(rows, r)) < n
<1>1. Top(rows, n) \in SUBSET rows
  BY DEF Top
<1> QED
  BY <1>1, FS_Subset, FS_CardinalityType DEF Top, Before

\* What comes before a row that is in is in.
LEMMA TopIsInitial ==
    ASSUME NEW rows \in SUBSET Row, IsFiniteSet(rows), NEW n \in Nat,
           NEW r \in Top(rows, n), NEW s \in rows, Precedes(s, r)
    PROVE  s \in Top(rows, n)
<1>1. r \in rows /\ Cardinality(Before(rows, r)) < n
  BY TopRows
<1>2. Before(rows, s) \in SUBSET Before(rows, r)
  BY <1>1, ListingOrder DEF Before
<1>3. Cardinality(Before(rows, s)) <= Cardinality(Before(rows, r))
  BY <1>2, BeforeCounts, FS_Subset
<1>4. Cardinality(Before(rows, s)) \in Nat /\ Cardinality(Before(rows, r)) \in Nat
  BY BeforeCounts
<1>5. Cardinality(Before(rows, s)) < n
  BY <1>1, <1>3, <1>4
<1> QED
  BY <1>5, TopRows

LEMMA TopIsSmall ==
    ASSUME NEW rows \in SUBSET Row, IsFiniteSet(rows), NEW n \in Nat
    PROVE  Cardinality(Top(rows, n)) <= n
<1>1. CASE Top(rows, n) = {}
  BY <1>1, FS_EmptySet
<1>2. CASE Top(rows, n) # {}
  <2> DEFINE l == Last(Top(rows, n))
  <2>1. /\ l \in Top(rows, n)
        /\ \A s \in Top(rows, n) : s = l \/ Precedes(s, l)
    BY <1>2, TopRows, LastExists
  <2>2. l \in rows /\ Cardinality(Before(rows, l)) < n
    BY <2>1, TopRows
  <2>3. Top(rows, n) = Before(rows, l) \cup {l}
    BY <2>1, <2>2, TopRows, TopIsInitial DEF Before
  <2>4. l \notin Before(rows, l)
    BY <2>2, ListingOrder DEF Before
  <2>5. Cardinality(Before(rows, l) \cup {l}) = Cardinality(Before(rows, l)) + 1
    BY <2>4, BeforeCounts, FS_AddElement
  <2>6. Cardinality(Before(rows, l)) \in Nat
    BY BeforeCounts
  <2> HIDE DEF l
  <2> QED
    BY <2>2, <2>3, <2>5, <2>6
<1> QED
  BY <1>1, <1>2

\* Fewer than asked for are all there are.
LEMMA TopIsAll ==
    ASSUME NEW rows \in SUBSET Row, IsFiniteSet(rows), NEW n \in Nat,
           Cardinality(Top(rows, n)) < n
    PROVE  Top(rows, n) = rows
<1> DEFINE left == rows \ Top(rows, n)
<1>1. SUFFICES ASSUME left # {} PROVE FALSE
  BY TopRows
<1>2. left \in SUBSET Row /\ IsFiniteSet(left)
  BY FS_Subset
<1>3. PICK r \in left : Before(left, r) = {}
  BY <1>1, <1>2, FirstExists
<1>4. Before(rows, r) \in SUBSET Top(rows, n)
  BY <1>3 DEF Before
<1>5. Cardinality(Before(rows, r)) <= Cardinality(Top(rows, n))
  BY <1>4, TopRows, FS_Subset
<1>6. Cardinality(Before(rows, r)) \in Nat /\ Cardinality(Top(rows, n)) \in Nat
  BY BeforeCounts, TopRows
<1>7. Cardinality(Before(rows, r)) < n
  BY <1>5, <1>6
<1> QED
  BY <1>3, <1>7, TopRows

(***************************************************************************)
(* Pages.                                                                  *)
(***************************************************************************)

Page(page, rows) ==
    /\ page.items \in SUBSET rows
    /\ page.next \in rows \cup {None}
    /\ rows # {} => page.items # {}
    /\ page.next = None => page.items = rows
    /\ page.next # None =>
           /\ page.next \in page.items
           /\ \A r \in rows : r \in page.items <=> r = page.next \/ Precedes(r, page.next)
           /\ \E s \in rows : Precedes(page.next, s)

\* What counts before a row in an initial piece of the rows is all there is before it.
LEMMA TopOfTop ==
    ASSUME NEW rows \in SUBSET Row, IsFiniteSet(rows), NEW n \in Nat
    PROVE  Top(Top(rows, n + 1), n) = Top(rows, n)
<1> DEFINE more == Top(rows, n + 1)
<1>1. more \in SUBSET rows /\ IsFiniteSet(more)
  BY TopRows
<1>2. \A r \in more : Before(more, r) = Before(rows, r)
  <2> TAKE r \in more
  <2>1. \A s \in rows : Precedes(s, r) => s \in more
    BY TopIsInitial
  <2> HIDE DEF more
  <2> QED
    BY <1>1, <2>1 DEF Before
<1>3. \A r \in rows : r \in more <=> Cardinality(Before(rows, r)) < n + 1
  BY TopRows
<1>4. \A r \in rows : r \in Top(rows, n) <=> Cardinality(Before(rows, r)) < n
  BY TopRows
<1>5. Top(rows, n) \in SUBSET rows
  BY TopRows
<1> HIDE DEF more
<1>6. Top(more, n) \in SUBSET more /\ \A r \in more : r \in Top(more, n) <=> Cardinality(Before(more, r)) < n
  BY <1>1, TopRows
<1>7. \A r \in rows : Cardinality(Before(rows, r)) \in Nat
  BY BeforeCounts
<1>8. \A r \in rows : r \in Top(more, n) <=> r \in Top(rows, n)
  BY <1>1, <1>2, <1>3, <1>4, <1>6, <1>7
<1>9. Top(more, n) = Top(rows, n)
  BY <1>1, <1>5, <1>6, <1>8
<1> QED
  BY <1>9 DEF more

\* A page is an initial piece of what the query selects, and its cursor tells where
\* the piece ends and that it is not all.
LEMMA PageIsInitial ==
    ASSUME NEW f, NEW after, NEW limit \in Limit,
           Selected(f, after) \in SUBSET Row, IsFiniteSet(Selected(f, after))
    PROVE  Page(PageOf(f, after, limit), Selected(f, after))
<1> DEFINE rows == Selected(f, after)
           more == Top(rows, limit + 1)
           items == Top(rows, limit)
           l == Last(items)
           page == PageOf(f, after, limit)
<1>0. limit \in Nat /\ limit > 0 /\ limit + 1 \in Nat
  BY LimitType
<1>1. /\ page.items = Top(more, limit)
      /\ page.next = IF Cardinality(more) > limit THEN Last(Top(more, limit)) ELSE None
  BY DEF PageOf
<1>a. rows \in SUBSET Row /\ IsFiniteSet(rows)
  OBVIOUS
<1>b. SUFFICES Page(page, rows)
  OBVIOUS
<1> HIDE DEF rows
<1>2. Top(more, limit) = items
  BY <1>0, <1>a, TopOfTop
<1>3. /\ items \in SUBSET rows /\ IsFiniteSet(items)
      /\ \A r \in rows : r \in items <=> Cardinality(Before(rows, r)) < limit
  BY <1>a, TopRows
<1>4. /\ more \in SUBSET rows /\ IsFiniteSet(more) /\ Cardinality(more) \in Nat
      /\ \A r \in rows : r \in more <=> Cardinality(Before(rows, r)) < limit + 1
  BY <1>a, TopRows
<1>5. ASSUME rows # {} PROVE items # {}
  <2>1. PICK r \in rows : Before(rows, r) = {}
    BY <1>a, <1>5, FirstExists
  <2>2. Cardinality(Before(rows, r)) = 0
    BY <2>1, FS_EmptySet
  <2> HIDE DEF items
  <2> QED
    BY <1>0, <1>3, <2>1, <2>2
<1>6. ASSUME ~(Cardinality(more) > limit) PROVE items = rows
  <2>1. Cardinality(more) < limit + 1
    BY <1>0, <1>4, <1>6
  <2>2. more = rows
    BY <1>0, <1>a, <2>1, TopIsAll
  <2>3. ASSUME items # rows PROVE FALSE
    <3>1. \A r \in rows : Cardinality(Before(rows, r)) \in Nat
      BY <1>a, BeforeCounts
    <3>2. PICK r \in rows : r \notin items
      BY <1>3, <2>3
    <3>3. Cardinality(Before(rows, r)) = limit
      <4> HIDE DEF items, more
      <4> QED
        BY <1>0, <1>3, <1>4, <2>2, <3>1, <3>2
    <3>4. r \notin Before(rows, r)
      BY <1>a, <3>2, ListingOrder DEF Before
    <3>5. Cardinality(Before(rows, r) \cup {r}) = limit + 1
      BY <1>a, <3>3, <3>4, BeforeCounts, FS_AddElement
    <3>6. Before(rows, r) \cup {r} \in SUBSET rows
      BY <3>2 DEF Before
    <3>7. Cardinality(Before(rows, r) \cup {r}) <= Cardinality(rows)
      BY <1>a, <3>6, FS_Subset
    <3>8. Cardinality(rows) = Cardinality(more)
      BY <2>2
    <3> HIDE DEF items, more
    <3> QED
      BY <1>0, <1>4, <1>6, <3>5, <3>7, <3>8
  <2> QED
    BY <2>3
<1>7. ASSUME Cardinality(more) > limit
      PROVE  /\ l \in items
             /\ \A r \in rows : r \in items <=> r = l \/ Precedes(r, l)
             /\ \E s \in rows : Precedes(l, s)
  <2>1. Cardinality(items) <= limit /\ Cardinality(items) \in Nat
    BY <1>0, <1>a, TopIsSmall, TopRows
  <2>2. PICK s \in more : s \notin items
    <3>1. ASSUME more \in SUBSET items PROVE FALSE
      <4>1. Cardinality(more) <= Cardinality(items)
        BY <1>3, <3>1, FS_Subset
      <4> HIDE DEF items, more
      <4> QED
        BY <1>0, <1>4, <1>7, <2>1, <4>1
    <3> QED
      BY <3>1
  <2>3. items # {}
    BY <1>4, <1>5, <2>2
  <2>4. l \in items /\ \A r \in items : r = l \/ Precedes(r, l)
    BY <1>3, <1>a, <2>3, LastExists
  <2>5. \A r \in rows : Precedes(r, l) => r \in items
    BY <1>0, <1>a, <2>4, TopIsInitial
  <2> HIDE DEF items, more, l
  <2>6. s \in rows /\ s # l /\ ~Precedes(s, l)
    BY <1>4, <2>2, <2>4, <2>5
  <2>7. Precedes(l, s)
    BY <1>3, <1>a, <2>4, <2>6, ListingOrder
  <2> QED
    BY <2>4, <2>5, <2>6, <2>7
<1>8. page.items = items /\ page.next = IF Cardinality(more) > limit THEN l ELSE None
  BY <1>1, <1>2
<1>9. None \notin rows
  BY <1>a, RowType
<1> HIDE DEF items, more, l, page
<1>10. CASE Cardinality(more) > limit
  <2>1. page.next = l /\ l \in rows
    BY <1>3, <1>7, <1>8, <1>10
  <2> QED
    BY <1>3, <1>5, <1>7, <1>8, <1>9, <1>10, <2>1 DEF Page
<1>11. CASE ~(Cardinality(more) > limit)
  BY <1>3, <1>5, <1>6, <1>8, <1>11 DEF Page
<1> QED
  BY <1>10, <1>11

(***************************************************************************)
(* The walk.                                                               *)
(***************************************************************************)

Shown == [items : SUBSET Row, next : Row \cup {None}, saw : SUBSET Row]

\* The log is finite and append-only: what a request saw is still there.
SawWhatIsThere == IsFiniteSet(table) /\ \A i \in DOMAIN pages : pages[i].saw \in SUBSET table

\* Where the client is: at the end of its last page, every earlier one having had a cursor.
PositionIsLast ==
    /\ cursor = IF pages = <<>> THEN None ELSE pages[Len(pages)].next
    /\ done <=> pages # <<>> /\ cursor = None
    /\ filter = None => pages = <<>>

\* No row shown so far comes after the cursor, and there is one to come.
CursorDivides ==
    cursor # None =>
        /\ \A i \in DOMAIN pages : \A r \in pages[i].items : r = cursor \/ Precedes(r, cursor)
        /\ Selected(filter, cursor) # {}

WInv ==
    /\ TypeOK
    /\ SawWhatIsThere
    /\ PositionIsLast
    /\ CursorDivides
    /\ NothingIsRepeated
    /\ NothingIsSkipped
    /\ CursorLeadsSomewhere

LEMMA InitWalk == Init => WInv
<1> SUFFICES ASSUME Init PROVE WInv
  OBVIOUS
<1>1. pages = <<>> /\ DOMAIN pages = {} /\ pages \in Seq(Shown)
  BY DEF Init
<1>2. IsFiniteSet(table)
  BY FS_EmptySet DEF Init
<1> QED
  BY <1>1, <1>2 DEF Init, WInv, TypeOK, Shown, SawWhatIsThere, PositionIsLast, CursorDivides,
                    NothingIsRepeated, NothingIsSkipped, CursorLeadsSomewhere

LEMMA RecordWalk == WInv /\ (\E r \in Row : Record(r)) => WInv'
<1> SUFFICES ASSUME WInv, NEW row \in Row, Record(row) PROVE WInv'
  OBVIOUS
<1>1. /\ table' = table \cup {row} /\ filter' = filter /\ cursor' = cursor
      /\ pages' = pages /\ done' = done
  BY DEF Record
<1>2. TypeOK'
  BY <1>1 DEF WInv, TypeOK
<1>3. SawWhatIsThere'
  <2>1. IsFiniteSet(table \cup {row})
    BY FS_AddElement DEF WInv, SawWhatIsThere
  <2> QED
    BY <1>1, <2>1 DEF WInv, SawWhatIsThere
<1>4. PositionIsLast'
  BY <1>1 DEF WInv, PositionIsLast
<1>5. CursorDivides'
  BY <1>1 DEF WInv, CursorDivides, Selected
<1>6. NothingIsRepeated' /\ CursorLeadsSomewhere'
  BY <1>1 DEF WInv, NothingIsRepeated, CursorLeadsSomewhere
<1>7. NothingIsSkipped'
  BY <1>1 DEF WInv, NothingIsSkipped, Ahead, Passed, Walked
<1> QED
  BY <1>2, <1>3, <1>4, <1>5, <1>6, <1>7 DEF WInv

LEMMA StartWalk == WInv /\ (\E f \in Filter : Start(f)) => WInv'
<1> SUFFICES ASSUME WInv, NEW f \in Filter, Start(f) PROVE WInv'
  OBVIOUS
<1>1. /\ table' = table /\ filter' = f /\ cursor' = cursor
      /\ pages' = pages /\ done' = done
  BY DEF Start
<1>2. pages = <<>> /\ DOMAIN pages = {} /\ cursor = None
  BY DEF Start, WInv, PositionIsLast
<1> QED
  BY <1>1, <1>2 DEF WInv, TypeOK, SawWhatIsThere, PositionIsLast, CursorDivides,
                    NothingIsRepeated, NothingIsSkipped, CursorLeadsSomewhere

\* A page that follows the cursor: it lists what lies between the cursor and the next.
LEMMA FetchWalk == WInv /\ (\E limit \in Limit : Fetch(limit)) => WInv'
<1> SUFFICES ASSUME WInv, NEW limit \in Limit, Fetch(limit) PROVE WInv'
  OBVIOUS
<1> DEFINE page == PageOf(filter, cursor, limit)
           shown == [items |-> page.items, next |-> page.next, saw |-> table]
           rows == Selected(filter, cursor)
           n == Len(pages)
<1>1. /\ table' = table /\ filter' = filter /\ cursor' = page.next
      /\ pages' = Append(pages, shown) /\ done' = (page.next = None)
      /\ filter # None /\ ~done
  BY DEF Fetch
<1>2. rows \in SUBSET table /\ table \in SUBSET Row /\ IsFiniteSet(table)
  BY DEF WInv, TypeOK, SawWhatIsThere, Selected
<1>3. rows \in SUBSET Row /\ IsFiniteSet(rows)
  BY <1>2, FS_Subset
<1>4. Page(page, rows)
  BY <1>3, PageIsInitial
<1>5. pages \in Seq(Shown) /\ n \in Nat /\ DOMAIN pages = 1..n
  BY DEF WInv, TypeOK, Shown
<1>6. \A r : r \in rows <=> r \in table /\ Matches(r, filter) /\ (cursor = None \/ Precedes(cursor, r))
  BY DEF Selected
<1>7. /\ page.items \in SUBSET Row /\ page.next \in Row \cup {None}
      /\ page.items \in SUBSET rows
  BY <1>3, <1>4 DEF Page
<1> HIDE DEF page, rows
<1>8. /\ shown \in Shown /\ shown.items = page.items
      /\ shown.next = page.next /\ shown.saw = table
  BY <1>2, <1>7 DEF Shown
<1> HIDE DEF shown, n
<1>9. /\ pages' \in Seq(Shown) /\ DOMAIN pages' = 1..(n + 1) /\ Len(pages') = n + 1
      /\ \A i \in 1..n : pages'[i] = pages[i]
      /\ pages'[n + 1] = shown /\ pages' # <<>>
  BY <1>1, <1>5, <1>8, AppendProperties DEF n
<1>10. n = 0 <=> cursor = None
  <2>1. n = 0 <=> pages = <<>>
    BY <1>5, EmptySeq DEF n
  <2> QED
    BY <1>1, <2>1 DEF WInv, PositionIsLast
<1>11. n # 0 => cursor = pages[n].next
  BY <1>1, <1>10 DEF WInv, PositionIsLast, n
<1>12. TypeOK'
  BY <1>1, <1>7, <1>9 DEF WInv, TypeOK, Shown
<1>13. SawWhatIsThere'
  BY <1>1, <1>2, <1>5, <1>8, <1>9 DEF WInv, SawWhatIsThere
<1>14. PositionIsLast'
  BY <1>1, <1>8, <1>9 DEF PositionIsLast
<1>15. \A i \in 1..n : \A r \in pages[i].items : r \in Row
  <2>1. \A i \in 1..n : pages[i] \in Shown
    BY <1>5 DEF n
  <2> QED
    BY <2>1 DEF Shown
<1>16. \A i \in 1..n : \A r \in pages[i].items, s \in rows : Precedes(r, s)
  <2> SUFFICES ASSUME NEW i \in 1..n, NEW r \in pages[i].items, NEW s \in rows
               PROVE  Precedes(r, s)
    OBVIOUS
  <2>1. cursor # None /\ cursor \in Row
    BY <1>5, <1>10 DEF WInv, TypeOK
  <2>2. Precedes(cursor, s) /\ s \in Row /\ r \in Row
    BY <1>3, <1>6, <1>15, <2>1
  <2>3. r = cursor \/ Precedes(r, cursor)
    BY <1>5, <2>1 DEF WInv, CursorDivides
  <2> QED
    BY <2>1, <2>2, <2>3, ListingOrder
<1>17. CursorDivides'
  <2> SUFFICES ASSUME page.next # None
               PROVE  /\ \A i \in 1..(n + 1) : \A r \in pages'[i].items :
                              r = page.next \/ Precedes(r, page.next)
                      /\ \E s \in table : Matches(s, filter) /\ Precedes(page.next, s)
    BY <1>1, <1>9 DEF CursorDivides, Selected
  <2>1. /\ page.next \in page.items /\ page.next \in rows
        /\ \A r \in page.items : r = page.next \/ Precedes(r, page.next)
        /\ \E s \in rows : Precedes(page.next, s)
    BY <1>4, <1>7 DEF Page
  <2>2. \A i \in 1..n : \A r \in pages'[i].items : Precedes(r, page.next)
    BY <1>9, <1>16, <2>1
  <2>3. \A r \in pages'[n + 1].items : r = page.next \/ Precedes(r, page.next)
    BY <1>8, <1>9, <2>1
  <2> QED
    BY <1>5, <1>6, <2>1, <2>2, <2>3
<1>18. NothingIsRepeated'
  <2> SUFFICES ASSUME NEW i \in 1..(n + 1), NEW j \in 1..(n + 1), i < j,
                      NEW r \in pages'[i].items, NEW s \in pages'[j].items
               PROVE  Precedes(r, s)
    BY <1>9 DEF NothingIsRepeated
  <2>1. i \in 1..n
    BY <1>5
  <2>2. CASE j = n + 1
    BY <1>7, <1>8, <1>9, <1>16, <2>1, <2>2
  <2>3. CASE j # n + 1
    <3>1. j \in 1..n
      BY <1>5, <2>3
    <3> QED
      BY <1>5, <1>9, <2>1, <3>1 DEF WInv, NothingIsRepeated
  <2> QED
    BY <2>2, <2>3
<1>19. NothingIsSkipped'
  <2>1. \A r \in rows : (page.next = None \/ ~Precedes(page.next, r)) => r \in page.items
    BY <1>3, <1>4, <1>7, ListingOrder DEF Page
  <2>2. \A r \in page.items : r \in Walked'
    BY <1>5, <1>7, <1>8, <1>9 DEF Walked
  <2>3. \A r : r \in Walked => r \in Walked'
    BY <1>5, <1>9 DEF Walked
  <2> SUFFICES ASSUME NEW i \in 1..(n + 1), NEW r \in pages'[i].saw,
                      Matches(r, filter), Ahead(r, i)', Passed(r)'
               PROVE  r \in Walked'
    BY <1>1, <1>9 DEF NothingIsSkipped
  <2>4. r \in rows => r \in Walked'
    BY <1>1, <2>1, <2>2 DEF Passed
  <2>5. CASE i = n + 1
    <3>1. r \in table
      BY <1>8, <1>9, <2>5
    <3>2. n # 0 => Precedes(cursor, r)
      BY <1>5, <1>9, <1>11, <2>5 DEF Ahead
    <3> QED
      BY <1>6, <1>10, <2>4, <3>1, <3>2
  <2>6. CASE i # n + 1
    <3>1. i \in 1..n
      BY <1>5, <2>6
    <3>2. r \in pages[i].saw /\ r \in table
      BY <1>5, <1>9, <3>1 DEF WInv, SawWhatIsThere
    <3>3. Ahead(r, i)
      BY <1>5, <1>9, <3>1 DEF Ahead
    <3>4. CASE Passed(r)
      BY <1>5, <2>3, <3>1, <3>2, <3>3, <3>4 DEF WInv, NothingIsSkipped
    <3>5. CASE ~Passed(r)
      BY <1>1, <1>6, <2>4, <3>2, <3>5 DEF Passed
    <3> QED
      BY <3>4, <3>5
  <2> QED
    BY <2>5, <2>6
<1>20. CursorLeadsSomewhere'
  <2> SUFFICES ASSUME NEW i \in 1..(n + 1), i > 1 PROVE pages'[i].items # {}
    BY <1>9 DEF CursorLeadsSomewhere
  <2>1. CASE i = n + 1
    <3>1. cursor # None
      BY <1>5, <1>10, <2>1
    <3>2. rows # {}
      BY <3>1 DEF WInv, CursorDivides, rows
    <3> QED
      BY <1>4, <1>8, <1>9, <2>1, <3>2 DEF Page
  <2>2. CASE i # n + 1
    <3>1. i \in 1..n
      BY <1>5, <2>2
    <3> QED
      BY <1>5, <1>9, <3>1 DEF WInv, CursorLeadsSomewhere
  <2> QED
    BY <2>1, <2>2
<1> QED
  BY <1>12, <1>13, <1>14, <1>17, <1>18, <1>19, <1>20 DEF WInv

\* The invariant holds in every reachable state.
THEOREM Invariance == Spec => []WInv
<1>1. WInv /\ UNCHANGED vars => WInv'
  BY DEF vars, WInv, TypeOK, SawWhatIsThere, PositionIsLast, CursorDivides, Selected,
         NothingIsRepeated, NothingIsSkipped, CursorLeadsSomewhere, Ahead, Passed, Walked
<1>2. WInv /\ [Next]_vars => WInv'
  BY <1>1, RecordWalk, StartWalk, FetchWalk DEF Next
<1> QED
  BY InitWalk, <1>2, PTL DEF Spec

\* Every variable of the listing keeps its type: cursors are rows, down to the tiebreaker.
THEOREM TypeCorrect == Spec => []TypeOK
<1>1. WInv => TypeOK
  BY DEF WInv
<1> QED
  BY Invariance, <1>1, PTL

\* However many rows are committed meanwhile, pages of any sizes list strictly newest first.
THEOREM PagesAreDisjoint == Spec => []NothingIsRepeated
<1>1. WInv => NothingIsRepeated
  BY DEF WInv
<1> QED
  BY Invariance, <1>1, PTL

\* No matching row that was there in time is missing from a walk that has passed its place.
THEOREM PagesAreComplete == Spec => []NothingIsSkipped
<1>1. WInv => NothingIsSkipped
  BY DEF WInv
<1> QED
  BY Invariance, <1>1, PTL

\* A cursor that was handed out leads to a page with a row on it.
THEOREM CursorsLeadSomewhere == Spec => []CursorLeadsSomewhere
<1>1. WInv => CursorLeadsSomewhere
  BY DEF WInv
<1> QED
  BY Invariance, <1>1, PTL

(***************************************************************************)
(* The promise of Walk, one step at a time.                                *)
(***************************************************************************)

\* What was shown comes before whatever the next page may show.
LEMMA ShownComeFirst ==
    ASSUME WInv, ~done
    PROVE  \A r \in Walked, s \in Selected(filter, cursor) : Precedes(r, s)
<1> SUFFICES ASSUME NEW r \in Walked, NEW s \in Selected(filter, cursor) PROVE Precedes(r, s)
  OBVIOUS
<1>1. PICK i \in DOMAIN pages : r \in pages[i].items
  BY DEF Walked
<1>2. pages # <<>>
  BY <1>1
<1>3. cursor # None /\ cursor \in Row
  BY <1>2 DEF WInv, PositionIsLast, TypeOK
<1>4. s \in Row /\ Precedes(cursor, s)
  BY <1>3 DEF Selected, WInv, TypeOK
<1>5. r \in Row /\ (r = cursor \/ Precedes(r, cursor))
  BY <1>1, <1>3 DEF WInv, CursorDivides, Walked
<1> QED
  BY <1>3, <1>4, <1>5, ListingOrder

\* A page is the next piece of what there is to see, or the rest of it.
LEMMA FetchKeepsPromise ==
    ASSUME WInv, NEW limit \in Limit, Fetch(limit)
    PROVE  Promised!Next
<1> DEFINE page == PageOf(filter, cursor, limit)
           entry == [items |-> page.items, next |-> page.next, saw |-> table]
           rows == Selected(filter, cursor)
           n == Len(pages)
<1>1. /\ table' = table /\ filter' = filter /\ cursor' = page.next
      /\ pages' = Append(pages, entry) /\ done' = (page.next = None)
      /\ filter # None /\ ~done /\ done = FALSE
  BY DEF Fetch, WInv, TypeOK
<1>2. rows \in SUBSET Row /\ IsFiniteSet(rows)
  BY FS_Subset DEF WInv, TypeOK, SawWhatIsThere, Selected
<1>3. Page(page, rows)
  BY <1>2, PageIsInitial
<1>4. Promised!Ahead = rows
  BY DEF Promised!Ahead, Selected
<1>5. \A r \in Walked, s \in rows : Precedes(r, s)
  BY <1>1, ShownComeFirst
<1> HIDE DEF page, rows
<1>6. page.items \in SUBSET rows /\ page.items \in SUBSET Row
  BY <1>2, <1>3 DEF Page
<1>7. page.next \in Row \cup {None}
  BY <1>2, <1>3 DEF Page
<1>8. /\ entry \in Shown /\ entry.items = page.items
      /\ pages \in Seq(Shown) /\ n \in Nat /\ DOMAIN pages = 1..n
  BY <1>6, <1>7 DEF Shown, WInv, TypeOK
<1> HIDE DEF entry, n
<1>9. /\ DOMAIN pages' = 1..(n + 1)
      /\ \A i \in 1..n : pages'[i] = pages[i]
      /\ pages'[n + 1] = entry
  BY <1>1, <1>8, AppendProperties DEF n
<1>10. Walked' = Walked \cup page.items
  <2>1. ASSUME NEW r \in Row PROVE r \in Walked' <=> r \in Walked \/ r \in page.items
    <3>1. r \in Walked' <=> \E i \in 1..(n + 1) : r \in pages'[i].items
      BY <1>9 DEF Walked
    <3>2. r \in Walked <=> \E i \in 1..n : r \in pages[i].items
      BY <1>8 DEF Walked
    <3>3. \A i : i \in 1..(n + 1) <=> i \in 1..n \/ i = n + 1
      BY <1>8
    <3> QED
      BY <1>8, <1>9, <3>1, <3>2, <3>3
  <2>2. Walked' \subseteq Row /\ Walked \subseteq Row
    BY DEF Walked
  <2> QED
    BY <1>6, <2>1, <2>2
<1>11. rows \cap Walked = {}
  BY <1>2, <1>5, ListingOrder
<1>12. CASE page.next = None
  <2>1. page.items = rows
    BY <1>3, <1>12 DEF Page
  <2>2. Promised!ShowRest
    BY <1>1, <1>4, <1>10, <1>11, <1>12, <2>1 DEF Promised!ShowRest
  <2> QED
    BY <2>2 DEF Promised!Next
<1>13. CASE page.next # None
  <2>1. /\ page.next \in page.items
        /\ \A r \in rows : r \in page.items <=> r = page.next \/ Precedes(r, page.next)
        /\ \E s \in rows : Precedes(page.next, s)
    BY <1>3, <1>13 DEF Page
  <2>2. page.items # rows
    BY <1>2, <1>6, <2>1, ListingOrder
  <2>3. Promised!ShowSome(page.items)
    BY <1>1, <1>4, <1>6, <1>10, <1>11, <1>13, <2>1, <2>2 DEF Promised!ShowSome
  <2> QED
    BY <1>6, <2>3 DEF Promised!Next
<1> QED
  BY <1>12, <1>13

LEMMA StepKeepsPromise == WInv /\ [Next]_vars => [Promised!Next]_Promised!vars
<1> SUFFICES ASSUME WInv, [Next]_vars PROVE [Promised!Next]_Promised!vars
  OBVIOUS
<1>1. ASSUME pages' = pages PROVE Walked' = Walked
  BY <1>1 DEF Walked
<1>2. ASSUME NEW r \in Row, Record(r) PROVE Promised!Next
  <2>1. Promised!Record(r)
    BY <1>1, <1>2 DEF Record, Promised!Record
  <2> QED
    BY <2>1 DEF Promised!Next
<1>3. ASSUME NEW f \in Filter, Start(f) PROVE Promised!Next
  <2>1. Promised!Ask(f)
    BY <1>1, <1>3 DEF Start, Promised!Ask
  <2> QED
    BY <2>1 DEF Promised!Next
<1>4. CASE UNCHANGED vars
  BY <1>1, <1>4 DEF vars, Promised!vars
<1> QED
  BY <1>2, <1>3, <1>4, FetchKeepsPromise DEF Next

\* Pages and cursors, for any log, filters, page sizes and concurrent writes, implement
\* the walk that clients are promised.
THEOREM WalksKeepPromise == Spec => RefinesWalk
<1>1. Init => Promised!Init
  BY DEF Init, Promised!Init, Walked
<1>2. WInv /\ [Next]_vars => [Promised!Next]_Promised!vars
  BY StepKeepsPromise
<1> QED
  BY <1>1, <1>2, Invariance, PTL DEF Spec, RefinesWalk, Promised!Spec

(***************************************************************************)
(* What the walk comes to.                                                 *)
(***************************************************************************)

\* What is listed was recorded at the time, and is what was asked for.
RowsAreMatches ==
    \A i \in DOMAIN pages : \A r \in pages[i].items :
        r \in pages[i].saw /\ Matches(r, filter)

\* Once the client is told that there is no more, each matching row that was recorded
\* when it began is on one page, and on one only.
FinishedWalk ==
    done => \A r \in pages[1].saw : Matches(r, filter) =>
                \E i \in DOMAIN pages : \A j \in DOMAIN pages : r \in pages[j].items <=> j = i

LEMMA StepMatches == WInv /\ RowsAreMatches /\ [Next]_vars => RowsAreMatches'
<1> SUFFICES ASSUME WInv, RowsAreMatches, [Next]_vars PROVE RowsAreMatches'
  OBVIOUS
<1>1. ASSUME UNCHANGED <<filter, pages>> PROVE RowsAreMatches'
  BY <1>1 DEF RowsAreMatches
<1>2. ASSUME NEW f \in Filter, Start(f) PROVE RowsAreMatches'
  BY <1>2 DEF Start, WInv, PositionIsLast, RowsAreMatches
<1>3. ASSUME NEW limit \in Limit, Fetch(limit) PROVE RowsAreMatches'
  <2> DEFINE page == PageOf(filter, cursor, limit)
             entry == [items |-> page.items, next |-> page.next, saw |-> table]
             rows == Selected(filter, cursor)
  <2>1. pages' = Append(pages, entry) /\ filter' = filter
    BY <1>3 DEF Fetch
  <2>2. rows \in SUBSET Row /\ IsFiniteSet(rows)
    BY FS_Subset DEF WInv, TypeOK, SawWhatIsThere, Selected
  <2>3. Page(page, rows)
    BY <2>2, PageIsInitial
  <2>4. \A r \in rows : r \in table /\ Matches(r, filter)
    BY DEF Selected
  <2> HIDE DEF page, rows
  <2>5. entry.items \in SUBSET rows /\ entry.saw = table /\ entry \in Shown
    BY <2>2, <2>3 DEF Page, Shown, WInv, TypeOK
  <2> HIDE DEF entry
  <2>6. pages \in Seq(Shown)
    BY DEF WInv, TypeOK, Shown
  <2>7. \A i \in DOMAIN pages' : pages'[i] = entry \/ (i \in DOMAIN pages /\ pages'[i] = pages[i])
    BY <2>1, <2>5, <2>6, AppendProperties
  <2> QED
    BY <2>1, <2>4, <2>5, <2>7 DEF RowsAreMatches
<1> QED
  BY <1>1, <1>2, <1>3 DEF Next, Record, vars

\* Pages show nothing but recorded rows that the client asked for.
THEOREM PagesAreSound == Spec => []RowsAreMatches
<1>1. Init => RowsAreMatches
  BY DEF Init, RowsAreMatches
<1> QED
  BY <1>1, StepMatches, Invariance, PTL DEF Spec

\* A finished walk has listed every matching row that it set out with exactly once, however
\* many others were recorded meanwhile and whatever sizes its pages had.
THEOREM FinishedWalksAreExact == Spec => []FinishedWalk
<1>1. WInv => FinishedWalk
  <2> SUFFICES ASSUME WInv, done, NEW r \in pages[1].saw, Matches(r, filter)
               PROVE  \E i \in DOMAIN pages : \A j \in DOMAIN pages :
                          r \in pages[j].items <=> j = i
    BY DEF FinishedWalk
  <2>1. pages # <<>> /\ pages \in Seq(Shown)
    BY DEF WInv, PositionIsLast, TypeOK, Shown
  <2>2. DOMAIN pages = 1..Len(pages) /\ Len(pages) \in Nat /\ 1 \in DOMAIN pages
    BY <2>1, EmptySeq
  <2>3. r \in Walked
    BY <2>2 DEF WInv, NothingIsSkipped, Ahead, Passed
  <2>4. PICK i \in DOMAIN pages : r \in pages[i].items
    BY <2>3 DEF Walked
  <2>5. r \in Row
    BY <2>3 DEF Walked
  <2>6. ASSUME NEW j \in DOMAIN pages, r \in pages[j].items PROVE j = i
    <3>1. ~(i < j) /\ ~(j < i)
      BY <2>4, <2>5, <2>6, ListingOrder DEF WInv, NothingIsRepeated
    <3> QED
      BY <2>2, <3>1
  <2> QED
    BY <2>4, <2>6
<1> QED
  BY <1>1, Invariance, PTL

(***************************************************************************)
(* Why walks end.                                                          *)
(***************************************************************************)

LEMMA FetchAdvances ==
    ASSUME WInv, NEW limit \in Limit, Fetch(limit), ~done'
    PROVE  ToCome' \subseteq ToCome /\ ToCome' # ToCome
<1> DEFINE page == PageOf(filter, cursor, limit)
           rows == Selected(filter, cursor)
<1>1. cursor' = page.next /\ page.next # None
  BY DEF Fetch
<1>2. rows \in SUBSET Row /\ IsFiniteSet(rows)
  BY FS_Subset DEF WInv, TypeOK, SawWhatIsThere, Selected
<1>3. Page(page, rows)
  BY <1>2, PageIsInitial
<1>4. page.next \in rows
  BY <1>1, <1>3 DEF Page
<1>5. page.next \in Row /\ (cursor = None \/ Precedes(cursor, page.next))
  BY <1>2, <1>4 DEF Selected
<1> HIDE DEF page, rows
<1>6. cursor \in Row \cup {None}
  BY DEF WInv, TypeOK
<1>7. page.next \in ToCome /\ page.next \notin ToCome'
  BY <1>1, <1>5, ListingOrder DEF ToCome
<1>8. ToCome' \subseteq ToCome
  BY <1>1, <1>5, <1>6, ListingOrder DEF ToCome
<1> QED
  BY <1>7, <1>8

\* A client that follows its cursors gets on with every page, over any log, with any
\* limits and any commits in between.
THEOREM WalksAdvance == Spec => WalkAdvances
<1>1. WInv /\ [Next]_vars =>
          [\/ done'
           \/ /\ ToCome' \subseteq ToCome
              /\ pages' # pages => ToCome' # ToCome]_vars
  <2> SUFFICES ASSUME WInv, [Next]_vars, ~done'
               PROVE  ToCome' \subseteq ToCome /\ (pages' # pages => ToCome' # ToCome)
    OBVIOUS
  <2>1. CASE \E limit \in Limit : Fetch(limit)
    BY <2>1, FetchAdvances
  <2>2. CASE cursor' = cursor /\ pages' = pages
    BY <2>2 DEF ToCome
  <2> QED
    BY <2>1, <2>2 DEF Next, Record, Start, vars
<1> QED
  BY <1>1, Invariance, PTL DEF Spec, WalkAdvances
==============================================================================
