----------------------------- MODULE MCListing -----------------------------
(***************************************************************************)
(* A small log: timestamps that collide, two severities, and filters that  *)
(* narrow by severity, by source and by two adjacent time windows; the     *)
(* domain refuses a window that is inverted and one that is naive.         *)
(***************************************************************************)
EXTENDS Listing

Entry(id, at, rank, source) ==
    [id |-> id, at |-> at, rank |-> rank, source |-> source, kind |-> "k"]

\* Five rows, three of which share an instant.
MCRow == {Entry(1, 2, 20, "api"), Entry(2, 2, 40, "api"), Entry(3, 2, 40, "job"),
          Entry(4, 1, 40, "api"), Entry(5, 3, 20, "api")}

NoFilter == [source |-> None, kind |-> None, min |-> None, after |-> None, before |-> None]

Window(after, before) == [NoFilter EXCEPT !.after = after, !.before = before]

MCFilter == {NoFilter, [NoFilter EXCEPT !.min = 40], [NoFilter EXCEPT !.source = "api"],
             Window(0, 2), Window(2, 4), Window(3, 1), Window(Naive, 2)}

MCLimit == {1, 2}
=============================================================================
