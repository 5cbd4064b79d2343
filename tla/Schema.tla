------------------------------- MODULE Schema -------------------------------
(***************************************************************************)
(* What those who serve from a database may rely on while it is migrated,  *)
(* whatever happens to runners, requests and connections: the schema is    *)
(* there or it is not, a runner that reports success has put it there,     *)
(* found it or taken it away, and a row, of which there is one for a key,  *)
(* stays until the schema is taken away.                                   *)
(***************************************************************************)
CONSTANTS Runner, Direction, Request

VARIABLES
    installed, \* whether the schema is there, all of it
    removed,   \* whether it was ever taken away
    reported,  \* the runners that reported success
    rows       \* the recorded rows of the one key

vars == <<installed, removed, reported, rows>>

Init ==
    /\ installed = FALSE
    /\ removed = FALSE
    /\ reported = {}
    /\ rows = {}

\* A runner that did its work may not get to report it.
Finish(m, direction) ==
    /\ m \notin reported
    /\ Direction[m] = direction
    /\ reported' \in {reported, reported \cup {m}}

\* The schema appears, under nobody's feet: it was not there.
Install(m) ==
    /\ Finish(m, "upgrade")
    /\ ~installed
    /\ installed' = TRUE
    /\ UNCHANGED <<removed, rows>>

\* There was nothing to do, and only a downgrade may have changed that since.
Confirm(m) ==
    /\ Finish(m, "upgrade")
    /\ installed \/ removed
    /\ UNCHANGED <<installed, removed, rows>>

\* The rows go with the table, and never without.
Remove(m) ==
    /\ Finish(m, "downgrade")
    /\ installed
    /\ installed' = FALSE
    /\ removed' = TRUE
    /\ rows' = {}

Record(r) ==
    /\ installed
    /\ rows = {}
    /\ rows' = {r}
    /\ UNCHANGED <<installed, removed, reported>>

Next ==
    \/ \E m \in Runner : Install(m) \/ Confirm(m) \/ Remove(m)
    \/ \E r \in Request : Record(r)

Spec == Init /\ [][Next]_vars
=============================================================================
