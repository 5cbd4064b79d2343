-------------------------------- MODULE Walk --------------------------------
(***************************************************************************)
(* What a client that walks the log is promised, whatever is recorded in   *)
(* the meantime and whatever page sizes it asks for: it is shown matching  *)
(* rows newest first, each once; rows at places it has yet to reach are    *)
(* shown to it when it gets there; it is told to go on only if there is    *)
(* something to see, and that it is done only if there is not.             *)
(*                                                                         *)
(* Nothing is said of how positions are kept, nor of how many rows at a    *)
(* time are shown.                                                         *)
(***************************************************************************)
CONSTANTS
    Row,
    Filter,
    None,
    Matches(_, _),   \* of a row and a filter
    Precedes(_, _)   \* the order of the listing, newest first

VARIABLES
    table,    \* the recorded rows
    filter,   \* what the client asked for, None before it did
    shown,    \* the rows it was shown
    place,    \* the last one of them, while it is to go on
    done      \* it was told that there is no more

vars == <<table, filter, shown, place, done>>

Init ==
    /\ table = {}
    /\ filter = None
    /\ shown = {}
    /\ place = None
    /\ done = FALSE

Record(r) ==
    /\ r \notin table
    /\ table' = table \cup {r}
    /\ UNCHANGED <<filter, shown, place, done>>

Ask(f) ==
    /\ filter = None
    /\ filter' = f
    /\ UNCHANGED <<table, shown, place, done>>

\* What there is to see from here on.
Ahead == {r \in table : Matches(r, filter) /\ (place = None \/ Precedes(place, r))}

\* The next rows, none of which was shown before, without a gap.
ShowSome(rows) ==
    /\ filter # None /\ ~done
    /\ rows \subseteq Ahead \ shown
    /\ rows # Ahead
    /\ \E last \in rows :
           /\ \A r \in Ahead : r \in rows <=> r = last \/ Precedes(r, last)
           /\ place' = last
    /\ shown' = shown \cup rows
    /\ UNCHANGED <<table, filter, done>>

ShowRest ==
    /\ filter # None /\ ~done
    /\ Ahead \cap shown = {}
    /\ shown' = shown \cup Ahead
    /\ place' = None
    /\ done' = TRUE
    /\ UNCHANGED <<table, filter>>

Next ==
    \/ \E r \in Row : Record(r)
    \/ \E f \in Filter : Ask(f)
    \/ \E rows \in SUBSET Row : ShowSome(rows)
    \/ ShowRest

Spec == Init /\ [][Next]_vars
=============================================================================
