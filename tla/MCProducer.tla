----------------------------- MODULE MCProducer -----------------------------
(***************************************************************************)
(* Two producers, each with a key of its own, and three attempts between   *)
(* them.  One leaves the date to the server and pads its key carelessly,   *)
(* the other dates its event a little ahead of what some clocks show.      *)
(***************************************************************************)
EXTENDS Producer, TLC

CONSTANTS p1, p2

MCRawKey == {"k ", "l"}
MCKey == {"k", "l"}
MCStrip == ("k " :> "k") @@ ("l" :> "l")
MCBodyOf ==
    (p1 :> [key |-> "k ", at |-> None, quotes |-> FALSE]) @@
    (p2 :> [key |-> "l", at |-> 1, quotes |-> FALSE])
MCBody == {MCBodyOf[p] : p \in {p1, p2}}
MCTime == {0, 1}
=============================================================================
