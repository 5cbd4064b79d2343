------------------------------ MODULE MCIngest ------------------------------
(***************************************************************************)
(* Small instances of Ingest.  The raw keys are one key written with and   *)
(* without padding, and one that is nothing but padding; with the two      *)
(* instants a producer's clock can be ahead of, at, or behind the server's.*)
(***************************************************************************)
EXTENDS Ingest, TLC

CONSTANTS a1, a2, a3

MCRawKey == {"k", "k ", " "}
MCKey == {"k"}
MCStrip == [raw \in MCRawKey |-> IF raw = " " THEN Blank ELSE "k"]

\* Every body: one key, padding, no key; ahead, naive or absent timestamps.  The index's
\* name in a request's text matters only where the CHECK can fail.
TwoInstants == {0, 1}
EveryBody ==
    {b \in [key : MCRawKey \cup {NoKey}, at : TwoInstants \cup {None, Naive}, quotes : BOOLEAN] :
        b.quotes => b.at = 1}

\* For races among many: a request sent again, its key padded or not, by a
\* producer that dates it, perhaps quoting the index, or leaves that to the server.
Retries == {[key |-> "k", at |-> None, quotes |-> FALSE],
            [key |-> "k ", at |-> 1, quotes |-> TRUE]}

Symmetry == Permutations(Attempt)
=============================================================================
