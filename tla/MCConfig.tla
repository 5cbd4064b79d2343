------------------------------ MODULE MCConfig ------------------------------
(***************************************************************************)
(* The line of .env.example, one origin, two with a comma between, a JSON  *)
(* array of one, and a JSON string of two and a last comma.                *)
(***************************************************************************)
EXTENDS Config, Sequences, TLC

CONSTANTS empty, one, two, array, quoted, a, b

MCDecoded ==
    (empty :> None) @@ (one :> None) @@ (two :> None) @@
    (array :> [kind |-> "array", items |-> <<a>>]) @@
    (quoted :> [kind |-> "string", items |-> <<a, b, Blank>>])
MCMeant == (empty :> {}) @@ (one :> {a}) @@ (two :> {a, b}) @@
          (array :> {a}) @@ (quoted :> {a, b})
=============================================================================
