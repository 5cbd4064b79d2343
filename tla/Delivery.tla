------------------------------ MODULE Delivery ------------------------------
(***************************************************************************)
(* What an idempotency key buys a producer that sends its request again    *)
(* until it is answered for good: the event is recorded once at most, the  *)
(* producer is told so only after that, and in the end it knows where it   *)
(* stands.  A producer that leaves the date to the server is always told   *)
(* of its event.  One whose date a replica's clock may not have reached    *)
(* may be refused instead, and a refusal is weaker than it looks: another  *)
(* of its requests may have recorded the event, or may still do so.        *)
(***************************************************************************)
EXTENDS Naturals

CONSTANTS
    Producer,
    Ahead       \* the producers whose date may be ahead of a clock

VARIABLES
    recorded,   \* how many events each producer's requests have left in the log
    told,       \* the producers that were told of theirs
    refused     \* the producers that were refused

vars == <<recorded, told, refused>>

Init ==
    /\ recorded = [p \in Producer |-> 0]
    /\ told = {}
    /\ refused = {}

Settled(p) == p \in told \cup refused

Record(p) ==
    /\ recorded[p] = 0
    /\ recorded' = [recorded EXCEPT ![p] = 1]
    /\ UNCHANGED <<told, refused>>

Tell(p) ==
    /\ recorded[p] = 1
    /\ ~Settled(p)
    /\ told' = told \cup {p}
    /\ UNCHANGED <<recorded, refused>>

Refuse(p) ==
    /\ p \in Ahead
    /\ ~Settled(p)
    /\ refused' = refused \cup {p}
    /\ UNCHANGED <<recorded, told>>

Next == \E p \in Producer : Record(p) \/ Tell(p) \/ Refuse(p)

Spec == Init /\ [][Next]_vars

Settles(p) == ~Settled(p) /\ (Record(p) \/ Tell(p) \/ Refuse(p))

FairSpec == Spec /\ \A p \in Producer : WF_vars(Settles(p))
=============================================================================
