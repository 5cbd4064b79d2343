------------------------------ MODULE Producer ------------------------------
(***************************************************************************)
(* Producers in front of POST /v1/events.  Each has one event to record    *)
(* and a key for it; it sends its request again whenever it was answered   *)
(* 500, was not answered, or lost patience.  A request it no longer waits  *)
(* for runs on, may arrive after its successor, and may commit whenever it *)
(* likes.  Requests are the attempts of Ingest; an attempt that is over    *)
(* and has left nothing behind is there for another request.               *)
(***************************************************************************)
EXTENDS Ingest, FiniteSets

CONSTANTS
    Producer,
    BodyOf,      \* the body each producer sends, every time
    MaxFaults    \* bound on how often something goes wrong on its own accord

\* Nothing is wrong with the requests as such, dated or not.
ASSUME BodyOfType == BodyOf \in [Producer -> {b \in Body : ~Malformed(b)}]
ASSUME MaxFaultsType == MaxFaults \in Nat

\* A key stands for one event, of one producer.
ASSUME KeysAreOwn ==
    /\ None \notin Producer
    /\ \A p \in Producer : CleanKey(BodyOf[p]) # NoKey
    /\ \A p, q \in Producer : CleanKey(BodyOf[p]) = CleanKey(BodyOf[q]) => p = q

VARIABLES
    sender,     \* the producer of each attempt, None if there is none
    awaiting,   \* the attempt each producer waits for
    heard,      \* what each producer takes for the answer
    faults      \* how often something went wrong

client == <<sender, awaiting, heard>>
pvars == <<vars, client, faults>>

PInit ==
    /\ Init
    /\ sender = [a \in Attempt |-> None]
    /\ awaiting = [p \in Producer |-> None]
    /\ heard = [p \in Producer |-> None]
    /\ faults = 0

(***************************************************************************)
(* The producers and the network.                                          *)
(***************************************************************************)

\* The first time, or again.
Send(p) ==
    /\ heard[p] = None
    /\ awaiting[p] = None
    /\ \E a \in Attempt :
           /\ sender[a] = None
           /\ sender' = [sender EXCEPT ![a] = p]
           /\ awaiting' = [awaiting EXCEPT ![p] = a]
    /\ UNCHANGED <<vars, heard, faults>>

\* A request reaches a replica, whether or not its producer still waits.
Deliver(a) ==
    /\ sender[a] # None
    /\ \E now \in Time : Accept(a, BodyOf[sender[a]], now)
    /\ UNCHANGED <<client, faults>>

Over(a) == pc[a] \in {"answered", "dead"}

\* An answer is final unless it is a 500; a closed connection is none at all.
Hear(p) ==
    LET a == awaiting[p]
    IN  /\ a # None
        /\ Over(a)
        /\ awaiting' = [awaiting EXCEPT ![p] = None]
        /\ heard' = IF reply[a] \in {None, Failed} THEN heard
                    ELSE [heard EXCEPT ![p] = reply[a]]
        /\ UNCHANGED <<vars, sender, faults>>

GoesWrong ==
    /\ faults < MaxFaults
    /\ faults' = faults + 1

\* The producer's own timeout, or an answer that is lost on its way.
GiveUp(p) ==
    /\ awaiting[p] # None
    /\ awaiting' = [awaiting EXCEPT ![p] = None]
    /\ GoesWrong
    /\ UNCHANGED <<vars, sender, heard>>

\* Nobody will hear of attempt a any more, and nothing came of it.
Recycle(a) ==
    /\ Over(a)
    /\ tx[a] \in {"none", "aborted"}
    /\ \A p \in Producer : awaiting[p] # a
    /\ body' = [body EXCEPT ![a] = None]
    /\ event' = [event EXCEPT ![a] = None]
    /\ pc' = [pc EXCEPT ![a] = "unsent"]
    /\ result' = [result EXCEPT ![a] = None]
    /\ reply' = [reply EXCEPT ![a] = None]
    /\ tx' = [tx EXCEPT ![a] = "none"]
    /\ sender' = [sender EXCEPT ![a] = None]
    /\ UNCHANGED <<table, awaiting, heard, faults>>

(***************************************************************************)
(* The specification.                                                      *)
(***************************************************************************)

Serves(a) == Serve(a) /\ UNCHANGED <<client, faults>>
Applies(a) == ApplyCommit(a) /\ UNCHANGED <<client, faults>>

\* What follows from a fault that was counted already.
Follows(a) ==
    /\ WaitTimesOut(a) \/ LossIsNoticed(a) \/ Reap(a)
    /\ UNCHANGED <<client, faults>>

Fails(a) == Fault(a) /\ GoesWrong /\ UNCHANGED client

GoesOn(a) == Deliver(a) \/ Serves(a) \/ Applies(a) \/ Follows(a) \/ Recycle(a)

PNext ==
    \/ \E p \in Producer : Send(p) \/ Hear(p) \/ GiveUp(p)
    \/ \E a \in Attempt : GoesOn(a) \/ Fails(a)

PSpec == PInit /\ [][PNext]_pvars

(***************************************************************************)
(* That of Ingest, and the server finds out, some time, about clients that *)
(* are gone: each attempt goes on, its task and its transaction, for as    *)
(* long as anything is to be done about it.  The network delivers,         *)
(* producers go on for as long as they have no answer, and faults end:     *)
(* there are MaxFaults.                                                    *)
(***************************************************************************)
PFairness ==
    /\ \A p \in Producer : WF_pvars(Send(p) \/ Hear(p))
    /\ \A a \in Attempt : WF_pvars(GoesOn(a))

PFairSpec == PSpec /\ PFairness

(***************************************************************************)
(* Properties.                                                             *)
(***************************************************************************)

PTypeOK ==
    /\ TypeOK
    /\ sender \in [Attempt -> Producer \cup {None}]
    /\ awaiting \in [Producer -> Attempt \cup {None}]
    /\ heard \in [Producer -> Answer \cup {None}]
    /\ faults \in 0..MaxFaults

\* The date of p's event is one that some clock has yet to reach.
DatedAhead(p) == BodyOf[p].at \in Time /\ \E now \in Time : now < BodyOf[p].at

Acknowledges(answer) == answer # None /\ answer.code \in {200, 201}

\* A producer takes no one else's event for its own: whatever was lost, sent again
\* or answered late, an acknowledgement it hears names one of its own requests,
\* recorded; and it hears a refusal only of a date it chose ahead of some clock.
HeardIsOwn ==
    \A p \in Producer :
        heard[p] # None =>
            IF Acknowledges(heard[p])
            THEN \E row \in table : row.id = heard[p].event /\ sender[row.id] = p
            ELSE DatedAhead(p)

RecordedOf(p) == {row \in table : sender[row.id] = p}

Knowing == {p \in Producer : Acknowledges(heard[p])}
Refused == {p \in Producer : heard[p] # None /\ ~Acknowledges(heard[p])}

\* Sending again until it is answered gets an event recorded exactly once and its
\* producer told, for as long as faults end some time; a date ahead of a clock gets it
\* recorded once at most, and its producer told or refused.
Exactly == INSTANCE Delivery WITH
               Ahead    <- {p \in Producer : DatedAhead(p)},
               recorded <- [p \in Producer |-> Cardinality(RecordedOf(p))],
               told     <- Knowing,
               refused  <- Refused
RefinesDelivery == Exactly!FairSpec
=============================================================================
