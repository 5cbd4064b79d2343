------------------------------ MODULE EventLog ------------------------------
(***************************************************************************)
(* What the service promises of POST /v1/events, whatever happens to the   *)
(* tasks, transactions and connections underneath: an append-only log with *)
(* at most one event per idempotency key, and answers a producer can rely  *)
(* on.  201 is said of one's own event once it is in the log, 200 of the   *)
(* event of the same key that is already there, 422 of an event that never *)
(* enters the log.  409 says the same: only an event that is dated after   *)
(* its recording is told it, never one that lost a race for its key.       *)
(* 500 promises nothing: the event may be in the log, may still enter it,  *)
(* or may never.                                                           *)
(***************************************************************************)
EXTENDS Events

VARIABLES
    offered,   \* the event each attempt asks to record, None before it does
    log,       \* the recorded events
    answer     \* what each attempt was told, None until it is told anything

vars == <<offered, log, answer>>

Init ==
    /\ offered = [a \in Attempt |-> None]
    /\ log = {}
    /\ answer = [a \in Attempt |-> None]

\* A well-formed request arrives and is given its identity.
Offer(a, e) ==
    /\ offered[a] = None
    /\ answer[a] = None
    /\ e.id = a
    /\ offered' = [offered EXCEPT ![a] = e]
    /\ UNCHANGED <<log, answer>>

\* The event becomes durable: before the answer, or after a 500.
Append(a) ==
    /\ offered[a] # None
    /\ answer[a] \in {None, Failed}
    /\ RecordedAfterOccurred(offered[a])
    /\ \A e \in log : e.id # a /\ ~SameKey(e, offered[a])
    /\ log' = log \cup {offered[a]}
    /\ UNCHANGED <<offered, answer>>

Tell(a, reply) ==
    /\ answer[a] = None
    /\ answer' = [answer EXCEPT ![a] = reply]
    /\ UNCHANGED <<offered, log>>

AnswerCreated(a) == offered[a] # None /\ offered[a] \in log /\ Tell(a, Created(a))

AnswerReplayed(a) ==
    /\ offered[a] # None
    /\ offered[a] \notin log
    /\ \E e \in log : SameKey(e, offered[a]) /\ Tell(a, Replayed(e.id))

\* Only a malformed request, or one whose event is dated after its recording.
AnswerInvalid(a) ==
    /\ offered[a] # None => ~RecordedAfterOccurred(offered[a])
    /\ Tell(a, Invalid)

\* Only an event dated after its recording.
AnswerConflict(a) ==
    /\ offered[a] # None
    /\ ~RecordedAfterOccurred(offered[a])
    /\ Tell(a, Conflict)

AnswerFailed(a) == Tell(a, Failed)

Next ==
    \E a \in Attempt :
        \/ \E e \in Event : Offer(a, e)
        \/ Append(a)
        \/ AnswerCreated(a)
        \/ AnswerReplayed(a)
        \/ AnswerInvalid(a)
        \/ AnswerConflict(a)
        \/ AnswerFailed(a)

Spec == Init /\ [][Next]_vars
=============================================================================
