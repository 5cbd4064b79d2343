------------------------------ MODULE Rotation ------------------------------
(***************************************************************************)
(* One replica under its two probes: the process with the pool of module   *)
(* Pool in it, a load balancer that sends it requests for as long as its   *)
(* last readiness check said so, and an orchestrator that restarts it when *)
(* GET /healthz is not answered.  Load balancer and orchestrator are the   *)
(* deployment's; the endpoints say what to do with their answers.          *)
(***************************************************************************)
EXTENDS Pool

VARIABLES
    process,     \* what the process does
    inRotation   \* whether the load balancer sends it requests

deployment == <<process, inRotation>>
rvars == <<vars, deployment>>

\* "stopping" was told to: it serves what it has, and accepts nothing more.
\* "hung" has an event loop that runs nothing; "starting" is not up yet.
Process == {"starting", "serving", "stopping", "hung"}

RInit ==
    /\ Init
    /\ process = "starting"
    /\ inRotation = FALSE

\* The endpoint touches no dependency: it answers if the event loop does.
Healthz == process # "hung"

(***************************************************************************)
(* The process's life.                                                     *)
(***************************************************************************)

\* The lifespan builds a Database, which connects to nothing yet.
Start ==
    /\ process = "starting"
    /\ process' = "serving"
    /\ UNCHANGED <<vars, inRotation>>

Hang ==
    /\ process = "serving"
    /\ process' = "hung"
    /\ UNCHANGED <<vars, inRotation>>

\* The tasks and the pool are gone, whatever they were doing.
PoolIsGone ==
    /\ idle' = <<>>
    /\ total' = 0
    /\ pc' = [t \in Task |-> "idle"]
    /\ conn' = [t \in Task |-> "none"]
    /\ result' = [t \in Task |-> None]
    /\ delayed' = {}
    /\ excused' = {}
    /\ UNCHANGED db

Restart ==
    /\ process \in {"serving", "stopping", "hung"}
    /\ ~Healthz
    /\ PoolIsGone
    /\ process' = "starting"
    /\ inRotation' = FALSE

Terminate ==
    /\ process = "serving"
    /\ process' = "stopping"
    /\ inRotation' = FALSE
    /\ UNCHANGED vars

\* The server waits for the requests it has, and the end of the lifespan disposes
\* of the pool.
Dispose ==
    /\ process = "stopping"
    /\ \A t \in Task : pc[t] \in {"idle", "detached"}
    /\ PoolIsGone
    /\ process' = "starting"
    /\ UNCHANGED inRotation

(***************************************************************************)
(* Requests and checks, while the event loop runs.                         *)
(***************************************************************************)

Arrive(t) ==
    /\ process = "serving"
    /\ t \in Request => inRotation
    /\ Begin(t)
    /\ UNCHANGED deployment

Busy(t) == pc[t] \notin {"idle", "detached"}

\* Mutant of Judge: any answer to the check puts the replica back.
JudgeAnything(t) ==
    IF t \in Probe /\ Busy(t) /\ ~Busy(t)' /\ process = "serving"
    THEN inRotation' = TRUE
    ELSE UNCHANGED inRotation

\* 200 keeps the replica in rotation or takes it back; 503 takes it out.
Judge(t) ==
    IF t \in Probe /\ Busy(t) /\ ~Busy(t)' /\ process = "serving"
    THEN inRotation' = (result'[t] = "ok")
    ELSE UNCHANGED inRotation

\* The event loop runs the next part of t.
Run(t, A) ==
    /\ process \in {"serving", "stopping"}
    /\ A
    /\ Judge(t)
    /\ UNCHANGED process

Advance(t) == Run(t, Step(t))

Surroundings == Environment /\ UNCHANGED deployment

RNext ==
    \/ Start
    \/ Hang
    \/ Restart
    \/ Terminate
    \/ Dispose
    \/ Surroundings
    \/ \E t \in Task : Arrive(t) \/ Advance(t)

RSpec == RInit /\ [][RNext]_rvars

(***************************************************************************)
(* While the process runs, a task that waits is woken or gives up, a       *)
(* connection attempt ends, and a round trip is answered for as long as    *)
(* the database answers.  Nothing makes a statement of a slow database     *)
(* return except its timeout; nothing at all makes a round trip to a       *)
(* database that is down return, except for the readiness check's timeout, *)
(* for which time passes in every wait, be it the second or the tenth.     *)
(* The prober goes on asking, the orchestrator goes on starting what is    *)
(* not up, a shutdown ends when the requests have.  No fault need happen,  *)
(* nor end, and no request need come.                                      *)
(***************************************************************************)
RFairness ==
    /\ \A t \in Task :
           /\ WF_rvars(Run(t, Awake(t) \/ CheckoutTimesOut(t)))
           /\ WF_rvars(Run(t, Connect(t)))
           /\ WF_rvars(Run(t, Answered(t)))
           /\ WF_rvars(Run(t, EndsInTime(t)))
           /\ SF_rvars(Run(t, Delay(t)))
           /\ WF_rvars(Run(t, ProbeTimesOut(t)))
    /\ \A p \in Probe : WF_rvars(Arrive(p))
    /\ WF_rvars(Start)
    /\ WF_rvars(Restart)
    /\ WF_rvars(Dispose)

RFairSpec == RSpec /\ RFairness

(***************************************************************************)
(* Properties.                                                             *)
(***************************************************************************)

RTypeOK ==
    /\ TypeOK
    /\ process \in Process
    /\ inRotation \in BOOLEAN

\* A prober always gets its answer, be the database down for good or the pool
\* full of requests that hang on it.
EveryProbeIsAnswered == \A p \in Probe : Busy(p) ~> ~Busy(p)

\* A query that never ends does not keep its slot: unless the database is out of
\* reach again and again, every request comes to an end, those included that
\* queue behind others or were passed over when a slot became free.
EveryRequestEnds ==
    \A r \in Request : []<>(pc[r] = "idle") \/ []<>(db = "down")

\* An outage that lasts takes the replica out of rotation.
OutageEndsRotation == <>[](db = "down") => <>[]~inRotation

\* Once the database is back for good, so is the replica: the pool has healed,
\* whatever the outage cut short, and no one had to restart the process.
BackInRotation == <>[](db = "up" /\ process = "serving") => []<>inRotation
=============================================================================
