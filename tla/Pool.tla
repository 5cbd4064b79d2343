-------------------------------- MODULE Pool --------------------------------
(***************************************************************************)
(* The connection pool that Database's engine keeps, and the two kinds of  *)
(* task of one replica that share it: requests, each with a session, and   *)
(* readiness checks, each with two seconds.  A task checks a connection    *)
(* out, runs its statements, closes, and gives the connection back;        *)
(* tasks interleave at every round trip.  The database may become slow,    *)
(* become unreachable, and come back, with or without the connections.     *)
(*                                                                         *)
(* The pool itself is SQLAlchemy's.  Its idle connections are a queue of   *)
(* records, a record whose connection was thrown away included: that one   *)
(* is opened again by whoever checks it out.                               *)
(***************************************************************************)
EXTENDS Integers, Sequences, FiniteSets

CONSTANTS
    Request,          \* tasks that serve requests; each serves one after another
    Probe,            \* tasks that serve GET /readyz
    PoolSize,         \* db_pool_size
    MaxOverflow,      \* db_max_overflow
    StatementTimeout, \* whether db_statement_timeout_ms is not 0
    None

ASSUME TasksDiffer == Request \cap Probe = {}
ASSUME TasksAreFinite == IsFiniteSet(Request) /\ IsFiniteSet(Probe)
ASSUME PoolSizeType == PoolSize \in Nat \ {0}
ASSUME MaxOverflowType == MaxOverflow \in Nat
ASSUME StatementTimeoutType == StatementTimeout \in BOOLEAN
ASSUME NoneIsNoResult == None \notin {"ok", "failed"}

Task == Request \cup Probe
Limit == PoolSize + MaxOverflow

VARIABLES
    db,      \* whether the database answers
    idle,    \* the queue of idle records
    total,   \* how many connections the pool counts, idle and handed out
    pc,      \* where each task is
    conn,    \* the connection each task holds
    result,  \* how its last check or request went, or is about to go
    delayed, \* the readiness checks whose two seconds are over
    excused  \* the tasks that have met an outage or a full pool since they began (history)

vars == <<db, idle, total, pc, conn, result, delayed, excused>>

\* "up" answers within moments, if only with an error; "slow" answers, but takes
\* its time over statements; "down" may leave any round trip hanging.
Db == {"up", "slow", "down"}

\* A "stale" connection is dead, or an attempt at one lost, which its holder learns
\* by using it, or by its timeout; a record in state "none" has no connection.
Conn == {"live", "stale", "none"}

\* "creating" opens a connection for a new record, "connecting" for an old one;
\* "detached" has answered already, and only finishes its close.
Holding == {"creating", "connecting", "pinging", "using", "closing", "detached"}
Pc == Holding \cup {"idle", "waiting"}

Init ==
    /\ db = "up"
    /\ idle = <<>>
    /\ total = 0
    /\ pc = [t \in Task |-> "idle"]
    /\ conn = [t \in Task |-> "none"]
    /\ result = [t \in Task |-> None]
    /\ delayed = {}
    /\ excused = {}

(***************************************************************************)
(* What the steps are made of.                                             *)
(***************************************************************************)

Goto(t, label, c) ==
    /\ pc' = [pc EXCEPT ![t] = label]
    /\ conn' = [conn EXCEPT ![t] = c]

End(t, outcome) ==
    /\ Goto(t, "idle", "none")
    /\ result' = [result EXCEPT ![t] = outcome]
    /\ delayed' = delayed \ {t}

\* A task that went well has nothing left to excuse.
NoExcuse(t) == excused' = excused \ {t}

\* A record goes back to the queue or, when the queue is full, is dropped.
GiveBack(queue, c) ==
    IF Len(queue) < PoolSize
    THEN idle' = Append(queue, c) /\ UNCHANGED total
    ELSE idle' = queue /\ total' = total - 1

\* A disconnect invalidates the pool: no idle connection is trusted any more.
Invalidated == [i \in DOMAIN idle |-> "none"]

\* Mutant of Take: without pool_pre_ping.
TakeUnpinged(t) ==
    /\ idle # <<>>
    /\ Goto(t, IF Head(idle) = "none" THEN "connecting" ELSE "using", Head(idle))
    /\ idle' = Tail(idle)
    /\ UNCHANGED total

\* The oldest idle record is handed out; its connection, if any, is pinged first.
Take(t) ==
    /\ idle # <<>>
    /\ Goto(t, IF Head(idle) = "none" THEN "connecting" ELSE "pinging", Head(idle))
    /\ idle' = Tail(idle)
    /\ UNCHANGED total

Create(t) ==
    /\ total < Limit
    /\ Goto(t, "creating", "none")
    /\ total' = total + 1
    /\ UNCHANGED idle

(***************************************************************************)
(* The checkout: Session's first statement, or engine.connect().           *)
(***************************************************************************)

Begin(t) ==
    /\ pc[t] = "idle"
    /\ result' = [result EXCEPT ![t] = None]
    /\ \/ Take(t)
       \/ idle = <<>> /\ Create(t)
       \/ /\ idle = <<>> /\ total >= Limit
          /\ Goto(t, "waiting", "none")
          /\ UNCHANGED <<idle, total>>
    /\ excused' = IF db # "up" \/ pc'[t] = "waiting" THEN excused \cup {t}
                  ELSE excused \ {t}
    /\ UNCHANGED <<db, delayed>>

\* A record has come back for a task that waits.  The queue wakes waiters in
\* turn, but whoever runs first takes it: any of them may.
Awake(t) ==
    /\ pc[t] = "waiting"
    /\ Take(t)
    /\ UNCHANGED <<db, result, excused, delayed>>

\* Mutant of CheckoutTimesOut: a checkout waits for as long as it takes.
CheckoutWaits(t) ==
    /\ t \in Request
    /\ pc[t] = "waiting"
    /\ Take(t)
    /\ UNCHANGED <<db, result, excused, delayed>>

\* pool_timeout, thirty seconds: there may be room by now that no one was woken
\* for.  A readiness check never gets to wait for that long.
CheckoutTimesOut(t) ==
    /\ t \in Request
    /\ pc[t] = "waiting"
    /\ IF total < Limit
       THEN Create(t) /\ UNCHANGED <<result, delayed>>
       ELSE End(t, "failed") /\ UNCHANGED <<idle, total>>
    /\ UNCHANGED <<db, excused>>

ConnectSucceeds(t) ==
    /\ pc[t] \in {"creating", "connecting"}
    /\ conn[t] = "none" /\ db # "down"
    /\ Goto(t, "using", "live")
    /\ UNCHANGED <<db, idle, total, result, excused, delayed>>

\* Mutant of ConnectFails: an old record is dropped, and goes back as well.
ConnectFailsTwice(t) ==
    /\ pc[t] \in {"creating", "connecting"}
    /\ conn[t] = "stale" \/ db = "down"
    /\ End(t, "failed")
    /\ total' = total - 1
    /\ idle' = IF pc[t] = "creating" THEN idle ELSE Append(idle, "none")
    /\ UNCHANGED <<db, excused>>

\* Refused, or given up after db_connect_timeout_seconds.  A new record is not
\* counted any more, and no waiter is told; an old one goes back empty.
ConnectFails(t) ==
    /\ pc[t] \in {"creating", "connecting"}
    /\ conn[t] = "stale" \/ db = "down"
    /\ End(t, "failed")
    /\ IF pc[t] = "creating"
       THEN total' = total - 1 /\ UNCHANGED idle
       ELSE GiveBack(idle, "none")
    /\ UNCHANGED <<db, excused>>

PingSucceeds(t) ==
    /\ pc[t] = "pinging"
    /\ conn[t] = "live" /\ db # "down"
    /\ Goto(t, "using", "live")
    /\ UNCHANGED <<db, idle, total, result, excused, delayed>>

\* The pool is invalidated and the record opened again, once.
PingFails(t) ==
    /\ pc[t] = "pinging"
    /\ conn[t] = "stale"
    /\ Goto(t, "connecting", "none")
    /\ idle' = Invalidated
    /\ UNCHANGED <<db, total, result, excused, delayed>>

(***************************************************************************)
(* The statements and the end.                                             *)
(***************************************************************************)

\* What is left is a rollback: the unit of work's, or the connection's own.
StatementReturns(t) ==
    /\ pc[t] = "using"
    /\ conn[t] = "live" /\ db # "down"
    /\ Goto(t, "closing", "live")
    /\ result' = [result EXCEPT ![t] = "ok"]
    /\ UNCHANGED <<db, idle, total, excused, delayed>>

\* After a commit there is nothing to roll back, and no further round trip.
CommitReturns(t) ==
    /\ t \in Request
    /\ pc[t] = "using"
    /\ conn[t] = "live" /\ db # "down"
    /\ End(t, "ok")
    /\ GiveBack(idle, "live")
    /\ NoExcuse(t)
    /\ UNCHANGED db

\* The server cancels a statement that takes too long.
StatementTimesOut(t) ==
    /\ StatementTimeout
    /\ pc[t] = "using"
    /\ conn[t] = "live" /\ db = "slow"
    /\ Goto(t, "closing", "live")
    /\ result' = [result EXCEPT ![t] = "failed"]
    /\ UNCHANGED <<db, idle, total, excused, delayed>>

StatementFails(t) ==
    /\ pc[t] = "using"
    /\ conn[t] = "stale"
    /\ End(t, "failed")
    /\ GiveBack(Invalidated, "none")
    /\ UNCHANGED <<db, excused>>

CloseReturns(t) ==
    /\ pc[t] \in {"closing", "detached"}
    /\ conn[t] = "live" /\ db # "down"
    /\ End(t, result[t])
    /\ GiveBack(idle, "live")
    /\ IF result[t] = "ok" THEN NoExcuse(t) ELSE UNCHANGED excused
    /\ UNCHANGED db

\* The rollback meets a dead connection: its error replaces the result.
CloseFails(t) ==
    /\ pc[t] \in {"closing", "detached"}
    /\ conn[t] = "stale"
    /\ End(t, "failed")
    /\ GiveBack(Invalidated, "none")
    /\ UNCHANGED <<db, excused>>

\* Time passes for a check while it waits for its turn, for a database that is not as
\* it should be, or for an attempt to connect that was lost; anything else takes
\* moments.
Delay(t) ==
    /\ t \in Probe \ delayed
    /\ \/ pc[t] = "waiting"
       \/ pc[t] \notin {"idle", "detached"} /\ db # "up"
       \/ pc[t] \in {"creating", "connecting"} /\ conn[t] = "stale"
    /\ delayed' = delayed \cup {t}
    /\ UNCHANGED <<db, idle, total, pc, conn, result, excused>>

\* Mutant of ProbeTimesOut: the two seconds begin after the checkout.
ProbeTimesOutInQuery(t) ==
    /\ t \in delayed
    /\ pc[t] \in {"using", "closing"}
    /\ \/ /\ pc[t] = "using"
          /\ End(t, "failed")
          /\ GiveBack(idle, "none")
       \/ /\ pc[t] = "closing"
          /\ Goto(t, "detached", conn[t])
          /\ result' = [result EXCEPT ![t] = "failed"]
          /\ delayed' = delayed \ {t}
          /\ UNCHANGED <<idle, total>>
    /\ UNCHANGED <<db, excused>>

\* Mutant of ProbeTimesOut: a cancelled check keeps its record.
ProbeTimesOutLeaking(t) ==
    /\ t \in delayed
    /\ End(t, "failed")
    /\ UNCHANGED <<db, idle, total, excused>>

\* asyncio.timeout cancels the check wherever it is by then: a half-open connection is
\* abandoned, an open one thrown away and its record given back, and a close
\* goes on without anyone waiting for it.
ProbeTimesOut(t) ==
    /\ t \in delayed
    /\ \/ /\ pc[t] = "waiting"
          /\ End(t, "failed")
          /\ UNCHANGED <<idle, total>>
       \/ /\ pc[t] = "creating"
          /\ End(t, "failed")
          /\ total' = total - 1
          /\ UNCHANGED idle
       \/ /\ pc[t] \in {"connecting", "pinging", "using"}
          /\ End(t, "failed")
          /\ GiveBack(idle, "none")
       \/ /\ pc[t] = "closing"
          /\ Goto(t, "detached", conn[t])
          /\ result' = [result EXCEPT ![t] = "failed"]
          /\ delayed' = delayed \ {t}
          /\ UNCHANGED <<idle, total>>
    /\ UNCHANGED <<db, excused>>

(***************************************************************************)
(* The database.                                                           *)
(***************************************************************************)

\* Whatever is under way has an excuse from here on.
Blame == excused' = excused \cup {t \in Task : pc[t] # "idle"}

Slow ==
    /\ db = "up"
    /\ db' = "slow"
    /\ Blame
    /\ UNCHANGED <<idle, total, pc, conn, result, delayed>>

\* A partition leaves the connections to be found alive when it is over; a
\* crash, or a partition that lasts, does not.
Unreachable ==
    /\ db # "down"
    /\ db' = "down"
    /\ Blame
    /\ UNCHANGED <<idle, total, pc, conn, result, delayed>>

Dead(c) == IF c = "live" THEN "stale" ELSE c

ConnectionsDie ==
    /\ db = "down"
    /\ idle' = [i \in DOMAIN idle |-> Dead(idle[i])]
    /\ conn' = [t \in Task |-> IF pc[t] \in {"creating", "connecting"} THEN "stale"
                               ELSE Dead(conn[t])]
    /\ UNCHANGED <<db, total, pc, result, excused, delayed>>

Recover ==
    /\ db # "up"
    /\ db' = "up"
    /\ UNCHANGED <<idle, total, pc, conn, result, excused, delayed>>

\* A proxy, or the server, ends a connection for being idle.
IdleConnectionDies ==
    \E i \in DOMAIN idle :
        /\ idle[i] = "live"
        /\ idle' = [idle EXCEPT ![i] = "stale"]
        /\ UNCHANGED <<db, total, pc, conn, result, excused, delayed>>

(***************************************************************************)
(* The specification.                                                      *)
(***************************************************************************)

Connect(t) == ConnectSucceeds(t) \/ ConnectFails(t)
Answered(t) ==
    \/ PingSucceeds(t)
    \/ PingFails(t)
    \/ StatementFails(t)
    \/ CloseReturns(t)
    \/ CloseFails(t)
Finishes(t) == StatementReturns(t) \/ CommitReturns(t)

EndsInTime(t) == (db = "up" /\ Finishes(t)) \/ StatementTimesOut(t)

Step(t) ==
    \/ Awake(t)
    \/ CheckoutTimesOut(t)
    \/ Connect(t)
    \/ Answered(t)
    \/ Finishes(t)
    \/ StatementTimesOut(t)
    \/ Delay(t)
    \/ ProbeTimesOut(t)

Environment == Slow \/ Unreachable \/ ConnectionsDie \/ Recover \/ IdleConnectionDies

Next == Environment \/ \E t \in Task : Begin(t) \/ Step(t)

Spec == Init /\ [][Next]_vars

(***************************************************************************)
(* Properties.                                                             *)
(***************************************************************************)

TypeOK ==
    /\ db \in Db
    /\ idle \in Seq(Conn)
    /\ total \in Nat
    /\ pc \in [Task -> Pc]
    /\ conn \in [Task -> Conn]
    /\ result \in [Task -> {"ok", "failed", None}]
    /\ delayed \subseteq Probe
    /\ excused \subseteq Task

Holders == {t \in Task : pc[t] \in Holding}

\* No connection is leaked and none is opened beyond the limits: whatever is
\* cancelled, fails or times out at whichever round trip, the pool's count is
\* that of the idle records and of the tasks that hold one.
SlotsAddUp ==
    /\ total = Len(idle) + Cardinality(Holders)
    /\ total <= Limit
    /\ Len(idle) <= PoolSize

\* No request fails, and no check reports unhealthy, because of an outage that
\* was over before it began, or of connections that died idle: it takes an outage
\* or a full pool in its own time.
OldOutagesAreForgotten ==
    \A t \in Task : result[t] = "failed" => t \in excused

=============================================================================
