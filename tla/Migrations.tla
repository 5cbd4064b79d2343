----------------------------- MODULE Migrations -----------------------------
(***************************************************************************)
(* Alembic against a database that is being served from.  Several runners  *)
(* may upgrade and downgrade at once, each in one transaction; requests    *)
(* arrive whenever they like, before the table exists and after it is gone.*)
(* PostgreSQL's DDL is transactional, and locks what it touches: a         *)
(* statement on an object that another transaction has created or dropped  *)
(* waits for that transaction, and the exclusive lock on the table that a  *)
(* DROP of it or of any of its indexes takes first waits for every         *)
(* transaction that used the table, and keeps newcomers waiting.           *)
(*                                                                         *)
(* Requests are those of Ingest, reduced to what a migration can disturb:  *)
(* all of them carry one idempotency key.                                  *)
(***************************************************************************)
EXTENDS Sequences, FiniteSets

CONSTANTS
    Runner,    \* processes that run alembic, time and again until they succeed
    Direction, \* what each of them runs: "upgrade" to head, or "downgrade" by one
    Request

ASSUME DirectionType == Direction \in [Runner -> {"upgrade", "downgrade"}]

VARIABLES
    catalog,  \* the committed schema, its revision row included
    removed,  \* whether a downgrade was ever committed, reported or not (history)
    phase,    \* where each runner is
    todo,     \* the statements each runner has still to run
    done,     \* those it has run and not committed
    pc,       \* where each request is
    locks,    \* the requests whose transactions use the table
    staged,   \* those of them with an uncommitted row
    rows      \* the committed rows, each named for its request

vars == <<catalog, removed, phase, todo, done, pc, locks, staged, rows>>
runners == <<catalog, removed, phase, todo, done>>
requests == <<pc, locks, staged>>

\* What there is to create.  The revision is the row in the version table.
Object == {"version table", "table", "indexes", "unique index", "revision"}
Whole == {"table", "indexes", "unique index", "revision"}

Statement == [op : {"create", "drop"}, object : Object]
Create(o) == [op |-> "create", object |-> o]
Drop(o) == [op |-> "drop", object |-> o]

Phase == {"idle", "running", "succeeded", "failed", "dead"}
Pc == {"idle", "lookup", "insert", "commit", "exit", "dead"}

Init ==
    /\ catalog = {}
    /\ removed = FALSE
    /\ phase = [m \in Runner |-> "idle"]
    /\ todo = [m \in Runner |-> <<>>]
    /\ done = [m \in Runner |-> {}]
    /\ pc = [r \in Request |-> "idle"]
    /\ locks = {}
    /\ staged = {}
    /\ rows = {}

(***************************************************************************)
(* The runners.                                                            *)
(***************************************************************************)

\* Mutant of Upgrade: the unique index was left out of the revision.
UpgradeWithoutUniqueIndex == <<Create("table"), Create("indexes"), Create("revision")>>

Upgrade ==
    <<Create("table"), Create("indexes"), Create("unique index"), Create("revision")>>

\* Mutant of Downgrade: it drops an enum type, which no upgrade has created.
DowngradeDropsType ==
    <<Drop("unique index"), Drop("indexes"), Drop("table"), Drop("type"), Drop("revision")>>

Downgrade ==
    <<Drop("unique index"), Drop("indexes"), Drop("table"), Drop("revision")>>

\* What a runner finds to do, by the heads it reads at the start.
Script(m) ==
    LET ensured == IF "version table" \in catalog THEN <<>> ELSE <<Create("version table")>>
    IN  CASE Direction[m] = "upgrade" /\ "revision" \notin catalog -> ensured \o Upgrade
          [] Direction[m] = "downgrade" /\ "revision" \in catalog -> Downgrade
          [] OTHER -> <<>>

EndRun(m, how) ==
    /\ phase' = [phase EXCEPT ![m] = how]
    /\ todo' = [todo EXCEPT ![m] = <<>>]
    /\ done' = [done EXCEPT ![m] = {}]

\* A downgrade by one of a database at base is an error.
Run(m) ==
    /\ phase[m] \in {"idle", "failed"}
    /\ IF Direction[m] = "downgrade" /\ "revision" \notin catalog
       THEN EndRun(m, "failed")
       ELSE /\ phase' = [phase EXCEPT ![m] = "running"]
            /\ todo' = [todo EXCEPT ![m] = Script(m)]
            /\ UNCHANGED done
    /\ UNCHANGED <<catalog, removed, requests, rows>>

Current(m) == Head(todo[m])

Touched(m) == {s.object : s \in done[m]}

\* Others have an uncommitted change of the object that m's statement is about.
Clashes(m) == \E n \in Runner \ {m} : Current(m).object \in Touched(n)

\* The statements that take ACCESS EXCLUSIVE on the table.
Drops == {Drop("unique index"), Drop("indexes"), Drop("table")}

HasTable(m) == Drops \cap done[m] # {}

\* The first such statement, for which m needs the table to itself.
WantsTable(m) ==
    /\ phase[m] = "running"
    /\ todo[m] # <<>>
    /\ Current(m) \in Drops
    /\ ~HasTable(m)

TableIsFree(m) == locks = {} /\ \A n \in Runner \ {m} : ~HasTable(n)

Applies(m) ==
    /\ phase[m] = "running"
    /\ todo[m] # <<>>
    /\ ~Clashes(m)
    /\ WantsTable(m) => TableIsFree(m)

Possible(s) == IF s.op = "create" THEN s.object \notin catalog ELSE s.object \in catalog

Created(m) == {s.object : s \in {d \in done[m] : d.op = "create"}}
Dropped(m) == {s.object : s \in {d \in done[m] : d.op = "drop"}}

\* Mutant of Execute: the unique index is built CONCURRENTLY, for which the
\* transaction is committed and the rest runs in another.
ExecuteConcurrently(m) ==
    /\ Applies(m)
    /\ Possible(Current(m))
    /\ IF Current(m) = Create("unique index")
       THEN /\ catalog' = catalog \cup Created(m)
            /\ done' = [done EXCEPT ![m] = {Current(m)}]
       ELSE /\ done' = [done EXCEPT ![m] = @ \cup {Current(m)}]
            /\ UNCHANGED catalog
    /\ todo' = [todo EXCEPT ![m] = Tail(@)]
    /\ UNCHANGED <<removed, phase, requests, rows>>

Execute(m) ==
    /\ Applies(m)
    /\ Possible(Current(m))
    /\ done' = [done EXCEPT ![m] = @ \cup {Current(m)}]
    /\ todo' = [todo EXCEPT ![m] = Tail(@)]
    /\ UNCHANGED <<catalog, removed, phase, requests, rows>>

\* What m read at the start is no longer so: the object exists, or is gone.
Refused(m) ==
    /\ Applies(m)
    /\ ~Possible(Current(m))
    /\ EndRun(m, "failed")
    /\ UNCHANGED <<catalog, removed, requests, rows>>

\* COMMIT: the transaction's work becomes everybody's.
Publish(m, how) ==
    /\ phase[m] = "running"
    /\ todo[m] = <<>>
    /\ catalog' = (catalog \cup Created(m)) \ Dropped(m)
    /\ removed' = (removed \/ "table" \in Dropped(m))
    /\ rows' = IF "table" \in Dropped(m) THEN {} ELSE rows
    /\ EndRun(m, how)
    /\ UNCHANGED requests

\* Mutant of CommitRun: nothing is committed, and the connection is not closed.
LeaveOpen(m) ==
    /\ phase[m] = "running"
    /\ todo[m] = <<>>
    /\ phase' = [phase EXCEPT ![m] = "succeeded"]
    /\ UNCHANGED <<catalog, removed, todo, done, requests, rows>>

CommitRun(m) == Publish(m, "succeeded")

\* The connection breaks, or the runner is killed, between the COMMIT and its answer:
\* the work is done, and the exit status says that it is not.
CommitUnheard(m) == Publish(m, "failed")

\* Mutant of LoseConnection: the error does not reach the exit status.
LoseConnectionSilently(m) ==
    /\ phase[m] = "running"
    /\ EndRun(m, "succeeded")
    /\ UNCHANGED <<catalog, removed, requests, rows>>

\* The connection breaks before any COMMIT, and the server rolls back.
LoseConnection(m) ==
    /\ phase[m] = "running"
    /\ EndRun(m, "failed")
    /\ UNCHANGED <<catalog, removed, requests, rows>>

\* The runner is killed; its transaction stays until the server notices.
KillRunner(m) ==
    /\ phase[m] = "running"
    /\ phase' = [phase EXCEPT ![m] = "dead"]
    /\ todo' = [todo EXCEPT ![m] = <<>>]
    /\ UNCHANGED <<catalog, removed, done, requests, rows>>

ReapRunner(m) ==
    /\ phase[m] = "dead"
    /\ EndRun(m, "failed")
    /\ UNCHANGED <<catalog, removed, requests, rows>>

(***************************************************************************)
(* The requests.                                                           *)
(***************************************************************************)

Goto(r, label) == pc' = [pc EXCEPT ![r] = label]

\* A newcomer waits behind a runner that has the table, or waits to have it.
Admitted == \A m \in Runner : ~WantsTable(m) /\ ~HasTable(m)

Arrive(r) ==
    /\ pc[r] = "idle"
    /\ Goto(r, "lookup")
    /\ UNCHANGED <<runners, locks, staged, rows>>

\* Without the table the lookup is an error, and the request a 500.
Lookup(r) ==
    /\ pc[r] = "lookup"
    /\ Admitted
    /\ IF "table" \in catalog
       THEN /\ locks' = locks \cup {r}
            /\ Goto(r, IF rows = {} THEN "insert" ELSE "exit")
       ELSE /\ UNCHANGED locks
            /\ Goto(r, "exit")
    /\ UNCHANGED <<runners, staged, rows>>

\* Mutant of Insert: the winner is looked up in a unit of work of its own, while the
\* loser's is still open.
InsertRereadApart(r) ==
    /\ pc[r] = "insert"
    /\ r \in locks \/ Admitted
    /\ IF "table" \in catalog
       THEN /\ locks' = locks \cup {r}
            /\ \/ /\ "unique index" \in catalog => staged = {} /\ rows = {}
                  /\ staged' = staged \cup {r}
                  /\ Goto(r, "commit")
               \/ /\ "unique index" \in catalog /\ rows # {}
                  /\ Goto(r, "lookup")
                  /\ UNCHANGED staged
       ELSE Goto(r, "exit") /\ UNCHANGED <<locks, staged>>
    /\ UNCHANGED <<runners, rows>>

\* An INSERT locks the table itself, but whoever has used it already goes ahead of a
\* runner that waits for it; without the table it is an error.  The unique index makes
\* the row wait for an uncommitted one, and lose to a committed one; if there is no
\* index, nothing does.
Insert(r) ==
    /\ pc[r] = "insert"
    /\ r \in locks \/ Admitted
    /\ IF "table" \in catalog
       THEN /\ locks' = locks \cup {r}
            /\ \/ /\ "unique index" \in catalog => staged = {} /\ rows = {}
                  /\ staged' = staged \cup {r}
                  /\ Goto(r, "commit")
               \/ /\ "unique index" \in catalog /\ rows # {}
                  /\ Goto(r, "exit")
                  /\ UNCHANGED staged
       ELSE Goto(r, "exit") /\ UNCHANGED <<locks, staged>>
    /\ UNCHANGED <<runners, rows>>

Commit(r) ==
    /\ pc[r] = "commit"
    /\ rows' = rows \cup {r}
    /\ staged' = staged \ {r}
    /\ locks' = locks \ {r}
    /\ Goto(r, "idle")
    /\ UNCHANGED runners

\* The unit of work's rollback.
Exit(r) ==
    /\ pc[r] = "exit"
    /\ locks' = locks \ {r}
    /\ Goto(r, "idle")
    /\ UNCHANGED <<runners, staged, rows>>

StatementTimesOut(r) ==
    /\ pc[r] \in {"lookup", "insert"}
    /\ Goto(r, "exit")
    /\ UNCHANGED <<runners, locks, staged, rows>>

\* A replica dies; its transactions stay until the server notices.
Die(r) ==
    /\ pc[r] \in {"lookup", "insert", "commit", "exit"}
    /\ Goto(r, "dead")
    /\ UNCHANGED <<runners, locks, staged, rows>>

Reap(r) ==
    /\ pc[r] = "dead"
    /\ locks' = locks \ {r}
    /\ staged' = staged \ {r}
    /\ Goto(r, "idle")
    /\ UNCHANGED <<runners, rows>>

(***************************************************************************)
(* The specification.                                                      *)
(***************************************************************************)

Proceed(m) == Execute(m) \/ Refused(m) \/ CommitRun(m)
Serve(r) == Lookup(r) \/ Insert(r) \/ Commit(r) \/ Exit(r)

Next ==
    \/ \E m \in Runner : Run(m) \/ Proceed(m) \/ CommitUnheard(m) \/ LoseConnection(m)
                         \/ KillRunner(m) \/ ReapRunner(m)
    \/ \E r \in Request : Arrive(r) \/ Serve(r) \/ StatementTimesOut(r)
                          \/ Die(r) \/ Reap(r)

Spec == Init /\ [][Next]_vars

(***************************************************************************)
(* Statements that wait for nothing return; one that waits for a lock is   *)
(* served in its turn, however often others come and go meanwhile.  Those  *)
(* of requests are timed out otherwise; a runner has no timeout, for       *)
(* migrations/env.py sets none.  The server finds out, some time, about    *)
(* clients that are gone.                                                  *)
(***************************************************************************)
Fairness ==
    /\ \A m \in Runner : SF_vars(Proceed(m)) /\ WF_vars(ReapRunner(m))
    /\ \A r \in Request :
           WF_vars(Serve(r)) /\ WF_vars(StatementTimesOut(r)) /\ WF_vars(Reap(r))

FairSpec == Spec /\ Fairness

(***************************************************************************)
(* Properties.                                                             *)
(***************************************************************************)

TypeOK ==
    /\ catalog \subseteq Object
    /\ removed \in BOOLEAN
    /\ phase \in [Runner -> Phase]
    /\ todo \in [Runner -> Seq(Statement)]
    /\ done \in [Runner -> SUBSET Statement]
    /\ pc \in [Request -> Pc]
    /\ staged \subseteq locks /\ locks \subseteq Request
    /\ rows \subseteq Request

\* No one ever sees half a revision, wherever a runner fails or is killed and
\* however many run at once: all the objects are there with the revision row, or
\* none of them is.
SchemaIsWhole == Whole \subseteq catalog \/ Whole \cap catalog = {}

\* De-duplication survives migrations: a table that is visible has its unique
\* index, also to requests that began before it did.
OneEventPerKey == \A q, r \in rows : q = r

\* `alembic upgrade head && m4d serve': an upgrade that reports success leaves the
\* schema in place, also if another runner did the work or if it did it itself on an
\* earlier run that it took for a failure; unless a downgrade was committed as well.
SuccessMeansMigrated ==
    (\E m \in Runner : Direction[m] = "upgrade" /\ phase[m] = "succeeded") =>
        Whole \subseteq catalog \/ removed

\* What those who serve from the database may rely on, in Schema, is what happens.
Promised == INSTANCE Schema WITH
    installed <- Whole \subseteq catalog,
    reported <- {m \in Runner : phase[m] = "succeeded"}

\* Each commit of a runner puts the whole schema there, finds it or takes it away with
\* its rows, each commit of a request records the one row of its key, and no other
\* step, failure or kill changes what is visible.
RefinesSchema == Promised!Spec

\* Whom m's statement waits for: a runner with an uncommitted change of its object, or
\* of the table that it wants, and, for the table, whoever uses that.
AwaitsRunner(m, n) ==
    /\ phase[m] = "running" /\ todo[m] # <<>>
    /\ n # m
    /\ Current(m).object \in Touched(n) \/ (WantsTable(m) /\ HasTable(n))

AwaitsUser(m, r) == WantsTable(m) /\ r \in locks

\* Whom r's statement waits for: a runner that it may not pass, or an uncommitted row.
AwaitsMigration(r, m) ==
    /\ pc[r] = "lookup" \/ (pc[r] = "insert" /\ r \notin locks)
    /\ WantsTable(m) \/ HasTable(m)

AwaitsRow(r, q) == pc[r] = "insert" /\ "unique index" \in catalog /\ q \in staged \ {r}

\* No circle of waits between runners and requests, out of which only a timeout or
\* PostgreSQL's deadlock detection would lead: there are no runners and requests that
\* all wait, each for one of them.
NoDeadlock ==
    \A M \in SUBSET Runner, R \in SUBSET Request :
        /\ \A m \in M : (\E n \in M : AwaitsRunner(m, n)) \/ \E r \in R : AwaitsUser(m, r)
        /\ \A r \in R : (\E m \in M : AwaitsMigration(r, m)) \/ \E q \in R : AwaitsRow(r, q)
        => M = {} /\ R = {}

\* A runner never waits for ever, behind requests that hold the table or behind
\* another runner, whoever dies.
EveryRunEnds == \A m \in Runner : phase[m] = "running" ~> phase[m] # "running"
=============================================================================
