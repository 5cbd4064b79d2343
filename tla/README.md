# m4d in TLA+

A formal model of `m4d`, an event-log service: producers `POST` events over
HTTP, a FastAPI application validates and stores them in PostgreSQL through
SQLAlchemy, consumers read them back page by page. The modules model what the
service does between its HTTP boundary and the committed table, the producers
that retry in front of it, the connection pool and the probes under it, and the
migrations beside it. TLC checks them on small instances, and TLAPS proves their
safety for any number of requests, keys, connections and rows.

Paths below are relative to the package, `src/m4d/`, unless they start with
`migrations/`.

## 1. The system

| Component | Code | State it keeps | Operations |
| --- | --- | --- | --- |
| Event ingest | `services/events.py` `record`, `db/uow.py`, `db/repositories/events.py`, `db/tables.py` | rows of `system_event`; per request a session and its transaction | pre-check, insert in a savepoint, recovery after a conflict, commit, rollback on exit |
| Domain | `domain/events.py`, `domain/errors.py` | none (frozen dataclasses) | validation, `materialise`, filter windows |
| Event listing | `services/events.py` `list`, `domain/pagination.py` | none; the client holds the cursor | one keyset page |
| Event fetch | `services/events.py` `get` | none | one `SELECT` by id |
| Request context | `api/middleware.py`, `api/errors.py`, `observability/context.py` | a `ContextVar` per task | bind, echo, reset, render errors |
| Logging | `observability/logging.py` | none | stamp records with the request id |
| Engine and pool | `db/engine.py` | pooled connections | checkout, pre-ping, connect and statement timeouts, dispose |
| Health | `services/health.py`, `api/routes/health.py` | none | liveness; readiness under a 2 s timeout |
| Migrations | `migrations/` | the schema | upgrade, downgrade |
| Configuration | `config.py` | frozen settings | read the environment and `.env`, validate |
| Command line | `cli.py` | none | run uvicorn |
| Wiring | `api/app.py`, `api/deps.py` | the application's state | build, look up collaborators |

How they interact. Every request is an asyncio task of one of several replicas.
The middleware binds a request id in that task, the route calls a service, the
service opens a unit of work, which checks a connection out of the pool, and
every statement is a round trip at which other tasks run. The replicas share
nothing but the database. Errors travel outwards as exceptions: storage errors
become domain errors in the repository, domain errors become problem documents
in the handlers, and anything else reaches the outermost middleware.

What is hard here:

- *Interleaving.* Two requests with one idempotency key both miss the pre-check;
  only the partial unique index, and PostgreSQL making the second `INSERT` wait
  for the first transaction, keeps them apart. The loser must then find the
  winner's row in the same transaction.
- *Failure.* The connection or the process goes away at any round trip, also
  between `COMMIT` and its acknowledgement. A transaction whose client is gone
  may hold a key while others wait for it.
- *Clocks.* Timestamps come from producers and from several replicas, each retry
  being dated or refused by the clock of the replica that happens to get it.
- *Errors that quote data.* Why an `INSERT` failed is read from a message that
  contains the row's own text.
- *Concurrent writes during a walk.* Events are dated by producers, so rows
  appear on both sides of a cursor, and timestamps collide.
- *Retries.* A producer that gave up sends again while its first request is
  still on its way, or still holds the key.
- *A shared pool.* Requests and readiness checks compete for connections; either
  may fail, time out or be cancelled at any round trip, and each must give back
  exactly what it took. The database slows down, vanishes, and returns with the
  pool full of connections that are dead.
- *Probes.* An outage must take replicas out of rotation, and when it is over they
  must come back unaided.
- *Concurrent migrations.* Replicas that migrate as they start do so together,
  by what they read before the others were done, while requests use the table.
- *Context.* Many requests of one process write log lines under their own ids,
  and the layers outside the middleware run after the id is gone.

`PROJECT.json` lists these hazards one by one at the lines where they bite.

What makes each component correct:

- ingest: at most one event per key; an acknowledgement is true and durable;
  retrying is safe; who loses a race for a key is told of the winner; no answer
  leaves an open transaction; every request ends;
- listing: a walk repeats nothing, skips nothing, ends;
- request context: one request's id never shows up as another's; what a caller
  quotes can be found in the log;
- producers: sent until it is answered, an event is recorded exactly once, and
  its producer hears of that one; with a date of the producer's own it is recorded
  once at most, and a refusal is the only other thing heard;
- pool and health: no connection leaks, an outage that is over is forgotten,
  replicas come back by themselves, every prober is answered;
- migrations: a revision is there whole or not at all; de-duplication outlives
  them; a run that reports success has succeeded; nobody waits in a circle, and
  every run ends.

## 2. Modules

| Module | What it is |
| --- | --- |
| `Events` | vocabulary of ingest: bodies, validation, `materialise`, the table's `CHECK` and unique index, answers |
| `EventLog` | abstract specification: an append-only log and what each answer promises |
| `Ingest` | `POST /v1/events`, one action per round trip, with PostgreSQL and faults |
| `Delivery` | abstract specification: what an idempotency key buys a producer that retries |
| `Producer` | composes `Ingest` with retrying producers and the network |
| `Walk` | abstract specification: what a client that follows cursors is shown |
| `Listing` | `GET /v1/events`: a client's walk among concurrent commits |
| `RequestContext` | the middleware stack and the way of the request id |
| `Pool` | the connection pool, requests and readiness checks, and a database with outages |
| `Rotation` | composes `Pool` with the process's life, its two probes, a load balancer and an orchestrator |
| `Schema` | abstract specification: what those who use the database see of migrations |
| `Migrations` | runs of Alembic against each other and against requests |
| `Config` | where settings come from, and what a process refuses to start with |
| `*_proofs` | theorems about the module of that name, and their proofs |
| `MC*` | small instances for TLC |

### Ingest

`pc[a]` is the `await` that the task of request `a` is at; `tx[a]` is the same
request's transaction *as the server has it*. The two are separate because they
come apart: a task can be over while its transaction lives on.

| Code | Model |
| --- | --- |
| schema and `NewEvent.__post_init__` refuse a body | `Refuse` |
| clock read, `materialise` | `Accept` |
| `find_by_idempotency_key`, first time | `Lookup` |
| `INSERT` in its savepoint | `InsertStages`; `InsertConflicts`; `InsertInvalid` and `InsertMisread` for the `CHECK` |
| re-read after `ConflictError` | `Recover` |
| `uow.commit()` | `SendCommit`, `ApplyCommit` (the server), `CommitReturns` |
| `__aexit__`, the unconditional rollback | `Exit` |
| `statement_timeout` | `StatementTimesOut` |
| connection lost, process killed, transaction ended by the server | `ConnectionLost`, `Die`, `Abort` |

An `INSERT` that must wait for another transaction is `InsertStages` being
disabled while `Holders(a)` is not empty. When the holder commits,
`InsertConflicts` becomes possible; when it aborts, `InsertStages` does. That
`Recover` sees the winner is READ COMMITTED: every statement reads `table` as it
is at that moment.

Simplifications, and why they are sound:

- `BEGIN`, `SAVEPOINT`, `RELEASE` and `ROLLBACK TO` are folded into the statement
  they surround: they touch no shared state, and failing in them is failing in
  that statement.
- `uuid4` is taken to be fresh: the event's id is the attempt.
- `now` is any instant, for each attempt: replicas' clocks are not ordered.
- `source`, `kind`, `severity` and `payload` are carried through unread. Keys
  and texts that are blank or too long are one case, `Blank`.
- A lost connection makes the exit's rollback a local affair: whether the server
  ends the transaction is up to `Abort`.
- `COMMIT` is not cancelled by the statement timeout.
- `_translate_integrity_error` tells constraints apart by looking for their names
  in the driver's message, the unique index's first. The message of a failed
  `CHECK` quotes the failing row, up to 64 bytes of each column, for which the
  name of the index is short enough. A body says whether it `quotes` that name in
  its text: if so, a failed `CHECK` is taken for a duplicate (`InsertMisread`).
  The error of the unique index quotes the key alone, and its name comes first in
  any case. The function's last branch, `return exc`, is left out: besides that
  index and the `CHECK`s the table has only its primary key, of fresh ids, and
  columns the domain fills.
- Timestamps at the very ends of the calendar, for which the conversion to UTC
  overflows, are left out: such a request gets a 500 before anything is stored.

### EventLog

Three variables: what each request offered, the log, what each was told. Append
is possible before the answer or after a 500 and never after another answer. A 409
is an answer to an event dated after its recording only (`AnswerConflict`). The
refinement mapping in `Ingest` is direct: `offered <- event`, `log <- table`,
`answer <- reply`.

### Listing

A page is one `SELECT`, so `Fetch` is one action. It fetches `limit + 1` rows,
makes the cursor of the last row it returns, and the client chooses the limit
anew for every page. `Record` commits any row at any time. `pages[i].saw` is a
history variable: the table as the i-th request found it. The token codec is the
identity in the model, and the refusal of a token that does not decode is left out:
clients pass back unread what they were given. A window with a naive bound is
refused, as is an empty one (`ValidWindow`).

The service's documentation asks clients to keep `limit` the same across a walk.
The model lets it vary and the walk is still exact; only the filters have to
stay.

`Walk` knows no limits, tokens or queries: the client is shown the next rows
without a gap and told that there are more (`ShowSome`), or it is shown all that
are left (`ShowRest`). The mapping is `shown <- Walked`, what all pages together
list, and `place <- cursor`.

### RequestContext

`context[r]` is the `ContextVar` in the request's own task and `inner[r]` in the
task `BaseHTTPMiddleware` starts for the rest of the stack, which runs with a
copy. `Return` covers routes and the handlers of expected errors, `Raise` any
other exception; `Reraise` and `HandleUnexpected` are how it gets out. With
`CorsOrigins`, preflights are answered outside of all this.

### Producer and Delivery

A producer has one event, one key of its own (`KeysAreOwn`) and one well-formed
body, dated or not. `Send`
puts a request on the network, `Deliver` is when a replica receives it, which
may be after its producer gave up (`GiveUp`) and sent the next. A 500 and a
closed connection are no answers; a refusal is one, although it need not be the
last word: the replica that refused a date may have the slower clock, and an
earlier request of the same producer, delivered late or slow to commit, may yet
get the event recorded. What replicas do with a request is `Ingest`,
action by action; `Recycle` lets an attempt that is over and left nothing behind
stand for another request, so that three attempts are enough for any number of
retries. `faults` counts what goes wrong by itself, in `Ingest` or on the way.

`Delivery` has three variables: how many events each producer's requests left in
the log, who was told, and who was refused. `Record` takes 0 to 1, `Tell` comes
after it, and both happen in the end. `Refuse` is for producers in `Ahead` only,
whose date some clock has not reached: they hear one of the two in the end, and
`Record` may come before a refusal, after it, or never. Nothing else ever
happens: no second event.

### Pool and Rotation

`idle` is SQLAlchemy's queue of connection records, `total` the number of
records it counts, `conn[t]` what task `t` has in hand. A task checks out
(`Begin`: an idle record, a new one, or the queue), opens or pings, runs its
statements, and closes. `delayed` are the readiness checks whose two seconds are
over. `excused` is a history variable, which no guard reads: the tasks that have
met an outage or a full pool since they began.

| Code | Model |
| --- | --- |
| `pool_size`, `max_overflow` | `Limit`, `GiveBack` |
| `pool_pre_ping` | `Take`, `PingSucceeds`, `PingFails` |
| `timeout` of asyncpg | `ConnectFails` |
| `statement_timeout` | `StatementTimesOut` |
| `asyncio.timeout` around `check` | `Delay`, the two seconds; `ProbeTimesOut`, at each place the check may be |
| `__aexit__` of unit of work and connection | `CloseReturns`, `CloseFails` |
| lifespan, `dispose` | `Start`, `Dispose` |
| `GET /healthz`, `GET /readyz` | `Healthz`, `Judge` |

Simplifications, and why they are sound:

- When a disconnect invalidates the pool, SQLAlchemy reopens the records that
  are older than it as they are checked out, those in use included; here the
  latter are pinged when they are next checked out, which finds out the same.
- The driver's own termination of a connection that is thrown away is part of
  the step that throws it away, as is closing a connection the queue has no
  room for: no slot depends on it.
- There is no clock: what is assumed of time is that a round trip to a database
  that is "up" takes moments, if only to get an error, so a check's two seconds
  pass only while it waits for a connection, while the database is not "up", or
  while an attempt to connect is lost (`Delay`). They pass in any such wait, the
  first or the tenth, and may end when the outage is already over. A connection
  that died while in the pool answers with a reset and does not hang.
- An attempt to connect fails while the database is "down", or if it was under way
  when connections died (`ConnectionsDie`), also after the database is back.
  Waiting for a key is `Ingest`'s matter, and here one way to be "slow".
- A request's statements are one visit to "using"; whichever fails ends it.
- A cancelled check in the middle of its close has answered its prober; the
  shielded close goes on (`"detached"`).

### Migrations

`catalog` is the committed schema, the row of `alembic_version` included;
`todo[m]` and `done[m]` are a runner's statements, all of which run in the one
transaction of `env.py`. A statement waits for other runners' uncommitted
changes of its object (`Clashes`). Any `DROP` of the table or of one of its
indexes (`Drops`) takes the table to itself: the first of a downgrade waits for
all transactions that used it (`WantsTable`, `TableIsFree`) and holds newcomers up
(`Admitted`), by lookup and by insert, which is an error if the table is gone.
Requests are those of `Ingest` reduced to what a migration can disturb, with one
key between them. A runner whose connection breaks or that finds its statement
impossible fails, and may run again; one that is killed leaves its transaction
until the server notices.

`Schema` has no statements, locks or transactions: the schema is installed or
not, runners have reported success, rows of the key are there. The mapping is
`installed <- Whole \subseteq catalog`, and `reported` are the runners whose phase
is `"succeeded"`. A runner's commit is one step of it, `Install`, `Confirm` or
`Remove`, which it may not live to report (`CommitUnheard`); a request's is
`Record`; all else, failures included, is unseen.

`AwaitsRunner`, `AwaitsUser`, `AwaitsMigration` and `AwaitsRow` say who waits for
whom: a runner for another's uncommitted changes or for users of the table, a
request for a migration that has the table or is next to get it, or for the
holder of its key. `removed` is a history variable: a success of
an upgrade that is no longer true must be owed to a downgrade, and that one may
have ended without a report.

### Config

Two settings are more than a scalar: the database URL, of which one scheme will
do, and the CORS origins. Texts are opaque; `Decoded` is what JSON makes of
each, a string of items or an array of them, `Split` what the validator makes of
that, `Meant` what the documentation says it means.

## 3. Runs

| Run | Instance | States (distinct) | Shows |
| --- | --- | --- | --- |
| `ingest_race` | 3 retries, one key, padded or not, dated or not; symmetric | 238 634 | one event per key, the loser of a race finds the winner, retries are safe, acknowledgements are durable, answers are final |
| `ingest_bodies` | 2 requests, every body | 397 009 | types, the inductive invariant, no negative lag, `Ingest` implements `EventLog`; every request is answered or its process died |
| `ingest_clocks` | 2 requests, every body | violated | the domain does not order timestamps |
| `ingest_checks` | 2 requests, every body | violated | a failed `CHECK` is answered as a conflict |
| `producer` | 2 producers, one dated, 3 attempts, 1 fault, no statement timeout | 124 966 | `Producer` implements `Delivery`, liveness included; answers are one's own |
| `listing_walk` | 5 rows, 6 filters, limits 1 and 2 | 5 061 | nothing repeated, nothing skipped, no cursor to nowhere; `Listing` implements `Walk`; each page advances, and walks end |
| `listing_windows` | the same | violated | adjacent windows do not tile |
| `context_isolation` | 2 requests, good, refused or no inbound id | 676 | ids do not mix; a quoted id is the header's and is logged; no outcome goes without a line under its id |
| `context_description` | the same | violated | an unexpected 500 has no request id |
| `rotation` | 2 requests, 1 check, 1 connection and 1 of overflow | 85 683 | slots add up, outages are forgotten and end rotation; checks and requests end; the replica comes back |
| `migrations` | 2 upgrades, 1 downgrade, 2 requests | 82 112 | the schema is whole, keys stay unique, success is true, nobody waits in a circle, runs end; `Migrations` implements `Schema` |
| `config_origins` | 5 texts, 2 schemes, from environment and `.env` | violated | comma-separated origins keep a process from starting |

Why these bounds. A race for a key has a winner, a loser that waits or
recovers, and a third that comes late or waits for the loser: three attempts.
One key suffices because requests of different keys share no state but the
table. Two instants give a producer's clock that is ahead of, at, or behind the
server's. For two attempts all bodies are tried, refused ones included. Five
rows with three at one instant put a collision on either side of every page
boundary for limits 1 and 2, and give a last page that is exactly full. Two
requests are what it takes to confuse one's id with another's. Two producers
with three attempts let one of them have an abandoned request and its successor
in flight beside the other's, and two instants let the dated one's be refused and
recorded by different replicas; one fault is what brings about a retry. Three tasks
over two connections leave one to wait, and the two to differ: one goes back to
the queue, one is dropped for lack of room. Two upgrades and a downgrade give
every pair of runners that can meet, and two requests of one key a holder and a
newcomer. The proofs of section 4 lift all of these bounds for safety.

Deadlock is checked in `rotation` and `migrations`, which never stop. Elsewhere
attempts, rows and requests are finite, and a run that has dealt with them all
stops.

### Fairness

`Fairness` of `Ingest`, for every attempt:

- `Serve`: the event loop resumes tasks whose round trip is over;
- `ApplyCommit`: PostgreSQL executes a `COMMIT` it received;
- `WaitTimesOut`: `statement_timeout` ends an `INSERT` that waits for a lock
  (`db/engine.py` sets it on every connection; without the setting the action is
  never enabled);
- `LossIsNoticed`: a round trip on a transaction the server has ended gets an
  error.

Nothing is assumed of faults. In particular nothing says that the server ever
finds out that a client is gone: `EveryRequestIsAnswered` needs no such thing, thanks to
the statement timeout. With `db_statement_timeout_ms = 0` there is nothing else
to rely on; that is the instance of `producer`.

`PFairness` of `Producer`: producers go on until they have an answer; the
network delivers; and each attempt goes on for as long as there is anything to
be done about it, its transaction being ended by the server once its client is
gone. That faults end is no fairness but the bound `MaxFaults`; without it a
producer may be refused for ever.

In `Listing` a client that started a walk goes on with it.

`RFairness` of `Rotation`, while the process runs: a waiter is woken or gives up
after `pool_timeout`; an attempt to connect ends, by `db_connect_timeout_seconds`
at the latest; round trips are answered while the database answers; a check's two
seconds pass if time keeps passing for it, in whatever waits, one after another
(strong fairness of `Delay`), and end it; a statement ends if the database is up,
or by `statement_timeout`. Outside of it: the prober asks again, the
orchestrator starts what is not up and restarts what does not answer
`/healthz`, and a shutdown ends when its requests have. No outage need begin or
end, no connection need die, and no request need come: `BackInRotation` holds
with none. A check that a hung process holds counts as over once that process is
restarted.

`Fairness` of `Migrations`: requests' steps, their timeouts, and the server's
noticing of dead clients are weakly fair. Runners' steps are strongly fair, for
a statement that waits for a lock is enabled now and then, as its holders come
and go, and PostgreSQL's lock queue serves it in turn. Nothing times a runner
out.

### Where code and documentation differ

- `ingest_clocks`. A comment on the `CHECK recorded_at >= occurred_at` says that
  the domain guarantees it. It does not: an `occurred_at` ahead of the server's
  clock passes, and the constraint alone refuses it, as a 422.
- `ingest_checks`. The repository says that a failed `CHECK` is reported as invalid
  input, not a conflict. An event dated ahead of the server's clock whose text
  contains `uq_system_event_idempotency_key` is answered 409.
- `listing_windows`. `EventFilter` says its bounds make adjacent windows tile
  without double-counting. Both bounds are exclusive, so an event on the
  boundary is in neither window.
- `context_description`. The API's description says every response carries
  `X-Request-ID`. The 500 of an unexpected exception is made outside of the
  middleware and after the id was reset: neither header nor body has it.
- `config_origins`. `.env.example` and the validator's docstring say that
  origins are comma-separated, and none if empty. But the field is a tuple,
  which pydantic-settings decodes as JSON before the validator runs: such a
  value, also the empty one of `.env.example`, is a `SettingsError` at startup.

### Mutants

Operators commented "Mutant of X" stand before X and are not used by the
specifications. Each is X with a plausible bug; with X replaced by it, the
property paired with it in `PROJECT.json` is violated. They show that the
properties depend on the code as it is: the unique index, the unconditional
rollback, the order of logging and resetting, the extra row of a page, the
pre-ping, where the two seconds begin, one transaction per migration, one
transaction per request.

## 4. Proofs

Everything below is proved with TLAPS for all values of the constants. In each
module `Invariance` is the inductive invariant and the others follow from it,
some with a second invariant on top.

| Module | Theorem | States |
| --- | --- | --- |
| `Ingest_proofs` | `TypeCorrect` | every variable keeps its type |
| | `KeysAreUnique` | no two recorded events carry one key |
| | `ConflictsAreRecovered` | the loser of a race always finds the winner; 409 is left to misread `CHECK` failures |
| | `AcknowledgementsAreDurable` | what a 201 or 200 names is committed, and is the right event |
| | `AnswersAreFinal` | an answer other than 500 leaves nothing behind that could change it |
| | `LagIsNeverNegative` | no recorded event is dated after its recording |
| | `RetriesAreSafe` | acknowledged requests of one key are told of one event |
| | `Refinement` | `Ingest` implements `EventLog` |
| `EventLog_proofs` | `LogIsTruthful` | what `EventLog` says in steps comes to one event per key and answers that stay true, refusals included |
| `Producer_proofs` | `ProducerTypeCorrect` | types |
| | `AnswersAreOwn` | an acknowledgement is of the producer's own event, recorded; a refusal is heard only of a date some clock had not reached |
| | `DeliveredAtMostOnce` | `Producer` implements the safety of `Delivery` |
| `Listing_proofs` | `TypeCorrect` | types; cursors are whole rows |
| | `PagesAreDisjoint` | pages list strictly newest first |
| | `PagesAreComplete` | nothing that was there in time is skipped |
| | `CursorsLeadSomewhere` | no cursor leads to an empty page |
| | `WalksKeepPromise` | `Listing` implements `Walk` |
| | `PagesAreSound` | what is listed was recorded and matches |
| | `FinishedWalksAreExact` | a finished walk has listed what it set out with exactly once |
| | `WalksAdvance` | each page but the last leaves fewer places to reach |
| `RequestContext_proofs` | `TypeCorrect`, `LinesAreOwn`, `ProblemsQuoteHeaders` | types; ids do not mix; what is quoted is the header's and is logged |
| | `OutcomesLeaveTraces` | whatever becomes of a request, a line has its id; only an unexpected exception's response has none |
| `Rotation_proofs` | `TypeCorrect` | types; the count of connections is a natural number |
| | `NoSlotIsLost` | the pool's count is that of idle records and holders, within the limits |
| | `OutagesAreForgotten` | nothing fails for an outage that was over before it began |
| `Migrations_proofs` | `TypeCorrect` | types |
| | `RevisionsAreAtomic` | a revision is visible whole or not at all |
| | `KeysAreUnique` | de-duplication outlives migrations |
| | `SuccessIsMigration` | an upgrade that reports success has left the schema in place, unless a downgrade was committed |
| | `Turning` | at most one runner at a time has uncommitted work |
| | `NoCircularWait` | no runners and requests all wait for one another |
| | `MigrationsKeepPromise` | `Migrations` implements `Schema` |

Assumptions are named `ASSUME`s in the module that declares the constant, and
TLC evaluates them in its runs: types, markers being distinct from what they
stand next to, tasks and probes being finite in number and apart (`Pool`), ids
of rows being unique (`Listing`), and a key being one producer's (`Producer`).

**Ingest.** None of the properties is inductive by itself. That no two rows
carry one key is kept by `ApplyCommit` only because no two *claims*, committed
or not, share a key (`ClaimsAreUnique`), which `InsertStages` keeps because it
waits for holders and looks at the index; and because the table is exactly what
was committed (`TableIsCommitted`). That a loser finds the winner needs rows
never to leave the table. That answers are true needs the task's position to say
what the server has (`TasksAgreeWithServer`), with `Justified` saying what each
outcome takes for granted from the moment it is decided until after it is sent.
Hence

    IInv == TypeOK /\ EventsAreOwn /\ TableIsCommitted /\ ClaimsAreUnique /\ TasksAgreeWithServer

which the run `ingest_bodies` checks before the proof does. The refinement uses
it to show that every commit happens before an answer or after a 500. What that
promise is worth, `EventLog_proofs` says of the abstract specification itself: an
attempt told 200, 409 or 422 never has its event in the log, a 409 is never told
of a lost race, and what a 200 or 201 names is there and stays true.

**Producer.** Every step of it is one of `Ingest`, leaves `Ingest` alone, or
recycles an attempt, so `IInv` carries over once `Recycle` is shown to keep it.
What is added: an attempt's event is what its sender offers
(`EventsAreOffered`), its date being the producer's or the replica's, and a producer
waits for its own (`WaitsAreOwn`). Uniqueness of keys then bounds the rows of one
producer by one, which is what the refinement mapping counts. Dates make the
other half: a 422 or a 409 takes an event dated after its recording
(`Justified`), and of well-formed requests only one that the producer dated
itself can be.

**Listing.** Lemmas about `Top` come first, by counting the rows before each
row: it is an initial piece of the order, no larger than asked for, and all
there is if it is smaller. From these `PageIsInitial` states what one page is:
its rows come before all others selected, its cursor is the last of them, and
there is a cursor only if something is left. The least row of a finite set,
which the counting needs, is found by well-foundedness of set inclusion rather
than by induction. The walk's invariant `WInv` adds that all rows shown are at
or before the cursor and that something is selected after it (`CursorDivides`),
and that the table only grows (`SawWhatIsThere`).

That `Fetch` is a step of `Walk` is `PageIsInitial` again: a page without a cursor
is all that is selected, one with a cursor is what lies up to it, and `Selected`
is what `Walk` calls `Ahead`. `FinishedWalksAreExact` puts completeness and
disjointness together. `WalksAdvance` is the safety half of `WalkEnds`: places
left to reach are a strictly smaller set after each page. Where rows are finite in
number, as in the run, that ends; the induction, and that the client goes on,
stay with TLC.

**RequestContext.** The invariant ties each task's context, and the copy the
inner task runs with, to the stage the request is at. `TracesAreLeft` adds what a
request has left behind at each stage: a crash is in the log under its id before
it gets out of `dispatch`, and nobody is answered before the end. `OutcomesLeaveTraces`
thereby bounds what `context_description` finds: only a response to an unexpected
exception has no id, and even then the log has.

**Rotation.** Slots add up because each step moves at most one task between
holding and not holding and one record between queue and hand. That a failure
comes with an outage or a full pool is not inductive: a task that uses a dead
connection, has lost an attempt to connect, or has run out of its two seconds must
have met one *before* it fails. `Explained` says so for each place a task can be;
pre-ping is what makes it true of a dead idle connection.

**Migrations.** What a running runner has done and what it has left make up a
whole plan, or nothing where the schema was in place when it looked
(`PlansAreWhole`); so its commit applies a revision or none of it, and a run
with nothing to do is no false report. `TableIsKept` says that whoever has
looked its key up holds off whoever drops the table, `TasksAgreeWithServer` that
a row is staged by a request which has, and `RowsAreOne` that staged and
committed rows are one at most.

Why runners take turns is nowhere written in the code. Each script opens with a
statement that only one open transaction can have run (`Opens`): it creates the
version table, or the table where a version table is, or drops the unique index.
The catalog admits at most one of these, and a second runner of the same one
waits for the first. `WorkBegins` and `DoneIsPossible` carry this through the rest
of the script, and `Turns` gathers what is needed. Then a runner with uncommitted
work clashes with nobody, and has had its wait for the table, if any
(`HoldersDoNotWait`). So among runners and requests that all wait for one another
no request has a row uncommitted or the table in use, for such a request waits for
nothing; no runner has anything done; and what is left has nobody to wait for:
`NoCircularWait`. A request that re-read the table in a second transaction would
break it. `MigrationsKeepPromise` needs the turns as well: a commit finds the
schema whole or absent, as when its runner began, and can only be one of
`Schema`'s steps.

Only model-checked, because fairness and `ENABLED` are out of the prover's reach:
everything under fairness (`EveryRequestIsAnswered`, `WalkEnds`, the liveness half of `RefinesDelivery`, `EveryProbeIsAnswered`,
`EveryRequestEnds`, `OutageEndsRotation`, `BackInRotation`, `EveryRunEnds`).

## 5. Not modelled

- The fetch of one event: one read, by primary key, of what
  `AcknowledgedIsDurable` speaks of.
- Parsing of HTTP, of JSON bodies, of scalar settings and of cursor tokens; the
  layout of logs and problem documents. Cursor tokens are their contents.
- The command line and the wiring of dependencies, which keep no state.
- Offline migrations and autogenerate, which print.
- The cancellation of a request whose client went away: it may end without a line
  of its own in the log, and `OutcomesAreLogged` does not speak of it.
- Requests to a database that has gone silent: nothing in the program bounds
  such a round trip, except for the readiness check's. `EveryRequestEnds` is
  therefore about databases that are not out of reach again and again.
- Readiness of a replica whose database has no schema: `SELECT 1` says nothing
  of it, and the model of migrations has the requests that then fail.
- Producers that share a key: they get each other's event, by design of global
  keys. `KeysAreOwn` excludes it.

## 6. Plan

Done: everything of section 2.

1. Cursor tokens, as a pure encoding that is shown to lose nothing and to refuse
   what is not one.
2. `Ingest` over `Pool`: requests that wait for keys hold connections, and a
   single key can then exhaust the pool; how long, is what the statement timeout
   bounds.
3. Rolling deployments: old and new replicas over `Migrations`, once there is a
   second revision.
