------------------------------- MODULE Ingest -------------------------------
(***************************************************************************)
(* POST /v1/events: EventService.record over the SQLAlchemy unit of work   *)
(* and repository, and PostgreSQL underneath at READ COMMITTED.  Every     *)
(* request is a task of its own with a connection and a transaction of its *)
(* own; tasks interleave at every await, which is at every round trip.     *)
(*                                                                         *)
(* The task and its transaction are two machines.  A connection may be     *)
(* lost, or the process may die, at any round trip: the task is then over  *)
(* while its transaction lives on in the server until the server notices,  *)
(* and a COMMIT that was already sent may still be applied.                *)
(***************************************************************************)
EXTENDS Events

CONSTANT StatementTimeout   \* whether db_statement_timeout_ms is not 0
ASSUME StatementTimeoutType == StatementTimeout \in BOOLEAN

VARIABLES
    body,     \* the body of each attempt's request, None until it is sent
    event,    \* the materialised event, None until there is one
    pc,       \* the await each task is at
    result,   \* what the service call returns or raises, once that is known
    reply,    \* the HTTP answer
    tx,       \* each attempt's transaction, as the server has it
    table     \* the committed rows of system_event

vars == <<body, event, pc, result, reply, tx, table>>
task == <<body, event>>

AtStatement == {"lookup", "insert", "recover"}
Pc == AtStatement \cup {"unsent", "commit", "committing", "exit", "answered", "dead"}

\* "holding" is open with an uncommitted row; "committing" has received COMMIT.
Pending == {"holding", "committing"}
Tx == Pending \cup {"none", "open", "committed", "aborted"}

Init ==
    /\ body = [a \in Attempt |-> None]
    /\ event = [a \in Attempt |-> None]
    /\ pc = [a \in Attempt |-> "unsent"]
    /\ result = [a \in Attempt |-> None]
    /\ reply = [a \in Attempt |-> None]
    /\ tx = [a \in Attempt |-> "none"]
    /\ table = {}

(***************************************************************************)
(* What one statement of a's transaction sees.                             *)
(***************************************************************************)

\* Mutant of RowsWithKeyOf: the WHERE clause is lost.
RowsOfAnyKey(e) == table

\* find_by_idempotency_key, for the key of event e.
RowsWithKeyOf(e) == {row \in table : SameKey(row, e)}

\* The uncommitted rows of others that the unique index makes a's INSERT wait for.
Holders(a) ==
    {b \in Attempt \ {a} : tx[b] \in Pending /\ SameKey(event[b], event[a])}

\* A statement of a: the first one of a transaction begins it.
Reads(a) ==
    /\ tx[a] \in {"none", "open"}
    /\ tx' = [tx EXCEPT ![a] = "open"]

Goto(a, label) ==
    /\ pc' = [pc EXCEPT ![a] = label]
    /\ UNCHANGED <<result, reply>>

\* The service call ends, normally or not: what is left is the unit of work's exit.
Leave(a, outcome) ==
    /\ pc' = [pc EXCEPT ![a] = "exit"]
    /\ result' = [result EXCEPT ![a] = outcome]
    /\ UNCHANGED reply

\* The HTTP answer goes out and the task is over.
Answers(a, outcome) ==
    /\ pc' = [pc EXCEPT ![a] = "answered"]
    /\ reply' = [reply EXCEPT ![a] = outcome]
    /\ UNCHANGED result

(***************************************************************************)
(* The request, up to the first await.                                     *)
(***************************************************************************)

\* The domain refuses the body before any unit of work is opened.
Refuse(a, b) ==
    /\ pc[a] = "unsent"
    /\ Malformed(b)
    /\ body' = [body EXCEPT ![a] = b]
    /\ Answers(a, Invalid)
    /\ UNCHANGED <<event, tx, table>>

\* The clock is read and the event gets its identity; without a key there is
\* nothing to look up.  `now' is free: replicas have clocks of their own.
Accept(a, b, now) ==
    /\ pc[a] = "unsent"
    /\ ~Malformed(b)
    /\ body' = [body EXCEPT ![a] = b]
    /\ event' = [event EXCEPT ![a] = Materialise(a, b, now)]
    /\ Goto(a, IF CleanKey(b) = NoKey THEN "insert" ELSE "lookup")
    /\ UNCHANGED <<tx, table>>

(***************************************************************************)
(* The body of the unit of work, one action per round trip.                *)
(***************************************************************************)

\* The pre-check.
Lookup(a) ==
    /\ pc[a] = "lookup"
    /\ Reads(a)
    /\ LET found == RowsWithKeyOf(event[a])
       IN  IF found = {}
           THEN Goto(a, "insert")
           ELSE Leave(a, Replayed((CHOOSE row \in found : TRUE).id))
    /\ UNCHANGED <<task, table>>

\* The row breaks the CHECK, which comes before any index.  The driver's error
\* names the CHECK and quotes the row: ValidationError.
InsertInvalid(a) ==
    /\ pc[a] = "insert"
    /\ ~RecordedAfterOccurred(event[a])
    /\ ~body[a].quotes
    /\ Reads(a)
    /\ Leave(a, Invalid)
    /\ UNCHANGED <<task, table>>

\* add raised ConflictError, its savepoint having saved the transaction: with a key
\* there should be a winner to read, without one the error is passed on.
Conflicts(a) == IF event[a].key = NoKey THEN Leave(a, Conflict) ELSE Goto(a, "recover")

\* The row breaks the CHECK, and its own text contains the name of the index: quoted
\* in the error, it is found before the name of the CHECK is looked for.
InsertMisread(a) ==
    /\ pc[a] = "insert"
    /\ ~RecordedAfterOccurred(event[a])
    /\ body[a].quotes
    /\ Reads(a)
    /\ Conflicts(a)
    /\ UNCHANGED <<task, table>>

\* Mutant of InsertConflicts: the ConflictError is not handled.
InsertConflictsUnhandled(a) ==
    /\ pc[a] = "insert"
    /\ RecordedAfterOccurred(event[a])
    /\ RowsWithKeyOf(event[a]) # {}
    /\ Reads(a)
    /\ Leave(a, Conflict)
    /\ UNCHANGED <<task, table>>

\* The index holds a committed row of the same key.
InsertConflicts(a) ==
    /\ pc[a] = "insert"
    /\ RecordedAfterOccurred(event[a])
    /\ RowsWithKeyOf(event[a]) # {}
    /\ Reads(a)
    /\ Conflicts(a)
    /\ UNCHANGED <<task, table>>

\* Mutant of InsertStages: there is no unique index, only the pre-check.
InsertUnindexed(a) ==
    /\ pc[a] = "insert"
    /\ RecordedAfterOccurred(event[a])
    /\ tx[a] \in {"none", "open"}
    /\ tx' = [tx EXCEPT ![a] = "holding"]
    /\ Goto(a, "commit")
    /\ UNCHANGED <<task, table>>

\* The row goes in, unless the same key is held by an uncommitted row: then the
\* INSERT waits, and this action with it.
InsertStages(a) ==
    /\ pc[a] = "insert"
    /\ RecordedAfterOccurred(event[a])
    /\ RowsWithKeyOf(event[a]) = {}
    /\ Holders(a) = {}
    /\ tx[a] \in {"none", "open"}
    /\ tx' = [tx EXCEPT ![a] = "holding"]
    /\ Goto(a, "commit")
    /\ UNCHANGED <<task, table>>

\* Mutant of Recover: the loser's own event is returned instead of the winner's.
RecoverOwn(a) ==
    /\ pc[a] = "recover"
    /\ Reads(a)
    /\ Leave(a, Replayed(a))
    /\ UNCHANGED <<task, table>>

\* Having lost the race, the task reads the winner's row.
Recover(a) ==
    /\ pc[a] = "recover"
    /\ Reads(a)
    /\ LET found == RowsWithKeyOf(event[a])
       IN  Leave(a, IF found = {} THEN Conflict
                    ELSE Replayed((CHOOSE row \in found : TRUE).id))
    /\ UNCHANGED <<task, table>>

\* Mutant of SendCommit: the commit is forgotten.
SkipCommit(a) ==
    /\ pc[a] = "commit"
    /\ tx[a] = "holding"
    /\ Leave(a, Created(a))
    /\ UNCHANGED <<task, tx, table>>

SendCommit(a) ==
    /\ pc[a] = "commit"
    /\ tx[a] = "holding"
    /\ tx' = [tx EXCEPT ![a] = "committing"]
    /\ Goto(a, "committing")
    /\ UNCHANGED <<task, table>>

\* The server applies a COMMIT, whether or not anyone still waits for it.
ApplyCommit(a) ==
    /\ tx[a] = "committing"
    /\ tx' = [tx EXCEPT ![a] = "committed"]
    /\ table' = table \cup {event[a]}
    /\ UNCHANGED <<task, pc, result, reply>>

CommitReturns(a) ==
    /\ pc[a] = "committing"
    /\ tx[a] = "committed"
    /\ Leave(a, Created(a))
    /\ UNCHANGED <<task, tx, table>>

\* Mutant of Exit: the transaction is left to whoever gets the connection next.
ExitWithoutRollback(a) ==
    /\ pc[a] = "exit"
    /\ tx[a] # "aborted"
    /\ Answers(a, result[a])
    /\ UNCHANGED <<task, tx, table>>

\* UnitOfWork.__aexit__: an unconditional rollback, a no-op after the commit.
Exit(a) ==
    /\ pc[a] = "exit"
    /\ tx[a] # "aborted"
    /\ tx' = [tx EXCEPT ![a] = IF @ = "committed" THEN @ ELSE "aborted"]
    /\ Answers(a, result[a])
    /\ UNCHANGED <<task, table>>

(***************************************************************************)
(* What goes wrong.                                                        *)
(***************************************************************************)

\* Mutant of StatementTimesOut: the ceiling is on queries only, not on the INSERT.
QueryTimesOut(a) ==
    /\ StatementTimeout
    /\ pc[a] \in AtStatement \ {"insert"}
    /\ Reads(a)
    /\ Leave(a, Failed)
    /\ UNCHANGED <<task, table>>

\* The server cancels a statement that runs for too long.  The error is not an
\* IntegrityError: it leaves record, and the exit rolls back.
StatementTimesOut(a) ==
    /\ StatementTimeout
    /\ pc[a] \in AtStatement
    /\ Reads(a)
    /\ Leave(a, Failed)
    /\ UNCHANGED <<task, table>>

\* The connection fails under a round trip of a, or cannot be had for the first
\* one.  The error leaves the unit of work, whose rollback no longer reaches the
\* server; when it is that very rollback that fails, its error replaces the result.
ConnectionLost(a) ==
    /\ \/ pc[a] \in AtStatement \cup {"commit", "committing"}
       \/ pc[a] = "exit" /\ tx[a] # "committed"
    /\ Answers(a, Failed)
    /\ UNCHANGED <<task, tx, table>>

\* The process dies with the task in it: no answer, no rollback.
Die(a) ==
    /\ pc[a] \notin {"unsent", "answered", "dead"}
    /\ Goto(a, "dead")
    /\ UNCHANGED <<task, tx, table>>

\* The server ends a transaction on its own: a restart, a terminated backend,
\* or a client it finds gone.
Abort(a) ==
    /\ tx[a] \in Pending \cup {"open"}
    /\ tx' = [tx EXCEPT ![a] = "aborted"]
    /\ UNCHANGED <<task, pc, result, reply, table>>

(***************************************************************************)
(* The specification.                                                      *)
(***************************************************************************)

Receive(a) ==
    \E b \in Body : Refuse(a, b) \/ \E now \in Time : Accept(a, b, now)

Serve(a) ==
    \/ Lookup(a)
    \/ InsertInvalid(a)
    \/ InsertMisread(a)
    \/ InsertConflicts(a)
    \/ InsertStages(a)
    \/ Recover(a)
    \/ SendCommit(a)
    \/ CommitReturns(a)
    \/ Exit(a)

Fault(a) == StatementTimesOut(a) \/ ConnectionLost(a) \/ Die(a) \/ Abort(a)

Next == \E a \in Attempt : Receive(a) \/ Serve(a) \/ ApplyCommit(a) \/ Fault(a)

Spec == Init /\ [][Next]_vars

\* An INSERT that waits for another transaction is cancelled in the end.
WaitTimesOut(a) ==
    /\ pc[a] = "insert"
    /\ Holders(a) # {}
    /\ StatementTimesOut(a)

\* A round trip over a transaction the server has ended gets an error.
LossIsNoticed(a) == tx[a] = "aborted" /\ ConnectionLost(a)

(***************************************************************************)
(* The event loop resumes every task whose await is over, the server runs  *)
(* every COMMIT it received and enforces statement_timeout, and the driver *)
(* reports a connection the server closed.  Nothing is assumed of faults,  *)
(* nor of when the server finds out that a client is gone.                 *)
(***************************************************************************)
Fairness ==
    \A a \in Attempt :
        /\ WF_vars(Serve(a))
        /\ WF_vars(ApplyCommit(a))
        /\ WF_vars(WaitTimesOut(a))
        /\ WF_vars(LossIsNoticed(a))

FairSpec == Spec /\ Fairness

\* The server finds out that a client is gone.
Reap(a) == pc[a] \in {"answered", "dead"} /\ Abort(a)

(***************************************************************************)
(* Properties.                                                             *)
(***************************************************************************)

TypeOK ==
    /\ body \in [Attempt -> Body \cup {None}]
    /\ event \in [Attempt -> Event \cup {None}]
    /\ pc \in [Attempt -> Pc]
    /\ result \in [Attempt -> Answer \cup {None}]
    /\ reply \in [Attempt -> Answer \cup {None}]
    /\ tx \in [Attempt -> Tx]
    /\ table \subseteq Event

Told(a, codes) == reply[a] # None /\ reply[a].code \in codes
Acknowledged(a) == Told(a, {200, 201})

\* A producer that retries must not create a duplicate: however lookups, waits,
\* commits and losses interleave, no two recorded events carry the same key.
\* The pre-check alone does not ensure it; the index, and waiting on it, does.
OneEventPerKey == \A e, f \in table : SameKey(e, f) => e = f

\* a's event is one that the repository takes for a duplicate though it is not.
Misread(a) == event[a] # None /\ ~RecordedAfterOccurred(event[a]) /\ body[a].quotes

\* A task that lost the race for its key always finds the winner's row, however the
\* winner's transaction, its own savepoint and lost connections interleave: 409 is
\* left to events the CHECK refused and the repository took for duplicates.
ConflictIsRecovered ==
    \A a \in Attempt : Conflict \in {result[a], reply[a]} => Misread(a)

\* Clients may retry safely: any two acknowledged requests whose keys differ at
\* most by padding are told of the same event.
RetryIsSafe ==
    \A a, b \in Attempt :
        /\ Acknowledged(a)
        /\ Acknowledged(b)
        /\ body[a].key # NoKey
        /\ body[b].key # NoKey
        /\ Strip[body[a].key] = Strip[body[b].key]
        => reply[a].event = reply[b].event

\* An acknowledgement is never early: the event that a 201 or a 200 names is
\* committed, and it is the request's own or the one its key stands for.
AcknowledgedIsDurable ==
    \A a \in Attempt :
        Acknowledged(a) =>
            \E row \in table :
                /\ row.id = reply[a].event
                /\ IF reply[a].code = 201 THEN row = event[a] ELSE SameKey(row, event[a])

\* An answer other than 500 is the end of it.  The unit of work's exit runs on
\* every path out of record, so an answered request has no transaction left that
\* holds a key or a pooled connection; and unless it was answered 201 its own
\* event is not in the table.
AnswerIsFinal ==
    \A a \in Attempt :
        /\ Told(a, {200, 201, 409, 422}) => tx[a] \in {"none", "committed", "aborted"}
        /\ Told(a, {200, 409, 422}) => event[a] \notin table

\* Ingest lag is never negative in the log, although producers' clocks may run
\* ahead of the server's and the domain does not compare the two timestamps.
LagIsNotNegative == \A row \in table : row.at <= row.rec

\* The promise to producers, refined step by step.
Log == INSTANCE EventLog WITH offered <- event, log <- table, answer <- reply
RefinesEventLog == Log!Spec

\* Every request that arrived is answered, or its process died: a task that
\* waits for a key is released even if the holder's client is gone for good.
EveryRequestIsAnswered ==
    \A a \in Attempt : pc[a] # "unsent" ~> pc[a] \in {"answered", "dead"}

(***************************************************************************)
(* The inductive invariant behind them.  An attempt claims its key from    *)
(* the moment its row is in the index, committed or not.                   *)
(***************************************************************************)
Claimed == Pending \cup {"committed"}

\* Only tasks that arrived have an event; it bears their id and the key they sent.
EventsAreOwn ==
    \A a \in Attempt :
        /\ event[a] # None => /\ event[a].id = a
                              /\ body[a] \in Body /\ ~Malformed(body[a])
                              /\ event[a].key = CleanKey(body[a])
        /\ pc[a] \notin {"unsent", "answered"} => event[a] # None
        /\ tx[a] # "none" => event[a] # None

TableIsCommitted == table = {event[a] : a \in {b \in Attempt : tx[b] = "committed"}}

\* A key is claimed once, and only by events that pass the CHECK.
ClaimsAreUnique ==
    \A a \in Attempt :
        tx[a] \in Claimed =>
            /\ RecordedAfterOccurred(event[a])
            /\ \A b \in Attempt :
                   tx[b] \in Claimed /\ SameKey(event[b], event[a]) => b = a

\* What outcome r, returned or answered, takes to be true of a.
Justified(a, r) ==
    \/ r = Created(a) /\ tx[a] = "committed"
    \/ \E row \in table :
           /\ r = Replayed(row.id)
           /\ SameKey(row, event[a])
           /\ tx[a] \in {"open", "aborted"}
    \/ /\ r = Invalid
       /\ event[a] # None => ~RecordedAfterOccurred(event[a])
       /\ tx[a] \in {"none", "open", "aborted"}
    \/ /\ r = Conflict
       /\ Misread(a)
       /\ tx[a] \in {"open", "aborted"}
    \/ r = Failed

\* Where a task is says what the server has of its transaction.
TaskAgrees(a) ==
    /\ pc[a] = "unsent" => tx[a] = "none" /\ event[a] = None
    /\ pc[a] # "answered" => reply[a] = None
    /\ pc[a] \in {"lookup", "insert"} => tx[a] \in {"none", "open", "aborted"}
    /\ pc[a] = "recover" => /\ tx[a] \in {"open", "aborted"}
                            /\ RowsWithKeyOf(event[a]) # {} \/ Misread(a)
    /\ pc[a] = "commit" => tx[a] \in {"holding", "aborted"}
    /\ pc[a] = "committing" => tx[a] \in {"committing", "committed", "aborted"}
    /\ pc[a] = "exit" => /\ tx[a] \in {"open", "aborted", "committed"}
                         /\ Justified(a, result[a])
    /\ pc[a] = "answered" => /\ Justified(a, reply[a])
                             /\ reply[a] # Failed => tx[a] # "open"
    /\ result[a] = Conflict => Misread(a)

TasksAgreeWithServer == \A a \in Attempt : TaskAgrees(a)

IInv == TypeOK /\ EventsAreOwn /\ TableIsCommitted /\ ClaimsAreUnique /\ TasksAgreeWithServer

\* What a comment on the table's CHECK says of the domain: that it already
\* guarantees that no event is dated after its recording.
DomainOrdersTimestamps ==
    \A a \in Attempt : event[a] # None => RecordedAfterOccurred(event[a])

\* What a comment in the repository says of a failed CHECK: that it is reported as
\* invalid input, not as a conflict.
FailedChecksAreInvalid ==
    \A a \in Attempt : reply[a] = Conflict => RecordedAfterOccurred(event[a])
=============================================================================
