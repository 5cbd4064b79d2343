------------------------------- MODULE Events -------------------------------
(***************************************************************************)
(* The vocabulary of the event log, shared by the modules about ingest:    *)
(* what a request offers, what a recorded event is, and what the API       *)
(* answers.  Source, kind, severity and payload are carried through ingest *)
(* unread, so an event keeps only what decides its fate: its identity, its *)
(* idempotency key and its two timestamps.  Of a request's text one thing  *)
(* more matters: whether the name of the unique index occurs in it.        *)
(***************************************************************************)
EXTENDS Naturals

CONSTANTS
    Attempt,   \* POST requests, each one an HTTP call handled by one task.
               \* uuid4 gives every attempt a fresh event id: the id is the attempt
    RawKey,    \* idempotency keys as producers write them, padding included
    Key,       \* idempotency keys after str.strip
    Strip,     \* what the stripping and its checks do to each raw key
    Blank,     \* the outcome of stripping for a key that is refused
    NoKey,     \* no idempotency key: the column is NULL
    Naive,     \* an occurred_at without a timezone offset
    None,      \* Python's None
    Time,      \* instants, as read from clocks
    Body       \* request bodies, as the schema lets them through

ASSUME StripType == Strip \in [RawKey -> Key \cup {Blank}]
ASSUME TimeType == Time \subseteq Nat
ASSUME Markers == /\ NoKey \notin Key \cup RawKey
                  /\ Blank \notin Key
                  /\ None \notin Time
                  /\ None \notin Attempt
                  /\ None \notin Body
                  /\ Naive \notin Time \cup {None}

\* Key and timestamp are optional, and either may still be refused by the domain.
\* `quotes' says that source, kind, payload or key contains the name of the index.
ASSUME BodyType ==
    Body \subseteq [key : RawKey \cup {NoKey}, at : Time \cup {None, Naive}, quotes : BOOLEAN]

\* Mutant of CleanKey: keys are stored as they come, padding included.
CleanKeyUnstripped(b) == b.key

\* The key of the NewEvent built from body b.
CleanKey(b) == IF b.key = NoKey THEN NoKey ELSE Strip[b.key]

NaiveTimestamp(b) == b.at = Naive

\* Mutant of Malformed: a blank key is let through.
MalformedIfNaive(b) == NaiveTimestamp(b)

\* NewEvent refuses a blank key and a timestamp without an offset (and a blank
\* source or kind, which is no different to anyone downstream).
Malformed(b) == CleanKey(b) = Blank \/ NaiveTimestamp(b)

Event == [id : Attempt, key : Key \cup {NoKey}, at : Time, rec : Time]

\* NewEvent.materialise: attempt a's event out of body b, recorded at `now'.
Materialise(a, b, now) ==
    [id  |-> a,
     key |-> CleanKey(b),
     at  |-> IF b.at = None THEN now ELSE b.at,
     rec |-> now]

\* Mutant of RecordedAfterOccurred: the CHECK is missing.
Unchecked(e) == TRUE

\* The table's CHECK that recording does not precede the occurrence.
RecordedAfterOccurred(e) == e.at <= e.rec

\* The partial unique index: only events that carry a key can collide.
SameKey(e, f) == e.key # NoKey /\ e.key = f.key

(***************************************************************************)
(* Answers of POST /v1/events, with the id of the event in the body.       *)
(***************************************************************************)
Created(id)  == [code |-> 201, event |-> id]
Replayed(id) == [code |-> 200, event |-> id]
Conflict     == [code |-> 409, event |-> None]
Invalid      == [code |-> 422, event |-> None]
Failed       == [code |-> 500, event |-> None]

Answer == [code : {200, 201, 409, 422, 500}, event : Attempt \cup {None}]

ASSUME NoneIsNoRecord == None \notin Event /\ None \notin Answer
=============================================================================
