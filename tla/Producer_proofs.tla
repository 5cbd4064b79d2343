--------------------------- MODULE Producer_proofs ---------------------------
(***************************************************************************)
(* Producers that send again until they are answered, for any number of    *)
(* them, of requests and of faults.  What is known of the ingest path      *)
(* (module Ingest_proofs) goes on to hold when attempts are used again;    *)
(* to it comes that an event is its sender's, and bears its key.           *)
(***************************************************************************)
EXTENDS Producer, Ingest_proofs, FiniteSetTheorems

\* An attempt that has begun has an event, which is what its sender offers.
EventsAreOffered ==
    \A a \in Attempt :
        /\ pc[a] # "unsent" => event[a] # None
        /\ event[a] # None => /\ sender[a] \in Producer
                              /\ event[a].key = CleanKey(BodyOf[sender[a]])
                              /\ event[a].at \in {event[a].rec, BodyOf[sender[a]].at}

\* A producer waits for a request of its own, and for as long as it knows nothing.
WaitsAreOwn ==
    \A p \in Producer :
        awaiting[p] # None => sender[awaiting[p]] = p /\ heard[p] = None

PInv == PTypeOK /\ IInv /\ EventsAreOffered /\ WaitsAreOwn /\ HeardIsOwn

LEMMA OffersAreSound ==
    ASSUME NEW p \in Producer
    PROVE  BodyOf[p] \in Body /\ ~Malformed(BodyOf[p])
BY BodyOfType

LEMMA InitPInv == PInit => PInv
<1> SUFFICES ASSUME PInit PROVE PInv
  OBVIOUS
<1>1. IInv
  BY InitIInv DEF PInit
<1>2. PTypeOK
  BY <1>1, MaxFaultsType DEF PInit, PTypeOK, IInv
<1>3. EventsAreOffered /\ WaitsAreOwn /\ HeardIsOwn
  BY DEF PInit, Init, EventsAreOffered, WaitsAreOwn, HeardIsOwn
<1> QED
  BY <1>1, <1>2, <1>3 DEF PInv

(***************************************************************************)
(* The ingest path under attempts that are used again.                     *)
(***************************************************************************)

\* Every step of the composition is one of Ingest, or none, or Recycle.
LEMMA IngestStep ==
    ASSUME PInv, [PNext]_pvars
    PROVE  [Next]_vars \/ \E a \in Attempt : Recycle(a)
<1>1. ASSUME NEW a \in Attempt, Deliver(a)
      PROVE  Next
  <2>1. PICK now \in Time : Accept(a, BodyOf[sender[a]], now)
    BY <1>1 DEF Deliver
  <2>2. sender[a] \in Producer
    BY <1>1 DEF Deliver, PInv, PTypeOK
  <2>3. BodyOf[sender[a]] \in Body
    BY <2>2, OffersAreSound
  <2> QED
    BY <2>1, <2>3 DEF Next, Receive
<1>2. ASSUME NEW a \in Attempt, Serves(a) \/ Applies(a) \/ Follows(a) \/ Fails(a)
      PROVE  Next
  BY <1>2 DEF Serves, Applies, Follows, Fails, WaitTimesOut, LossIsNoticed, Reap,
              Fault, Next
<1>3. ASSUME NEW p \in Producer, Send(p) \/ Hear(p) \/ GiveUp(p)
      PROVE  UNCHANGED vars
  BY <1>3 DEF Send, Hear, GiveUp
<1>4. CASE UNCHANGED pvars
  BY <1>4 DEF pvars
<1> QED
  BY <1>1, <1>2, <1>3, <1>4 DEF PNext, GoesOn

LEMMA RecycleIInv ==
    ASSUME IInv, NEW a \in Attempt, Recycle(a)
    PROVE  IInv'
<1>1. /\ tx[a] \in {"none", "aborted"}
      /\ body'[a] = None /\ event'[a] = None /\ pc'[a] = "unsent"
      /\ result'[a] = None /\ reply'[a] = None /\ tx'[a] = "none"
      /\ \A c \in Attempt \ {a} :
             /\ body'[c] = body[c] /\ event'[c] = event[c] /\ pc'[c] = pc[c]
             /\ result'[c] = result[c] /\ reply'[c] = reply[c] /\ tx'[c] = tx[c]
      /\ table' = table
  BY DEF Recycle, IInv, TypeOK
<1>2. TypeOK'
  BY DEF Recycle, IInv, TypeOK, Pc, Tx
<1>3. EventsAreOwn'
  BY <1>1 DEF IInv, EventsAreOwn
<1>4. TableIsCommitted'
  BY <1>1 DEF IInv, TableIsCommitted
<1>5. ClaimsAreUnique'
  BY <1>1 DEF IInv, ClaimsAreUnique, Claimed, Pending
<1>6. TasksAgreeWithServer'
  <2>1. TaskAgrees(a)'
    BY <1>1, AnswersDiffer, NoneIsNoRecord DEF TaskAgrees
  <2>2. ASSUME NEW c \in Attempt \ {a} PROVE TaskAgrees(c)'
    BY <1>1, OthersUndisturbed DEF IInv, TasksAgreeWithServer
  <2> QED
    BY <2>1, <2>2 DEF TasksAgreeWithServer
<1> QED
  BY <1>2, <1>3, <1>4, <1>5, <1>6 DEF IInv

LEMMA StepIInv ==
    ASSUME PInv, [PNext]_pvars
    PROVE  IInv'
<1>1. CASE [Next]_vars
  BY <1>1, StepTypeOK, StepEventsAreOwn, StepTableIsCommitted, StepClaimsAreUnique,
     StepTasksAgree
     DEF PInv, IInv
<1>2. ASSUME NEW a \in Attempt, Recycle(a) PROVE IInv'
  BY <1>2, RecycleIInv DEF PInv
<1> QED
  BY <1>1, <1>2, IngestStep

(***************************************************************************)
(* Whose events they are.                                                  *)
(***************************************************************************)

\* A row is the event of an attempt that is not up for other use.
LEMMA RowsAreSent ==
    ASSUME PInv, NEW row \in table
    PROVE  /\ row.id \in Attempt /\ row = event[row.id] /\ tx[row.id] = "committed"
           /\ sender[row.id] \in Producer /\ row.key = CleanKey(BodyOf[sender[row.id]])
<1>1. PICK a \in Attempt : tx[a] = "committed" /\ row = event[a]
  BY DEF PInv, IInv, TableIsCommitted
<1>2. event[a] # None /\ event[a].id = a
  BY <1>1 DEF PInv, IInv, EventsAreOwn
<1> QED
  BY <1>1, <1>2 DEF PInv, EventsAreOffered

\* What a step leaves of senders and rows: an attempt that has an event keeps its
\* sender, unless it is recycled, and rows stay.
LEMMA RowsKeepTheirSender ==
    ASSUME PInv, [PNext]_pvars
    PROVE  table \subseteq table' /\ \A row \in table : sender'[row.id] = sender[row.id]
<1>1. CASE [Next]_vars
  <2>1. table \subseteq table'
    BY <1>1, TableGrows
  <2>2. CASE UNCHANGED sender
    BY <2>1, <2>2
  <2>3. ASSUME NEW p \in Producer, Send(p)
        PROVE  \A row \in table : sender'[row.id] = sender[row.id]
    <3>1. PICK a \in Attempt : sender[a] = None /\ sender' = [sender EXCEPT ![a] = p]
      BY <2>3 DEF Send
    <3>2. \A row \in table : row.id \in Attempt \ {a}
      BY <3>1, RowsAreSent, KeysAreOwn
    <3> QED
      BY <3>1, <3>2 DEF PInv, PTypeOK
  <2>4. ASSUME NEW a \in Attempt, Recycle(a)
        PROVE  \A row \in table : sender'[row.id] = sender[row.id]
    <3>1. \A row \in table : row.id \in Attempt \ {a}
      BY <2>4, RowsAreSent DEF Recycle
    <3> QED
      BY <2>4, <3>1 DEF Recycle, PInv, PTypeOK
  <2> QED
    BY <2>1, <2>2, <2>3, <2>4
       DEF PNext, pvars, client, Hear, GiveUp, GoesOn, Deliver, Serves, Applies,
           Follows, Fails
<1>2. ASSUME NEW a \in Attempt, Recycle(a)
      PROVE  table \subseteq table' /\ \A row \in table : sender'[row.id] = sender[row.id]
  <2>1. \A row \in table : row.id \in Attempt \ {a}
    BY <1>2, RowsAreSent DEF Recycle
  <2> QED
    BY <1>2, <2>1 DEF Recycle, PInv, PTypeOK
<1> QED
  BY <1>1, <1>2, IngestStep

LEMMA StepPTypeOK ==
    ASSUME PInv, [PNext]_pvars
    PROVE  PTypeOK'
<1>1. TypeOK'
  BY StepIInv DEF IInv
<1>2. ASSUME NEW p \in Producer, Send(p) \/ Hear(p) \/ GiveUp(p)
      PROVE  PTypeOK'
  BY <1>1, <1>2, MaxFaultsType DEF Send, Hear, GiveUp, GoesWrong, PInv, PTypeOK, TypeOK
<1>3. ASSUME NEW a \in Attempt, GoesOn(a) \/ Fails(a)
      PROVE  PTypeOK'
  BY <1>1, <1>3, MaxFaultsType
     DEF GoesOn, Deliver, Serves, Applies, Follows, Recycle, Fails, GoesWrong, client,
         PInv, PTypeOK
<1>4. CASE UNCHANGED pvars
  BY <1>1, <1>4 DEF pvars, client, PInv, PTypeOK
<1> QED
  BY <1>2, <1>3, <1>4 DEF PNext

\* Whatever an attempt does once it was accepted, it keeps its event.
LEMMA EventsStay ==
    ASSUME TypeOK, NEW a \in Attempt, Serve(a) \/ ApplyCommit(a) \/ Fault(a)
    PROVE  /\ event' = event
           /\ \A c \in Attempt : pc'[c] # "unsent" => pc[c] # "unsent"
<1> USE DEF TypeOK, task, Reads, Goto, Leave, Answers, AtStatement
<1>1. CASE Serve(a)
  BY <1>1 DEF Serve, Lookup, InsertInvalid, InsertMisread, InsertConflicts, Conflicts,
              InsertStages, Recover, SendCommit, CommitReturns, Exit
<1>2. CASE ApplyCommit(a) \/ Fault(a)
  BY <1>2 DEF ApplyCommit, Fault, StatementTimesOut, ConnectionLost, Die, Abort
<1> QED
  BY <1>1, <1>2

LEMMA StepEventsAreOffered ==
    ASSUME PInv, [PNext]_pvars
    PROVE  EventsAreOffered'
<1> USE DEF PInv, PTypeOK, EventsAreOffered
<1>1. ASSUME NEW p \in Producer, Send(p)
      PROVE  EventsAreOffered'
  BY <1>1, KeysAreOwn DEF Send, vars
<1>2. ASSUME NEW p \in Producer, Hear(p) \/ GiveUp(p)
      PROVE  EventsAreOffered'
  BY <1>2 DEF Hear, GiveUp, vars
<1>3. ASSUME NEW a \in Attempt, Deliver(a)
      PROVE  EventsAreOffered'
  <2>1. PICK now \in Time : Accept(a, BodyOf[sender[a]], now)
    BY <1>3 DEF Deliver
  <2>2. sender[a] \in Producer /\ sender' = sender
    BY <1>3 DEF Deliver, client
  <2> DEFINE e == Materialise(a, BodyOf[sender[a]], now)
  <2>3. BodyOf[sender[a]] \in Body /\ ~Malformed(BodyOf[sender[a]])
    BY <2>2, OffersAreSound
  <2>4. e # None /\ e.key = CleanKey(BodyOf[sender[a]])
    BY <2>3, MaterialiseType, NoneIsNoRecord
  <2>5. e.at \in {e.rec, BodyOf[sender[a]].at}
    BY DEF Materialise
  <2>6. event' = [event EXCEPT ![a] = e]
    BY <2>1 DEF Accept
  <2>7. \A c \in Attempt \ {a} : pc'[c] = pc[c]
    BY <2>1 DEF Accept, Goto, TypeOK
  <2> HIDE DEF e
  <2> QED
    BY <2>2, <2>4, <2>5, <2>6, <2>7 DEF TypeOK
<1>4. ASSUME NEW a \in Attempt, Serves(a) \/ Applies(a) \/ Follows(a) \/ Fails(a)
      PROVE  EventsAreOffered'
  <2>1. Serve(a) \/ ApplyCommit(a) \/ Fault(a)
    BY <1>4 DEF Serves, Applies, Follows, Fails, WaitTimesOut, LossIsNoticed, Reap, Fault
  <2>2. sender' = sender
    BY <1>4 DEF Serves, Applies, Follows, Fails, client
  <2> QED
    BY <2>1, <2>2, EventsStay
<1>5. ASSUME NEW a \in Attempt, Recycle(a)
      PROVE  EventsAreOffered'
  BY <1>5 DEF Recycle, TypeOK
<1>6. CASE UNCHANGED pvars
  BY <1>6 DEF pvars, vars, client
<1> QED
  BY <1>1, <1>2, <1>3, <1>4, <1>5, <1>6 DEF PNext, GoesOn

LEMMA StepWaitsAreOwn ==
    ASSUME PInv, [PNext]_pvars
    PROVE  WaitsAreOwn'
<1> USE DEF PInv, PTypeOK, WaitsAreOwn
<1>1. ASSUME NEW p \in Producer, Send(p)
      PROVE  WaitsAreOwn'
  BY <1>1, KeysAreOwn DEF Send
<1>2. ASSUME NEW p \in Producer, Hear(p) \/ GiveUp(p)
      PROVE  WaitsAreOwn'
  BY <1>2 DEF Hear, GiveUp
<1>3. ASSUME NEW a \in Attempt, Recycle(a)
      PROVE  WaitsAreOwn'
  BY <1>3 DEF Recycle
<1>4. CASE UNCHANGED client
  BY <1>4 DEF client
<1> QED
  BY <1>1, <1>2, <1>3, <1>4
     DEF PNext, pvars, GoesOn, Deliver, Serves, Applies, Follows, Fails

\* What a producer hears is final: its request is in the table, or a row of its key, or
\* its date was ahead of the clock it was recorded by.
LEMMA HeardIsRecorded ==
    ASSUME PInv, NEW p \in Producer, Hear(p),
           reply[awaiting[p]] \notin {None, Failed}
    PROVE  IF Acknowledges(reply[awaiting[p]])
           THEN \E row \in table : row.id = reply[awaiting[p]].event /\ sender[row.id] = p
           ELSE DatedAhead(p)
<1> DEFINE a == awaiting[p]
<1>1. a \in Attempt /\ sender[a] = p /\ Over(a)
  BY DEF Hear, PInv, PTypeOK, WaitsAreOwn
<1>2. Justified(a, reply[a])
  BY <1>1 DEF PInv, IInv, TasksAgreeWithServer, TaskAgrees, Over
<1>3. reply[a] \notin {None, Failed}
  OBVIOUS
<1>4. /\ event[a] # None /\ event[a].id = a
      /\ event[a].key = CleanKey(BodyOf[p]) /\ event[a].at \in {event[a].rec, BodyOf[p].at}
  BY <1>1 DEF PInv, EventsAreOffered, Over, IInv, EventsAreOwn
<1>5. ASSUME ~RecordedAfterOccurred(event[a])
      PROVE  DatedAhead(p)
  <2>1. event[a].rec \in Time /\ event[a].at \in Time
    BY <1>1, <1>4 DEF PInv, IInv, TypeOK, Event
  <2>2. ~(event[a].at <= event[a].rec) /\ event[a].rec \in Nat /\ event[a].at \in Nat
    BY <1>5, <2>1, TimeType DEF RecordedAfterOccurred
  <2>3. event[a].rec < event[a].at
    BY <2>2
  <2>4. event[a].at = BodyOf[p].at
    BY <1>4, <2>2, <2>3
  <2> QED
    BY <2>1, <2>3, <2>4 DEF DatedAhead
<1>6. CASE reply[a] = Created(a) /\ tx[a] = "committed"
  <2>1. event[a] \in table
    BY <1>1, <1>6 DEF PInv, IInv, TableIsCommitted
  <2>2. reply[a].event = a /\ Acknowledges(reply[a])
    BY <1>6, <1>3 DEF Created, Acknowledges
  <2> QED
    BY <1>1, <1>4, <2>1, <2>2
<1>7. ASSUME NEW row \in table, reply[a] = Replayed(row.id), SameKey(row, event[a])
      PROVE  Acknowledges(reply[a]) /\ row.id = reply[a].event /\ sender[row.id] = p
  <2>1. reply[a].event = row.id /\ Acknowledges(reply[a])
    BY <1>7, <1>3 DEF Replayed, Acknowledges
  <2>2. sender[row.id] \in Producer /\ CleanKey(BodyOf[sender[row.id]]) = CleanKey(BodyOf[p])
    BY <1>4, <1>7, RowsAreSent DEF SameKey
  <2> QED
    BY <2>1, <2>2, KeysAreOwn
<1>8. CASE reply[a] \in {Invalid, Conflict} /\ ~RecordedAfterOccurred(event[a])
  BY <1>5, <1>8 DEF Acknowledges, Invalid, Conflict
<1> QED
  BY <1>2, <1>4, <1>6, <1>7, <1>8, <1>3 DEF Justified, Misread

LEMMA StepHeardIsOwn ==
    ASSUME PInv, [PNext]_pvars
    PROVE  HeardIsOwn'
<1>1. table \subseteq table' /\ \A row \in table : sender'[row.id] = sender[row.id]
  BY RowsKeepTheirSender
<1>2. CASE UNCHANGED heard
  BY <1>1, <1>2 DEF PInv, HeardIsOwn, Acknowledges, DatedAhead
<1>3. ASSUME NEW p \in Producer, Hear(p), heard' # heard
      PROVE  HeardIsOwn'
  <2>1. /\ reply[awaiting[p]] \notin {None, Failed}
        /\ heard' = [heard EXCEPT ![p] = reply[awaiting[p]]]
    BY <1>3 DEF Hear
  <2>2. IF Acknowledges(heard'[p])
        THEN \E row \in table : row.id = heard'[p].event /\ sender[row.id] = p
        ELSE DatedAhead(p)
    BY <1>3, <2>1, HeardIsRecorded DEF PInv, PTypeOK
  <2>3. \A q \in Producer \ {p} : heard'[q] = heard[q]
    BY <2>1 DEF PInv, PTypeOK
  <2> QED
    BY <1>1, <2>2, <2>3 DEF PInv, HeardIsOwn, Acknowledges, DatedAhead
<1> QED
  BY <1>2, <1>3
     DEF PNext, pvars, client, Send, GiveUp, GoesOn, Deliver, Serves, Applies, Follows,
         Recycle, Fails

LEMMA StepPInv == PInv /\ [PNext]_pvars => PInv'
BY StepPTypeOK, StepIInv, StepEventsAreOffered, StepWaitsAreOwn, StepHeardIsOwn DEF PInv

\* In every reachable state, events are offered by their senders, and what was heard
\* is one's own.
THEOREM ProducerInvariance == PSpec => []PInv
<1>1. PInit => PInv
  BY InitPInv
<1>2. PInv /\ [PNext]_pvars => PInv'
  BY StepPInv
<1> QED
  BY <1>1, <1>2, PTL DEF PSpec

\* Type correctness of producers and the ingest path.
THEOREM ProducerTypeCorrect == PSpec => []PTypeOK
<1>1. PInv => PTypeOK
  BY DEF PInv
<1> QED
  BY <1>1, ProducerInvariance, PTL

\* No producer takes another's event for its own, and none is refused but for a date
\* ahead of a clock, however its requests were lost, repeated, overtaken or answered late.
THEOREM AnswersAreOwn == PSpec => []HeardIsOwn
<1>1. PInv => HeardIsOwn
  BY DEF PInv
<1> QED
  BY <1>1, ProducerInvariance, PTL

(***************************************************************************)
(* Delivery, exactly once.                                                 *)
(***************************************************************************)

\* A producer has no two rows, for they would share its key.
LEMMA RecordedOnce ==
    ASSUME PInv, NEW p \in Producer, NEW row \in RecordedOf(p)
    PROVE  RecordedOf(p) = {row}
<1>1. ASSUME NEW other \in RecordedOf(p) PROVE other = row
  <2>1. /\ row \in table /\ other \in table
        /\ row.key = CleanKey(BodyOf[p]) /\ other.key = CleanKey(BodyOf[p])
    BY RowsAreSent DEF RecordedOf
  <2>2. SameKey(other, row)
    BY <2>1, KeysAreOwn DEF SameKey
  <2> QED
    BY <2>1, <2>2, IInvOneEventPerKey DEF PInv, OneEventPerKey
<1> QED
  BY <1>1

\* So there is one to count, or none.
LEMMA RecordedCounts ==
    /\ \A p : RecordedOf(p) = {} => Cardinality(RecordedOf(p)) = 0
    /\ \A p, row : RecordedOf(p) = {row} => Cardinality(RecordedOf(p)) = 1
BY FS_EmptySet, FS_Singleton

\* What a producer has on record changes by the commit of a first event of its own.
LEMMA RecordStep ==
    ASSUME PInv, [PNext]_pvars
    PROVE  \/ \A p \in Producer : RecordedOf(p)' = RecordedOf(p)
           \/ /\ UNCHANGED heard
              /\ \E p \in Producer :
                     /\ RecordedOf(p) = {}
                     /\ \E row : RecordedOf(p)' = {row}
                     /\ \A q \in Producer \ {p} : RecordedOf(q)' = RecordedOf(q)
<1>1. \A row \in table : sender'[row.id] = sender[row.id]
  BY RowsKeepTheirSender
<1>2. CASE table' = table
  BY <1>1, <1>2 DEF RecordedOf
<1>3. ASSUME NEW a \in Attempt, Applies(a)
      PROVE  /\ UNCHANGED heard
             /\ \E p \in Producer :
                    /\ RecordedOf(p) = {}
                    /\ \E row : RecordedOf(p)' = {row}
                    /\ \A q \in Producer \ {p} : RecordedOf(q)' = RecordedOf(q)
  <2>1. /\ tx[a] = "committing" /\ table' = table \cup {event[a]}
        /\ UNCHANGED heard /\ sender' = sender
    BY <1>3 DEF Applies, ApplyCommit, client
  <2> DEFINE p == sender[a]
  <2>2. event[a] # None /\ event[a].id = a
    BY <2>1 DEF PInv, IInv, EventsAreOwn
  <2>3. p \in Producer /\ event[a].key = CleanKey(BodyOf[p])
    BY <2>2 DEF PInv, EventsAreOffered
  <2>4. RecordedOf(p) = {}
    <3> SUFFICES ASSUME NEW row \in table, sender[row.id] = p PROVE FALSE
      BY DEF RecordedOf
    <3>1. row.id \in Attempt /\ row = event[row.id] /\ tx[row.id] = "committed"
      BY RowsAreSent
    <3>2. SameKey(row, event[a])
      BY <2>3, RowsAreSent, KeysAreOwn DEF SameKey
    <3>3. row.id = a
      BY <2>1, <3>1, <3>2 DEF PInv, IInv, ClaimsAreUnique, Claimed, Pending
    <3> QED
      BY <2>1, <3>1, <3>3
  <2>5. RecordedOf(p)' = {event[a]}
    BY <2>1, <2>2, <2>4 DEF RecordedOf
  <2>6. \A q \in Producer \ {p} : RecordedOf(q)' = RecordedOf(q)
    BY <2>1, <2>2 DEF RecordedOf
  <2> QED
    BY <2>1, <2>3, <2>4, <2>5, <2>6
<1>4. table' = table \/ \E a \in Attempt : Applies(a)
  BY DEF PNext, pvars, vars, Send, Hear, GiveUp, GoesOn, Deliver, Accept, Serves, Serve,
         Lookup, InsertInvalid, InsertMisread, InsertConflicts, InsertStages, Recover, SendCommit,
         CommitReturns, Exit, Follows, WaitTimesOut, StatementTimesOut, LossIsNoticed,
         ConnectionLost, Reap, Abort, Recycle, Fails, Fault, Die
<1> QED
  BY <1>2, <1>3, <1>4

\* What producers know changes by hearing of what is on record.
LEMMA HeardStep ==
    ASSUME PInv, [PNext]_pvars, UNCHANGED table
    PROVE  \/ Knowing' = Knowing /\ Refused' = Refused
           \/ \E p \in Producer :
                  /\ p \notin Knowing \cup Refused
                  /\ \/ /\ Knowing' = Knowing \cup {p} /\ Refused' = Refused
                        /\ \E row : RecordedOf(p) = {row}
                     \/ /\ Refused' = Refused \cup {p} /\ Knowing' = Knowing
                        /\ DatedAhead(p)
<1>1. CASE UNCHANGED heard
  BY <1>1 DEF Knowing, Refused, Acknowledges
<1>2. ASSUME NEW p \in Producer, Hear(p), heard' # heard
      PROVE  /\ p \notin Knowing \cup Refused
             /\ \/ /\ Knowing' = Knowing \cup {p} /\ Refused' = Refused
                   /\ \E row : RecordedOf(p) = {row}
                \/ /\ Refused' = Refused \cup {p} /\ Knowing' = Knowing
                   /\ DatedAhead(p)
  <2>1. /\ reply[awaiting[p]] \notin {None, Failed}
        /\ heard' = [heard EXCEPT ![p] = reply[awaiting[p]]]
        /\ heard[p] = None
    BY <1>2 DEF Hear, PInv, WaitsAreOwn
  <2>2. /\ heard'[p] = reply[awaiting[p]] /\ heard'[p] # None
        /\ \A q \in Producer \ {p} : heard'[q] = heard[q]
    BY <2>1 DEF PInv, PTypeOK
  <2>3. p \notin Knowing \cup Refused
    BY <2>1 DEF Knowing, Refused, Acknowledges
  <2>4. CASE Acknowledges(reply[awaiting[p]])
    <3>1. \E row \in table : sender[row.id] = p
      BY <1>2, <2>1, <2>4, HeardIsRecorded
    <3>2. \E row : row \in RecordedOf(p)
      BY <3>1 DEF RecordedOf
    <3>3. Knowing' = Knowing \cup {p} /\ Refused' = Refused
      BY <2>1, <2>2, <2>4 DEF Knowing, Refused, Acknowledges
    <3> QED
      BY <2>3, <3>2, <3>3, RecordedOnce
  <2>5. CASE ~Acknowledges(reply[awaiting[p]])
    <3>1. DatedAhead(p)
      BY <1>2, <2>1, <2>5, HeardIsRecorded
    <3>2. Refused' = Refused \cup {p} /\ Knowing' = Knowing
      BY <2>1, <2>2, <2>5 DEF Knowing, Refused, Acknowledges
    <3> QED
      BY <2>3, <3>1, <3>2
  <2> QED
    BY <2>4, <2>5
<1> QED
  BY <1>1, <1>2
     DEF PNext, pvars, client, Send, GiveUp, GoesOn, Deliver, Serves, Applies, Follows,
         Recycle, Fails

\* One step of the ingest path and its producers is one of Delivery, or none.
LEMMA DeliveryStep == PInv /\ [PNext]_pvars => [Exactly!Next]_(Exactly!vars)
<1> SUFFICES ASSUME PInv, [PNext]_pvars PROVE [Exactly!Next]_(Exactly!vars)
  OBVIOUS
<1> DEFINE recorded == [p \in Producer |-> Cardinality(RecordedOf(p))]
<1>1. \A p \in Producer : /\ RecordedOf(p) = {} => recorded[p] = 0
                          /\ \A row : RecordedOf(p) = {row} => recorded[p] = 1
  BY RecordedCounts
<1>2. \A p \in Producer : \A row : RecordedOf(p)' = {row} => recorded'[p] = 1
  BY FS_Singleton
<1>3. \A p \in Producer : RecordedOf(p)' = RecordedOf(p) => recorded'[p] = recorded[p]
  OBVIOUS
<1>4. CASE \A p \in Producer : RecordedOf(p)' = RecordedOf(p)
  <2>1. recorded' = recorded
    BY <1>3, <1>4
  <2>2. CASE Knowing' = Knowing /\ Refused' = Refused
    BY <2>1, <2>2 DEF Exactly!vars
  <2>3. ASSUME NEW p \in Producer, p \notin Knowing \cup Refused,
               Knowing' = Knowing \cup {p}, Refused' = Refused,
               NEW row, RecordedOf(p) = {row}
        PROVE  Exactly!Tell(p)
    BY <1>1, <2>1, <2>3 DEF Exactly!Tell, Exactly!Settled
  <2>4. ASSUME NEW p \in Producer, p \notin Knowing \cup Refused,
               Refused' = Refused \cup {p}, Knowing' = Knowing, DatedAhead(p)
        PROVE  Exactly!Refuse(p)
    BY <2>1, <2>4 DEF Exactly!Refuse, Exactly!Settled
  <2>5. CASE table' = table
    BY <2>2, <2>3, <2>5, <2>4, HeardStep DEF Exactly!Next
  <2>6. CASE table' # table
    <3>1. UNCHANGED heard
      BY <2>6
         DEF PNext, pvars, client, vars, Send, Hear, GiveUp, GoesOn, Deliver, Serves,
             Applies, Follows, Recycle, Fails
    <3> QED
      BY <2>2, <3>1 DEF Knowing, Refused, Acknowledges
  <2> QED
    BY <2>5, <2>6
<1>5. ASSUME UNCHANGED heard, NEW p \in Producer, RecordedOf(p) = {},
             NEW row, RecordedOf(p)' = {row},
             \A q \in Producer \ {p} : RecordedOf(q)' = RecordedOf(q)
      PROVE  Exactly!Record(p)
  <2>1. recorded[p] = 0 /\ recorded'[p] = 1
    BY <1>1, <1>2, <1>5
  <2>2. \A q \in Producer \ {p} : recorded'[q] = recorded[q]
    BY <1>3, <1>5
  <2>3. recorded' = [recorded EXCEPT ![p] = 1]
    BY <2>1, <2>2
  <2>4. Knowing' = Knowing /\ Refused' = Refused
    BY <1>5 DEF Knowing, Refused, Acknowledges
  <2> QED
    BY <2>1, <2>3, <2>4 DEF Exactly!Record
<1> QED
  BY <1>4, <1>5, RecordStep DEF Exactly!Next

\* Sending again until it is answered records no event twice, no producer is told of one
\* that is not recorded, and none is refused but for a date ahead of a clock: the safety
\* half of RefinesDelivery.
THEOREM DeliveredAtMostOnce == PSpec => Exactly!Spec
<1>1. PInit => Exactly!Init
  <2> SUFFICES ASSUME PInit PROVE Exactly!Init
    OBVIOUS
  <2>1. \A p \in Producer : RecordedOf(p) = {} /\ heard[p] = None
    BY DEF PInit, Init, RecordedOf
  <2> QED
    BY <2>1, RecordedCounts DEF Exactly!Init, Knowing, Refused, Acknowledges
<1>2. PInv /\ [PNext]_pvars => [Exactly!Next]_(Exactly!vars)
  BY DeliveryStep
<1> QED
  BY <1>1, <1>2, ProducerInvariance, PTL DEF PSpec, Exactly!Spec
==============================================================================
