--------------------------- MODULE Ingest_proofs ---------------------------
(***************************************************************************)
(* Ingest, for any number of attempts, keys and instants.                  *)
(***************************************************************************)
EXTENDS Ingest, TLAPS

\* The event made out of a body that passed the domain's checks is well typed.
LEMMA MaterialiseType ==
    ASSUME NEW a \in Attempt, NEW b \in Body, NEW now \in Time, ~Malformed(b)
    PROVE  /\ Materialise(a, b, now) \in Event
           /\ Materialise(a, b, now).id = a
           /\ Materialise(a, b, now).key = CleanKey(b)
<1>1. /\ b.key \in RawKey \cup {NoKey}
      /\ b.at \in Time \cup {None, Naive}
  BY BodyType
<1>2. CleanKey(b) \in Key \cup {NoKey}
  BY <1>1, StripType DEF CleanKey, Malformed
<1>3. b.at \in Time \cup {None}
  BY <1>1 DEF Malformed, NaiveTimestamp
<1> QED
  BY <1>2, <1>3 DEF Materialise, Event

\* The five answers are answers, differ from each other, and tell whose event
\* they name.
LEMMA AnswersDiffer ==
    /\ {Conflict, Invalid, Failed} \subseteq Answer
    /\ \A id \in Attempt : {Created(id), Replayed(id)} \subseteq Answer
    /\ Conflict # Invalid /\ Conflict # Failed /\ Invalid # Failed
    /\ \A id : Conflict \notin {Created(id), Replayed(id)}
    /\ \A id : Invalid \notin {Created(id), Replayed(id)}
    /\ \A id : Failed \notin {Created(id), Replayed(id)}
    /\ \A i, j : Created(i) # Replayed(j)
    /\ \A i, j : Created(i) = Created(j) => i = j
    /\ \A i, j : Replayed(i) = Replayed(j) => i = j
  BY DEF Conflict, Invalid, Failed, Created, Replayed, Answer

\* A lookup that finds a row finds one, of the key it was asked for.
LEMMA FoundRow ==
    ASSUME TypeOK, NEW e, RowsWithKeyOf(e) # {}
    PROVE  LET row == CHOOSE r \in RowsWithKeyOf(e) : TRUE
           IN  row \in table /\ row \in Event /\ row.id \in Attempt /\ SameKey(row, e)
  BY DEF TypeOK, RowsWithKeyOf, Event

LEMMA InitIInv == Init => IInv
<1> SUFFICES ASSUME Init PROVE IInv
  OBVIOUS
<1>1. TypeOK
  BY DEF Init, TypeOK, Pc, Tx
<1>2. EventsAreOwn
  BY DEF Init, EventsAreOwn
<1>3. TableIsCommitted
  BY DEF Init, TableIsCommitted
<1>4. ClaimsAreUnique
  BY DEF Init, ClaimsAreUnique, Claimed, Pending
<1>5. TasksAgreeWithServer
  BY NoneIsNoRecord, AnswersDiffer DEF Init, TasksAgreeWithServer, TaskAgrees
<1> QED
  BY <1>1, <1>2, <1>3, <1>4, <1>5 DEF IInv

LEMMA StepTypeOK == IInv /\ [Next]_vars => TypeOK'
<1> SUFFICES ASSUME TypeOK, EventsAreOwn, [Next]_vars PROVE TypeOK'
  BY DEF IInv
<1> USE DEF TypeOK, task
<1>1. CASE UNCHANGED vars
  BY <1>1 DEF vars
<1>2. ASSUME NEW a \in Attempt, NEW b \in Body, Refuse(a, b)
      PROVE  TypeOK'
  BY <1>2 DEF Refuse, Answers, Invalid, Answer, Pc
<1>3. ASSUME NEW a \in Attempt, NEW b \in Body, NEW now \in Time, Accept(a, b, now)
      PROVE  TypeOK'
  <2>1. Materialise(a, b, now) \in Event
    BY <1>3, MaterialiseType DEF Accept
  <2> QED
    BY <1>3, <2>1 DEF Accept, Goto, Pc, AtStatement
<1>4. ASSUME NEW a \in Attempt, Lookup(a)
      PROVE  TypeOK'
  <2>1. RowsWithKeyOf(event[a]) # {} =>
            Replayed((CHOOSE row \in RowsWithKeyOf(event[a]) : TRUE).id) \in Answer
    BY FoundRow, AnswersDiffer
  <2> QED
    BY <1>4, <2>1 DEF Lookup, Reads, Goto, Leave, Pc, AtStatement, Tx
<1>5. ASSUME NEW a \in Attempt, InsertInvalid(a)
      PROVE  TypeOK'
  BY <1>5 DEF InsertInvalid, Reads, Leave, Invalid, Answer, Pc, Tx
<1>6. ASSUME NEW a \in Attempt, InsertMisread(a) \/ InsertConflicts(a)
      PROVE  TypeOK'
  BY <1>6 DEF InsertMisread, InsertConflicts, Conflicts, Reads, Leave, Goto, Conflict, Answer,
              Pc, AtStatement, Tx
<1>7. ASSUME NEW a \in Attempt, InsertStages(a)
      PROVE  TypeOK'
  BY <1>7 DEF InsertStages, Goto, Pc, Tx, Pending
<1>8. ASSUME NEW a \in Attempt, Recover(a)
      PROVE  TypeOK'
  <2>1. RowsWithKeyOf(event[a]) # {} =>
            Replayed((CHOOSE row \in RowsWithKeyOf(event[a]) : TRUE).id) \in Answer
    BY FoundRow, AnswersDiffer
  <2> QED
    BY <1>8, <2>1, AnswersDiffer DEF Recover, Reads, Leave, Pc, Tx
<1>9. ASSUME NEW a \in Attempt, SendCommit(a)
      PROVE  TypeOK'
  BY <1>9 DEF SendCommit, Goto, Pc, Tx, Pending
<1>10. ASSUME NEW a \in Attempt, ApplyCommit(a)
       PROVE  TypeOK'
  BY <1>10 DEF ApplyCommit, EventsAreOwn, Tx
<1>11. ASSUME NEW a \in Attempt, CommitReturns(a)
       PROVE  TypeOK'
  BY <1>11 DEF CommitReturns, Leave, Created, Answer, Pc
<1>12. ASSUME NEW a \in Attempt, Exit(a)
       PROVE  TypeOK'
  BY <1>12 DEF Exit, Answers, Pc, Tx
<1>13. ASSUME NEW a \in Attempt, Fault(a)
       PROVE  TypeOK'
  BY <1>13 DEF Fault, StatementTimesOut, ConnectionLost, Die, Abort, Reads, Leave,
               Answers, Goto, Failed, Answer, Pc, Tx
<1> QED
  BY <1>1, <1>2, <1>3, <1>4, <1>5, <1>6, <1>7, <1>8, <1>9, <1>10, <1>11, <1>12, <1>13
     DEF Next, Receive, Serve

\* What a step may do to the server's side: one transaction moves.
ServerMoves(a) ==
    /\ \A b \in Attempt \ {a} : tx'[b] = tx[b] /\ event'[b] = event[b]
    /\ \/ UNCHANGED <<tx, event, table>>
       \/ \E b \in Body, now \in Time : Accept(a, b, now)
       \/ /\ tx[a] \notin Claimed /\ tx'[a] \in {"open", "aborted"}
          /\ UNCHANGED <<event, table>>
       \/ InsertStages(a)
       \/ SendCommit(a)
       \/ ApplyCommit(a)
       \/ /\ tx[a] # "committed" /\ tx'[a] = "aborted"
          /\ UNCHANGED <<event, table>>

\* Every step does no more than that to the server's side.
LEMMA ServerStep ==
    ASSUME TypeOK, Next
    PROVE  \E a \in Attempt : ServerMoves(a)
<1> USE DEF ServerMoves, TypeOK, task, Tx, Pending, Claimed
<1>1. PICK a \in Attempt : Receive(a) \/ Serve(a) \/ ApplyCommit(a) \/ Fault(a)
  BY DEF Next
<1>2. CASE Receive(a)
  BY <1>2 DEF Receive, Refuse, Accept
<1>3. CASE Lookup(a) \/ InsertInvalid(a) \/ InsertMisread(a) \/ InsertConflicts(a) \/ Recover(a)
  BY <1>3 DEF Lookup, InsertInvalid, InsertMisread, InsertConflicts, Recover, Reads
<1>4. CASE InsertStages(a) \/ SendCommit(a)
  BY <1>4 DEF InsertStages, SendCommit
<1>5. CASE CommitReturns(a)
  BY <1>5 DEF CommitReturns
<1>6. CASE Exit(a)
  <2>1. CASE tx[a] = "committed"
    BY <1>6, <2>1 DEF Exit
  <2>2. CASE tx[a] # "committed"
    BY <1>6, <2>2 DEF Exit
  <2> QED
    BY <2>1, <2>2
<1>7. CASE ApplyCommit(a)
  BY <1>7 DEF ApplyCommit
<1>8. CASE Fault(a)
  BY <1>8 DEF Fault, StatementTimesOut, ConnectionLost, Die, Abort, Reads
<1> QED
  BY <1>1, <1>2, <1>3, <1>4, <1>5, <1>6, <1>7, <1>8 DEF Serve

LEMMA StepEventsAreOwn == IInv /\ [Next]_vars => EventsAreOwn'
<1> SUFFICES ASSUME IInv, [Next]_vars PROVE EventsAreOwn'
  OBVIOUS
<1> USE DEF IInv, TypeOK, EventsAreOwn, task
<1>1. CASE UNCHANGED vars
  BY <1>1 DEF vars
<1>2. ASSUME NEW a \in Attempt, NEW b \in Body, Refuse(a, b)
      PROVE  EventsAreOwn'
  BY <1>2 DEF Refuse, Answers, TasksAgreeWithServer, TaskAgrees
<1>3. ASSUME NEW a \in Attempt, NEW b \in Body, NEW now \in Time, Accept(a, b, now)
      PROVE  EventsAreOwn'
  <2>1. /\ ~Malformed(b)
        /\ Materialise(a, b, now) # None
        /\ Materialise(a, b, now).id = a
        /\ Materialise(a, b, now).key = CleanKey(b)
    BY <1>3, MaterialiseType, NoneIsNoRecord DEF Accept
  <2> QED
    BY <1>3, <2>1 DEF Accept, Goto
<1>4. ASSUME NEW a \in Attempt, Serve(a) \/ ApplyCommit(a) \/ Fault(a)
      PROVE  EventsAreOwn'
  <2>1. event[a] # None
    BY <1>4 DEF Serve, Lookup, InsertInvalid, InsertMisread, InsertConflicts, InsertStages, Recover,
                SendCommit, CommitReturns, Exit, ApplyCommit, Fault, StatementTimesOut,
                ConnectionLost, Die, Abort, AtStatement, Pending
  <2>2. UNCHANGED <<body, event>>
    BY <1>4 DEF Serve, Lookup, InsertInvalid, InsertMisread, InsertConflicts, InsertStages, Recover,
                SendCommit, CommitReturns, Exit, ApplyCommit, Fault, StatementTimesOut,
                ConnectionLost, Die, Abort
  <2>3. \A c \in Attempt \ {a} : pc'[c] = pc[c] /\ tx'[c] = tx[c]
    BY <1>4 DEF Serve, Lookup, InsertInvalid, InsertMisread, InsertConflicts, InsertStages, Recover,
                SendCommit, CommitReturns, Exit, ApplyCommit, Fault, StatementTimesOut,
                ConnectionLost, Die, Abort, Reads, Goto, Leave, Conflicts, Answers
  <2> QED
    BY <2>1, <2>2, <2>3
<1> QED
  BY <1>1, <1>2, <1>3, <1>4 DEF Next, Receive

\* A row enters the table exactly when the transaction that holds it commits.
LEMMA StepTableIsCommitted == IInv /\ [Next]_vars => TableIsCommitted'
<1> SUFFICES ASSUME IInv, [Next]_vars PROVE TableIsCommitted'
  OBVIOUS
<1> USE DEF IInv, TypeOK, TableIsCommitted, ServerMoves
<1>1. CASE UNCHANGED vars
  BY <1>1 DEF vars
<1>2. CASE Next
  <2>1. PICK a \in Attempt  : ServerMoves(a)
    BY <1>2, ServerStep
  <2>2. CASE ApplyCommit(a)
    <3>1. /\ tx[a] = "committing" /\ tx'[a] = "committed"
          /\ event' = event
          /\ table' = table \cup {event[a]}
      BY <2>2 DEF ApplyCommit, task
    <3> QED
      BY <2>1, <3>1
  <2>3. CASE ~ApplyCommit(a)
    <3>1. /\ table' = table
          /\ \A b \in Attempt : tx[b] = "committed" <=> tx'[b] = "committed"
          /\ \A b \in Attempt : tx[b] = "committed" => event'[b] = event[b]
      BY <2>1, <2>3 DEF Accept, InsertStages, SendCommit, Claimed, Pending, task,
                        TasksAgreeWithServer, TaskAgrees
    <3> QED
      BY <3>1
  <2> QED
    BY <2>2, <2>3
<1> QED
  BY <1>1, <1>2

\* A key is claimed by the INSERT alone, which waits for whoever else claims it.
LEMMA StepClaimsAreUnique == IInv /\ [Next]_vars => ClaimsAreUnique'
<1> SUFFICES ASSUME IInv, [Next]_vars PROVE ClaimsAreUnique'
  OBVIOUS
<1> USE DEF IInv, TypeOK, ClaimsAreUnique, ServerMoves
<1>1. CASE UNCHANGED vars
  BY <1>1 DEF vars
<1>2. CASE Next
  <2>1. PICK a \in Attempt  : ServerMoves(a)
    BY <1>2, ServerStep
  <2>2. CASE InsertStages(a)
    <3>1. /\ RecordedAfterOccurred(event[a])
          /\ event' = event
          /\ \A b \in Attempt \ {a} : tx[b] \in Claimed => ~SameKey(event[b], event[a])
      BY <2>2 DEF InsertStages, Holders, RowsWithKeyOf, TableIsCommitted, Claimed, task
    <3>2. \A e, f : SameKey(e, f) => SameKey(f, e)
      BY DEF SameKey
    <3> QED
      BY <2>1, <3>1, <3>2
  <2>3. CASE ~InsertStages(a)
    <3>1. \A b \in Attempt : tx'[b] \in Claimed => tx[b] \in Claimed /\ event'[b] = event[b]
      BY <2>1, <2>3 DEF Accept, SendCommit, ApplyCommit, Claimed, Pending, task,
                        TasksAgreeWithServer, TaskAgrees
    <3> QED
      BY <3>1
  <2> QED
    BY <2>2, <2>3
<1> QED
  BY <1>1, <1>2

\* The log only grows: what a task read from it stays true.
LEMMA TableGrows == [Next]_vars => table \subseteq table'
<1>1. CASE UNCHANGED vars
  BY <1>1 DEF vars
<1>2. ASSUME NEW a \in Attempt, Receive(a) \/ Serve(a) \/ ApplyCommit(a) \/ Fault(a)
      PROVE  table \subseteq table'
  BY <1>2 DEF Receive, Refuse, Accept, Serve, Lookup, InsertInvalid, InsertMisread, InsertConflicts,
              InsertStages, Recover, SendCommit, CommitReturns, Exit, ApplyCommit,
              Fault, StatementTimesOut, ConnectionLost, Die, Abort, task
<1> QED
  BY <1>1, <1>2 DEF Next

\* A task that does not move is not disturbed by those that do.
LEMMA OthersUndisturbed ==
    ASSUME NEW c \in Attempt, TaskAgrees(c), table \subseteq table',
           pc'[c] = pc[c], result'[c] = result[c], reply'[c] = reply[c],
           event'[c] = event[c], body'[c] = body[c], tx'[c] = tx[c]
    PROVE  TaskAgrees(c)'
<1>0. Misread(c)' = Misread(c)
  BY DEF Misread
<1>1. \A r : Justified(c, r) => Justified(c, r)'
  BY <1>0 DEF Justified
<1>2. RowsWithKeyOf(event[c]) # {} => RowsWithKeyOf(event[c])' # {}
  BY DEF RowsWithKeyOf
<1> QED
  BY <1>0, <1>1, <1>2 DEF TaskAgrees

LEMMA OthersDoNotMove ==
    ASSUME TypeOK, NEW a \in Attempt, NEW c \in Attempt \ {a},
           Receive(a) \/ Serve(a) \/ ApplyCommit(a) \/ Fault(a)
    PROVE  /\ pc'[c] = pc[c] /\ result'[c] = result[c] /\ reply'[c] = reply[c]
           /\ event'[c] = event[c] /\ body'[c] = body[c] /\ tx'[c] = tx[c]
<1> USE DEF TypeOK, task, Reads, Goto, Leave, Conflicts, Answers
<1>1. CASE Receive(a)
  BY <1>1 DEF Receive, Refuse, Accept
<1>2. CASE Serve(a)
  BY <1>2 DEF Serve, Lookup, InsertInvalid, InsertMisread, InsertConflicts, InsertStages, Recover,
              SendCommit, CommitReturns, Exit
<1>3. CASE ApplyCommit(a) \/ Fault(a)
  BY <1>3 DEF ApplyCommit, Fault, StatementTimesOut, ConnectionLost, Die, Abort
<1> QED
  BY <1>1, <1>2, <1>3

LEMMA StepTasksAgree == IInv /\ [Next]_vars => TasksAgreeWithServer'
<1> SUFFICES ASSUME IInv, [Next]_vars, NEW c \in Attempt PROVE TaskAgrees(c)'
  BY DEF TasksAgreeWithServer
<1> USE DEF IInv, TypeOK, task
<1>0. /\ TaskAgrees(c) /\ table \subseteq table'
      /\ UNCHANGED <<body, event>> => Misread(c)' = Misread(c)
  BY TableGrows DEF TasksAgreeWithServer, Misread
<1>1. CASE UNCHANGED vars
  BY <1>0, <1>1, OthersUndisturbed DEF vars
<1>2. ASSUME NEW a \in Attempt \ {c}, Receive(a) \/ Serve(a) \/ ApplyCommit(a) \/ Fault(a)
      PROVE  TaskAgrees(c)'
  BY <1>0, <1>2, OthersDoNotMove, OthersUndisturbed
<1>3. ASSUME NEW b \in Body, Refuse(c, b)
      PROVE  TaskAgrees(c)'
  <2>1. event[c] = None /\ pc[c] = "unsent" /\ result' = result /\ event' = event
    BY <1>0, <1>3 DEF Refuse, Answers, TaskAgrees
  <2>2. ~Misread(c) /\ result[c] # Conflict
    BY <1>0, <2>1 DEF Misread, TaskAgrees
  <2> QED
    BY <1>0, <1>3, <2>1, <2>2, AnswersDiffer DEF Refuse, Answers, TaskAgrees, Justified
<1>4. ASSUME NEW b \in Body, NEW now \in Time, Accept(c, b, now)
      PROVE  TaskAgrees(c)'
  <2>1. result[c] # Conflict
    BY <1>0, <1>4 DEF Accept, TaskAgrees, Misread
  <2> QED
    BY <1>0, <1>4, <2>1 DEF Accept, Goto, TaskAgrees
<1>5. CASE Lookup(c)
  <2>1. CASE RowsWithKeyOf(event[c]) = {}
    BY <1>0, <1>5, <2>1 DEF Lookup, Reads, Goto, TaskAgrees
  <2>2. CASE RowsWithKeyOf(event[c]) # {}
    <3> DEFINE row == CHOOSE r \in RowsWithKeyOf(event[c]) : TRUE
    <3>1. row \in table /\ row \in Event /\ row.id \in Attempt /\ SameKey(row, event[c])
      BY <2>2, FoundRow
    <3>2. /\ pc' = [pc EXCEPT ![c] = "exit"]
          /\ result' = [result EXCEPT ![c] = Replayed(row.id)]
          /\ tx' = [tx EXCEPT ![c] = "open"]
          /\ UNCHANGED <<reply, event, table>>
      BY <1>5, <2>2 DEF Lookup, Reads, Leave
    <3>3. Justified(c, result[c])'
      BY <3>1, <3>2 DEF Justified
    <3> HIDE DEF row
    <3> QED
      BY <1>0, <1>5, <3>1, <3>2, <3>3, AnswersDiffer DEF Lookup, TaskAgrees
  <2> QED
    BY <2>1, <2>2
<1>6. CASE InsertInvalid(c)
  BY <1>0, <1>6, AnswersDiffer DEF InsertInvalid, Reads, Leave, TaskAgrees, Justified
<1>7. CASE InsertMisread(c)
  <2>1. Misread(c)
    BY <1>0, <1>7 DEF InsertMisread, Misread, EventsAreOwn
  <2>2. Misread(c)'
    BY <1>7, <2>1 DEF InsertMisread, Misread
  <2> QED
    BY <1>0, <1>7, <2>2, AnswersDiffer
       DEF InsertMisread, Conflicts, Reads, Leave, Goto, TaskAgrees, Justified
<1>8. CASE InsertConflicts(c)
  <2>1. event[c].key # NoKey
    BY <1>8 DEF InsertConflicts, RowsWithKeyOf, SameKey
  <2>2. RowsWithKeyOf(event[c])' # {}
    BY <1>8 DEF InsertConflicts, RowsWithKeyOf
  <2> QED
    BY <1>0, <1>8, <2>1, <2>2 DEF InsertConflicts, Conflicts, Reads, Goto, TaskAgrees, Misread
<1>9. CASE InsertStages(c)
  BY <1>0, <1>9 DEF InsertStages, Goto, TaskAgrees
<1>10. CASE Recover(c)
  <2>1. CASE RowsWithKeyOf(event[c]) = {}
    <3>1. Misread(c) /\ Misread(c)'
      BY <1>0, <1>10, <2>1 DEF Recover, TaskAgrees, Misread
    <3>2. /\ pc' = [pc EXCEPT ![c] = "exit"]
          /\ result' = [result EXCEPT ![c] = Conflict]
          /\ tx' = [tx EXCEPT ![c] = "open"]
          /\ UNCHANGED <<reply, event, table>>
      BY <1>10, <2>1 DEF Recover, Reads, Leave
    <3>3. Justified(c, result[c])'
      BY <3>1, <3>2 DEF Justified
    <3> QED
      BY <1>0, <1>10, <3>1, <3>2, <3>3, AnswersDiffer DEF Recover, TaskAgrees
  <2>2. CASE RowsWithKeyOf(event[c]) # {}
    <3> DEFINE row == CHOOSE r \in RowsWithKeyOf(event[c]) : TRUE
    <3>1. row \in table /\ row \in Event /\ row.id \in Attempt /\ SameKey(row, event[c])
      BY <2>2, FoundRow
    <3>2. /\ pc' = [pc EXCEPT ![c] = "exit"]
          /\ result' = [result EXCEPT ![c] = Replayed(row.id)]
          /\ tx' = [tx EXCEPT ![c] = "open"]
          /\ UNCHANGED <<reply, event, table>>
      BY <1>10, <2>2 DEF Recover, Reads, Leave
    <3>3. Justified(c, result[c])'
      BY <3>1, <3>2 DEF Justified
    <3> HIDE DEF row
    <3> QED
      BY <1>0, <1>10, <3>1, <3>2, <3>3, AnswersDiffer DEF Recover, TaskAgrees
  <2> QED
    BY <2>1, <2>2
<1>11. CASE SendCommit(c)
  BY <1>0, <1>11 DEF SendCommit, Goto, TaskAgrees
<1>12. CASE ApplyCommit(c)
  <2>1. Justified(c, Failed)'
    BY DEF Justified
  <2>2. pc[c] = "answered" => reply[c] = Failed
    BY <1>0, <1>12 DEF ApplyCommit, TaskAgrees, Justified
  <2> QED
    BY <1>0, <1>12, <2>1, <2>2 DEF ApplyCommit, TaskAgrees
<1>13. CASE CommitReturns(c)
  BY <1>0, <1>13, AnswersDiffer DEF CommitReturns, Leave, TaskAgrees, Justified
<1>14. CASE Exit(c)
  BY <1>0, <1>14 DEF Exit, Answers, TaskAgrees, Justified
<1>15. CASE StatementTimesOut(c)
  BY <1>0, <1>15, AnswersDiffer DEF StatementTimesOut, AtStatement, Reads, Leave, TaskAgrees, Justified
<1>16. CASE ConnectionLost(c)
  BY <1>0, <1>16 DEF ConnectionLost, Answers, TaskAgrees, Justified
<1>17. CASE Die(c)
  BY <1>0, <1>17 DEF Die, Goto, TaskAgrees
<1>18. CASE Abort(c)
  <2>1. \A r : Justified(c, r) => Justified(c, r)'
    BY <1>0, <1>18 DEF Abort, Justified, Pending
  <2>2. RowsWithKeyOf(event[c])' = RowsWithKeyOf(event[c])
    BY <1>18 DEF Abort, RowsWithKeyOf
  <2>3. /\ UNCHANGED <<body, event, pc, result, reply>>
        /\ tx[c] \in {"holding", "committing", "open"} /\ tx'[c] = "aborted"
    BY <1>18 DEF Abort, Pending
  <2> QED
    BY <1>0, <2>1, <2>2, <2>3 DEF TaskAgrees
<1> QED
  BY <1>1, <1>2, <1>3, <1>4, <1>5, <1>6, <1>7, <1>8, <1>9, <1>10, <1>11, <1>12, <1>13, <1>14,
     <1>15, <1>16, <1>17, <1>18
     DEF Next, Receive, Serve, Fault

\* The inductive invariant holds in every reachable state of POST /v1/events.
THEOREM Invariance == Spec => []IInv
<1>1. IInv /\ [Next]_vars => IInv'
  BY StepTypeOK, StepEventsAreOwn, StepTableIsCommitted, StepClaimsAreUnique,
     StepTasksAgree
     DEF IInv
<1> QED
  BY InitIInv, <1>1, PTL DEF Spec

\* Every variable of the ingest path keeps its type.
THEOREM TypeCorrect == Spec => []TypeOK
<1>1. IInv => TypeOK
  BY DEF IInv
<1> QED
  BY Invariance, <1>1, PTL

LEMMA IInvOneEventPerKey == IInv => OneEventPerKey
<1> SUFFICES ASSUME IInv, NEW e \in table, NEW f \in table, SameKey(e, f)
             PROVE  e = f
  BY DEF OneEventPerKey
<1>1. PICK a \in Attempt : tx[a] = "committed" /\ e = event[a]
  BY DEF IInv, TableIsCommitted
<1>2. PICK b \in Attempt : tx[b] = "committed" /\ f = event[b]
  BY DEF IInv, TableIsCommitted
<1> QED
  BY <1>1, <1>2 DEF IInv, ClaimsAreUnique, Claimed

\* Retries and races never leave two recorded events with one key, for any number
\* of concurrent requests, lost connections and dead processes.
THEOREM KeysAreUnique == Spec => []OneEventPerKey
BY Invariance, IInvOneEventPerKey, PTL

\* Nobody who lost a race for a key is told 409: of well-dated events the branch of
\* EventService.record that assumes the index vanished is dead code.
THEOREM ConflictsAreRecovered == Spec => []ConflictIsRecovered
<1>1. IInv => ConflictIsRecovered
  BY AnswersDiffer, NoneIsNoRecord
     DEF IInv, TypeOK, TasksAgreeWithServer, TaskAgrees, Justified, ConflictIsRecovered
<1> QED
  BY Invariance, <1>1, PTL

\* A row belongs to the one attempt whose transaction committed it.
LEMMA RowsAreOwn ==
    ASSUME IInv, NEW a \in Attempt, event[a] # None, tx[a] # "committed"
    PROVE  event[a] \notin table
  BY DEF IInv, TableIsCommitted, EventsAreOwn

LEMMA IInvAcknowledgedIsDurable == IInv => AcknowledgedIsDurable
<1> SUFFICES ASSUME IInv, NEW a \in Attempt, Acknowledged(a)
             PROVE  \E row \in table :
                        /\ row.id = reply[a].event
                        /\ IF reply[a].code = 201 THEN row = event[a]
                                                  ELSE SameKey(row, event[a])
  BY DEF AcknowledgedIsDurable
<1>1. reply[a] # None /\ reply[a].code \in {200, 201}
  BY DEF Acknowledged, Told
<1>2. pc[a] = "answered" /\ Justified(a, reply[a])
  BY <1>1 DEF IInv, TypeOK, TasksAgreeWithServer, TaskAgrees
<1>3. CASE reply[a] = Created(a) /\ tx[a] = "committed"
  <2>1. event[a] \in table /\ event[a].id = a
    BY <1>3 DEF IInv, TableIsCommitted, EventsAreOwn
  <2>2. reply[a].code = 201 /\ reply[a].event = a
    BY <1>3 DEF Created
  <2> QED
    BY <2>1, <2>2
<1>4. ASSUME NEW row \in table, reply[a] = Replayed(row.id), SameKey(row, event[a])
      PROVE  /\ row.id = reply[a].event
             /\ IF reply[a].code = 201 THEN row = event[a] ELSE SameKey(row, event[a])
  BY <1>4 DEF Replayed
<1>5. reply[a] \notin {Invalid, Conflict, Failed}
  BY <1>1 DEF Invalid, Conflict, Failed
<1> QED
  BY <1>2, <1>3, <1>4, <1>5 DEF Justified

\* An acknowledged event is committed, whatever happens afterwards.
THEOREM AcknowledgementsAreDurable == Spec => []AcknowledgedIsDurable
BY Invariance, IInvAcknowledgedIsDurable, PTL

LEMMA IInvAnswerIsFinal == IInv => AnswerIsFinal
<1> SUFFICES ASSUME IInv, NEW a \in Attempt
             PROVE  /\ Told(a, {200, 201, 409, 422}) => tx[a] \in {"none", "committed", "aborted"}
                    /\ Told(a, {200, 409, 422}) => event[a] \notin table
  BY DEF AnswerIsFinal
<1>1. ASSUME Told(a, {200, 201, 409, 422})
      PROVE  Justified(a, reply[a]) /\ reply[a] # Failed /\ tx[a] # "open"
  BY <1>1 DEF Told, Failed, IInv, TypeOK, TasksAgreeWithServer, TaskAgrees
<1>2. ASSUME Told(a, {200, 201, 409, 422})
      PROVE  tx[a] \in {"none", "committed", "aborted"}
  BY <1>1, <1>2 DEF Justified
<1>3. ASSUME Told(a, {200, 409, 422})
      PROVE  event[a] \notin table
  <2>1. Told(a, {200, 201, 409, 422}) /\ reply[a].code # 201
    BY <1>3 DEF Told
  <2>2. tx[a] # "committed"
    BY <1>1, <2>1 DEF Justified, Created
  <2>3. event[a] = None => event[a] \notin table
    BY NoneIsNoRecord DEF IInv, TypeOK
  <2> QED
    BY <2>2, <2>3, RowsAreOwn
<1> QED
  BY <1>2, <1>3

\* What was answered other than 500 stays as it was answered: nothing is left
\* behind that could still change it.
THEOREM AnswersAreFinal == Spec => []AnswerIsFinal
BY Invariance, IInvAnswerIsFinal, PTL

\* No recorded event is dated after its recording.
THEOREM LagIsNeverNegative == Spec => []LagIsNotNegative
<1>1. IInv => LagIsNotNegative
  BY DEF IInv, TableIsCommitted, ClaimsAreUnique, Claimed, RecordedAfterOccurred,
         LagIsNotNegative
<1> QED
  BY Invariance, <1>1, PTL

LEMMA IInvRetryIsSafe == IInv => RetryIsSafe
<1> SUFFICES ASSUME IInv, NEW a \in Attempt, NEW b \in Attempt,
                    Acknowledged(a), Acknowledged(b),
                    body[a].key # NoKey, body[b].key # NoKey,
                    Strip[body[a].key] = Strip[body[b].key]
             PROVE  reply[a].event = reply[b].event
  BY DEF RetryIsSafe
<1>1. ASSUME NEW c \in Attempt, Acknowledged(c), body[c].key # NoKey
      PROVE  \E row \in table :
                 /\ row.id = reply[c].event
                 /\ row.key = Strip[body[c].key]
                 /\ row.key # NoKey
  <2>1. PICK row \in table :
            /\ row.id = reply[c].event
            /\ IF reply[c].code = 201 THEN row = event[c] ELSE SameKey(row, event[c])
    BY <1>1, IInvAcknowledgedIsDurable DEF AcknowledgedIsDurable
  <2>2. row.key = event[c].key /\ row \in Event
    BY <2>1 DEF SameKey, IInv, TypeOK
  <2>3. event[c] # None
    BY <1>1, AnswersDiffer, NoneIsNoRecord
       DEF Acknowledged, Told, IInv, TypeOK, TasksAgreeWithServer, TaskAgrees, Justified,
           EventsAreOwn, SameKey, Invalid, Conflict, Failed
  <2>4. /\ body[c] \in Body /\ ~Malformed(body[c])
        /\ event[c].key = CleanKey(body[c])
    BY <2>3 DEF IInv, EventsAreOwn
  <2>5. CleanKey(body[c]) = Strip[body[c].key] /\ CleanKey(body[c]) \in Key
    BY <1>1, <2>4, BodyType, StripType DEF CleanKey, Malformed
  <2> QED
    BY <2>1, <2>2, <2>4, <2>5, Markers
<1>2. PICK e \in table : e.id = reply[a].event /\ e.key = Strip[body[a].key] /\ e.key # NoKey
  BY <1>1
<1>3. PICK f \in table : f.id = reply[b].event /\ f.key = Strip[body[b].key]
  BY <1>1
<1>4. e = f
  BY <1>2, <1>3, IInvOneEventPerKey DEF OneEventPerKey, SameKey
<1> QED
  BY <1>2, <1>3, <1>4

\* Clients may retry safely: two acknowledged requests of one key name one event.
THEOREM RetriesAreSafe == Spec => []RetryIsSafe
BY Invariance, IInvRetryIsSafe, PTL

(***************************************************************************)
(* Ingest implements EventLog: the commit is where an event enters the     *)
(* log, and the unit of work's exit is where the answer is given.          *)
(***************************************************************************)
LEMMA LogInit == Init => Log!Init
  BY DEF Init, Log!Init

\* A COMMIT that is applied appends to the log, even when the answer was a 500.
LEMMA CommitAppends ==
    ASSUME IInv, NEW a \in Attempt, ApplyCommit(a)
    PROVE  Log!Append(a)
<1> USE DEF IInv
<1>1. tx[a] = "committing" /\ table' = table \cup {event[a]} /\ UNCHANGED <<event, reply>>
  BY DEF ApplyCommit, task
<1>2. event[a] # None /\ RecordedAfterOccurred(event[a])
  BY <1>1 DEF EventsAreOwn, ClaimsAreUnique, Claimed, Pending
<1>3. reply[a] \in {None, Failed}
  BY <1>1 DEF TasksAgreeWithServer, TaskAgrees, Justified
<1>4. ASSUME NEW e \in table
      PROVE  e.id # a /\ ~SameKey(e, event[a])
  <2>1. PICK b \in Attempt : tx[b] = "committed" /\ e = event[b]
    BY DEF TableIsCommitted
  <2>2. e # None
    BY NoneIsNoRecord DEF TypeOK
  <2> QED
    BY <1>1, <2>1, <2>2 DEF EventsAreOwn, ClaimsAreUnique, Claimed, Pending
<1> QED
  BY <1>1, <1>2, <1>3, <1>4
     DEF Log!Append, Log!RecordedAfterOccurred, Log!SameKey, Log!Failed,
         RecordedAfterOccurred, SameKey, Failed

LEMMA ExitAnswers ==
    ASSUME IInv, NEW a \in Attempt, Exit(a)
    PROVE  \/ Log!AnswerCreated(a)
           \/ Log!AnswerReplayed(a)
           \/ Log!AnswerInvalid(a)
           \/ Log!AnswerConflict(a)
           \/ Log!AnswerFailed(a)
<1> USE DEF IInv
<1>1. /\ pc[a] = "exit" /\ reply' = [reply EXCEPT ![a] = result[a]]
      /\ UNCHANGED <<event, table>>
  BY DEF Exit, Answers, task
<1>2. reply[a] = None /\ event[a] # None /\ Justified(a, result[a])
  BY <1>1 DEF TasksAgreeWithServer, TaskAgrees, EventsAreOwn
<1>3. Log!Tell(a, result[a])
  BY <1>1, <1>2 DEF Log!Tell
<1>4. CASE result[a] = Created(a) /\ tx[a] = "committed"
  BY <1>2, <1>3, <1>4 DEF TableIsCommitted, Log!AnswerCreated, Log!Created, Created
<1>5. ASSUME NEW row \in table, result[a] = Replayed(row.id), SameKey(row, event[a]),
             tx[a] \in {"open", "aborted"}
      PROVE  Log!AnswerReplayed(a)
  BY <1>2, <1>3, <1>5, RowsAreOwn
     DEF Log!AnswerReplayed, Log!Replayed, Log!SameKey, Replayed, SameKey
<1>6. CASE result[a] = Invalid /\ ~RecordedAfterOccurred(event[a])
  BY <1>2, <1>3, <1>6
     DEF Log!AnswerInvalid, Log!Invalid, Log!RecordedAfterOccurred, Invalid,
         RecordedAfterOccurred
<1>7. CASE result[a] = Conflict /\ Misread(a)
  BY <1>2, <1>3, <1>7
     DEF Log!AnswerConflict, Log!Conflict, Log!RecordedAfterOccurred, Conflict, Misread,
         RecordedAfterOccurred
<1>8. CASE result[a] = Failed
  BY <1>3, <1>8 DEF Log!AnswerFailed, Log!Failed, Failed
<1> QED
  BY <1>2, <1>4, <1>5, <1>6, <1>7, <1>8 DEF Justified

LEMMA LogStep == IInv /\ [Next]_vars => [Log!Next]_(Log!vars)
<1> SUFFICES ASSUME IInv, [Next]_vars PROVE [Log!Next]_(Log!vars)
  OBVIOUS
<1> USE DEF IInv, TypeOK, task
<1>1. CASE UNCHANGED vars
  BY <1>1 DEF vars, Log!vars
<1>2. ASSUME NEW a \in Attempt, NEW b \in Body, Refuse(a, b)
      PROVE  Log!Next
  <2>1. event[a] = None /\ reply[a] = None
    BY <1>2 DEF Refuse, TasksAgreeWithServer, TaskAgrees
  <2>2. Log!AnswerInvalid(a)
    BY <1>2, <2>1
       DEF Refuse, Answers, Log!AnswerInvalid, Log!Tell, Log!Invalid, Invalid
  <2> QED
    BY <2>2 DEF Log!Next
<1>3. ASSUME NEW a \in Attempt, NEW b \in Body, NEW now \in Time, Accept(a, b, now)
      PROVE  Log!Next
  <2>1. event[a] = None /\ reply[a] = None
    BY <1>3 DEF Accept, TasksAgreeWithServer, TaskAgrees
  <2>2. Materialise(a, b, now) \in Event /\ Materialise(a, b, now).id = a
    BY <1>3, MaterialiseType DEF Accept
  <2>3. Log!Offer(a, Materialise(a, b, now))
    BY <1>3, <2>1, <2>2 DEF Accept, Goto, Log!Offer
  <2> QED
    BY <2>2, <2>3 DEF Log!Next, Log!Event, Event
<1>4. ASSUME NEW a \in Attempt, ApplyCommit(a)
      PROVE  Log!Next
  BY <1>4, CommitAppends DEF Log!Next
<1>5. ASSUME NEW a \in Attempt, Exit(a)
      PROVE  Log!Next
  BY <1>5, ExitAnswers DEF Log!Next
<1>6. ASSUME NEW a \in Attempt, ConnectionLost(a)
      PROVE  Log!Next
  <2>1. reply[a] = None
    BY <1>6 DEF ConnectionLost, AtStatement, TasksAgreeWithServer, TaskAgrees
  <2>2. Log!AnswerFailed(a)
    BY <1>6, <2>1
       DEF ConnectionLost, Answers, Log!AnswerFailed, Log!Tell, Log!Failed, Failed
  <2> QED
    BY <2>2 DEF Log!Next
<1>7. ASSUME NEW a \in Attempt,
             \/ Lookup(a) \/ InsertInvalid(a) \/ InsertMisread(a) \/ InsertConflicts(a)
             \/ InsertStages(a) \/ Recover(a) \/ SendCommit(a) \/ CommitReturns(a)
             \/ StatementTimesOut(a) \/ Die(a) \/ Abort(a)
      PROVE  UNCHANGED Log!vars
  BY <1>7 DEF Lookup, InsertInvalid, InsertMisread, InsertConflicts, InsertStages, Recover,
              SendCommit, CommitReturns, StatementTimesOut, Die, Abort, Goto, Leave, Conflicts,
              Log!vars
<1> QED
  BY <1>1, <1>2, <1>3, <1>4, <1>5, <1>6, <1>7 DEF Next, Receive, Serve, Fault

\* Whatever the tasks, transactions and connections do, producers see an append-only
\* log with one event per key, and answers that are true of it.
THEOREM Refinement == Spec => RefinesEventLog
<1>1. Spec => []IInv
  BY Invariance
<1>2. IInv /\ [Next]_vars => [Log!Next]_(Log!vars)
  BY LogStep
<1> QED
  BY LogInit, <1>1, <1>2, PTL DEF Spec, RefinesEventLog, Log!Spec
=============================================================================
