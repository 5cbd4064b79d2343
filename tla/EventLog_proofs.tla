-------------------------- MODULE EventLog_proofs --------------------------
(***************************************************************************)
(* What the promise of EventLog comes to.  It is stated as steps, for      *)
(* Ingest to be shown to take no others; here is what a producer may       *)
(* conclude from it, for good.                                             *)
(***************************************************************************)
EXTENDS EventLog, TLAPS

TypeOK ==
    /\ offered \in [Attempt -> Event \cup {None}]
    /\ log \subseteq Event
    /\ answer \in [Attempt -> Answer \cup {None}]

\* An offered event is the attempt's own, and so is what the log has of it.
EntriesAreOwn ==
    /\ \A a \in Attempt : offered[a] # None => offered[a].id = a
    /\ \A e \in log : offered[e.id] = e

OneEntryPerKey == \A e, f \in log : SameKey(e, f) => e = f

EntriesAreInOrder == \A e \in log : RecordedAfterOccurred(e)

\* 201 names the attempt's own event, 200 another one that has its key; after a 200, a
\* 409 or a 422 the attempt's own is not in the log, and 409 is not said of a race.
AnswersAreTrue ==
    \A a \in Attempt : answer[a] # None =>
        /\ answer[a].code = 201 => answer[a].event = a /\ offered[a] \in log
        /\ answer[a].code = 200 =>
               \E e \in log : /\ e.id = answer[a].event
                              /\ e.id # a
                              /\ offered[a] # None /\ SameKey(e, offered[a])
        /\ answer[a].code \in {200, 409, 422} => \A e \in log : e.id # a
        /\ answer[a].code = 409 => offered[a] # None /\ ~RecordedAfterOccurred(offered[a])

Promise ==
    /\ TypeOK
    /\ EntriesAreOwn
    /\ OneEntryPerKey
    /\ EntriesAreInOrder
    /\ AnswersAreTrue

LEMMA InitPromises == Init => Promise
  BY NoneIsNoRecord DEF Init, Promise, TypeOK, EntriesAreOwn, OneEntryPerKey,
         EntriesAreInOrder, AnswersAreTrue

LEMMA OfferPromises ==
    ASSUME Promise, NEW a \in Attempt, NEW e \in Event, Offer(a, e)
    PROVE  Promise'
<1>1. /\ offered' = [offered EXCEPT ![a] = e] /\ e.id = a /\ e # None
      /\ offered[a] = None /\ answer[a] = None /\ log' = log /\ answer' = answer
  BY NoneIsNoRecord DEF Offer
<1>2. \A f \in log : f.id \in Attempt /\ f.id # a
  BY <1>1, NoneIsNoRecord DEF Promise, TypeOK, EntriesAreOwn, Event
<1>3. TypeOK' /\ EntriesAreOwn'
  BY <1>1, <1>2 DEF Promise, TypeOK, EntriesAreOwn
<1>4. \A b \in Attempt : answer[b] # None => offered'[b] = offered[b]
  BY <1>1 DEF Promise, TypeOK
<1>5. AnswersAreTrue'
  BY <1>1, <1>4 DEF Promise, AnswersAreTrue
<1> QED
  BY <1>1, <1>3, <1>5 DEF Promise, OneEntryPerKey, EntriesAreInOrder

\* Whom the log told something final is never appended to it.
LEMMA AppendPromises ==
    ASSUME Promise, NEW a \in Attempt, Append(a)
    PROVE  Promise'
<1>1. /\ offered[a] # None /\ answer[a] \in {None, Failed}
      /\ RecordedAfterOccurred(offered[a])
      /\ \A e \in log : e.id # a /\ ~SameKey(e, offered[a])
      /\ log' = log \cup {offered[a]} /\ offered' = offered /\ answer' = answer
  BY DEF Append
<1>2. offered[a] \in Event /\ offered[a].id = a
  BY <1>1 DEF Promise, TypeOK, EntriesAreOwn
<1>3. TypeOK' /\ EntriesAreOwn'
  BY <1>1, <1>2 DEF Promise, TypeOK, EntriesAreOwn
<1>4. OneEntryPerKey'
  BY <1>1 DEF Promise, OneEntryPerKey, SameKey
<1>5. EntriesAreInOrder'
  BY <1>1 DEF Promise, EntriesAreInOrder
<1>6. answer[a] = None \/ answer[a].code = 500
  BY <1>1 DEF Failed
<1>7. AnswersAreTrue'
  BY <1>1, <1>2, <1>6 DEF Promise, AnswersAreTrue
<1> QED
  BY <1>3, <1>4, <1>5, <1>7 DEF Promise

LEMMA TellPromises ==
    ASSUME Promise, NEW a \in Attempt,
           \/ AnswerCreated(a) \/ AnswerReplayed(a) \/ AnswerInvalid(a)
           \/ AnswerConflict(a) \/ AnswerFailed(a)
    PROVE  Promise'
<1>1. /\ offered' = offered /\ log' = log
      /\ \A b \in Attempt \ {a} : answer'[b] = answer[b]
  BY DEF AnswerCreated, AnswerReplayed, AnswerInvalid, AnswerConflict, AnswerFailed, Tell,
         Promise, TypeOK
<1>2. /\ answer' \in [Attempt -> Answer \cup {None}]
      /\ answer'[a].code = 201 => answer'[a].event = a /\ offered[a] \in log
      /\ answer'[a].code = 200 =>
             \E e \in log : /\ e.id = answer'[a].event
                            /\ e.id # a
                            /\ offered[a] # None /\ SameKey(e, offered[a])
      /\ answer'[a].code \in {200, 409, 422} => \A e \in log : e.id # a
      /\ answer'[a].code = 409 => offered[a] # None /\ ~RecordedAfterOccurred(offered[a])
  <2>1. CASE AnswerCreated(a)
    BY <2>1 DEF AnswerCreated, Tell, Created, Promise, TypeOK, Answer
  <2>2. CASE AnswerReplayed(a)
    <3>1. PICK e \in log : SameKey(e, offered[a]) /\ Tell(a, Replayed(e.id))
      BY <2>2 DEF AnswerReplayed
    <3>2. offered[a] # None /\ offered[a] \notin log
      BY <2>2 DEF AnswerReplayed
    <3>3. \A f \in log : f.id # a
      BY <3>2 DEF Promise, EntriesAreOwn
    <3>4. e.id \in Attempt /\ answer' = [answer EXCEPT ![a] = Replayed(e.id)]
      BY <3>1 DEF Tell, Promise, TypeOK, Event
    <3>5. answer'[a] = [code |-> 200, event |-> e.id]
      BY <3>4 DEF Replayed, Promise, TypeOK
    <3>6. answer'[a] \in Answer
      BY <3>4, <3>5 DEF Answer
    <3>7. answer' \in [Attempt -> Answer \cup {None}]
      BY <3>4, <3>6 DEF Promise, TypeOK
    <3> QED
      BY <3>1, <3>2, <3>3, <3>5, <3>7
  <2>3. CASE AnswerInvalid(a)
    <3>1. answer' = [answer EXCEPT ![a] = Invalid] /\ Invalid \in Answer
      BY <2>3 DEF AnswerInvalid, Tell, Invalid, Answer
    <3>2. \A e \in log : e.id # a
      BY <2>3, NoneIsNoRecord
         DEF AnswerInvalid, Promise, TypeOK, EntriesAreOwn, EntriesAreInOrder
    <3> QED
      BY <3>1, <3>2 DEF Invalid, Promise, TypeOK
  <2>4. CASE AnswerConflict(a)
    <3>1. answer' = [answer EXCEPT ![a] = Conflict] /\ Conflict \in Answer
      BY <2>4 DEF AnswerConflict, Tell, Conflict, Answer
    <3>2. /\ offered[a] # None /\ ~RecordedAfterOccurred(offered[a])
          /\ \A e \in log : e.id # a
      BY <2>4 DEF AnswerConflict, Promise, EntriesAreOwn, EntriesAreInOrder
    <3> QED
      BY <3>1, <3>2 DEF Conflict, Promise, TypeOK
  <2>5. CASE AnswerFailed(a)
    BY <2>5 DEF AnswerFailed, Tell, Failed, Promise, TypeOK, Answer
  <2> QED
    BY <2>1, <2>2, <2>3, <2>4, <2>5
<1>3. AnswersAreTrue'
  BY <1>1, <1>2 DEF Promise, AnswersAreTrue
<1> QED
  BY <1>1, <1>2, <1>3 DEF Promise, TypeOK, EntriesAreOwn, OneEntryPerKey, EntriesAreInOrder

LEMMA StepPromises == Promise /\ [Next]_vars => Promise'
<1>1. CASE UNCHANGED vars
  BY <1>1 DEF vars, Promise, TypeOK, EntriesAreOwn, OneEntryPerKey, EntriesAreInOrder,
              AnswersAreTrue
<1> QED
  BY <1>1, OfferPromises, AppendPromises, TellPromises DEF Next

\* Of whatever keeps the promise of EventLog: the log has one event per key, none dated
\* after its recording, and every answer but a 500 is, and stays, true of it.
THEOREM LogIsTruthful == Spec => []Promise
  BY InitPromises, StepPromises, PTL DEF Spec
=============================================================================
