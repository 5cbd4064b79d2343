------------------------ MODULE RequestContext_proofs ------------------------
(***************************************************************************)
(* What the middleware stack guarantees of request ids, for any number of  *)
(* requests in flight and any inbound headers.  Besides the types, the     *)
(* argument needs to know which id the two contexts of a request hold      *)
(* while the request is inside of the stack, and what its body quotes.     *)
(***************************************************************************)
EXTENDS RequestContext, TLAPS

\* Between the binding of the id and its reset, both contexts hold it.
ContextsAgree ==
    \A r \in Request :
        stage[r] \in {"inside", "returned", "raised"} =>
            context[r] = requestId[r] /\ inner[r] = requestId[r]

\* What comes back from the inside is a response, and quotes the id if any.
BodiesAgree ==
    \A r \in Request :
        stage[r] = "returned" =>
            /\ body[r] \in Body
            /\ body[r].kind = "problem" => body[r].id = requestId[r]

\* A request has no id of any kind before dispatch chooses one.
IdsComeWithDispatch == \A r \in Request : stage[r] = "idle" => requestId[r] = None

\* Outside of dispatch there is no id left to log.
ResetIsDone == \A r \in Request : stage[r] = "unhandled" => context[r] = None

IInv ==
    /\ TypeOK
    /\ ContextsAgree
    /\ BodiesAgree
    /\ IdsComeWithDispatch
    /\ ResetIsDone
    /\ LinesCarryOwnId
    /\ ProblemQuotesHeader

\* Whatever comes in a header, or nothing does, the id chosen for a request is one.
LEMMA ChosenIsId ==
    ASSUME NEW r \in Request, NEW inbound \in Inbound \cup {None}
    PROVE  LET candidate == IF inbound = None THEN None ELSE Sanitise[inbound]
           IN  (IF candidate = None THEN r ELSE candidate) \in Id
<1>1. CASE inbound = None
  BY <1>1 DEF Id
<1>2. CASE inbound # None
  BY <1>2 DEF Id
<1>3. QED BY <1>1, <1>2

\* What the handlers build are bodies.
LEMMA BodiesAreTyped ==
    ASSUME NEW id \in Id \cup {None}
    PROVE  Ok \in Body /\ Crash \in Body /\ Problem(id) \in Body
BY DEF Ok, Crash, Problem, Body

LEMMA InitIInv == Init => IInv
BY DEF Init, IInv, TypeOK, Stage, ContextsAgree, BodiesAgree, IdsComeWithDispatch,
       ResetIsDone, LinesCarryOwnId, ProblemQuotesHeader

LEMMA StepTypeOK == IInv /\ [Next]_vars => TypeOK'
<1> SUFFICES ASSUME TypeOK, BodiesAgree, [Next]_vars PROVE TypeOK'
  BY DEF IInv
<1> USE DEF TypeOK, Stage
<1>1. CASE UNCHANGED vars
  BY <1>1 DEF vars
<1>2. ASSUME NEW r \in Request, Preflight(r)
      PROVE  TypeOK'
  BY <1>2, BodiesAreTyped DEF Preflight, Send
<1>3. ASSUME NEW r \in Request, NEW inbound \in Inbound \cup {None}, Dispatch(r, inbound)
      PROVE  TypeOK'
  BY <1>3, ChosenIsId DEF Dispatch
<1>4. ASSUME NEW r \in Request, LogInside(r)
      PROVE  TypeOK'
  BY <1>4 DEF LogInside, Logs
<1>5. ASSUME NEW r \in Request, Return(r)
      PROVE  TypeOK'
  <2>1. {Ok, Problem(inner[r])} \subseteq Body
    BY BodiesAreTyped
  <2> QED
    BY <1>5, <2>1 DEF Return
<1>6. ASSUME NEW r \in Request, Raise(r)
      PROVE  TypeOK'
  BY <1>6, BodiesAreTyped DEF Raise
<1>7. ASSUME NEW r \in Request, Complete(r)
      PROVE  TypeOK'
  BY <1>7 DEF Complete, Logs, Send, BodiesAgree
<1>8. ASSUME NEW r \in Request, Reraise(r)
      PROVE  TypeOK'
  BY <1>8 DEF Reraise, Logs
<1>9. ASSUME NEW r \in Request, HandleUnexpected(r)
      PROVE  TypeOK'
  <2>1. Problem(context[r]) \in Body
    BY BodiesAreTyped
  <2> QED
    BY <1>9, <2>1 DEF HandleUnexpected, Logs, Send
<1> QED
  BY <1>1, <1>2, <1>3, <1>4, <1>5, <1>6, <1>7, <1>8, <1>9 DEF Next

\* Where a request is, and what it holds there.
Bound == ContextsAgree /\ BodiesAgree /\ IdsComeWithDispatch /\ ResetIsDone

LEMMA StepBound == IInv /\ [Next]_vars => Bound'
<1> SUFFICES ASSUME TypeOK, Bound, [Next]_vars PROVE Bound'
  BY DEF IInv, Bound
<1> USE DEF TypeOK, Bound, ContextsAgree, BodiesAgree, IdsComeWithDispatch, ResetIsDone
<1>1. CASE UNCHANGED vars
  BY <1>1 DEF vars
<1>2. ASSUME NEW r \in Request, Preflight(r)
      PROVE  Bound'
  BY <1>2 DEF Preflight, Send
<1>3. ASSUME NEW r \in Request, NEW inbound \in Inbound \cup {None}, Dispatch(r, inbound)
      PROVE  Bound'
  BY <1>3 DEF Dispatch
<1>4. ASSUME NEW r \in Request, LogInside(r)
      PROVE  Bound'
  BY <1>4 DEF LogInside
<1>5. ASSUME NEW r \in Request, Return(r)
      PROVE  Bound'
  <2>1. PICK content \in {Ok, Problem(inner[r])} : body' = [body EXCEPT ![r] = content]
    BY <1>5 DEF Return
  <2>2. content \in Body
    BY BodiesAreTyped
  <2>3. content.kind = "problem" => content.id = requestId[r]
    BY <1>5 DEF Return, Ok, Problem
  <2> QED
    BY <1>5, <2>1, <2>2, <2>3 DEF Return
<1>6. ASSUME NEW r \in Request, Raise(r)
      PROVE  Bound'
  BY <1>6 DEF Raise
<1>7. ASSUME NEW r \in Request, Complete(r)
      PROVE  Bound'
  BY <1>7 DEF Complete, Send
<1>8. ASSUME NEW r \in Request, Reraise(r)
      PROVE  Bound'
  BY <1>8 DEF Reraise
<1>9. ASSUME NEW r \in Request, HandleUnexpected(r)
      PROVE  Bound'
  BY <1>9 DEF HandleUnexpected, Send
<1> QED
  BY <1>1, <1>2, <1>3, <1>4, <1>5, <1>6, <1>7, <1>8, <1>9 DEF Next

\* A line is written with an id of the request's, or with none.
LEMMA StepLines == IInv /\ [Next]_vars => LinesCarryOwnId'
<1> SUFFICES ASSUME IInv, [Next]_vars PROVE LinesCarryOwnId'
  OBVIOUS
<1> USE DEF IInv, TypeOK, LinesCarryOwnId
<1>1. ASSUME NEW r \in Request, NEW id \in {requestId[r], None}, Logs(r, id),
             UNCHANGED requestId
      PROVE  LinesCarryOwnId'
  BY <1>1 DEF Logs
<1>2. ASSUME UNCHANGED <<requestId, lines>>
      PROVE  LinesCarryOwnId'
  BY <1>2
<1>3. ASSUME NEW r \in Request, NEW inbound \in Inbound \cup {None}, Dispatch(r, inbound)
      PROVE  LinesCarryOwnId'
  BY <1>3 DEF Dispatch, IdsComeWithDispatch
<1>4. ASSUME NEW r \in Request, LogInside(r) \/ Complete(r) \/ Reraise(r) \/ HandleUnexpected(r)
      PROVE  LinesCarryOwnId'
  BY <1>1, <1>4 DEF LogInside, Complete, Reraise, HandleUnexpected, ContextsAgree, ResetIsDone
<1>5. ASSUME NEW r \in Request, Preflight(r) \/ Return(r) \/ Raise(r)
      PROVE  LinesCarryOwnId'
  BY <1>2, <1>5 DEF Preflight, Return, Raise
<1> QED
  BY <1>2, <1>3, <1>4, <1>5 DEF Next, vars

\* A response with an id is sent together with the line that has it.
LEMMA StepProblem == IInv /\ [Next]_vars => ProblemQuotesHeader'
<1> SUFFICES ASSUME IInv, [Next]_vars PROVE ProblemQuotesHeader'
  OBVIOUS
<1> USE DEF IInv, TypeOK, ProblemQuotesHeader
<1>1. ASSUME NEW r \in Request, NEW content, Send(r, None, content), lines \subseteq lines'
      PROVE  ProblemQuotesHeader'
  BY <1>1 DEF Send
<1>2. ASSUME UNCHANGED response, lines \subseteq lines'
      PROVE  ProblemQuotesHeader'
  BY <1>2
<1>3. ASSUME NEW r \in Request, Complete(r)
      PROVE  ProblemQuotesHeader'
  BY <1>3 DEF Complete, Logs, Send, ContextsAgree, BodiesAgree
<1>4. ASSUME NEW r \in Request, Preflight(r) \/ HandleUnexpected(r)
      PROVE  ProblemQuotesHeader'
  BY <1>1, <1>4 DEF Preflight, HandleUnexpected, Logs
<1>5. ASSUME NEW r \in Request,
             \/ \E inbound \in Inbound \cup {None} : Dispatch(r, inbound)
             \/ LogInside(r) \/ Return(r) \/ Raise(r) \/ Reraise(r)
      PROVE  ProblemQuotesHeader'
  BY <1>2, <1>5 DEF Dispatch, LogInside, Return, Raise, Reraise, Logs
<1> QED
  BY <1>2, <1>3, <1>4, <1>5 DEF Next, vars

LEMMA Invariance == Spec => []IInv
<1>1. IInv /\ [Next]_vars => IInv'
  BY StepTypeOK, StepBound, StepLines, StepProblem DEF IInv, Bound
<1> QED
  BY InitIInv, <1>1, PTL DEF Spec

\* How far a request has come says what it has left behind: no response before the
\* end, a crash that was logged before it got out of dispatch.
TracesAreLeft ==
    \A r \in Request :
        /\ response[r] # None => stage[r] = "answered"
        /\ stage[r] = "returned" => body[r] # Crash
        /\ stage[r] \in {"raised", "unhandled"} => body[r] = Crash
        /\ stage[r] = "unhandled" => [about |-> r, id |-> requestId[r]] \in lines
        /\ stage[r] \in {"idle", "inside", "returned", "raised", "unhandled"} =>
               response[r] = None

LInv == TracesAreLeft /\ OutcomesAreLogged

LEMMA StepLInv == IInv /\ LInv /\ [Next]_vars => LInv'
<1> SUFFICES ASSUME IInv, LInv, [Next]_vars PROVE LInv'
  OBVIOUS
<1> USE DEF IInv, TypeOK, LInv, TracesAreLeft, OutcomesAreLogged
<1>1. CASE UNCHANGED vars
  BY <1>1 DEF vars
<1>2. ASSUME NEW r \in Request, Preflight(r)
      PROVE  LInv'
  BY <1>2 DEF Preflight, Send, IdsComeWithDispatch
<1>3. ASSUME NEW r \in Request, NEW inbound \in Inbound \cup {None}, Dispatch(r, inbound)
      PROVE  LInv'
  BY <1>3 DEF Dispatch
<1>4. ASSUME NEW r \in Request, LogInside(r)
      PROVE  LInv'
  BY <1>4 DEF LogInside, Logs
<1>5. ASSUME NEW r \in Request, Return(r)
      PROVE  LInv'
  <2>1. PICK content \in {Ok, Problem(inner[r])} : body' = [body EXCEPT ![r] = content]
    BY <1>5 DEF Return
  <2>2. content # Crash
    <3>1. content.kind # "crash" /\ Crash.kind = "crash"
      BY DEF Ok, Problem, Crash
    <3> QED
      BY <3>1
  <2> QED
    BY <1>5, <2>1, <2>2 DEF Return
<1>6. ASSUME NEW r \in Request, Raise(r)
      PROVE  LInv'
  BY <1>6 DEF Raise
<1>7. ASSUME NEW r \in Request, Complete(r)
      PROVE  LInv'
  BY <1>7 DEF Complete, Logs, Send, ContextsAgree
<1>8. ASSUME NEW r \in Request, Reraise(r)
      PROVE  LInv'
  BY <1>8 DEF Reraise, Logs, ContextsAgree
<1>9. ASSUME NEW r \in Request, HandleUnexpected(r)
      PROVE  LInv'
  BY <1>9 DEF HandleUnexpected, Logs, Send, ResetIsDone
<1> QED
  BY <1>1, <1>2, <1>3, <1>4, <1>5, <1>6, <1>7, <1>8, <1>9 DEF Next

\* Every variable of the middleware stack keeps its type.
THEOREM TypeCorrect == Spec => []TypeOK
<1>1. IInv => TypeOK
  BY DEF IInv
<1> QED
  BY Invariance, <1>1, PTL

\* Concurrent requests never observe each other's ids in the log.
THEOREM LinesAreOwn == Spec => []LinesCarryOwnId
<1>1. IInv => LinesCarryOwnId
  BY DEF IInv
<1> QED
  BY Invariance, <1>1, PTL

\* Whichever id a caller quotes, the header's or the problem document's, leads to a
\* line of the log about the request.
THEOREM ProblemsQuoteHeaders == Spec => []ProblemQuotesHeader
<1>1. IInv => ProblemQuotesHeader
  BY DEF IInv
<1> QED
  BY Invariance, <1>1, PTL

\* No request that was given an id is lost to the log, and the id is missing from a
\* response exactly if an unexpected exception was behind it.
THEOREM OutcomesLeaveTraces == Spec => []OutcomesAreLogged
<1>1. Init => LInv
  BY DEF Init, LInv, TracesAreLeft, OutcomesAreLogged
<1>2. IInv /\ LInv /\ [Next]_vars => LInv'
  BY StepLInv
<1>3. LInv => OutcomesAreLogged
  BY DEF LInv
<1> QED
  BY <1>1, <1>2, <1>3, Invariance, PTL DEF Spec
=============================================================================
