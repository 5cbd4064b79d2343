--------------------------- MODULE RequestContext ---------------------------
(***************************************************************************)
(* How a request id travels: the middleware stack of the application, with *)
(* many requests in flight in one process.  From the outside in:           *)
(*                                                                         *)
(*   ServerErrorMiddleware     runs the handler of unexpected exceptions   *)
(*   CORSMiddleware            when origins are configured                 *)
(*   RequestContextMiddleware  binds the id, echoes it, resets it          *)
(*   ExceptionMiddleware       runs the handlers of expected errors        *)
(*   the routes                                                            *)
(*                                                                         *)
(* The id is a ContextVar.  Each request has a task of its own, and        *)
(* BaseHTTPMiddleware runs everything inside it in a second one, which     *)
(* starts with a copy of the first one's context.                          *)
(***************************************************************************)
EXTENDS FiniteSets

CONSTANTS
    Request,      \* HTTP requests; a fresh uuid4 for a request is the request
    Inbound,      \* values of an inbound X-Request-ID header
    Sanitise,     \* what each of them is as an id, None if it is refused
    CorsOrigins,  \* whether origins are configured, and CORSMiddleware is there
    None          \* Python's None, and a header or member that is absent

ASSUME SanitiseType == None \notin Inbound /\ DOMAIN Sanitise = Inbound
ASSUME CorsType == CorsOrigins \in BOOLEAN

Id == Request \cup ({Sanitise[h] : h \in Inbound} \ {None})

VARIABLES
    stage,      \* where each request is
    requestId,  \* the local variable of dispatch
    context,    \* the ContextVar in the request's own task
    inner,      \* the ContextVar in the task that runs the rest of the stack
    body,       \* what the rest of the stack came to: its response or exception
    response,   \* the response sent, None until then
    lines       \* the log lines written, each with the request it is about

vars == <<stage, requestId, context, inner, body, response, lines>>

Stage == {"idle", "inside", "returned", "raised", "unhandled", "answered"}

\* What the inside can come to.  An expected error is a problem document, which
\* quotes the id of the context it is built in; "crash" is any other exception.
Ok == [kind |-> "ok", id |-> None]
Problem(id) == [kind |-> "problem", id |-> id]
Crash == [kind |-> "crash", id |-> None]
Body == [kind : {"ok", "problem", "crash"}, id : Id \cup {None}]

Init ==
    /\ stage = [r \in Request |-> "idle"]
    /\ requestId = [r \in Request |-> None]
    /\ context = [r \in Request |-> None]
    /\ inner = [r \in Request |-> None]
    /\ body = [r \in Request |-> None]
    /\ response = [r \in Request |-> None]
    /\ lines = {}

\* Log records carry the id of the context they are written in.
Logs(r, id) == lines' = lines \cup {[about |-> r, id |-> id]}

Send(r, header, content) ==
    /\ stage' = [stage EXCEPT ![r] = "answered"]
    /\ response' = [response EXCEPT ![r] = [header |-> header, body |-> content]]

\* CORSMiddleware answers a preflight itself; nothing inside it runs.
Preflight(r) ==
    /\ stage[r] = "idle"
    /\ CorsOrigins
    /\ Send(r, None, Ok)
    /\ UNCHANGED <<requestId, context, inner, body, lines>>

\* Mutant of Dispatch: the id is kept in a global.
DispatchGlobally(r, inbound) ==
    LET candidate == IF inbound = None THEN None ELSE Sanitise[inbound]
        id        == IF candidate = None THEN r ELSE candidate
    IN  /\ stage[r] = "idle"
        /\ stage' = [stage EXCEPT ![r] = "inside"]
        /\ requestId' = [requestId EXCEPT ![r] = id]
        /\ context' = [q \in Request |-> id]
        /\ inner' = [q \in Request |-> id]
        /\ UNCHANGED <<body, response, lines>>

\* Mutant of Dispatch: the inbound header is believed.
DispatchUnsanitised(r, inbound) ==
    LET id == IF inbound = None THEN r ELSE inbound
    IN  /\ stage[r] = "idle"
        /\ stage' = [stage EXCEPT ![r] = "inside"]
        /\ requestId' = [requestId EXCEPT ![r] = id]
        /\ context' = [context EXCEPT ![r] = id]
        /\ inner' = [inner EXCEPT ![r] = id]
        /\ UNCHANGED <<body, response, lines>>

\* dispatch, up to its only await: an id is chosen and bound, and the inner task
\* is started with a copy of the context.
Dispatch(r, inbound) ==
    LET candidate == IF inbound = None THEN None ELSE Sanitise[inbound]
        id        == IF candidate = None THEN r ELSE candidate
    IN  /\ stage[r] = "idle"
        /\ stage' = [stage EXCEPT ![r] = "inside"]
        /\ requestId' = [requestId EXCEPT ![r] = id]
        /\ context' = [context EXCEPT ![r] = id]
        /\ inner' = [inner EXCEPT ![r] = id]
        /\ UNCHANGED <<body, response, lines>>

\* A route or a service logs something, at any await of the inside.
LogInside(r) ==
    /\ stage[r] = "inside"
    /\ Logs(r, inner[r])
    /\ UNCHANGED <<stage, requestId, context, inner, body, response>>

\* The inside ends with a response: the route's, or an error handler's.
Return(r) ==
    /\ stage[r] = "inside"
    /\ stage' = [stage EXCEPT ![r] = "returned"]
    /\ \E content \in {Ok, Problem(inner[r])} : body' = [body EXCEPT ![r] = content]
    /\ UNCHANGED <<requestId, context, inner, response, lines>>

\* Or with an exception that no inner handler is registered for.
Raise(r) ==
    /\ stage[r] = "inside"
    /\ stage' = [stage EXCEPT ![r] = "raised"]
    /\ body' = [body EXCEPT ![r] = Crash]
    /\ UNCHANGED <<requestId, context, inner, response, lines>>

\* Mutant of Complete: the id is reset before the outcome is logged.
CompleteAfterReset(r) ==
    /\ stage[r] = "returned"
    /\ Logs(r, None)
    /\ context' = [context EXCEPT ![r] = None]
    /\ Send(r, requestId[r], body[r])
    /\ UNCHANGED <<requestId, inner, body>>

\* dispatch resumes: it sets the header, logs the outcome and resets the id.
Complete(r) ==
    /\ stage[r] = "returned"
    /\ Logs(r, context[r])
    /\ context' = [context EXCEPT ![r] = None]
    /\ Send(r, requestId[r], body[r])
    /\ UNCHANGED <<requestId, inner, body>>

\* Mutant of Reraise: the id is reset before the exception is logged.
ReraiseAfterReset(r) ==
    /\ stage[r] = "raised"
    /\ Logs(r, None)
    /\ context' = [context EXCEPT ![r] = None]
    /\ stage' = [stage EXCEPT ![r] = "unhandled"]
    /\ UNCHANGED <<requestId, inner, body, response>>

\* dispatch resumes with an exception: it logs, resets the id and raises again.
Reraise(r) ==
    /\ stage[r] = "raised"
    /\ Logs(r, context[r])
    /\ context' = [context EXCEPT ![r] = None]
    /\ stage' = [stage EXCEPT ![r] = "unhandled"]
    /\ UNCHANGED <<requestId, inner, body, response>>

\* ServerErrorMiddleware runs _handle_unexpected, outside of dispatch.
HandleUnexpected(r) ==
    /\ stage[r] = "unhandled"
    /\ Logs(r, context[r])
    /\ Send(r, None, Problem(context[r]))
    /\ UNCHANGED <<requestId, context, inner, body>>

Next ==
    \E r \in Request :
        \/ Preflight(r)
        \/ \E inbound \in Inbound \cup {None} : Dispatch(r, inbound)
        \/ LogInside(r)
        \/ Return(r)
        \/ Raise(r)
        \/ Complete(r)
        \/ Reraise(r)
        \/ HandleUnexpected(r)

Spec == Init /\ [][Next]_vars

(***************************************************************************)
(* Properties.                                                             *)
(***************************************************************************)

TypeOK ==
    /\ stage \in [Request -> Stage]
    /\ requestId \in [Request -> Id \cup {None}]
    /\ context \in [Request -> Id \cup {None}]
    /\ inner \in [Request -> Id \cup {None}]
    /\ body \in [Request -> Body \cup {None}]
    /\ response \in [Request -> [header : Id \cup {None}, body : Body] \cup {None}]
    /\ lines \subseteq [about : Request, id : Id \cup {None}]

\* Concurrent requests never observe each other's ids: a log line that carries an
\* id carries the one of the request it is about.
LinesCarryOwnId == \A line \in lines : line.id \in {requestId[line.about], None}

\* Of the responses that carry an id: a problem document quotes the one in the
\* header, and the log has a line about the request under it, so that whichever
\* one a caller quotes leads to the log.
ProblemQuotesHeader ==
    \A r \in Request :
        response[r] # None /\ response[r].header # None =>
            /\ response[r].body.kind = "problem" => response[r].body.id = response[r].header
            /\ [about |-> r, id |-> response[r].header] \in lines

\* Whatever becomes of a request that was given an id, the log has a line about it
\* under that id, and its response carries the id, unless an exception was one that
\* nobody expected: then it carries none, neither in the header nor in the document.
OutcomesAreLogged ==
    \A r \in Request :
        response[r] # None /\ requestId[r] # None =>
            /\ [about |-> r, id |-> requestId[r]] \in lines
            /\ response[r] = IF body[r] = Crash
                             THEN [header |-> None, body |-> Problem(None)]
                             ELSE [header |-> requestId[r], body |-> body[r]]

\* What the application's description says: every response carries an X-Request-ID
\* header.  It is stated here of responses other than to CORS preflights.
EveryResponseCarriesId ==
    \A r \in Request :
        response[r] # None /\ requestId[r] # None => response[r].header # None
=============================================================================
