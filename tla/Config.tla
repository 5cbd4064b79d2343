------------------------------- MODULE Config -------------------------------
(***************************************************************************)
(* How a process comes by its settings, from its environment, .env and the *)
(* defaults, and why it may not start.  Kept are the two settings that are *)
(* more than a scalar to read: the database's URL, of which only one       *)
(* scheme will do, and the origins that CORS allows.  Reading the sources  *)
(* is pydantic-settings', as config.py sets it up.                         *)
(***************************************************************************)
CONSTANTS
    Text,         \* what M4D_CORS_ORIGINS may be set to
    Decoded,      \* what json.loads makes of each text, None if it fails: a JSON
                  \* "string", of items with commas between, or an "array" of items
    Blank,        \* an item of nothing but white space
    Meant,        \* the origins that whoever wrote it meant
    Scheme,       \* schemes of database URLs
    AsyncDriver,  \* postgresql+asyncpg
    None          \* what is not set

VARIABLES
    environ,   \* the process's variables
    dotenv,    \* the lines of .env
    process,   \* "new", "refused" to start, or "started"
    settings   \* what get_settings returned, None until then

vars == <<environ, dotenv, process, settings>>

Source == [cors : Text \cup {None}, url : Scheme \cup {None}]

Init ==
    /\ environ \in Source
    /\ dotenv \in Source
    /\ process = "new"
    /\ settings = None

\* Settings' resolution order: the environment, then .env, then the default.
First(x, y, default) == IF x # None THEN x ELSE IF y # None THEN y ELSE default

Url == First(environ.url, dotenv.url, AsyncDriver)
Cors == First(environ.cors, dotenv.cors, None)

\* _split_cors_origins, of a decoded value: a string's items but for the blank ones,
\* an array's as they are.
Split(value) ==
    LET items == {value.items[i] : i \in DOMAIN value.items}
    IN  IF value.kind = "string" THEN items \ {Blank} ELSE items

\* A field that is no scalar is decoded as JSON by the source it comes from, before
\* any validator has seen it, and even if an earlier source overrides it.
Readable(source) == source.cors = None \/ Decoded[source.cors] # None

\* _require_async_driver
Valid == Url = AsyncDriver

\* create_app, with the origins CORSMiddleware is to allow; none, without it.
Start ==
    /\ process = "new"
    /\ Readable(environ) /\ Readable(dotenv) /\ Valid
    /\ process' = "started"
    /\ settings' = [url |-> Url, cors |-> IF Cors = None THEN {} ELSE Split(Decoded[Cors])]
    /\ UNCHANGED <<environ, dotenv>>

\* Settings() raises, and the process ends with it.
Refuse ==
    /\ process = "new"
    /\ ~(Readable(environ) /\ Readable(dotenv) /\ Valid)
    /\ process' = "refused"
    /\ UNCHANGED <<environ, dotenv, settings>>

Next == Start \/ Refuse

Spec == Init /\ [][Next]_vars

\* What .env.example and the validator's docstring say: origins are listed with
\* commas between them, and an empty list disables CORS.  So a process with a
\* database URL it supports starts, and allows the origins that are listed.
OriginsAreListedWithCommas ==
    process # "new" /\ Valid =>
        /\ process = "started"
        /\ settings.cors = IF Cors = None THEN {} ELSE Meant[Cors]
=============================================================================
