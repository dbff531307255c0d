------------------------------ MODULE Service ------------------------------
(***************************************************************************)
(* The service as a process: the lifespan of main.py around uvicorn, the   *)
(* pool of db.py, the endpoints as its users, and the request-id           *)
(* middleware, while Postgres comes and goes and the container is stopped, *)
(* killed and started.  What a lookup does between its queries is in       *)
(* Lookup; here it is a handler like the others, with a few queries.       *)
(***************************************************************************)
EXTENDS Naturals, FiniteSets

CONSTANTS
    None,
    Requests,       \* the HTTP requests that ever arrive; each mints its own id
    Endpoints,      \* the endpoints they go to
    Callers,        \* the X-Request-ID values of 1 to 128 characters
    Incoming,       \* Incoming[r]: the one r comes with, or None for any other
    PoolSize,       \* max_size of the asyncpg pool
    MaxQueries,     \* bound: queries of one handler
    MaxDelay,       \* bound: seconds that the attempts of a boot take
    MaxOutages,     \* bound: how often Postgres goes away
    MaxStarts       \* bound: restarts of the container

Probes == {"health", "dependencies", "data_version"}
\* What a handler failed of below itself: a query, a value, or pool().
Causes == {"query", "value", "no pool"}
AllEndpoints == {"root", "metrics", "exchange", "lookup"} \cup Probes

ASSUME ServiceAssumption ==
    /\ None \notin BOOLEAN /\ None \notin Causes /\ None \notin Requests \cup Callers
    /\ Callers \cap Requests = {}
    /\ Incoming \in [Requests -> Callers \cup {None}]
    /\ Endpoints \subseteq AllEndpoints
    /\ IsFiniteSet(Requests)
    /\ PoolSize \in Nat \ {0} /\ MaxQueries \in Nat \ {0}
    /\ MaxDelay \in Nat /\ MaxOutages \in Nat /\ MaxStarts \in Nat

VARIABLES
    phase,      \* where the process is in its life
    attempt,    \* connection attempts refused so far in this boot
    clock,      \* seconds since this boot began
    refusedAt,  \* the second of the last refusal
    dbReady,    \* app.state.db_ready; None before it is set
    pool,       \* is db._POOL set?
    stage,      \* stage[r]: "new", "called", "waiting", "query", "replied" or "cut"
    call,       \* call[r]: [endpoint, well] of the request
    queries,    \* queries[r]: how many its handler has made
    id,         \* id[r]: request_id in dispatch
    context,    \* context[r]: _current_id in the context of its task
    seen,       \* seen[r]: what current_request_id() has returned in its handler
    reply,      \* reply[r]: [status, id, cause]
    held,       \* the requests that hold a connection
    lost,       \* those of them whose connection Postgres has dropped
    postgres,   \* does Postgres accept and answer?
    schema,     \* do the tables exist?
    outages, starts

bootVars == <<attempt, clock, refusedAt, dbReady>>
taskVars == <<stage, call, queries, id, context, seen, reply, held, lost>>
worldVars == <<postgres, schema, outages, starts>>
vars == <<phase, bootVars, pool, taskVars, worldVars>>


\* well: are the arguments of the call in order?
Calls == {c \in [endpoint : Endpoints, well : BOOLEAN] : c.endpoint \in {"exchange", "lookup"} \/ c.well}

Open == {"called", "waiting", "query"}
Booting == {"connecting", "sleeping", "pinging"}
Closing == {"draining", "closingCache", "closingPool"}
Down == {"killed", "exited"}

-----------------------------------------------------------------------------
(* The boot.                                                               *)

\* A fault of the code: range(9).
OneAttemptShort == 9
Attempts == 10

\* create_pool with min_size=1: it succeeds once Postgres accepts connections.
AttemptSucceeds ==
    /\ phase = "connecting" /\ postgres
    /\ phase' = "pinging"
    /\ pool' = TRUE /\ dbReady' = TRUE
    /\ attempt' = 0 /\ clock' = 0 /\ refusedAt' = 0
    /\ UNCHANGED <<taskVars, worldVars>>

\* A fault of the code: "while True" instead of a count.
Uncounted == attempt
Counted == attempt + 1

AttemptFails ==
    /\ phase = "connecting" /\ ~postgres
    /\ phase' = "sleeping"
    /\ attempt' = Counted
    /\ refusedAt' = clock
    /\ UNCHANGED <<clock, dbReady, pool, taskVars, worldVars>>

\* No boot of the code gets to where this stops.
Later == IF clock < Attempts + MaxDelay THEN clock + 1 ELSE clock

\* An attempt may take its time.
AttemptDrags ==
    /\ phase = "connecting" /\ clock < attempt + MaxDelay
    /\ clock' = Later
    /\ UNCHANGED <<phase, attempt, refusedAt, dbReady, pool, taskVars, worldVars>>

\* A fault of the code: db_ready is set before the attempt.
ReadyWithoutPool == TRUE
ReadyAfterGivingUp == FALSE

\* The second of sleep after every refusal, the last included; then the next
\* attempt, or the degraded boot of the for's else.
Sleep ==
    /\ phase = "sleeping"
    /\ IF attempt < Attempts
          THEN /\ phase' = "connecting" /\ clock' = Later
               /\ UNCHANGED <<attempt, dbReady>>
          ELSE /\ phase' = "pinging" /\ clock' = 0 /\ attempt' = 0
               /\ dbReady' = ReadyAfterGivingUp
    /\ UNCHANGED <<refusedAt, pool, taskVars, worldVars>>

\* init_cache ends with a client or without (Lookup's cacheUp), and uvicorn
\* listens.
InitCache ==
    /\ phase = "pinging"
    /\ phase' = "serving"
    /\ UNCHANGED <<bootVars, pool, taskVars, worldVars>>

Boot == AttemptSucceeds \/ AttemptFails \/ Sleep \/ InitCache

-----------------------------------------------------------------------------
(* A request: the middleware around a handler.                             *)

\* What dispatch takes as the id: the incoming one if it is there and no
\* longer than 128 characters, or a fresh one.
RequestId(r) == IF Incoming[r] = None THEN r ELSE Incoming[r]

\* A fault of the code: a global instead of a context variable.
PinnedGlobally(r, value) == [t \in Requests |-> value]

\* _current_id.set: the handler's task starts with a copy of this context.
Pinned(r, value) == [context EXCEPT ![r] = value]

Accept(r) ==
    /\ phase = "serving" /\ stage[r] = "new"
    /\ \E c \in Calls : call' = [call EXCEPT ![r] = c]
    /\ id' = [id EXCEPT ![r] = RequestId(r)]
    /\ context' = Pinned(r, RequestId(r))
    /\ stage' = [stage EXCEPT ![r] = "called"]
    /\ UNCHANGED <<phase, bootVars, pool, queries, seen, reply, held, lost, worldVars>>

\* Anything the handler logs in this step is stamped with current_request_id().
Look(r) == seen' = [seen EXCEPT ![r] = @ \cup {context[r]}]

\* The handler returns, or an HTTPException becomes a response inside the
\* middleware: the context is reset, and the header is set.
Reply(r, status, cause) ==
    /\ reply' = [reply EXCEPT ![r] = [status |-> status, id |-> id[r], cause |-> cause]]
    /\ stage' = [stage EXCEPT ![r] = "replied"]
    /\ context' = Pinned(r, None)

\* Any other exception passes through dispatch: the 500 is made outside it.
Raise(r, cause) ==
    /\ reply' = [reply EXCEPT ![r] = [status |-> 500, id |-> None, cause |-> cause]]
    /\ stage' = [stage EXCEPT ![r] = "replied"]
    /\ context' = Pinned(r, None)

\* Faults of the code: data_version, or health, without its try.
CatchingWithoutDataVersion == Probes \ {"data_version"}
Catching == Probes

\* A query, or pool() itself, raises: the probes report it in a 200.
Fails(r, cause) ==
    IF call[r].endpoint \in Catching THEN Reply(r, 200, cause) ELSE Raise(r, cause)

\* The statuses a handler can end with before its first query, or instead of
\* one: a lookup may be a hit, or a batch that answers 200 whatever its rows got.
EarlyStatuses(c) ==
    CASE c.endpoint \in {"root", "metrics"} -> {200}
      [] c.endpoint \in Probes              -> IF dbReady THEN {} ELSE {200}
      [] c.endpoint = "exchange"            -> IF ~c.well THEN {400, 422}
                                               ELSE IF dbReady THEN {} ELSE {503}
      [] c.endpoint = "lookup"              -> {200} \cup (IF c.well THEN {} ELSE {422})
                                               \cup IF ~dbReady THEN {503}
                                                    ELSE IF c.well THEN {} ELSE {400}

\* The exceptions of a lookup that are no query's: see KeyError and
\* UnreadableHit of Lookup.
Return(r) ==
    /\ stage[r] = "called"
    /\ \/ \E status \in EarlyStatuses(call[r]) : Reply(r, status, None)
       \/ call[r].endpoint = "lookup" /\ dbReady /\ Raise(r, "value")
    /\ Look(r)
    /\ UNCHANGED <<phase, bootVars, pool, call, queries, id, held, lost, worldVars>>

\* pool() and the wait for a connection.
UsePool(r) ==
    /\ stage[r] = "called"
    /\ dbReady /\ call[r].well
    /\ call[r].endpoint \in Probes \cup {"exchange", "lookup"}
    /\ Look(r)
    /\ IF pool THEN /\ stage' = [stage EXCEPT ![r] = "waiting"]
                    /\ UNCHANGED <<reply, context>>
               ELSE Fails(r, "no pool")
    /\ UNCHANGED <<phase, bootVars, pool, call, queries, id, held, lost, worldVars>>

\* A fault of the code: the pool hands out one connection too many.
FreeOffByOne == Cardinality(held) <= PoolSize
Free == Cardinality(held) < PoolSize

Acquire(r) ==
    /\ stage[r] = "waiting" /\ Free
    /\ stage' = [stage EXCEPT ![r] = "query"]
    /\ held' = held \cup {r}
    /\ queries' = [queries EXCEPT ![r] = @ + 1]
    /\ UNCHANGED <<phase, bootVars, pool, call, id, context, seen, reply, lost, worldVars>>

\* SELECT 1 needs no tables.
Answerable(r) == postgres /\ r \notin lost /\ (schema \/ call[r].endpoint = "health")

\* The rows are there: the handler replies, or a lookup goes on to its next query.
QueryReturns(r) ==
    /\ stage[r] = "query" /\ Answerable(r)
    /\ held' = held \ {r}
    /\ Look(r)
    /\ \/ \E status \in IF call[r].endpoint \in Probes THEN {200} ELSE {200, 404} :
             Reply(r, status, None)
       \/ /\ call[r].endpoint = "lookup" /\ queries[r] < MaxQueries
          /\ stage' = [stage EXCEPT ![r] = "called"]
          /\ UNCHANGED <<reply, context>>
    /\ UNCHANGED <<phase, bootVars, pool, call, queries, id, lost, worldVars>>

\* A fault of the code: the connection is released on success only.
KeptOnFailure(r) == held
ReleasedOnFailure(r) == held \ {r}

\* Postgres is gone, or the tables have never been made.
QueryFails(r) ==
    /\ stage[r] = "query" /\ ~Answerable(r)
    /\ held' = ReleasedOnFailure(r) /\ lost' = lost \ {r}
    /\ Look(r)
    /\ Fails(r, "query")
    /\ UNCHANGED <<phase, bootVars, pool, call, queries, id, worldVars>>

Step(r) == Return(r) \/ UsePool(r) \/ Acquire(r) \/ QueryReturns(r) \/ QueryFails(r)

-----------------------------------------------------------------------------
(* The end, and the world.                                                 *)

\* SIGTERM: uvicorn stops listening and lets the open requests finish.
Stop ==
    /\ phase = "serving"
    /\ phase' = "draining"
    /\ UNCHANGED <<bootVars, pool, taskVars, worldVars>>

Drained ==
    /\ phase = "draining"
    /\ \A r \in Requests : stage[r] \notin Open
    /\ phase' = "closingCache"
    /\ UNCHANGED <<bootVars, pool, taskVars, worldVars>>

CloseCache ==
    /\ phase = "closingCache"
    /\ phase' = "closingPool"
    /\ UNCHANGED <<bootVars, pool, taskVars, worldVars>>

\* pool.close() waits until every connection has been given back.
ClosePool ==
    /\ phase = "closingPool"
    /\ held = {}
    /\ phase' = "exited"
    /\ pool' = FALSE
    /\ UNCHANGED <<bootVars, taskVars, worldVars>>

Shutdown == Drained \/ CloseCache \/ ClosePool

\* The requests die with the process; what they got has been theirs.
Forget ==
    /\ stage' = [r \in Requests |-> IF stage[r] = "new" THEN "new" ELSE "cut"]
    /\ call' = [r \in Requests |-> None] /\ id' = [r \in Requests |-> None]
    /\ context' = [r \in Requests |-> None] /\ seen' = [r \in Requests |-> {}]
    /\ queries' = [r \in Requests |-> 0] /\ reply' = [r \in Requests |-> None]
    /\ held' = {} /\ lost' = {}

\* SIGKILL, a crash, or a SIGTERM during the boot: nothing is closed.
Kill ==
    /\ phase \notin Down
    /\ phase' = "killed"
    /\ pool' = FALSE
    /\ Forget
    /\ UNCHANGED <<bootVars, worldVars>>

Start ==
    /\ phase \in Down /\ starts < MaxStarts
    /\ starts' = starts + 1
    /\ phase' = "connecting"
    /\ attempt' = 0 /\ clock' = 0 /\ refusedAt' = 0 /\ dbReady' = None
    /\ Forget
    /\ UNCHANGED <<pool, postgres, schema, outages>>

PostgresStops ==
    /\ postgres /\ outages < MaxOutages
    /\ postgres' = FALSE /\ outages' = outages + 1
    /\ lost' = held
    /\ UNCHANGED <<phase, bootVars, pool, stage, call, queries, id, context, seen,
                   reply, held, schema, starts>>

PostgresStarts ==
    /\ ~postgres
    /\ postgres' = TRUE
    /\ UNCHANGED <<phase, bootVars, pool, taskVars, schema, outages, starts>>

\* The first run of the loader.
TablesMade ==
    /\ postgres /\ ~schema
    /\ schema' = TRUE
    /\ UNCHANGED <<phase, bootVars, pool, taskVars, postgres, outages, starts>>

Init ==
    /\ phase = "connecting"
    /\ attempt = 0 /\ clock = 0 /\ refusedAt = 0 /\ dbReady = None
    /\ pool = FALSE
    /\ stage = [r \in Requests |-> "new"]
    /\ call = [r \in Requests |-> None]
    /\ queries = [r \in Requests |-> 0]
    /\ id = [r \in Requests |-> None]
    /\ context = [r \in Requests |-> None]
    /\ seen = [r \in Requests |-> {}]
    /\ reply = [r \in Requests |-> None]
    /\ held = {} /\ lost = {}
    /\ postgres \in BOOLEAN /\ schema \in BOOLEAN
    /\ outages = 0 /\ starts = 0

Next ==
    \/ Boot \/ AttemptDrags
    \/ \E r \in Requests : Accept(r) \/ Step(r)
    \/ Stop \/ Shutdown \/ Kill \/ Start
    \/ PostgresStops \/ PostgresStarts \/ TablesMade

Spec == Init /\ [][Next]_vars

\* The event loop runs whoever can run; Postgres answers a query, or refuses
\* it, or drops its connection.
FairSpec ==
    /\ Spec
    /\ WF_vars(Boot) /\ WF_vars(Shutdown)
    /\ \A r \in Requests : WF_vars(Step(r))

-----------------------------------------------------------------------------
Ids == Requests \cup Callers
Replies == [status : {200, 400, 404, 422, 500, 503}, id : Ids \cup {None},
            cause : Causes \cup {None}]

\* Every variable has its type, and asyncpg keeps to max_size (db.py:46).
TypeOK ==
    /\ phase \in Booting \cup {"serving"} \cup Closing \cup Down
    /\ attempt \in 0 .. Attempts /\ clock \in 0 .. Attempts + MaxDelay /\ refusedAt \in Nat
    /\ dbReady \in BOOLEAN \cup {None}
    /\ pool \in BOOLEAN
    /\ stage \in [Requests -> {"new", "replied", "cut"} \cup Open]
    /\ call \in [Requests -> Calls \cup {None}]
    /\ queries \in [Requests -> 0 .. MaxQueries]
    /\ id \in [Requests -> Ids \cup {None}]
    /\ context \in [Requests -> Ids \cup {None}]
    /\ seen \in [Requests -> SUBSET (Ids \cup {None})]
    /\ reply \in [Requests -> Replies \cup {None}]
    /\ held \subseteq Requests /\ lost \subseteq held
    /\ postgres \in BOOLEAN /\ schema \in BOOLEAN
    /\ outages \in 0 .. MaxOutages /\ starts \in 0 .. MaxStarts
    /\ Cardinality(held) <= PoolSize

\* Nobody finds db_ready true and the pool gone: not after a degraded boot, not
\* while the process shuts down, not when it comes up again (main.py:82-110,
\* db.py:57-60): what is reported or raised below the handlers is Postgres's.
PoolWhenReady ==
    \A r \in Requests :
        /\ stage[r] \in {"waiting", "query"} => pool
        /\ reply[r] # None => reply[r].cause # "no pool"

\* main.py:67-74: one race at a cold start does not leave the service degraded.
\* It is so only if Postgres still refused nine seconds into the boot.
PatientBoot == phase \notin Booting /\ dbReady = FALSE => refusedAt >= 9

\* "Always 200; ok=false in the body" (main.py:213-214, and 270-274): whatever
\* fails below them, and in whatever phase, the probes answer.
ProbesAlwaysAnswer ==
    \A r \in Requests :
        stage[r] = "replied" /\ call[r].endpoint \in Probes => reply[r].status = 200

\* middleware.py:6-16, "A contextvar follows the async task graph": through
\* every await of its handler, and whatever the other requests do meanwhile, a
\* request sees one id, its own -- the caller's if that is short enough, else
\* one that nobody else has -- and that id is the one a response carries.
OneIdPerRequest ==
    \A r \in Requests :
        /\ stage[r] \in Open \cup {"replied"} => id[r] = (IF Incoming[r] \in Callers THEN Incoming[r] ELSE r)
        /\ seen[r] \subseteq {id[r]}
        /\ reply[r] # None => reply[r].id \in {id[r], None}

\* Whatever Postgres does, the boot ends and the liveness endpoint answers
\* (main.py:94-97), unless the process is killed.
BootEnds == phase \in Booting ~> phase \in {"serving"} \cup Down

\* Every request that gets in is answered or cut off: no connection is lost to
\* the pool when a query fails under its holder.
CallsEnd == \A r \in Requests : stage[r] \in Open ~> stage[r] \notin Open

\* A stopped service drains, closes the cache and the pool, and is gone: nobody
\* holds on to a connection that pool.close() waits for.
ShutdownEnds == phase \in Closing ~> phase \in Down

-----------------------------------------------------------------------------
\* middleware.py:3-12: "Every request gets an X-Request-ID ... Echoed back in the
\* response header so the caller can correlate."
EveryResponseHasId == \A r \in Requests : reply[r] # None => reply[r].id = id[r]
=============================================================================
