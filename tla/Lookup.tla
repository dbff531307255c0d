------------------------------ MODULE Lookup ------------------------------
(***************************************************************************)
(* The lookup path of the service: main.py's _resolve_one, lookup_batch    *)
(* and _finalize, the Redis cache of cache.py, the queries of db.py over   *)
(* the asyncpg pool and the counters of metrics.py, while the loader (Etl) *)
(* changes the tables and time passes.                                     *)
(*                                                                         *)
(* The service is one asyncio process: the code between two awaits that    *)
(* really suspend is one step.  A request is the task that serves it.      *)
(***************************************************************************)
EXTENDS LookupAnswers

CONSTANTS
    PoolSize,       \* max_size of the asyncpg pool
    TTL,            \* config.cache_ttl_seconds, in ticks
    MaxLatency,     \* environment: no item is worked on for longer than this
    MaxTime,        \* bound: ticks
    MaxRestarts,    \* bound: restarts of the service process
    DbFaults,       \* can Postgres fail a query?
    RedisFaults,    \* can Redis fail a command, or lose entries?
    Upgrades        \* can a restart bring a release with another envelope?

ASSUME LookupAssumption ==
    /\ PoolSize \in Nat \ {0}
    /\ TTL \in Nat \ {0} /\ MaxLatency \in Nat
    /\ MaxTime \in Nat /\ MaxRestarts \in Nat
    /\ DbFaults \in BOOLEAN /\ RedisFaults \in BOOLEAN /\ Upgrades \in BOOLEAN

VARIABLES
    dbReady,    \* app.state.db_ready
    cacheUp,    \* is cache._CLIENT set?
    pc,         \* pc[r]: what request r waits for
    body,       \* body[r]: what it carries
    results,    \* results[r]: the outcome of each item worked off so far
    row,        \* row[r]: the row the current item resolved to
    envelope,   \* envelope[r]: the response being written to the cache
    began,      \* began[r]: when work on the current item began
    counter,    \* the Counters of the process
    cache,      \* cache[k]: the entry of key k in Redis
    now,
    changedAt,  \* when the content of the tables last changed
    upgradedAt, \* when a release with another envelope was last brought in
    restarts

serviceVars == <<dbReady, cacheUp, pc, body, results, row, envelope, began, counter>>
lookupVars == <<serviceVars, cache, now, changedAt, upgradedAt, restarts>>
vars == <<etlVars, lookupVars>>

Counters == {"lookups", "errors", "hits", "misses"} \cup Modes

\* Waiting for Redis or Postgres on behalf of the current item; "want..." is
\* the wait for a connection of the pool.
Working == {"get", "wantRow", "row", "wantCities", "cities", "set"}

\* A fault of the code: the connection of the row query is kept while
\* cities_within acquires a second one.
HoldingAcrossQueries ==
    {r \in Requests : pc[r] \in {"row", "cities"} \/ (pc[r] = "wantCities" /\ row[r] # None)}
Holding == {r \in Requests : pc[r] \in {"row", "cities"}}

\* A fault of the code: the pool hands out one connection too many.
ConnectionFreeOffByOne == Cardinality(Holding) <= PoolSize
ConnectionFree == Cardinality(Holding) < PoolSize

\* Answered with the results; ended in a 500 because a query failed, or for
\* another exception; refused with a 422; cut off by a restart.
Finished == {"answered", "failed", "raised", "rejected", "gone"}

Item(r) == body[r].items[Len(results[r]) + 1]

-----------------------------------------------------------------------------
Bump(names) == counter' = [c \in Counters |-> IF c \in names THEN counter[c] + 1 ELSE counter[c]]

\* A fault of the code: the last item of a batch is forgotten.
ConcludeTooEarly(r, result) ==
    /\ results' = [results EXCEPT ![r] = Append(@, result)]
    /\ pc' = [pc EXCEPT ![r] =
                 IF Len(results[r]) + 2 >= Len(body[r].items) THEN "answered" ELSE "next"]
    /\ row' = [row EXCEPT ![r] = None]
    /\ envelope' = [envelope EXCEPT ![r] = None]
    /\ began' = [began EXCEPT ![r] = 0]

\* The current item is resolved or has raised an HTTPException: its outcome
\* is appended, and the request is answered or goes on with its next item.
Conclude(r, result) ==
    /\ results' = [results EXCEPT ![r] = Append(@, result)]
    /\ pc' = [pc EXCEPT ![r] =
                 IF Len(results[r]) + 1 = Len(body[r].items) THEN "answered" ELSE "next"]
    /\ row' = [row EXCEPT ![r] = None]
    /\ envelope' = [envelope EXCEPT ![r] = None]
    /\ began' = [began EXCEPT ![r] = 0]

\* A request arrives; an over-long batch is a 422, an empty one is answered.
Arrive(r, b) ==
    /\ pc[r] = "new"
    /\ body' = [body EXCEPT ![r] = b]
    /\ pc' = [pc EXCEPT ![r] = IF Len(b.items) > BatchCap THEN "rejected"
                               ELSE IF b.items = <<>> THEN "answered" ELSE "next"]
    /\ UNCHANGED <<etlVars, dbReady, cacheUp, results, row, envelope, began, counter,
                   cache, now, changedAt, upgradedAt, restarts>>

\* A fault of the code: the parse failure is not counted as an error.
CountedOnBadPhoneNoError == {"lookups"}
CountedOnBadPhone == {"lookups", "errors"}

\* The early exits of _resolve_one, before anything is awaited.
Refuse(r) ==
    /\ pc[r] = "next"
    /\ \/ ~dbReady /\ Bump({"errors"}) /\ Conclude(r, Error("unready"))
       \/ dbReady /\ ~WellFormed(Item(r)) /\ Bump({"errors"}) /\ Conclude(r, Error("shape"))
       \/ /\ dbReady /\ WellFormed(Item(r)) /\ ~Parses(Item(r))
          /\ Bump(CountedOnBadPhone)
          /\ Conclude(r, Error("phone"))
    /\ UNCHANGED <<etlVars, dbReady, cacheUp, body, cache, now, changedAt, upgradedAt, restarts>>

\* int() of a radius that is NaN raises while the key is built.
KeyError(r) ==
    /\ pc[r] = "next"
    /\ dbReady /\ WellFormed(Item(r)) /\ Parses(Item(r)) /\ ~Keyed(Item(r))
    /\ Bump({"lookups"})
    /\ pc' = [pc EXCEPT ![r] = "raised"]
    /\ UNCHANGED <<etlVars, dbReady, cacheUp, body, results, row, envelope, began,
                   cache, now, changedAt, upgradedAt, restarts>>

\* After a miss the modes that need no row count their mode there and then.
AfterMiss(i) == IF NeedsRow(i) THEN "wantRow" ELSE "wantCities"
CountedOnMiss(i) == {"misses"} \cup IF NeedsRow(i) THEN {} ELSE {Mode(i)}

\* A valid item is started: with a cache the task waits for its GET, without
\* one get_lookup returns None at once and the same step goes on.
Start(r) ==
    /\ pc[r] = "next"
    /\ dbReady /\ Usable(Item(r))
    /\ began' = [began EXCEPT ![r] = now]
    /\ IF cacheUp
          THEN /\ pc' = [pc EXCEPT ![r] = "get"]
               /\ Bump({"lookups"})
          ELSE /\ pc' = [pc EXCEPT ![r] = AfterMiss(Item(r))]
               /\ Bump({"lookups"} \cup CountedOnMiss(Item(r)))
    /\ UNCHANGED <<etlVars, dbReady, cacheUp, body, results, row, envelope,
                   cache, now, changedAt, upgradedAt, restarts>>

\* Faults of the code: a hit also counts as a miss; a hit has no mode.
CountedOnHitAndMiss(env) == {"hits", "misses", env.mode}
CountedOnHitWithoutMode(env) == {"hits"}

\* The counters a hit moves: the mode is read off the cached envelope.
CountedOnHit(env) == {"hits", env.mode}

CacheHit(r) ==
    /\ pc[r] = "get"
    /\ cache[CacheKey(Item(r))] # None
    /\ cache[CacheKey(Item(r))].readable
    /\ LET env == cache[CacheKey(Item(r))].response
       IN  Bump(CountedOnHit(env)) /\ Conclude(r, Ok(env))
    /\ UNCHANGED <<etlVars, dbReady, cacheUp, body, cache, now, changedAt, upgradedAt, restarts>>

\* The entry is of another release and model_validate raises, after the hit
\* has been counted: both kinds are where every release has put them.
UnreadableHit(r) ==
    /\ pc[r] = "get"
    /\ cache[CacheKey(Item(r))] # None
    /\ ~cache[CacheKey(Item(r))].readable
    /\ Bump(CountedOnHit(cache[CacheKey(Item(r))].response))
    /\ pc' = [pc EXCEPT ![r] = "raised"]
    /\ UNCHANGED <<etlVars, dbReady, cacheUp, body, results, row, envelope, began,
                   cache, now, changedAt, upgradedAt, restarts>>

\* The key is absent, or the GET fails and get_lookup turns that into a miss.
CacheMiss(r) ==
    /\ pc[r] = "get"
    /\ RedisFaults \/ cache[CacheKey(Item(r))] = None
    /\ Bump(CountedOnMiss(Item(r)))
    /\ pc' = [pc EXCEPT ![r] = AfterMiss(Item(r))]
    /\ UNCHANGED <<etlVars, dbReady, cacheUp, body, results, row, envelope, began,
                   cache, now, changedAt, upgradedAt, restarts>>

\* pool().acquire(): waiters are not served in order, a newcomer may pass them.
Acquire(r) ==
    /\ pc[r] \in {"wantRow", "wantCities"}
    /\ ConnectionFree
    /\ pc' = [pc EXCEPT ![r] = IF @ = "wantRow" THEN "row" ELSE "cities"]
    /\ UNCHANGED <<etlVars, dbReady, cacheUp, body, results, row, envelope, began, counter,
                   cache, now, changedAt, upgradedAt, restarts>>

\* Can the query the request is at run at all?
Executable(r) == schema /\ (pc[r] = "row" => Queryable(Item(r)))

FindRow(r) ==
    /\ pc[r] = "row" /\ Executable(r)
    /\ \E x \in RowsFor(Item(r)) : row' = [row EXCEPT ![r] = x]
    /\ Bump({Mode(Item(r))})
    /\ pc' = [pc EXCEPT ![r] = "wantCities"]
    /\ UNCHANGED <<etlVars, dbReady, cacheUp, body, results, envelope, began,
                   cache, now, changedAt, upgradedAt, restarts>>

FindNothing(r) ==
    /\ pc[r] = "row" /\ Executable(r)
    /\ RowsFor(Item(r)) = {}
    /\ Bump({"errors"})
    /\ Conclude(r, Error("missing"))
    /\ UNCHANGED <<etlVars, dbReady, cacheUp, body, cache, now, changedAt, upgradedAt, restarts>>

\* cities_within and the building of the envelope, up to the SET of _finalize.
FindCities(r) ==
    /\ pc[r] = "cities" /\ Executable(r)
    /\ \E env \in EnvelopesFrom(Item(r), IF NeedsRow(Item(r)) THEN row[r] ELSE None) :
          IF cacheUp
              THEN /\ envelope' = [envelope EXCEPT ![r] = env]
                   /\ pc' = [pc EXCEPT ![r] = "set"]
                   /\ UNCHANGED <<results, row, began>>
              ELSE Conclude(r, Ok(env))
    /\ UNCHANGED <<etlVars, dbReady, cacheUp, body, counter, cache, now, changedAt, upgradedAt, restarts>>

\* asyncpg raises: Postgres is gone, the tables do not exist, or the argument
\* is no inet.  Only HTTPException is caught, so the whole request is a 500.
QueryError(r) ==
    /\ \/ DbFaults /\ pc[r] \in {"wantRow", "row", "wantCities", "cities"}
       \/ pc[r] \in {"row", "cities"} /\ ~Executable(r)
    /\ pc' = [pc EXCEPT ![r] = "failed"]
    /\ UNCHANGED <<etlVars, dbReady, cacheUp, body, results, row, envelope, began, counter,
                   cache, now, changedAt, upgradedAt, restarts>>

\* A fault of the code: the time to live is given in another unit.
ExpiryTooLong == now + 2 * TTL
Expiry == now + TTL

\* The SET with its expiry, best effort, and the answer.
CacheSet(r) ==
    /\ pc[r] = "set"
    /\ \/ cache' = [cache EXCEPT ![CacheKey(Item(r))] =
                       [response |-> envelope[r], expires |-> Expiry, readable |-> TRUE]]
       \/ RedisFaults /\ UNCHANGED cache
    /\ Conclude(r, Ok(envelope[r]))
    /\ UNCHANGED <<etlVars, dbReady, cacheUp, body, counter, now, changedAt, upgradedAt, restarts>>

-----------------------------------------------------------------------------
\* Redis keeps nothing on disk and may drop an entry at any time.
Evict(k) ==
    /\ RedisFaults
    /\ cache[k] # None
    /\ cache' = [cache EXCEPT ![k] = None]
    /\ UNCHANGED <<etlVars, serviceVars, now, changedAt, upgradedAt, restarts>>

\* Time passes, and Redis drops the entries whose time has come.
Tick ==
    /\ now < MaxTime
    /\ \A r \in Requests : pc[r] \in Working => now < began[r] + MaxLatency
    /\ now' = now + 1
    /\ cache' = [k \in CacheKeys |-> IF cache[k] # None /\ cache[k].expires = now + 1
                                        THEN None ELSE cache[k]]
    /\ UNCHANGED <<etlVars, serviceVars, changedAt, upgradedAt, restarts>>

\* The container dies and is restarted: the tasks and the counters are lost,
\* the database and the cache are not, and the boot may end in either state.
\* What restarts may be a release that cannot read the entries it finds.
Restart ==
    /\ restarts < MaxRestarts
    /\ restarts' = restarts + 1
    /\ dbReady' \in BOOLEAN /\ cacheUp' \in BOOLEAN
    /\ pc' = [r \in Requests |-> IF pc[r] = "new" THEN "new" ELSE "gone"]
    /\ results' = [r \in Requests |-> <<>>]
    /\ row' = [r \in Requests |-> None]
    /\ envelope' = [r \in Requests |-> None]
    /\ began' = [r \in Requests |-> 0]
    /\ counter' = [c \in Counters |-> 0]
    /\ \/ UNCHANGED <<cache, upgradedAt>>
       \/ /\ Upgrades /\ upgradedAt' = now
          /\ cache' = [k \in CacheKeys |-> IF cache[k] = None THEN None
                                            ELSE [cache[k] EXCEPT !.readable = FALSE]]
    /\ UNCHANGED <<etlVars, body, now, changedAt>>

EtlStep ==
    /\ EtlNext
    /\ changedAt' = IF table' = table THEN changedAt ELSE now
    /\ UNCHANGED <<serviceVars, cache, now, upgradedAt, restarts>>

Step(r) == \/ Refuse(r) \/ KeyError(r) \/ Start(r)
           \/ CacheHit(r) \/ UnreadableHit(r) \/ CacheMiss(r) \/ Acquire(r)
           \/ FindRow(r) \/ FindNothing(r) \/ FindCities(r) \/ QueryError(r) \/ CacheSet(r)

Init ==
    /\ EtlInit
    /\ dbReady \in BOOLEAN /\ cacheUp \in BOOLEAN
    /\ pc = [r \in Requests |-> "new"]
    /\ body = [r \in Requests |-> NoBody]
    /\ results = [r \in Requests |-> <<>>]
    /\ row = [r \in Requests |-> None]
    /\ envelope = [r \in Requests |-> None]
    /\ began = [r \in Requests |-> 0]
    /\ counter = [c \in Counters |-> 0]
    /\ cache = [k \in CacheKeys |-> None]
    /\ now = 0 /\ changedAt = 0 /\ upgradedAt = 0 /\ restarts = 0

Next ==
    \/ \E r \in Requests : Step(r) \/ \E b \in Bodies : Arrive(r, b)
    \/ \E k \in CacheKeys : Evict(k)
    \/ Tick
    \/ Restart
    \/ EtlStep

Spec == Init /\ [][Next]_vars

\* The event loop runs every task that can run, and every command sent to
\* Redis or Postgres is answered or fails.
FairSpec == Spec /\ \A r \in Requests : WF_vars(Step(r))

-----------------------------------------------------------------------------
(* Types.                                                                  *)

Entries == [response : Envelopes, expires : Nat, readable : BOOLEAN]

\* Every variable has its type.  Three bounds make it more than that: a
\* request is never worked on without a pool, never past its last item, and
\* asyncpg never hands out more than PoolSize connections (db.py init_pool).
TypeOK ==
    /\ EtlTypeOK
    /\ dbReady \in BOOLEAN /\ cacheUp \in BOOLEAN
    /\ pc \in [Requests -> {"new", "next"} \cup Working \cup Finished]
    /\ body \in [Requests -> Bodies \cup {NoBody}]
    /\ results \in [Requests -> Seq(Results)]
    /\ row \in [Requests -> RowsOrNone]
    /\ envelope \in [Requests -> Envelopes \cup {None}]
    /\ began \in [Requests -> 0 .. now]
    /\ counter \in [Counters -> Nat]
    /\ cache \in [CacheKeys -> Entries \cup {None}]
    /\ now \in Nat /\ changedAt \in 0 .. now /\ upgradedAt \in 0 .. now /\ restarts \in Nat
    /\ \A r \in Requests :
          /\ pc[r] \in Working => dbReady
          /\ pc[r] \in Working \cup {"next"} => Len(results[r]) < Len(body[r].items)
    /\ Cardinality(Holding) <= PoolSize

-----------------------------------------------------------------------------
(* The counters.                                                           *)

\* The items that ended with this error, as (request, position) pairs.
Positions == {p \in Requests \X (1 .. BatchCap) : p[2] <= Len(results[p[1]])}
EndedWith(code) == {p \in Positions : LET result == results[p[1]][p[2]]
                                      IN  ~result.ok /\ result.error = code}
WaitingAt(places) == {r \in Requests : pc[r] \in places}

\* metrics.py:43-46: hits and misses sum to the cacheable lookups, everything
\* except the validation errors, so that hits / (hits + misses) is the hit
\* ratio.  Exactly: every lookup counted is a hit, a miss, a phone that does
\* not parse, a radius that has no key, or still waits for its GET -- through
\* any interleaving of requests, faults of Redis and Postgres, and restarts.
HitsAndMissesBalance ==
    counter["lookups"] = counter["hits"] + counter["misses"]
                         + Cardinality(EndedWith("phone"))
                         + Cardinality({r \in WaitingAt({"raised"}) : ~Keyed(Item(r))})
                         + Cardinality(WaitingAt({"get"}))

\* The break-out by mode loses nothing when the cache warms up
\* (main.py:446-449): each hit and each miss is in exactly one mode, unless
\* its row was not found (404), is still being looked up, or could not be
\* looked up because the query failed.
ModesBalance ==
    LET noRow == {r \in WaitingAt({"failed"}) : NeedsRow(Item(r)) /\ row[r] = None}
    IN  counter["hits"] + counter["misses"] =
            counter["phone"] + counter["ip"] + counter["coords"] + counter["fallback"]
            + Cardinality(EndedWith("missing"))
            + Cardinality(WaitingAt({"wantRow", "row"})) + Cardinality(noRow)

\* main.py:642-646: the counters have moved before the exception is caught, so
\* the errors counted are exactly the items answered with an error, alone or
\* in a batch.
ErrorsBalance ==
    counter["errors"] = Cardinality(UNION {EndedWith(code) : code \in Errors})

\* metrics.py:71: townsfolk_lookup_errors_total counts the "/v1/lookup calls
\* that ended in 4xx/5xx"; a request that ended in a 500 is one of them.
ErrorsCoverEvery5xx ==
    counter["errors"] >= Cardinality(UNION {EndedWith(code) : code \in Errors})
                         + Cardinality(WaitingAt({"failed", "raised"}))

-----------------------------------------------------------------------------
(* The answers.                                                            *)

\* Whoever filled the cache slot, however the tables changed between the two
\* queries, and whatever else the request or others do in between: an item
\* is answered for the question asked, up to the spellings and the radii of
\* the same whole kilometre that share a slot (cache.py lookup_cache_key).
AnswerFitsQuestion ==
    \A r \in Requests : \A n \in DOMAIN results[r] :
        results[r][n].ok => FitsSome(body[r].items[n], results[r][n].response)

\* Radii that share a slot (cache.py:130-134) are less than a kilometre apart;
\* only a negative one, which the rows of a batch may have, shares the slot of
\* both sides of zero, and is less than two apart.
RadiusNearlyHonoured ==
    \A r \in Requests : \A n \in DOMAIN results[r] : results[r][n].ok =>
        LET asked == Radius(body[r].items[n])
            given == results[r][n].response.radius
            apart == IF asked >= 0 /\ given >= 0 THEN Km ELSE 2 * Km
        IN  asked < given + apart /\ given < asked + apart

\* An envelope says nothing of the towns that LIMIT 100 has cut off (db.py:130).
\* With the tables left alone: whether it is computed or cached, and for any
\* item that shares its slot, every town within its radius is in it, or it is
\* full of towns at least as near.
NearestListed ==
    \A r \in Requests : \A n \in DOMAIN results[r] : results[r][n].ok =>
        LET env == results[r][n].response IN
        \E j \in UsableItems :
            /\ SameQuestion(body[r].items[n], j) /\ Fits(env, j)
            /\ \A q \in CitiesWithin(Point(j, env.row), env.radius) \ env.cities :
                  /\ Cardinality(env.cities) = CityLimit
                  /\ \A p \in env.cities : Distance(Point(j, env.row), p.key)
                                             <= Distance(Point(j, env.row), q.key)

\* The number an envelope repeats can be asked for in its place (phone.py:61-78,
\* main.py:474 and 501): it parses to itself, so that whoever follows up on an
\* answer with the value in it shares its slot, however the number was first
\* written.
EchoSharesSlot ==
    \A r \in Requests : \A n \in DOMAIN results[r] :
        LET i == body[r].items[n] IN
        /\ results[r][n].ok /\ Kind(i) = "phone"
        /\ E164(results[r][n].response.value) \in PhoneTexts
        => CacheKey([i EXCEPT !.phone = E164(results[r][n].response.value)]) = CacheKey(i)

\* config.py:36-39 relies on the time to live to bound how long a reload goes
\* unseen.  Once the tables have been left alone for that time and the time
\* one item can take, every entry of the cache is an answer that the tables
\* give now: an old row or an old list of cities read before the change and
\* written after it has gone as well.
StaleBounded ==
    now >= changedAt + TTL + MaxLatency =>
        \A k \in CacheKeys : cache[k] # None =>
            \E i \in UsableItems : CacheKey(i) = k /\ cache[k].response \in Answers(i)

\* An upgrade that changes the envelope can fail requests (main.py:458) for one
\* time to live and no longer: nothing an older release wrote is renewed, and
\* what is written later can be read.
UpgradeOutlived ==
    now >= upgradedAt + TTL => \A k \in CacheKeys : cache[k] # None => cache[k].readable

\* A number, and an address unless the loader itself has doubled its blocks,
\* resolves to one row at most: fetchrow's free choice among several rows
\* (db.py:68-100) never shows, whatever runs of the loader overlap, as long as
\* no two blocks start at one address.
OneRowPerQuestion ==
    \A i \in UsableItems : (Mode(i) = "ip" => \E e \in Runs : sole[e]) =>
        \A x, y \in RowsFor(i) : x = y

\* A request that is being served is answered, refused, failed or cut off by
\* a restart: nobody waits for ever for a connection, because no task holds
\* one while it waits for another (db.py: each query acquires and releases).
EveryRequestEnds ==
    \A r \in Requests : pc[r] = "next" ~> pc[r] \in Finished

-----------------------------------------------------------------------------
(* What the documentation says and the code does not do.                   *)

\* main.py:615-616: "a bad input lands in that row's result envelope, the
\* rest still process".  With the tables there and Postgres answering, no
\* item of a batch ends the whole batch.
BatchIsolated ==
    \A r \in Requests : schema /\ ~body[r].solo => pc[r] \notin {"failed", "raised"}

\* cache.py:130-132: "Radius is part of the key because the response body
\* includes cities_within, which depends on it".  A response is computed for
\* the radius that was asked for.
RadiusHonoured ==
    \A r \in Requests : \A n \in DOMAIN results[r] :
        results[r][n].ok => results[r][n].response.radius = Radius(body[r].items[n])

\* Without the cache, and with Postgres there, item i would be answered: the
\* tables exist, asyncpg can encode its argument, and it has a row.
Answerable(i) == schema /\ Queryable(i) /\ RowsFor(i) # {}

\* cache.py:5-6: "Losing the cache makes lookups slower; it never breaks
\* them".  Whoever is about to be answered from the cache would be answered
\* from the tables, if the entry or the cache were lost before its GET.
CacheLossHarmless ==
    \A r \in Requests :
        pc[r] = "get" /\ cache[CacheKey(Item(r))] # None => Answerable(Item(r))
=============================================================================
