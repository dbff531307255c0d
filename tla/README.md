# townsfolk in TLA+

townsfolk is one FastAPI process that answers *where is this phone number / IP
address / point, and which towns are near it*, from three PostGIS tables that a
separate process reloads every night, with Redis in front. This directory holds
a model of it, the TLC runs that check the model, and theorems about it that
TLAPS checks.

## 1. The system

| Part | Source | State | Operations |
| --- | --- | --- | --- |
| nightly loader | `scripts/load.py`, `scripts/schema.sql` | three tables; its own progress | schema script, TRUNCATE of all three, three bulk loads, ANALYZE; no transaction around them |
| lookup path | `main.py` (`_resolve_one`, `_finalize`, `lookup`, `lookup_batch`), `models.py` | the task of each request | validate, key, GET, row query, cities query, SET, count |
| lookup cache | `cache.py` | `_CLIENT`; the `lookup:*` keys in Redis | get, set with expiry, key construction; every failure is swallowed |
| database access | `db.py` | `_POOL`, 8 connections at most | `lookup_exchange`, `lookup_ip`, `cities_within`, each on a connection of its own |
| counters | `metrics.py` | `Counters` of the process | increments spread over `_resolve_one` |
| phone parsing | `phone.py` | none | `parse` |
| boot and shutdown | `main.py` `lifespan` | `app.state.db_ready`, `_CLIENT`, `_POOL` | ten connection attempts, best-effort cache, closing both |
| probes | `main.py` | none of their own | `/metrics`, `/v1/health`, `/v1/health/dependencies`, `/v1/data-version`, `/v1/exchanges` |
| request ids | `middleware.py` | a contextvar per task | mint or take over an id, echo it |
| configuration | `config.py` | constants | read the environment once |

How they interact. The loader and the service share nothing but the tables: the
service only reads them, on other connections, between any two statements of the
loader. The service and its cache share the `lookup:*` keys, which outlive the
process. Inside the process everything is one asyncio event loop, so the code
between two awaits that really suspend is atomic, and the hard behaviour lies at
the awaits: the GET, the wait for a pool connection, the row query, a second wait
for a connection, the cities query, the SET. `get_lookup` and `set_lookup` return
without suspending when there is no Redis client.

What is hard to test in it:

* the loader's TRUNCATE is visible at once, to readers and to a second loader;
* an answer is put together from two queries with the tables changing in between,
  is cached afterwards, and lives in the cache for a full time to live from *then*;
* two misses of one key race for its slot, and spellings of one question share it;
* counters move in several places with awaits in between, and must add up;
* each lookup acquires two connections from a bounded pool, one after the other;
* Redis, Postgres, the loader and the process itself fail between any two steps;
* one item of a batch can end the batch;
* a new release finds the entries of the old one in Redis;
* Postgres comes up after the service, goes away under it, and the pool is closed
  while requests are being drained;
* a client takes the token of `/v1/data-version` for the state of the data while
  its requests, the loader and Redis are each at another moment;
* the id of one request must not show in another that runs between its awaits.

`PROJECT.json` lists these hazards at their lines.

What makes each part correct. *Loader*: a run that nobody disturbs leaves exactly
what it read, whatever mess it found; no key twice. *Lookup path*: every answer is
to the question asked; every request ends. *Cache*: nothing outdated stays longer
than the time to live after a reload (plus the time one item takes). *Pool*: never
more connections than it has, and nobody waits for ever. *Counters*: hits, misses,
modes and errors balance at every moment. *Phone parsing*: what it makes of a
number can be asked for in its place. *Boot and shutdown*: whoever finds the
database ready finds the pool; a late Postgres is waited for; both ends come to an
end. *Probes*: they answer whatever fails, and equal tokens mean equal data.
*Request ids*: one per request, its own.

## 2. Modules

| Module | What it is |
| --- | --- |
| `Etl` | the loader, statement by statement, and the three tables |
| `Phone` | `phone.parse` on sequences of characters (operators only) |
| `LookupInput` | extends `Phone`: what an item asks: validation, canonical forms, radius, cache key (operators only) |
| `LookupAnswers` | extends `Etl` and `LookupInput`: the three queries, the envelope, and when an envelope answers an item (operators only) |
| `Lookup` | requests as tasks, pool, cache, counters, time, restarts; `EtlStep` is a step of the loader |
| `LookupContract` | what the lookup path promises, without any of these |
| `LookupRefinement` | the mapping under which `Lookup` implements `LookupContract` |
| `Polling` | extends `Lookup`: `/v1/data-version` and a client that keeps answers by its token |
| `Service` | the process: boot, endpoints as users of the pool, request ids, drain, shutdown, kill and restart |
| `MCEtl`, `MCLookup`, `MCPolling`, `MCService` | the finite instances for TLC |
| `EtlProofs`, `LookupProofs`, `ServiceProofs` | theorems about these modules |
| `CounterProofs`, `AnswerProofs`, `PollingProofs` | extend `LookupProofs`: the counters; what is in an answer; the client of `/v1/data-version` |
| `RefinementProofs` | `Lookup` implements `LookupContract` |

### Etl

A *record* of a source file is its key (npa and nxx, place id, address block) and
the build of the file; a *row* also carries the transaction that wrote it
(Postgres's `xmin`). All other columns follow from key and build. One action per
statement of `main` (`ApplySchema`, `Truncate`, `Analyze`) and three for each load, in
the order of the code, unless its file is missing (`SkipLoad`): `ReadFile` takes the
file as it is into memory (`read`, `parsed`), `BeginLoad` is the first row, with which
Postgres gives the transaction its id (`txn`), and `Load` is the commit. `executemany`
and `COPY` are atomic in asyncpg and Postgres, so that other connections see nothing of
a load before its commit; the loads of overlapping runs may commit in another order
than their ids. TRUNCATE locks the tables and waits for open loads of other runs. `Fail`
ends a run after any step, for whatever reason, and rolls back what it had open.
`Rebuild` is the environment: gazetteer or the download replaces a file, with fewer
keys, unparseable, or not at all, also between the reading and the commit. Any number
of runs may overlap, since nothing in the code prevents it. `sole` and `generation` are
history variables.

### Lookup

`pc[r]` is the await request `r` is at: `get`, `wantRow`, `row`, `wantCities`,
`cities`, `set`; `next` is the head of the loop over the items of a batch (a solo
request is a batch of one), where another task may run only because the item
before it suspended; allowing one there in every case adds behaviours and removes none.

| Action | Code |
| --- | --- |
| `Arrive` | the handlers, with the 422 of an over-long batch |
| `Refuse` | the 503 and the two 400s at the top of `_resolve_one` |
| `KeyError` | a radius that is NaN: `int()` raises in `lookup_cache_key`, and the request is a 500 |
| `Start` | `lookups_total`, radius, parse, key, and on to the GET, or past it without a client |
| `CacheHit`, `CacheMiss` | `get_lookup`, the hit's two counters; the miss, a failing GET included, and the mode counted there and then by the two modes that need no row |
| `UnreadableHit` | an entry of another release: the hit is counted, then `model_validate` raises |
| `Acquire` | `pool().acquire()`: any waiter may get a free connection |
| `FindRow`, `FindNothing` | `lookup_exchange`, `lookup_ip`; the 404 |
| `FindCities` | `cities_within`, the envelope |
| `CacheSet` | `_finalize`: the SET, or its failure, and the answer |
| `QueryError` | a query that raises: only `HTTPException` is caught, so the request is a 500 |
| `Evict`, `Tick`, `Restart` | Redis losing an entry; time and expiry; the container dying, and coming back with the same or another release |

The envelope keeps what a property can tell apart: mode, value, row, radius,
cities. Phone texts are sequences of characters that `Phone` really parses; the
other texts are model values, and the conversions on them (`strip`, `round`, the
inet codec) are functions given by the instance, so that several texts share one
canonical form and some cannot be encoded. Radii are tenths of a kilometre, so that
`int(radius)` really truncates, towards zero for the negative ones of a batch; NaN
is the radius that is no number. Addresses are numbers and blocks are pairs of
them, so that blocks may nest and the last start wins. The cities are the nearest
`CityLimit` within the radius by the constant `Distance`.

`changedAt` and `upgradedAt` are history variables: when the tables last changed,
and when a release with another envelope last came in. `MaxLatency` is
an assumption about the environment: `Tick` does not let an item be worked on for
longer. The code sets no timeout on a GET, an acquire or a query, so the bound it
stands for is that of the deployment, and `StaleBounded` says how staleness
depends on it: `config.py` speaks of the time to live alone, and the latency of
one item comes on top.

### LookupContract and LookupRefinement

The contract knows no tasks, pool, cache, counters or clock. The service *knows*
some rows: all that are in the tables, and some that were. It may forget rows at any
step, and can come to know only those that are in the tables then. A request is
worked off item by item; each outcome is given once and stays: an envelope that fits
the question and is made of known rows, or the error that the item, the service or
the tables have earned at that moment (a 404 only while there is no row). It ends
answered, or lost to an exception or a crash, and then none of its outcomes is given.
`LookupRefinement` maps `known` to what is in the tables, in the tasks' local
variables and in Redis, and `pc` to the four statuses of a request. That known rows
come from the tables alone is what rules out an envelope pieced together from
anything else: an entry overwritten by an older one, two tasks that mix up their rows.

### Polling

`ReadVersion` is the one query of `data_version`; its response reaches the client in
a step of its own, and so do the requests and the answers, so that loader statements
fall between any two of them. The client is the careful reader of the docstring: it
drops what it kept when the token changes, and does not keep what it had asked for
under another token. `KeptIsCurrent` says what it gets. Without Redis: while its token
is the version of the tables, all it keeps is what the tables answer. With Redis the
service can hand it the old envelope again after the new token, and the client then
keeps that until the next reload; the property allows it for requests sent before
`changedAt + TTL + MaxLatency`, and for no other. A client that wants to rely on the
token has to wait for that time after it has changed. Three empty tables have one
token, (0, 0) each, whenever they are empty; the property leaves them out.

### Service

`phase` is the process: `connecting`, `sleeping`, `pinging` (`lifespan` before its
`yield`), `serving`, `draining` (uvicorn lets open requests finish), `closingCache`,
`closingPool`, `exited`, or `killed`. uvicorn, the container runtime and Postgres are
external; what is used of them is that uvicorn listens only after the startup part
of `lifespan`, runs its shutdown part only when no request is left, and that a signal
during the boot, or a second one, ends the process without it (`Kill`).

| Action | Code |
| --- | --- |
| `AttemptSucceeds`, `AttemptFails`, `AttemptDrags`, `Sleep` | the loop of `lifespan`, with the sleep after the tenth refusal and the degraded boot of its `else` |
| `InitCache` | `init_cache`; its outcome is `cacheUp` of `Lookup` |
| `Accept`, `Reply`, `Raise` | `RequestIdMiddleware.dispatch` up to `call_next`, and its two ways out |
| `Return` | what a handler does without a query: `/`, `/metrics`, 400, 422, 503, the `ok=false` of a probe, a cache hit, an exception that is no query's |
| `UsePool`, `Acquire`, `QueryReturns`, `QueryFails` | `pool()`, `acquire()`, the query, and its end: caught by the probes, raised by the others, the connection given back either way |
| `Stop`, `Drained`, `CloseCache`, `ClosePool` | SIGTERM and the end of `lifespan`; `pool.close()` waits for every connection |
| `Kill`, `Start`, `PostgresStops`, `PostgresStarts`, `TablesMade` | the world |

`context[r]` is the copy of the context variable that the task of `r` has; `Look`
records in `seen` what `current_request_id()` returns there, which is what
`RequestIdLogFilter` would stamp on a record.

## 3. Runs

| Run | Question | Bounds |
| --- | --- | --- |
| `etl_reload` | do two interleaved loaders, dying anywhere, ever leave wrong or doubled rows in the tables of an undisturbed run? | 2 runs, 2+1+1 keys, 1 rebuild per file: every pair of steps interleaves, files change between reading and commit, loads commit in either order, every table can be found full, empty, outdated |
| `lookup_requests` | do the counters balance, is every answer to the question asked, with the nearest towns, a radius close to the one asked for and a number that leads back to it, is the pool's bound kept? | 3 requests, 14 bodies that reach every outcome and every kind of slot sharing, 1 connection, 1 city at most where 2 are in reach, faults of Redis and Postgres, 1 restart or upgrade |
| `lookup_stale` | how long does anything outdated, or of an older release, stay in the cache; has a question ever two rows? | 2 requests, 1 loader run, 2 bodies (with and without a row query), 2 nested blocks, 1 upgrade, time to live 2, latency 1, 5 ticks: room for a change, a late SET and its expiry |
| `lookup_liveness` | does every request end, and is every step one of the contract? | 2 requests of up to 3 items on 1 connection, 1 loader run, failing Redis, Postgres answering |
| `polling` | is what a client keeps under a token what the tables answer? | 2 requests, 1 loader run, 1 question, with and without Redis, time to live 1, 2 ticks: an entry of before the reload can be fetched after it, and expires |
| `service` | is the pool there for whoever needs it, do the probes answer, do ids stay apart, do boot, calls and shutdown end? | 2 requests to all 7 endpoints, one with an id of its own, 1 connection, 2 queries a lookup, 1 outage at any moment, 1 second of slow attempts, 1 restart |
| `etl_failed_load` | does a failed load keep the previous generation? (`load.py:22-25`) | violated |
| `lookup_batch_isolated` | does a bad item stay in its row? (`main.py:615-617`) | violated |
| `lookup_errors_5xx` | are calls that end in 5xx counted as errors? (`metrics.py:71`) | violated |
| `lookup_radius` | is the radius part of the key? (`cache.py:130-132`) | violated |
| `lookup_cache_loss` | does losing the cache only cost time? (`cache.py:5-6`) | violated |
| `service_request_id` | does every response carry its id? (`middleware.py:3-12`) | violated |

Requests and loader runs are symmetric in the safety runs; `lookup_liveness` and
`service`, which check liveness, use no symmetry. Deadlock is not checked: requests and runs are finite in number, so
every behaviour ends when all are done; a request that could never go on is what
`EveryRequestEnds` excludes. Three requests are enough for one that holds a
connection, one that waits, and one that arrives in between; two suffice for a
late SET against a fresh one.

Fairness. `FairSpec` is weak fairness of `Step(r)` for each request: the event loop
runs each task that can run, and each command sent to Redis or Postgres is
answered or fails. Strong fairness of `Acquire` is not assumed: a waiter may be
passed by others, but every other request has finitely many items, so the
connection is free for good in the end. Nothing is assumed of arrivals, of the
loader, of time or of eviction. `Service` adds weak fairness of the boot and of the
shutdown, which are straight-line code of one task; it does not assume that Postgres
ever comes up, that it stays up, or that anybody stops the service. A query that
neither returns nor fails is excluded in both: the code sets no timeout, and relies
on Postgres or the kernel to end it.

Each property of a passing run has a mutant: a named fault of the code, defined
beside the definition it replaces (a table forgotten in the TRUNCATE, a connection
kept across the two queries, a key without the radius, an expiry in the wrong
unit, counters left out or moved twice, a LIMIT without its ORDER BY, a country code
that is not taken off, row counts without xmin, nine attempts, a global in place of
the context variable, a connection kept when a query fails).

## 4. Where code and documentation disagree

The six violated runs show: a load that dies after its TRUNCATE leaves empty
tables, not the previous generation; an `ip` that asyncpg cannot encode turns its
whole batch into a 500; calls that end in a 500 are in no counter; two radii of the
same whole kilometre get one answer; a padded address is answered only while its
slot is in the cache, though the tables hold still and Postgres answers; the 500 of a handler that raises has no `X-Request-ID`, the
response for which a caller would want one most.

Seen on the way, without a run: `get_exchange` promises a 503 "when the DB is down"
(`main.py:177`), but checks `db_ready`, which is never reset, so that Postgres going
away after the boot is a 500 (`QueryFails` of `Service`). `RequestIdLogFilter` is
installed nowhere, so no log record carries the id. And `data_version` lets clients
"invalidate their own caches" (`main.py:200-202`) while Redis may give them back what
they have just dropped (`KeptIsCurrent`). "Never breaks them" (`cache.py:5-6`) also
promises too much just after a TRUNCATE, or when Postgres is away: what the cache still
answers then is a 404 or a 500 without it. `lookup_cache_loss` has neither, to show that
neither is needed.

## 5. Theorems

All are proved for every value of the constants that satisfies the named
assumptions (`EtlAssumption`, `InputAssumption`, `AnswersAssumption`,
`LookupAssumption`, `ServiceAssumption`): any number of
loader runs, any finite set of requests, any bodies, data, pool size, time to live.
The assumptions say what the constants stand for: the keys a table can have are finite
in number, None is no row, no text and no cause of a failure, and a phone text is a
sequence of characters. Every safety
property that a run checks is proved, and so is the refinement.

*Loader* (`EtlProofs`). `CleanReload` is not inductive: it speaks of runs that are
done. `EtlInv` strengthens it to every moment of a run: while a run is `sole` and has not
failed, the content of each table is what it has read for it so far (`HeldIsRead`),
except for the table whose file it has read and not committed yet (`Pending`), which
is empty; a file that is not yet read contributes nothing (`NothingReadYet`), and what
is read holds each key once (`ReadOnce`). So the load goes into an empty table, and
`InsertIntoEmpty` says it then holds exactly what was read, once, whatever became of the
file since. From it follow `ReloadIsClean`, `KeysStayUnique` and `EtlTypeCorrect`.

*Lookup path* (`LookupProofs`). `ServiceOnlyReads` shows that the composed system
implements `EtlSpec`, which brings over what is proved of the loader. `LookupInv`
then has six parts beside the types: a request has in hand an item that is usable
and a row or envelope that fits it (`ItemInHand`); an entry fits some item with its
key (`EntriesFit`); nothing lasts longer than it may (`InTime`); and what was read
is still what the tables give, or belongs to an item begun before their last change
(`Current`). `KeptOrTakenOn` reduces each part to the five steps that take a
request on. `AnswersFit` needs the first two, `StalenessBounded` the last two: an
entry that is not an answer now was computed for an item begun before the change,
hence written at most `MaxLatency` after it, hence gone `TTL` later.
`TypeCorrect` includes the bound on connections, by cardinality of the holders.
`UpgradesHeal` needs one fact more about entries, that an unreadable one expires
within a time to live of the last upgrade. `RowsUnique` brings uniqueness of keys over
from `Etl`: one row for a number always, and for an address under the added assumption
that no two blocks start at one address (`StartsDiffer`), which is true of db-ip's
list but enforced by nothing in the schema. `StalenessBounded` rests on
`MaxLatency`, as said above.

*Answers* (`AnswerProofs`). `OutcomeKeptOrAdded` says where an outcome comes from: it
was there, or this step adds it, from the cache or from the tables. Hence
`OnlyOutcomesAsked`, and with `AnswersFit` two properties of what shares a slot:
`RadiusIsNear`, by arithmetic on `int()`, and `EchoSharesItsSlot`, which rests on
`NumberParses`: the `re.sub` that drops what is no digit keeps the digits in order, an
induction over the text. The induction theorems of the library take an
operator, which the provers cannot instantiate; `UpTo` is the same principle for a set
of numbers, derived from the well-founded order of the naturals, and is enough where
the recursion is along a sequence. `NearestAreListed` holds while the tables are left
alone, and its hypothesis says so; its invariant `AllCurrent` is that rows, envelopes,
entries and outcomes are all what the tables give. `NearestWithoutLoader` is the case
`lookup_requests` checks. `CacheLossCostsTime` and `WholeRadiiHonoured` say how far the
documentation is right in two of the disagreements of section 4. The radius asked for is
the one answered if all radii are whole kilometres. `CacheLossHarmless` speaks of
whoever waits for its GET with an entry in its slot: the tables are there, its argument
can be encoded and it has a row, so that it would be answered without the entry, as
long as Postgres answers. It holds under `StrippingIsHarmless`, that no two texts which
`strip` makes alike differ for asyncpg, from `changedAt + TTL + MaxLatency` on
(`CacheLossCostsTime`), and at any time while the tables are left alone
(`CacheLossWhileLeftAlone`). Entries are answers the tables give now by
`StalenessBounded`, or by `AllCurrent`; items that share a slot then have the same rows
(`SameQuestionSameRows`), and there is no entry without tables (`TablesThere`). Right
after a change it need not hold: an entry may outlive its row.

*Counters* (`CounterProofs`). A balance compares counters with cardinalities of sets of
requests and of outcomes, so `CounterInv` rests on `OneApart`: a step takes one
request from one set to another, or adds one outcome, and every cardinality moves by
as much as the step bumps. Two facts make it inductive: what is worked on was short
enough for the batch cap (`Capped`), or its outcomes would not be among the positions
counted; and no row is kept for an item whose row has not been looked up
(`RowUnread`), or a failed query could not be told from one that came later.

*Contract* (`RefinementProofs`). `KeepsContract` takes the steps of `Lookup` one by one,
with `LookupInv` for what is in hand: an outcome is given for the right item from
known rows (`Remembered`), and all other steps change nothing the contract speaks
of, or only forget rows. The rows behind an entry of the cache are known because
those behind the envelope being written were.

*Polling* (`PollingProofs`). `ClientOnlyAsks` makes the system with the client an
implementation of `Lookup`. The heart of `PollingInv` is that a version never comes back:
once the tables have left it, one of them has more rows than it counted and none has
fewer (`Grown`), or every row, committed or in an open load, is newer than all it
counted (`Replaced`), and every loader step keeps it so. Both halves of the token are
needed: the counts, because overlapping loads may commit an older transaction after a
newer one, which the largest `xmin` does not show; `xmin`, because a TRUNCATE and a
reload can end in the same counts. `Replaced` rests on TRUNCATE finding no load open:
what begins later has a larger id. `RowsNumbered` is what the two need of rows and ids.
Then `SentIsCurrent` follows a request from the moment it is sent under a token.

*Process* (`ServiceProofs`). `ServiceInv` ties what handlers see to the phase of the
process: `db_ready` and the pool agree from the end of the boot to the end of the
process (`ReadyIsPool`), a request is open only in between and its context is its id
(`OpenIsServed`), and each refused attempt but the first comes a second after the one
before (`SecondsPass`). `PoolIsThere`, `BootIsPatient`, `ProbesAnswer` and `OneId` are its
parts.

Only model-checked: liveness (`EveryRequestEnds`, `BootEnds`, `CallsEnd`,
`ShutdownEnds`), which is out of the prover's reach; and the six disagreements, which
are counterexamples.

## 6. Left out, and the plan

Not modelled: reading the environment (`config.py`: its values are constants); the
wording of texts, errors and metrics; geometry (`Distance` is a constant); the columns
of a row beside its key; coordinates that are NaN or infinite; what libphonenumber
would do with numbers that are not of the North American plan, which the code does not
try either; deployment files and the end-to-end script. Redis and Postgres are
modelled by what the service can see of them. Of Postgres's transaction ids it is
assumed that they grow (they wrap after 2^32 and are then compared as plain numbers).

Next:

1. the limits of the other disagreements as theorems: which bodies keep a batch
   isolated, and which calls the error counter does count;
2. the safety part of the liveness properties: while a request waits for a connection,
   every connection is held by one that a query's end will free.
