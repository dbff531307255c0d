--------------------------- MODULE ServiceProofs ---------------------------
(***************************************************************************)
(* Proofs about Service, for any requests, any pool, any bounds and        *)
(* whatever Postgres and the container do.  ServiceInv is the inductive    *)
(* invariant: it ties the pool and db_ready to the phase of the process,   *)
(* a request's context to its id, and the clock to the attempts.           *)
(***************************************************************************)
EXTENDS Service, FiniteSetTheorems, TLAPS

\* A request is open only while the process serves, and its handler sees the
\* id of dispatch and nothing else.
OpenIsServed ==
    \A r \in Requests : stage[r] \in Open =>
        /\ phase \in {"serving", "draining"}
        /\ call[r] \in Calls
        /\ context[r] = id[r]
        /\ stage[r] # "query" => queries[r] < MaxQueries

NewIsBlank ==
    \A r \in Requests : stage[r] = "new" => reply[r] = None /\ seen[r] = {} /\ queries[r] = 0

\* db_ready is set when the boot is over, and as long as the process lives it
\* says whether there is a pool.
ReadyIsPool ==
    /\ phase \in {"connecting", "sleeping"} => dbReady = None /\ ~pool
    /\ phase \in {"pinging", "serving"} \cup Closing => dbReady \in BOOLEAN /\ pool = dbReady
    /\ phase \in Down => ~pool

\* Every refusal but the first comes a second or more after the one before.
SecondsPass ==
    /\ phase = "connecting" => attempt < Attempts /\ attempt <= clock
    /\ phase = "sleeping" => attempt <= clock + 1 /\ refusedAt = clock
    /\ dbReady = FALSE => refusedAt >= 9

ServiceInv == /\ TypeOK /\ OpenIsServed /\ NewIsBlank /\ ReadyIsPool /\ SecondsPass
              /\ PoolWhenReady /\ ProbesAlwaysAnswer /\ OneIdPerRequest

-----------------------------------------------------------------------------
\* Giving connections back keeps the pool within its size.
LEMMA HeldFewer ==
    ASSUME TypeOK, held' \subseteq held
    PROVE  Cardinality(held') <= PoolSize
<1>1. IsFiniteSet(held)
  BY ServiceAssumption, FS_Subset DEF TypeOK
<1>2. /\ IsFiniteSet(held') /\ Cardinality(held') <= Cardinality(held)
  BY <1>1, FS_Subset
<1> QED
  BY <1>1, <1>2, FS_CardinalityType, ServiceAssumption DEF TypeOK

\* The handler of r is over, with a response that is the probes' 200 if it is
\* a probe's, and that carries the id of r or none.
LEMMA HandlerEnds ==
    ASSUME ServiceInv, NEW r \in Requests, stage[r] \in Open,
           NEW status \in {200, 400, 404, 422, 500, 503}, NEW cause \in {None, "query", "value"},
           call[r].endpoint \in Probes => status = 200,
           Reply(r, status, cause) \/ (status = 500 /\ Raise(r, cause)), Look(r),
           held' \subseteq held, lost' \subseteq held',
           UNCHANGED <<phase, bootVars, pool, call, queries, id, worldVars>>
    PROVE  ServiceInv'
<1> USE DEF ServiceInv
<1>0. PICK who \in {id[r], None} :
        /\ reply' = [reply EXCEPT ![r] = [status |-> status, id |-> who, cause |-> cause]]
        /\ stage' = [stage EXCEPT ![r] = "replied"]
        /\ context' = Pinned(r, None)
  BY DEF Reply, Raise
<1> DEFINE response == [status |-> status, id |-> who, cause |-> cause]
<1>1. /\ stage'[r] = "replied" /\ reply'[r] = response /\ seen'[r] = seen[r] \cup {id[r]}
      /\ \A q \in Requests \ {r} : /\ stage'[q] = stage[q] /\ reply'[q] = reply[q]
                                   /\ seen'[q] = seen[q] /\ context'[q] = context[q]
  BY <1>0 DEF TypeOK, Look, Pinned, OpenIsServed
<1>2. TypeOK'
  <2>1. response \in Replies
    <3>1. who \in Ids \cup {None}
      BY DEF TypeOK
    <3>2. cause \in Causes \cup {None}
      BY DEF Causes
    <3> QED  BY <3>1, <3>2 DEF Replies
  <2>2. /\ reply' \in [Requests -> Replies \cup {None}]
        /\ stage' \in [Requests -> {"new", "replied", "cut"} \cup Open]
        /\ context' \in [Requests -> Ids \cup {None}]
        /\ seen' \in [Requests -> SUBSET (Ids \cup {None})]
    BY <1>0, <2>1 DEF TypeOK, Pinned, Look
  <2>3. held' \subseteq Requests /\ Cardinality(held') <= PoolSize
    BY HeldFewer DEF TypeOK
  <2> QED  BY <2>2, <2>3 DEF TypeOK, bootVars, worldVars
<1>3. OpenIsServed' /\ NewIsBlank'
  BY <1>1 DEF OpenIsServed, NewIsBlank, Open
<1>4. ReadyIsPool' /\ SecondsPass'
  BY DEF ReadyIsPool, SecondsPass, bootVars
<1>5. PoolWhenReady'
  <2>1. cause # "no pool"
    BY ServiceAssumption DEF Causes
  <2>2. reply'[r].cause = cause
    BY <1>1
  <2>3. \A q \in Requests : stage'[q] \in {"waiting", "query"} => pool'
    BY <1>1 DEF PoolWhenReady
  <2>4. \A q \in Requests \ {r} : reply'[q] = reply[q]
    BY <1>1
  <2>5. reply'[r].cause # "no pool"
    BY <2>1, <2>2
  <2>6. \A q \in Requests : reply[q] # None => reply[q].cause # "no pool"
    BY DEF PoolWhenReady
  <2> HIDE DEF ServiceInv
  <2>7. ASSUME NEW q \in Requests, reply'[q] # None
        PROVE  reply'[q].cause # "no pool"
    <3>1. CASE q = r
      BY <2>5, <3>1, Zenon
    <3>2. CASE q # r
      <4>1. reply'[q] = reply[q]
        BY <2>4, <3>2, Zenon
      <4>2. reply[q].cause # "no pool"
        BY <2>6, <2>7, <4>1, Zenon
      <4> QED  BY <4>1, <4>2, Zenon
    <3> QED  BY <3>1, <3>2
  <2> QED  BY ONLY <2>3, <2>7 DEF PoolWhenReady
<1>6. ProbesAlwaysAnswer'
  <2>1. reply'[r].status = status /\ call'[r] = call[r]
    BY <1>1
  <2> QED  BY <1>1, <2>1 DEF ProbesAlwaysAnswer
<1>7. OneIdPerRequest'
  <2>1. reply'[r].id \in {id[r], None}
    BY <1>1
  <2> QED  BY <1>1, <2>1 DEF OneIdPerRequest, Open
<1> QED  BY <1>2, <1>3, <1>4, <1>5, <1>6, <1>7

\* The handler of r goes on, from one wait to the next.
LEMMA HandlerGoesOn ==
    ASSUME ServiceInv, NEW r \in Requests, stage[r] \in Open, NEW to \in Open,
           stage' = [stage EXCEPT ![r] = to],
           to \in {"waiting", "query"} => pool,
           queries' \in [Requests -> 0 .. MaxQueries],
           \A q \in Requests \ {r} : queries'[q] = queries[q],
           to # "query" => queries'[r] < MaxQueries,
           Look(r) \/ seen' = seen,
           held' \subseteq Requests, lost' \subseteq held', Cardinality(held') <= PoolSize,
           UNCHANGED <<phase, bootVars, pool, call, id, context, reply, worldVars>>
    PROVE  ServiceInv'
<1> USE DEF ServiceInv
<1>1. /\ stage'[r] = to
      /\ \A q \in Requests \ {r} : stage'[q] = stage[q] /\ seen'[q] = seen[q]
      /\ seen'[r] \in {seen[r], seen[r] \cup {id[r]}}
  BY DEF TypeOK, Look, OpenIsServed
<1>2. TypeOK'
  <2>1. stage' \in [Requests -> {"new", "replied", "cut"} \cup Open]
    BY DEF TypeOK
  <2>2. seen' \in [Requests -> SUBSET (Ids \cup {None})]
    BY DEF TypeOK, Look
  <2> QED  BY <2>1, <2>2 DEF TypeOK, bootVars, worldVars
<1>3. OpenIsServed' /\ NewIsBlank'
  BY <1>1 DEF OpenIsServed, NewIsBlank, Open
<1>4. ReadyIsPool' /\ SecondsPass'
  BY DEF ReadyIsPool, SecondsPass, bootVars
<1>5. PoolWhenReady' /\ ProbesAlwaysAnswer'
  <2>1. \A q \in Requests : stage'[q] \in {"waiting", "query"} => pool'
    BY <1>1 DEF PoolWhenReady
  <2>2. \A q \in Requests : reply'[q] # None => reply'[q].cause # "no pool"
    BY DEF PoolWhenReady
  <2>3. stage'[r] # "replied"
    BY <1>1 DEF Open
  <2>4. ProbesAlwaysAnswer'
    BY <1>1, <2>3 DEF ProbesAlwaysAnswer
  <2> QED  BY <2>1, <2>2, <2>4 DEF PoolWhenReady
<1>6. OneIdPerRequest'
  BY <1>1 DEF OneIdPerRequest
<1> QED  BY <1>2, <1>3, <1>4, <1>5, <1>6

-----------------------------------------------------------------------------
\* Nothing happens to the requests.
LEMMA TasksKept ==
    ASSUME ServiceInv, UNCHANGED taskVars,
           phase \in {"serving", "draining"} =>
               phase' \in {"serving", "draining"} \/ \A r \in Requests : stage[r] \notin Open,
           pool => pool' \/ \A r \in Requests : stage[r] \notin Open
    PROVE  OpenIsServed' /\ NewIsBlank' /\ PoolWhenReady' /\ ProbesAlwaysAnswer' /\ OneIdPerRequest'
<1> USE DEF ServiceInv, taskVars
<1>1. OpenIsServed'
  BY DEF OpenIsServed
<1>2. NewIsBlank' /\ ProbesAlwaysAnswer' /\ OneIdPerRequest'
  BY DEF NewIsBlank, ProbesAlwaysAnswer, OneIdPerRequest
<1>3. PoolWhenReady'
  BY DEF PoolWhenReady, Open
<1> QED  BY <1>1, <1>2, <1>3

LEMMA BootStep ==
    ASSUME ServiceInv, Boot \/ AttemptDrags
    PROVE  ServiceInv'
<1> USE DEF ServiceInv
<1> USE ServiceAssumption
<1>1. UNCHANGED taskVars /\ UNCHANGED worldVars
  BY DEF Boot, AttemptDrags, AttemptSucceeds, AttemptFails, Sleep, InitCache
<1>2. phase \in Booting /\ phase' \in Booting \cup {"serving"} /\ (pool => pool')
  BY DEF Boot, AttemptDrags, AttemptSucceeds, AttemptFails, Sleep, InitCache, Booting
<1>3. OpenIsServed' /\ NewIsBlank' /\ PoolWhenReady' /\ ProbesAlwaysAnswer' /\ OneIdPerRequest'
  BY <1>1, <1>2, TasksKept DEF Booting
<1>4. /\ attempt \in 0 .. 10 /\ clock \in 0 .. 10 + MaxDelay /\ refusedAt \in Nat /\ MaxDelay \in Nat
  BY DEF TypeOK, Attempts
<1>5. /\ attempt' \in 0 .. 10 /\ clock' \in 0 .. 10 + MaxDelay /\ refusedAt' \in Nat
      /\ dbReady' \in BOOLEAN \cup {None} /\ pool' \in BOOLEAN
      /\ ReadyIsPool' /\ SecondsPass'
  <2> USE DEF TypeOK, ReadyIsPool, SecondsPass, Booting, Closing, Down, Attempts
  <2>1. CASE AttemptSucceeds
    BY <1>4, <2>1 DEF AttemptSucceeds
  <2>2. CASE AttemptFails
    <3>1. dbReady = None /\ ~pool /\ dbReady' = dbReady /\ pool' = pool
      BY <2>2 DEF AttemptFails
    <3>2. dbReady' # FALSE
      BY <3>1
    <3>3. /\ attempt' \in 0 .. 10 /\ clock' \in 0 .. 10 + MaxDelay /\ refusedAt' \in Nat
          /\ phase' = "sleeping" /\ attempt' <= clock' + 1 /\ refusedAt' = clock'
      BY <1>4, <2>2 DEF AttemptFails, Counted
    <3> QED  BY <3>1, <3>2, <3>3
  <2>3. CASE AttemptDrags
    BY <1>4, <2>3 DEF AttemptDrags, Later
  <2>4. CASE Sleep
    <3>1. /\ dbReady = None /\ ~pool /\ pool' = pool /\ refusedAt' = refusedAt
          /\ attempt <= clock + 1 /\ refusedAt = clock
      BY <2>4 DEF Sleep
    <3>2. CASE attempt < 10
      <4>1. phase' = "connecting" /\ clock' = Later /\ attempt' = attempt /\ dbReady' = dbReady
        BY <2>4, <3>2 DEF Sleep
      <4>2. clock' \in 0 .. 10 + MaxDelay /\ attempt' <= clock'
        BY <1>4, <3>1, <3>2, <4>1 DEF Later
      <4>3. dbReady' # FALSE
        BY <3>1, <4>1
      <4> QED  BY <1>4, <3>1, <3>2, <4>1, <4>2, <4>3
    <3>3. CASE ~(attempt < 10)
      <4>1. phase' = "pinging" /\ clock' = 0 /\ attempt' = 0 /\ dbReady' = FALSE
        BY <2>4, <3>3 DEF Sleep, ReadyAfterGivingUp
      <4>2. refusedAt' >= 9
        BY <1>4, <3>1, <3>3
      <4>3. pool' = FALSE
        BY <3>1, Zenon
      <4>4. ReadyIsPool'
        BY <4>1, <4>3
      <4> QED  BY <1>4, <3>1, <4>1, <4>2, <4>3, <4>4
    <3> QED  BY <3>2, <3>3
  <2>5. CASE InitCache
    BY <1>4, <2>5 DEF InitCache, bootVars
  <2> QED  BY <2>1, <2>2, <2>3, <2>4, <2>5 DEF Boot
<1>6. TypeOK'
  BY <1>1, <1>2, <1>5 DEF TypeOK, taskVars, worldVars, Attempts
<1> QED  BY <1>3, <1>5, <1>6

LEMMA AcceptStep ==
    ASSUME ServiceInv, NEW r \in Requests, Accept(r)
    PROVE  ServiceInv'
<1> USE DEF ServiceInv
<1>1. PICK c \in Calls : call' = [call EXCEPT ![r] = c]
  BY DEF Accept
<1>2. /\ phase = "serving" /\ stage[r] = "new"
      /\ id' = [id EXCEPT ![r] = RequestId(r)]
      /\ context' = [context EXCEPT ![r] = RequestId(r)]
      /\ stage' = [stage EXCEPT ![r] = "called"]
      /\ UNCHANGED <<phase, bootVars, pool, queries, seen, reply, held, lost, worldVars>>
  BY DEF Accept, Pinned
<1>3. /\ RequestId(r) \in Ids
      /\ RequestId(r) = IF Incoming[r] \in Callers THEN Incoming[r] ELSE r
  BY ServiceAssumption DEF RequestId, Ids
<1>4. TypeOK'
  BY <1>1, <1>2, <1>3 DEF TypeOK, Open, bootVars, worldVars
<1>5. /\ call'[r] = c /\ id'[r] = RequestId(r) /\ context'[r] = RequestId(r) /\ stage'[r] = "called"
      /\ reply[r] = None /\ seen[r] = {} /\ queries[r] = 0
      /\ \A q \in Requests \ {r} : /\ call'[q] = call[q] /\ id'[q] = id[q]
                                   /\ context'[q] = context[q] /\ stage'[q] = stage[q]
  BY <1>1, <1>2 DEF TypeOK, NewIsBlank
<1>6. OpenIsServed'
  BY <1>2, <1>5, ServiceAssumption DEF OpenIsServed
<1>7. NewIsBlank' /\ ProbesAlwaysAnswer'
  BY <1>2, <1>5 DEF NewIsBlank, ProbesAlwaysAnswer
<1>8. ReadyIsPool' /\ SecondsPass'
  BY <1>2 DEF ReadyIsPool, SecondsPass, bootVars
<1>9. PoolWhenReady'
  BY <1>2, <1>5 DEF PoolWhenReady
<1>10. OneIdPerRequest'
  BY <1>2, <1>3, <1>5 DEF OneIdPerRequest, Open
<1> QED  BY <1>4, <1>6, <1>7, <1>8, <1>9, <1>10

\* While a request is open there is a pool if and only if db_ready says so.
LEMMA OpenAndReady ==
    ASSUME ServiceInv, NEW r \in Requests, stage[r] \in Open
    PROVE  /\ dbReady \in BOOLEAN /\ pool = dbReady
           /\ call[r] \in Calls /\ call[r].endpoint \in Endpoints
           /\ held \subseteq Requests /\ lost \subseteq held /\ IsFiniteSet(held)
           /\ Cardinality(held) <= PoolSize
BY ServiceAssumption, FS_Subset
   DEF ServiceInv, TypeOK, OpenIsServed, ReadyIsPool, Calls, Closing

LEMMA ReturnStep ==
    ASSUME ServiceInv, NEW r \in Requests, Return(r)
    PROVE  ServiceInv'
<1>1. /\ stage[r] \in Open /\ Look(r)
      /\ UNCHANGED <<phase, bootVars, pool, call, queries, id, held, lost, worldVars>>
  BY DEF Return, Open
<1>2. call[r].endpoint \in AllEndpoints /\ lost \subseteq held
  BY <1>1, OpenAndReady, ServiceAssumption
<1>3. ASSUME NEW status \in EarlyStatuses(call[r]), Reply(r, status, None) PROVE ServiceInv'
  <2>1. /\ status \in {200, 400, 404, 422, 500, 503}
        /\ call[r].endpoint \in Probes => status = 200
    BY <1>2, <1>3 DEF EarlyStatuses, AllEndpoints, Probes
  <2> QED  BY <1>1, <1>2, <1>3, <2>1, HandlerEnds
<1>4. CASE call[r].endpoint = "lookup" /\ Raise(r, "value")
  BY <1>1, <1>2, <1>4, HandlerEnds DEF Probes
<1> QED  BY <1>3, <1>4 DEF Return

LEMMA UsePoolStep ==
    ASSUME ServiceInv, NEW r \in Requests, UsePool(r)
    PROVE  ServiceInv'
<1>1. /\ stage[r] = "called" /\ stage[r] \in Open /\ dbReady /\ Look(r)
      /\ UNCHANGED <<phase, bootVars, pool, call, queries, id, held, lost, worldVars>>
  BY DEF UsePool, Open
<1>2. pool
  BY <1>1, OpenAndReady
<1>3. stage' = [stage EXCEPT ![r] = "waiting"] /\ UNCHANGED <<reply, context>>
  BY <1>2 DEF UsePool
<1>4. /\ queries' \in [Requests -> 0 .. MaxQueries] /\ queries'[r] < MaxQueries
      /\ held' \subseteq Requests /\ lost' \subseteq held' /\ Cardinality(held') <= PoolSize
  BY <1>1, OpenAndReady DEF ServiceInv, TypeOK, OpenIsServed
<1> QED  BY <1>1, <1>2, <1>3, <1>4, HandlerGoesOn DEF Open

LEMMA AcquireStep ==
    ASSUME ServiceInv, NEW r \in Requests, Acquire(r)
    PROVE  ServiceInv'
<1>1. /\ stage[r] = "waiting" /\ stage[r] \in Open /\ Cardinality(held) < PoolSize
      /\ stage' = [stage EXCEPT ![r] = "query"] /\ held' = held \cup {r}
      /\ queries' = [queries EXCEPT ![r] = @ + 1]
      /\ UNCHANGED <<phase, bootVars, pool, call, id, context, seen, reply, lost, worldVars>>
  BY DEF Acquire, Open, Free
<1>2. pool
  BY <1>1 DEF ServiceInv, PoolWhenReady
<1>3. queries[r] \in 0 .. MaxQueries /\ queries[r] < MaxQueries
  BY <1>1 DEF ServiceInv, TypeOK, OpenIsServed
<1>4. queries' \in [Requests -> 0 .. MaxQueries] /\ \A q \in Requests \ {r} : queries'[q] = queries[q]
  BY <1>1, <1>3, ServiceAssumption DEF ServiceInv, TypeOK
<1>5. held' \subseteq Requests /\ lost' \subseteq held' /\ Cardinality(held') <= PoolSize
  <2>1. /\ held \subseteq Requests /\ lost \subseteq held /\ IsFiniteSet(held)
    BY <1>1, OpenAndReady
  <2>2. Cardinality(held \cup {r}) \in {Cardinality(held), Cardinality(held) + 1}
    BY <2>1, FS_AddElement
  <2>3. Cardinality(held) \in Nat
    BY <2>1, FS_CardinalityType
  <2> QED  BY <1>1, <2>1, <2>2, <2>3, ServiceAssumption
<1> QED  BY <1>1, <1>2, <1>4, <1>5, HandlerGoesOn DEF Open

LEMMA QueryReturnsStep ==
    ASSUME ServiceInv, NEW r \in Requests, QueryReturns(r)
    PROVE  ServiceInv'
<1>1. /\ stage[r] = "query" /\ stage[r] \in Open /\ Look(r) /\ held' = held \ {r} /\ r \notin lost
      /\ UNCHANGED <<phase, bootVars, pool, call, queries, id, lost, worldVars>>
  BY DEF QueryReturns, Open, Answerable
<1>2. /\ held' \subseteq held /\ held' \subseteq Requests /\ lost' \subseteq held'
      /\ Cardinality(held') <= PoolSize
  BY <1>1, HeldFewer DEF ServiceInv, TypeOK
<1>3. ASSUME NEW status \in IF call[r].endpoint \in Probes THEN {200} ELSE {200, 404},
             Reply(r, status, None)
      PROVE  ServiceInv'
  <2>1. status \in {200, 404} /\ (call[r].endpoint \in Probes => status = 200)
    BY <1>3
  <2> QED  BY <1>1, <1>2, <1>3, <2>1, HandlerEnds
<1>4. CASE /\ queries[r] < MaxQueries
           /\ stage' = [stage EXCEPT ![r] = "called"]
           /\ UNCHANGED <<reply, context>>
  <2>1. queries' \in [Requests -> 0 .. MaxQueries]
    BY <1>1 DEF ServiceInv, TypeOK
  <2> QED  BY <1>1, <1>2, <1>4, <2>1, HandlerGoesOn DEF Open
<1> QED  BY <1>3, <1>4 DEF QueryReturns

LEMMA QueryFailsStep ==
    ASSUME ServiceInv, NEW r \in Requests, QueryFails(r)
    PROVE  ServiceInv'
<1>1. /\ stage[r] \in Open /\ Look(r) /\ Fails(r, "query")
      /\ held' = held \ {r} /\ lost' = lost \ {r}
      /\ UNCHANGED <<phase, bootVars, pool, call, queries, id, worldVars>>
  BY DEF QueryFails, Open, ReleasedOnFailure
<1>2. held' \subseteq held /\ lost' \subseteq held'
  BY <1>1 DEF ServiceInv, TypeOK
<1>3. CASE Reply(r, 200, "query")
  BY <1>1, <1>2, <1>3, HandlerEnds
<1>4. CASE call[r].endpoint \notin Probes /\ Raise(r, "query")
  BY <1>1, <1>2, <1>4, HandlerEnds
<1> QED  BY <1>1, <1>3, <1>4 DEF Fails, Catching

\* The process stops step by step, with no request open once it has drained.
LEMMA StopStep ==
    ASSUME ServiceInv, Stop \/ Shutdown
    PROVE  ServiceInv'
<1> USE DEF ServiceInv
<1>1. UNCHANGED <<bootVars, taskVars, worldVars>>
  BY DEF Stop, Shutdown, Drained, CloseCache, ClosePool
<1>2. /\ phase = "serving" => phase' = "draining" /\ pool' = pool
      /\ phase = "draining" => /\ phase' = "closingCache" /\ pool' = pool
                               /\ \A r \in Requests : stage[r] \notin Open
      /\ phase \in {"closingCache", "closingPool"} => \A r \in Requests : stage[r] \notin Open
      /\ phase \in {"serving"} \cup Closing
      /\ \/ phase' \in Closing /\ pool' = pool
         \/ phase' = "exited" /\ pool' = FALSE
  BY DEF Stop, Shutdown, Drained, CloseCache, ClosePool, OpenIsServed, Closing
<1>3. OpenIsServed' /\ NewIsBlank' /\ PoolWhenReady' /\ ProbesAlwaysAnswer' /\ OneIdPerRequest'
  BY <1>1, <1>2, TasksKept DEF Closing
<1>4. TypeOK'
  BY <1>1, <1>2 DEF TypeOK, bootVars, taskVars, worldVars, Down
<1>5. SecondsPass'
  BY <1>1, <1>2 DEF SecondsPass, bootVars, Closing
<1>6. ReadyIsPool'
  BY <1>1, <1>2 DEF ReadyIsPool, bootVars, Closing, Down
<1> QED  BY <1>3, <1>4, <1>5, <1>6

LEMMA ForgetTyped ==
    ASSUME ServiceInv, Forget, UNCHANGED <<postgres, schema, outages>>,
           starts' \in 0 .. MaxStarts, phase' \in Booting \cup Down, pool' = FALSE,
           attempt' \in 0 .. Attempts, clock' \in 0 .. Attempts + MaxDelay, refusedAt' \in Nat,
           dbReady' \in BOOLEAN \cup {None}
    PROVE  /\ TypeOK' /\ OpenIsServed' /\ NewIsBlank'
           /\ PoolWhenReady' /\ ProbesAlwaysAnswer' /\ OneIdPerRequest'
<1> USE DEF ServiceInv
<1>1. \A r \in Requests : /\ stage'[r] \in {"new", "cut"} /\ reply'[r] = None /\ seen'[r] = {}
                          /\ queries'[r] = 0
  BY DEF Forget
<1>2. TypeOK'
  <2>1. Cardinality(held') <= PoolSize
    BY HeldFewer DEF Forget
  <2>2. /\ stage' \in [Requests -> {"new", "cut"}] /\ call' \in [Requests -> {None}]
        /\ id' \in [Requests -> {None}] /\ context' \in [Requests -> {None}]
        /\ seen' \in [Requests -> {{}}] /\ queries' \in [Requests -> {0}]
        /\ reply' \in [Requests -> {None}] /\ held' = {} /\ lost' = {}
    BY DEF Forget
  <2>3. 0 \in 0 .. MaxQueries
    BY ServiceAssumption
  <2>4. /\ stage' \in [Requests -> {"new", "replied", "cut"} \cup Open]
        /\ call' \in [Requests -> Calls \cup {None}]
        /\ queries' \in [Requests -> 0 .. MaxQueries]
        /\ id' \in [Requests -> Ids \cup {None}] /\ context' \in [Requests -> Ids \cup {None}]
        /\ seen' \in [Requests -> SUBSET (Ids \cup {None})]
        /\ reply' \in [Requests -> Replies \cup {None}]
    BY <2>2, <2>3
  <2>5. phase' \in Booting \cup {"serving"} \cup Closing \cup Down /\ pool' \in BOOLEAN
    OBVIOUS
  <2>6. /\ postgres' \in BOOLEAN /\ schema' \in BOOLEAN
        /\ outages' \in 0 .. MaxOutages /\ starts' \in 0 .. MaxStarts
    BY DEF TypeOK, worldVars
  <2>7. held' \subseteq Requests /\ lost' \subseteq held'
    BY <2>2
  <2> QED  BY <2>1, <2>4, <2>5, <2>6, <2>7 DEF TypeOK
<1>3. OpenIsServed' /\ NewIsBlank'
  BY <1>1 DEF OpenIsServed, NewIsBlank, Open
<1>4. PoolWhenReady' /\ ProbesAlwaysAnswer' /\ OneIdPerRequest'
  BY <1>1 DEF PoolWhenReady, ProbesAlwaysAnswer, OneIdPerRequest, Open
<1> QED  BY <1>2, <1>3, <1>4

LEMMA KillStep ==
    ASSUME ServiceInv, Kill
    PROVE  ServiceInv'
<1> USE DEF ServiceInv
<1>1. /\ Forget /\ phase' = "killed" /\ pool' = FALSE /\ UNCHANGED <<bootVars, worldVars>>
  BY DEF Kill
<1>2. /\ TypeOK' /\ OpenIsServed' /\ NewIsBlank'
      /\ PoolWhenReady' /\ ProbesAlwaysAnswer' /\ OneIdPerRequest'
  <2>1. phase' \in Booting \cup Down
    BY <1>1 DEF Down
  <2>2. /\ attempt' \in 0 .. Attempts /\ clock' \in 0 .. Attempts + MaxDelay
        /\ refusedAt' \in Nat /\ dbReady' \in BOOLEAN \cup {None}
    BY <1>1 DEF TypeOK, bootVars
  <2>3. /\ Forget /\ pool' = FALSE /\ UNCHANGED <<postgres, schema, outages>>
        /\ starts' \in 0 .. MaxStarts
    BY <1>1 DEF worldVars, TypeOK
  <2> QED  BY <2>1, <2>2, <2>3, ForgetTyped
<1>3. ReadyIsPool'
  BY <1>1 DEF ReadyIsPool, Closing, Down
<1>4. SecondsPass'
  BY <1>1 DEF SecondsPass, bootVars
<1> QED  BY <1>2, <1>3, <1>4

LEMMA StartStep ==
    ASSUME ServiceInv, Start
    PROVE  ServiceInv'
<1> USE DEF ServiceInv
<1>1. /\ phase \in Down /\ starts < MaxStarts /\ starts' = starts + 1
      /\ phase' = "connecting" /\ attempt' = 0 /\ clock' = 0 /\ refusedAt' = 0 /\ dbReady' = None
      /\ Forget /\ UNCHANGED <<pool, postgres, schema, outages>>
  BY DEF Start
<1>2. pool' = FALSE
  <2>1. ~pool
    BY <1>1 DEF ReadyIsPool
  <2>2. pool' = pool /\ pool \in BOOLEAN
    BY <1>1 DEF TypeOK
  <2> QED  BY <2>1, <2>2, Zenon
<1>3. starts' \in 0 .. MaxStarts
  <2>1. starts \in 0 .. MaxStarts
    BY DEF TypeOK
  <2> QED  BY <1>1, <2>1, ServiceAssumption
<1>4. /\ TypeOK' /\ OpenIsServed' /\ NewIsBlank'
      /\ PoolWhenReady' /\ ProbesAlwaysAnswer' /\ OneIdPerRequest'
  <2>1. /\ phase' \in Booting \cup Down
        /\ attempt' \in 0 .. Attempts /\ clock' \in 0 .. Attempts + MaxDelay
        /\ refusedAt' \in Nat /\ dbReady' \in BOOLEAN \cup {None}
    BY <1>1, ServiceAssumption DEF Booting, Attempts
  <2> QED  BY <1>1, <1>2, <1>3, <2>1, ForgetTyped
<1>5. ReadyIsPool'
  BY <1>1, <1>2 DEF ReadyIsPool, Closing, Down
<1>6. SecondsPass'
  <2>1. dbReady' # FALSE
    BY <1>1, ServiceAssumption
  <2>2. phase' = "connecting" /\ attempt' < Attempts /\ attempt' <= clock'
    BY <1>1 DEF Attempts
  <2> QED  BY <2>1, <2>2, Zenon DEF SecondsPass
<1> QED  BY <1>4, <1>5, <1>6

LEMMA WorldStep ==
    ASSUME ServiceInv, PostgresStops \/ PostgresStarts \/ TablesMade \/ UNCHANGED vars
    PROVE  ServiceInv'
<1> USE DEF ServiceInv
<1>1. /\ UNCHANGED <<phase, bootVars, pool, stage, call, queries, id, context, seen, reply, held, starts>>
      /\ lost' \in {lost, held}
      /\ postgres' \in BOOLEAN /\ schema' \in BOOLEAN /\ outages' \in 0 .. MaxOutages
  <2>1. postgres \in BOOLEAN /\ schema \in BOOLEAN /\ outages \in 0 .. MaxOutages /\ MaxOutages \in Nat
    BY ServiceAssumption DEF TypeOK
  <2>2. CASE PostgresStops
    <3>1. /\ outages < MaxOutages /\ outages' = outages + 1
          /\ postgres' = FALSE /\ schema' = schema /\ lost' = held
          /\ UNCHANGED <<phase, bootVars, pool, stage, call, queries, id, context, seen, reply, held, starts>>
      BY <2>2 DEF PostgresStops
    <3>2. outages' \in 0 .. MaxOutages
      BY <2>1, <3>1
    <3> QED  BY <2>1, <3>1, <3>2
  <2>3. CASE PostgresStarts \/ TablesMade \/ UNCHANGED vars
    BY <2>1, <2>3 DEF PostgresStarts, TablesMade, vars, taskVars, worldVars
  <2> QED  BY <2>2, <2>3
<1>2. TypeOK'
  BY <1>1 DEF TypeOK, bootVars
<1>3. OpenIsServed' /\ NewIsBlank' /\ ReadyIsPool' /\ SecondsPass'
  BY <1>1 DEF OpenIsServed, NewIsBlank, ReadyIsPool, SecondsPass, bootVars
<1>4. PoolWhenReady' /\ ProbesAlwaysAnswer' /\ OneIdPerRequest'
  BY <1>1 DEF PoolWhenReady, ProbesAlwaysAnswer, OneIdPerRequest
<1> QED  BY <1>2, <1>3, <1>4

-----------------------------------------------------------------------------
LEMMA InitServiceInv == Init => ServiceInv
<1> SUFFICES ASSUME Init PROVE ServiceInv
  OBVIOUS
<1> USE ServiceAssumption
<1>1. TypeOK
  <2>1. Cardinality(held) <= PoolSize
    BY FS_EmptySet DEF Init
  <2>2. /\ stage \in [Requests -> {"new", "replied", "cut"} \cup Open]
        /\ call \in [Requests -> Calls \cup {None}]
        /\ queries \in [Requests -> 0 .. MaxQueries]
        /\ id \in [Requests -> Ids \cup {None}] /\ context \in [Requests -> Ids \cup {None}]
        /\ seen \in [Requests -> SUBSET (Ids \cup {None})]
        /\ reply \in [Requests -> Replies \cup {None}]
    BY DEF Init
  <2>3. /\ phase \in Booting /\ attempt \in 0 .. Attempts /\ clock \in 0 .. Attempts + MaxDelay
        /\ refusedAt \in Nat /\ dbReady \in BOOLEAN \cup {None} /\ pool \in BOOLEAN
        /\ postgres \in BOOLEAN /\ schema \in BOOLEAN
        /\ outages \in 0 .. MaxOutages /\ starts \in 0 .. MaxStarts
    <3>1. phase \in Booting /\ dbReady = None /\ pool = FALSE /\ postgres \in BOOLEAN /\ schema \in BOOLEAN
      BY DEF Init, Booting
    <3>2. attempt = 0 /\ clock = 0 /\ refusedAt = 0 /\ outages = 0 /\ starts = 0
      BY DEF Init
    <3>3. attempt \in 0 .. Attempts /\ clock \in 0 .. Attempts + MaxDelay /\ refusedAt \in Nat
      BY <3>2 DEF Attempts
    <3>4. outages \in 0 .. MaxOutages /\ starts \in 0 .. MaxStarts
      BY <3>2
    <3>5. dbReady \in BOOLEAN \cup {None} /\ pool \in BOOLEAN
      BY <3>1, Zenon
    <3> QED  BY <3>1, <3>3, <3>4, <3>5
  <2>4. held \subseteq Requests /\ lost \subseteq held
    BY DEF Init
  <2> QED  BY <2>1, <2>2, <2>3, <2>4 DEF TypeOK
<1>2. OpenIsServed /\ NewIsBlank /\ ReadyIsPool
  BY DEF Init, OpenIsServed, NewIsBlank, ReadyIsPool, Open, Closing, Down
<1>3. SecondsPass
  <2>1. ~(dbReady = FALSE)
    BY Zenon DEF Init, ServiceAssumption
  <2>2. (phase = "connecting" => attempt < Attempts /\ attempt <= clock) /\ phase # "sleeping"
    BY DEF Init, Attempts
  <2> QED  BY <2>1, <2>2, Zenon DEF SecondsPass
<1>4. PoolWhenReady /\ ProbesAlwaysAnswer /\ OneIdPerRequest
  BY DEF Init, PoolWhenReady, ProbesAlwaysAnswer, OneIdPerRequest, Open
<1> QED  BY <1>1, <1>2, <1>3, <1>4 DEF ServiceInv

LEMMA StepServiceInv == ServiceInv /\ [Next]_vars => ServiceInv'
<1> SUFFICES ASSUME ServiceInv, [Next]_vars PROVE ServiceInv'
  OBVIOUS
<1>1. ASSUME NEW r \in Requests, Step(r) PROVE ServiceInv'
  BY <1>1, ReturnStep, UsePoolStep, AcquireStep, QueryReturnsStep, QueryFailsStep DEF Step
<1> QED
  BY <1>1, BootStep, AcceptStep, StopStep, KillStep, StartStep, WorldStep DEF Next

\* The inductive invariant of the process.
THEOREM ServiceInvariant == Spec => []ServiceInv
BY InitServiceInv, StepServiceInv, PTL DEF Spec

\* Every variable keeps its type, and no more connections are held than the
\* pool has, whatever fails below the handlers that hold them.
THEOREM ServiceTyped == Spec => []TypeOK
<1>1. ServiceInv => TypeOK
  BY DEF ServiceInv
<1> QED  BY <1>1, ServiceInvariant, PTL

\* Nobody finds db_ready true and the pool gone, in any phase of any life of
\* the process.
THEOREM PoolIsThere == Spec => []PoolWhenReady
<1>1. ServiceInv => PoolWhenReady
  BY DEF ServiceInv
<1> QED  BY <1>1, ServiceInvariant, PTL

\* A degraded boot has waited nine seconds for Postgres, however long each of
\* its attempts took.
THEOREM BootIsPatient == Spec => []PatientBoot
<1>1. ServiceInv => PatientBoot
  BY DEF ServiceInv, SecondsPass, PatientBoot
<1> QED  BY <1>1, ServiceInvariant, PTL

\* The probes answer 200, whatever Postgres, the pool or the tables are like.
THEOREM ProbesAnswer == Spec => []ProbesAlwaysAnswer
<1>1. ServiceInv => ProbesAlwaysAnswer
  BY DEF ServiceInv
<1> QED  BY <1>1, ServiceInvariant, PTL

\* Through any interleaving of the handlers each request sees, logs and
\* returns one id, its own.
THEOREM OneId == Spec => []OneIdPerRequest
<1>1. ServiceInv => OneIdPerRequest
  BY DEF ServiceInv
<1> QED  BY <1>1, ServiceInvariant, PTL
=============================================================================
