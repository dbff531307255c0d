-------------------------- MODULE RefinementProofs --------------------------
(***************************************************************************)
(* Proof that the lookup path keeps its contract: Lookup implements        *)
(* LookupContract under the mapping of LookupRefinement, for any requests, *)
(* any data and any faults.  Every step of Lookup is shown to be one step  *)
(* of the contract or to leave everything the contract speaks of alone.    *)
(***************************************************************************)
EXTENDS LookupRefinement, LookupProofs

-----------------------------------------------------------------------------
(* What the contract builds on is what Lookup builds on.                   *)

LEMMA SameInput ==
    \A i : /\ Contract!WellFormed(i) <=> WellFormed(i)
           /\ Contract!Parses(i) <=> Parses(i)
           /\ Contract!Keyed(i) <=> Keyed(i)
           /\ Contract!Kind(i) = Kind(i) /\ Contract!Mode(i) = Mode(i) /\ Contract!Radius(i) = Radius(i)
           /\ Contract!Value(i) = Value(i) /\ Contract!Canonical(i) = Canonical(i)
BY DEF Contract!WellFormed, WellFormed, Contract!Given, Given, Contract!Parses, Parses,
       Contract!Parsed, Parsed, Contract!Parse, Parse, Contract!National, National,
       Contract!Digits, Digits, Contract!DigitsAmong, DigitsAmong, Contract!NoDigit, NoDigit,
       Contract!Keyed, Keyed, Contract!Kind, Kind, Contract!Mode, Mode, Contract!IsCanadian, IsCanadian,
       Contract!Radius, Radius, Contract!Value, Value, Contract!Canonical, Canonical

LEMMA SameUsable ==
    /\ \A i : Contract!Usable(i) <=> Usable(i)
    /\ Contract!UsableItems = UsableItems
<1>1. \A i : Contract!Usable(i) <=> Usable(i)
  BY SameInput DEF Contract!Usable, Usable
<1>2. \A b : Contract!ItemsOf(b) = ItemsOf(b)
  BY DEF Contract!ItemsOf, ItemsOf
<1> QED  BY <1>1, <1>2 DEF Contract!UsableItems, UsableItems

LEMMA SameQuestions == \A i, j : Contract!SameQuestion(i, j) <=> SameQuestion(i, j)
<1>1. \A r : Contract!WholeKm(r) = WholeKm(r)
  BY DEF Contract!WholeKm, WholeKm
<1>2. \A i : /\ Contract!WholeKm(Contract!Radius(i)) = WholeKm(Radius(i))
             /\ Contract!Kind(i) = Kind(i) /\ Contract!Canonical(i) = Canonical(i)
  BY <1>1, SameInput
<1> QED  BY <1>2 DEF Contract!SameQuestion, SameQuestion

LEMMA SameCardinality == \A S : Contract!Cardinality(S) = Cardinality(S)
BY DEF Contract!Cardinality, Cardinality, Contract!IsFiniteSet, IsFiniteSet

LEMMA SameFits == \A env, j : Contract!Fits(env, j) <=> Fits(env, j)
<1>1. \A t : Contract!Rows(t) = Rows(t)
  BY DEF Contract!Rows, Rows
<1>2. \A n : Contract!Exchange(n) = Exchange(n)
  BY DEF Contract!Exchange, Exchange
<1>3. \A block, ip : Contract!Covers(block, ip) <=> Covers(block, ip)
  BY DEF Contract!Covers, Covers
<1>4. \A x, j : Contract!RowAnswers(x, j) <=> RowAnswers(x, j)
  BY <1>1, <1>2, <1>3, SameInput DEF Contract!RowAnswers, RowAnswers
<1>5. \A j, x : Contract!Point(j, x) = Point(j, x)
  BY SameInput DEF Contract!Point, Point
<1> QED  BY <1>4, <1>5, SameInput, SameCardinality DEF Contract!Fits, Fits

LEMMA SameFit == \A i, env : Contract!FitsSome(i, env) <=> FitsSome(i, env)
BY SameUsable, SameQuestions, SameFits DEF Contract!FitsSome, FitsSome

LEMMA SameRows == \A i : Contract!RowsFor(i) = RowsFor(i)
<1>1. \A rows : Contract!LastStarting(rows) = LastStarting(rows)
  BY DEF Contract!LastStarting, LastStarting
<1>2. \A n : Contract!Exchange(n) = Exchange(n)
  BY DEF Contract!Exchange, Exchange
<1>3. \A block, ip : Contract!Covers(block, ip) <=> Covers(block, ip)
  BY DEF Contract!Covers, Covers
<1>4. \A i : Contract!Parsed[i.phone] = Parsed[i.phone]
  BY DEF Contract!Parsed, Parsed, Contract!Parse, Parse, Contract!National, National,
         Contract!Digits, Digits, Contract!DigitsAmong, DigitsAmong, Contract!NoDigit, NoDigit
<1> TAKE i
<1>5. Contract!Mode(i) = Mode(i)
  BY SameInput
<1>6. {x \in table["exchanges"] : x.key = Contract!Exchange(Contract!Parsed[i.phone])}
         = {x \in table["exchanges"] : x.key = Exchange(Parsed[i.phone])}
  BY <1>2, <1>4
<1>7. {x \in table["ip_ranges"] : Contract!Covers(x.key, i.ip)}
         = {x \in table["ip_ranges"] : Covers(x.key, i.ip)}
  BY <1>3
<1>8. Contract!LastStarting({x \in table["ip_ranges"] : Contract!Covers(x.key, i.ip)})
         = LastStarting({x \in table["ip_ranges"] : Covers(x.key, i.ip)})
  BY <1>1, <1>7
<1> QED  BY <1>5, <1>6, <1>8, Zenon DEF Contract!RowsFor, RowsFor

LEMMA SameLoader ==
    /\ Contract!EtlInit <=> EtlInit
    /\ Contract!EtlNext <=> EtlNext
    /\ Contract!etlVars = etlVars
BY DEF Contract!EtlInit, EtlInit, Contract!etlVars, etlVars, Contract!EtlNext, EtlNext,
       Contract!Tables, Tables, Contract!Emptied, Emptied,
       Contract!Rebuild, Rebuild, Contract!ApplySchema, ApplySchema,
       Contract!Truncate, Truncate, Contract!Truncated, Truncated,
       Contract!SkipLoad, SkipLoad, Contract!Before, Before,
       Contract!ReadFile, ReadFile, Contract!BeginLoad, BeginLoad, Contract!Load, Load,
       Contract!Contents, Contents, Contract!Inserted, Inserted,
       Contract!Analyze, Analyze, Contract!Fail, Fail, Contract!Going, Going

LEMMA SameIdle == UNCHANGED etlVars <=> UNCHANGED Contract!etlVars
BY DEF Contract!etlVars, etlVars

LEMMA SameVisible == Contract!Visible = UNION {table[t] : t \in Tables}
BY DEF Contract!Visible, Contract!Tables, Tables

LEMMA SameRowsIn == \A env : Contract!RowsIn(env) = RowsOf(env)
BY DEF Contract!RowsIn, RowsOf

-----------------------------------------------------------------------------
(* What the service remembers.                                             *)

RememberedSomewhere ==
    \A x : x \in Remembered <=>
        \/ \E t \in Tables : x \in table[t]
        \/ x # None /\ \E r \in Requests : x = row[r]
        \/ \E r \in Requests : pc[r] = "set" /\ x \in RowsOf(envelope[r])
        \/ \E k \in CacheKeys : cache[k] # None /\ x \in RowsOf(cache[k].response)

LEMMA RememberedIs == RememberedSomewhere
<1> SUFFICES ASSUME NEW x
             PROVE  x \in Remembered <=>
                       \/ \E t \in Tables : x \in table[t]
                       \/ x # None /\ \E r \in Requests : x = row[r]
                       \/ \E r \in Requests : pc[r] = "set" /\ x \in RowsOf(envelope[r])
                       \/ \E k \in CacheKeys : cache[k] # None /\ x \in RowsOf(cache[k].response)
  BY DEF RememberedSomewhere
<1>1. x \in UNION {table[t] : t \in Tables} <=> \E t \in Tables : x \in table[t]
  OBVIOUS
<1>2. x \in {row[r] : r \in Requests} \ {None} <=> x # None /\ \E r \in Requests : x = row[r]
  OBVIOUS
<1>3. x \in UNION {RowsOf(envelope[r]) : r \in {q \in Requests : pc[q] = "set"}}
        <=> \E r \in Requests : pc[r] = "set" /\ x \in RowsOf(envelope[r])
  BY Zenon
<1>4. x \in UNION {RowsOf(cache[k].response) : k \in {l \in CacheKeys : cache[l] # None}}
        <=> \E k \in CacheKeys : cache[k] # None /\ x \in RowsOf(cache[k].response)
  BY Zenon
<1> DEFINE A == UNION {table[t] : t \in Tables}
           B == {row[r] : r \in Requests} \ {None}
           C == UNION {RowsOf(envelope[r]) : r \in {q \in Requests : pc[q] = "set"}}
           D == UNION {RowsOf(cache[k].response) : k \in {l \in CacheKeys : cache[l] # None}}
<1>5. Remembered = A \cup B \cup C \cup D
  BY Zenon DEF Remembered
<1>6. x \in A <=> \E t \in Tables : x \in table[t]
  BY <1>1
<1>7. x \in B <=> x # None /\ \E r \in Requests : x = row[r]
  BY <1>2
<1>8. x \in C <=> \E r \in Requests : pc[r] = "set" /\ x \in RowsOf(envelope[r])
  BY <1>3
<1>9. x \in D <=> \E k \in CacheKeys : cache[k] # None /\ x \in RowsOf(cache[k].response)
  BY <1>4
<1> HIDE DEF A, B, C, D
<1> QED  BY <1>5, <1>6, <1>7, <1>8, <1>9

\* What each place of memory may get in a step: rows that it had, that another
\* place has, or that are in the tables after the step.
LEMMA LearnedFromTables ==
    ASSUME \A r \in Requests : \/ row'[r] \in {row[r], None}
                               \/ \E t \in Tables : row'[r] \in table'[t],
           \A r \in Requests : pc'[r] = "set" =>
               \/ pc[r] = "set" /\ envelope'[r] = envelope[r]
               \/ RowsOf(envelope'[r]) \subseteq Remembered,
           \A k \in CacheKeys : cache'[k] # None =>
               \/ cache[k] # None /\ cache'[k].response = cache[k].response
               \/ RowsOf(cache'[k].response) \subseteq Remembered
    PROVE  Contract!LearnsOnlyFromTables
<1> SUFFICES ASSUME NEW x \in Remembered'
             PROVE  x \in Remembered \/ \E t \in Tables : x \in table'[t]
  BY SameVisible DEF Contract!LearnsOnlyFromTables, Contract!Visible, Contract!Tables, Tables
<1>0. RememberedSomewhere /\ RememberedSomewhere'
  BY RememberedIs, PTL
<1>1. \/ \E t \in Tables : x \in table'[t]
      \/ x # None /\ \E r \in Requests : x = row'[r]
      \/ \E r \in Requests : pc'[r] = "set" /\ x \in RowsOf(envelope'[r])
      \/ \E k \in CacheKeys : cache'[k] # None /\ x \in RowsOf(cache'[k].response)
  BY <1>0 DEF RememberedSomewhere
<1>2. ASSUME x # None, NEW r \in Requests, x = row'[r]
      PROVE  x \in Remembered \/ \E t \in Tables : x \in table'[t]
  BY <1>2, <1>0 DEF RememberedSomewhere
<1>3. ASSUME NEW r \in Requests, pc'[r] = "set", x \in RowsOf(envelope'[r])
      PROVE  x \in Remembered
  BY <1>3, <1>0 DEF RememberedSomewhere
<1>4. ASSUME NEW k \in CacheKeys, cache'[k] # None, x \in RowsOf(cache'[k].response)
      PROVE  x \in Remembered
  <2>1. CASE RowsOf(cache'[k].response) \subseteq Remembered
    BY <1>4, <2>1
  <2>2. CASE cache[k] # None /\ cache'[k].response = cache[k].response
    BY <1>4, <2>2, <1>0 DEF RememberedSomewhere
  <2> QED  BY <1>4, <2>1, <2>2
<1> QED  BY <1>1, <1>2, <1>3, <1>4

\* In a step of Lookup nothing else happens to what is remembered.
LEMMA RowsComeFromTables ==
    ASSUME TypeOK, ItemInHand, [Next]_vars
    PROVE  \A q \in Requests : \/ row'[q] \in {row[q], None}
                               \/ \E t \in Tables : row'[q] \in table'[t]
<1> DEFINE Goal == \A q \in Requests : \/ row'[q] \in {row[q], None}
                                       \/ \E t \in Tables : row'[q] \in table'[t]
<1>1. ASSUME UNCHANGED row PROVE Goal
  BY <1>1
<1>2. ASSUME NEW r \in Requests, NEW result, Conclude(r, result) PROVE Goal
  BY <1>2 DEF Conclude, TypeOK
<1>3. ASSUME NEW r \in Requests, FindRow(r) PROVE Goal
  <2>1. PICK x \in RowsFor(Item(r)) : row' = [row EXCEPT ![r] = x]
    BY <1>3 DEF FindRow
  <2>2. NeedsRow(Item(r)) /\ table' = table
    BY <1>3 DEF FindRow, Working, ItemInHand, InHand, etlVars
  <2>3. \E t \in Tables : x \in table[t]
    BY <2>1, <2>2 DEF RowsFor, LastStarting, NeedsRow, Tables
  <2> QED  BY <2>1, <2>2, <2>3 DEF TypeOK
<1>4. ASSUME NEW r \in Requests, FindCities(r) PROVE Goal
  BY <1>1, <1>2, <1>4 DEF FindCities
<1>5. ASSUME NEW r \in Requests, Step(r) PROVE Goal
  <2>1. CASE Start(r) \/ CacheMiss(r) \/ Acquire(r) \/ QueryError(r) \/ KeyError(r) \/ UnreadableHit(r)
    BY <1>1, <2>1 DEF Start, CacheMiss, Acquire, QueryError, KeyError, UnreadableHit
  <2>2. CASE Refuse(r) \/ CacheHit(r) \/ FindNothing(r) \/ CacheSet(r)
    BY <1>2, <2>2 DEF Refuse, CacheHit, FindNothing, CacheSet
  <2> QED  BY <1>3, <1>4, <1>5, <2>1, <2>2 DEF Step
<1>6. CASE Restart
  BY <1>6 DEF Restart
<1>7. ASSUME NEW r \in Requests, NEW b \in Bodies, Arrive(r, b) PROVE Goal
  BY <1>1, <1>7 DEF Arrive
<1>8. ASSUME NEW k \in CacheKeys, Evict(k) PROVE Goal
  BY <1>1, <1>8 DEF Evict, serviceVars
<1>9. CASE Tick \/ EtlStep \/ UNCHANGED vars
  BY <1>1, <1>9 DEF Tick, EtlStep, vars, lookupVars, serviceVars
<1> QED
  BY <1>5, <1>6, <1>7, <1>8, <1>9 DEF Next

\* What the cities query makes its envelope of.
LEMMA EnvelopeRemembered ==
    ASSUME NEW r \in Requests, NEW i,
           NEW env \in EnvelopesFrom(i, IF NeedsRow(i) THEN row[r] ELSE None)
    PROVE  RowsOf(env) \subseteq Remembered
<1> DEFINE x == IF NeedsRow(i) THEN row[r] ELSE None
<1>1. x \in {row[r], None}
  OBVIOUS
<1> HIDE DEF x
<1>2. PICK cities \in NearestCities(Point(i, x), Radius(i)) : env = Envelope(i, x, cities)
  BY DEF EnvelopesFrom, x
<1>3. env.row = x /\ env.cities = cities
  BY <1>2 DEF Envelope
<1>4. cities \subseteq table["places"]
  BY DEF NearestCities, CitiesWithin
<1>5. RememberedSomewhere
  BY RememberedIs
<1> QED  BY <1>1, <1>3, <1>4, <1>5 DEF RowsOf, RememberedSomewhere, Tables

LEMMA LearnsStep ==
    ASSUME TypeOK, ItemInHand, [Next]_vars
    PROVE  Contract!LearnsOnlyFromTables
<1>1. ASSUME NEW q \in Requests, pc'[q] = "set"
      PROVE  \/ pc[q] = "set" /\ envelope'[q] = envelope[q]
             \/ RowsOf(envelope'[q]) \subseteq Remembered
  <2>1. pc'[q] \in Working
    BY <1>1 DEF Working
  <2>2. CASE Kept(q)
    BY <1>1, <2>2 DEF Kept
  <2>3. CASE Start(q) \/ CacheMiss(q) \/ Acquire(q) \/ FindRow(q)
    <3>1. pc'[q] \in {"get", "wantRow", "wantCities", "row", "cities"}
      BY <2>3 DEF Start, CacheMiss, Acquire, FindRow, AfterMiss, TypeOK
    <3> QED  BY <1>1, <3>1
  <2>4. CASE FindCities(q)
    <3>1. cacheUp
      BY <1>1, <2>4 DEF FindCities, Conclude, TypeOK
    <3>2. envelope'[q] \in EnvelopesFrom(Item(q), IF NeedsRow(Item(q)) THEN row[q] ELSE None)
      BY <2>4, <3>1 DEF FindCities, TypeOK
    <3> QED  BY <3>2, EnvelopeRemembered
  <2> QED  BY <2>1, <2>2, <2>3, <2>4, KeptOrTakenOn
<1>2. ASSUME NEW k \in CacheKeys, cache'[k] # None
      PROVE  \/ cache[k] # None /\ cache'[k].response = cache[k].response
             \/ RowsOf(cache'[k].response) \subseteq Remembered
  <2>1. CASE cache'[k] = cache[k] \/ Outdated(k)
    BY <1>2, <2>1 DEF Outdated
  <2>2. ASSUME NEW r \in Requests, CacheSet(r),
               cache'[k] = [response |-> envelope[r], expires |-> Expiry, readable |-> TRUE]
        PROVE  RowsOf(cache'[k].response) \subseteq Remembered
    <3>1. pc[r] = "set" /\ cache'[k].response = envelope[r]
      BY <2>2 DEF CacheSet
    <3>2. RememberedSomewhere
      BY RememberedIs
    <3> QED  BY <3>1, <3>2 DEF RememberedSomewhere
  <2> QED  BY <1>2, <2>1, <2>2, EntryChange
<1> QED  BY <1>1, <1>2, RowsComeFromTables, LearnedFromTables

-----------------------------------------------------------------------------
(* Each step of Lookup is one of the contract.                             *)

\* Nothing that the client can see.
LEMMA SimulatesBackground ==
    ASSUME EtlNext \/ UNCHANGED etlVars, UNCHANGED <<dbReady, body, results>>,
           \A q \in Requests : StatusOf(q)' = StatusOf(q),
           Contract!LearnsOnlyFromTables
    PROVE  Contract!Background
<1>1. UNCHANGED [q \in Requests |-> StatusOf(q)]
  OBVIOUS
<1> QED  BY <1>1, SameLoader, SameIdle DEF Contract!Background

\* The request gets a 500.
LEMMA SimulatesAbort ==
    ASSUME TypeOK, NEW r \in Requests, pc[r] \in Working \cup {"next"},
           NEW end \in {"failed", "raised"}, pc' = [pc EXCEPT ![r] = end],
           UNCHANGED <<etlVars, dbReady, body, results>>,
           Contract!LearnsOnlyFromTables
    PROVE  Contract!Abort(r)
<1> DEFINE status == [q \in Requests |-> StatusOf(q)]
<1>1. status[r] = "open"
  BY DEF StatusOf, Working
<1>2. StatusOf(r)' = "lost"
  BY DEF StatusOf, Working, TypeOK
<1>3. \A q \in Requests \ {r} : StatusOf(q)' = StatusOf(q)
  BY DEF StatusOf, TypeOK
<1>4. status' = [status EXCEPT ![r] = "lost"]
  BY <1>2, <1>3
<1> QED  BY <1>1, <1>4, SameIdle DEF Contract!Abort

\* The item gets its outcome.
LEMMA SimulatesResolve ==
    ASSUME TypeOK, NEW r \in Requests, pc[r] \in Working \cup {"next"},
           NEW result, Conclude(r, result),
           UNCHANGED <<etlVars, dbReady, body>>,
           Contract!Allowed(Item(r), result),
           Contract!LearnsOnlyFromTables
    PROVE  Contract!Resolve(r)
<1> DEFINE status == [q \in Requests |-> StatusOf(q)]
<1>1. status[r] = "open"
  BY DEF StatusOf, Working
<1>2. results[r] \in Seq(Results) /\ results' = [results EXCEPT ![r] = Append(@, result)]
  BY DEF TypeOK, Conclude
<1>3. results'[r] = Append(results[r], result)
  BY <1>2 DEF TypeOK
<1>4. Len(results'[r]) = Len(results[r]) + 1 /\ results'[r][Len(results'[r])] = result
  BY <1>2, <1>3
<1>5. Contract!LastOutcome(r)' = result
  BY <1>4 DEF Contract!LastOutcome
<1>6. Contract!NextItem(r) = Item(r)
  BY DEF Contract!NextItem, Item
<1>7. StatusOf(r)' = IF Len(results'[r]) = Len(body[r].items) THEN "answered" ELSE "open"
  <2>1. pc'[r] = IF Len(results'[r]) = Len(body[r].items) THEN "answered" ELSE "next"
    BY <1>4 DEF Conclude, TypeOK
  <2> QED  BY <2>1 DEF StatusOf, Working
<1>8. \A q \in Requests \ {r} : StatusOf(q)' = StatusOf(q)
  BY DEF StatusOf, Conclude, TypeOK
<1>9. status' = [status EXCEPT ![r] = IF Len(results'[r]) = Len(body[r].items)
                                      THEN "answered" ELSE "open"]
  BY <1>7, <1>8
<1>10. /\ Len(results'[r]) = Len(results[r]) + 1
       /\ results' = [results EXCEPT ![r] = Append(@, Contract!LastOutcome(r)')]
       /\ Contract!Allowed(Contract!NextItem(r), Contract!LastOutcome(r)')
  BY <1>2, <1>4, <1>5, <1>6
<1> QED  BY <1>1, <1>9, <1>10, SameIdle DEF Contract!Resolve

\* When an outcome is allowed.
LEMMA OkAllowed ==
    ASSUME NEW i \in UsableItems, NEW env, FitsSome(i, env), RowsOf(env) \subseteq Remembered
    PROVE  Contract!Allowed(i, Ok(env))
<1>1. Ok(env).ok /\ Ok(env).response = env
  BY DEF Ok
<1>2. Contract!Usable(i)
  BY UsableTyped, SameUsable
<1>3. Contract!FitsSome(i, env) /\ Contract!RowsIn(env) \subseteq Remembered
  BY SameFit, SameRowsIn
<1> QED  BY <1>1, <1>2, <1>3 DEF Contract!Allowed

LEMMA ErrorAllowed ==
    ASSUME NEW i,
           NEW code \in Errors,
           code = "unready" => ~dbReady,
           code = "shape" => dbReady /\ ~WellFormed(i),
           code = "phone" => dbReady /\ WellFormed(i) /\ ~Parses(i),
           code = "missing" => Usable(i) /\ RowsFor(i) = {}
    PROVE  Contract!Allowed(i, Error(code))
<1>1. ~Error(code).ok /\ Error(code).error = code
  BY DEF Error
<1>2. /\ Contract!WellFormed(i) <=> WellFormed(i)
      /\ Contract!Parses(i) <=> Parses(i)
      /\ Contract!Usable(i) <=> Usable(i)
      /\ Contract!RowsFor(i) = RowsFor(i)
  BY SameInput, SameUsable, SameRows
<1> QED  BY <1>1, <1>2 DEF Contract!Allowed, Errors

LEMMA StepSimulated ==
    ASSUME LookupInv, NEW r \in Requests, Step(r), Contract!LearnsOnlyFromTables
    PROVE  Contract!Resolve(r) \/ Contract!Abort(r) \/ Contract!Background
<1> DEFINE i == Item(r)
<1>0. TypeOK /\ ItemInHand /\ EntriesFit
  BY DEF LookupInv
<1>1. CASE Refuse(r)
  <2>1. PICK code \in Errors :
           /\ Conclude(r, Error(code))
           /\ code = "unready" => ~dbReady
           /\ code = "shape" => dbReady /\ ~WellFormed(i)
           /\ code = "phone" => dbReady /\ WellFormed(i) /\ ~Parses(i)
           /\ code # "missing"
    BY <1>1 DEF Refuse, Errors
  <2> HIDE DEF i
  <2>2. Contract!Allowed(i, Error(code))
    BY <2>1, ErrorAllowed
  <2>3. pc[r] \in Working \cup {"next"} /\ UNCHANGED <<etlVars, dbReady, body>>
    BY <1>1 DEF Refuse
  <2> QED  BY <1>0, <2>1, <2>2, <2>3, SimulatesResolve DEF i
<1>2. CASE FindNothing(r)
  <2>1. i \in UsableItems /\ Usable(i) /\ RowsFor(i) = {}
    BY <1>0, <1>2, UsableTyped DEF FindNothing, Working, ItemInHand, InHand
  <2>2. /\ pc[r] \in Working \cup {"next"} /\ UNCHANGED <<etlVars, dbReady, body>>
        /\ Conclude(r, Error("missing"))
    BY <1>2 DEF FindNothing, Working
  <2> HIDE DEF i
  <2>3. Contract!Allowed(i, Error("missing"))
    BY <2>1, ErrorAllowed DEF Errors
  <2> QED  BY <1>0, <2>2, <2>3, SimulatesResolve DEF i
<1>3. CASE CacheHit(r)
  <2> DEFINE k == CacheKey(i)
             env == cache[k].response
  <2>1. i \in UsableItems /\ k \in CacheKeys /\ cache[k] # None
    BY <1>0, <1>3, UsableTyped DEF CacheHit, Working, ItemInHand, InHand
  <2>2. /\ pc[r] \in Working \cup {"next"} /\ UNCHANGED <<etlVars, dbReady, body>>
        /\ Conclude(r, Ok(env))
    BY <1>3 DEF CacheHit, Working
  <2>3. FitsSome(i, env)
    <3>1. PICK j \in UsableItems : CacheKey(j) = k /\ Fits(env, j)
      BY <1>0, <2>1 DEF EntriesFit
    <3> QED  BY <3>1, KeyTellsQuestion DEF FitsSome
  <2>4. RowsOf(env) \subseteq Remembered
    <3>1. RememberedSomewhere
      BY RememberedIs
    <3> QED  BY <2>1, <3>1 DEF RememberedSomewhere
  <2> HIDE DEF i, env
  <2>5. Contract!Allowed(i, Ok(env))
    BY <2>1, <2>3, <2>4, OkAllowed
  <2> QED  BY <1>0, <2>2, <2>5, SimulatesResolve DEF i
<1>4. CASE FindCities(r)
  <2> DEFINE x == IF NeedsRow(i) THEN row[r] ELSE None
  <2>1. InHand(r)
    BY <1>0, <1>4 DEF FindCities, Working, ItemInHand
  <2>2. i \in UsableItems /\ i \in Items /\ RowAnswers(x, i)
    BY <1>4, <2>1, UsableTyped DEF FindCities, InHand, RowAnswers, NeedsRow
  <2>3. PICK env \in EnvelopesFrom(i, x) :
           IF cacheUp THEN /\ pc' = [pc EXCEPT ![r] = "set"] /\ UNCHANGED results
                      ELSE Conclude(r, Ok(env))
    BY <1>4 DEF FindCities
  <2>4. /\ pc[r] \in Working \cup {"next"} /\ UNCHANGED <<etlVars, dbReady, body>>
    BY <1>4 DEF FindCities, Working
  <2>5. RowsOf(env) \subseteq Remembered
    BY <2>3, EnvelopeRemembered
  <2>6. CASE cacheUp
    <3>1. pc' = [pc EXCEPT ![r] = "set"] /\ UNCHANGED results
      BY <2>3, <2>6
    <3>2. \A q \in Requests : StatusOf(q)' = StatusOf(q)
      BY <1>0, <2>4, <3>1 DEF StatusOf, TypeOK, Working
    <3> QED  BY <2>4, <3>1, <3>2, SimulatesBackground
  <2>7. CASE ~cacheUp
    <3> HIDE DEF i, x
    <3>1. Fits(env, i)
      BY <2>2, <2>3, EnvelopeFits
    <3>2. FitsSome(i, env)
      BY <2>2, <3>1, SameQuestionOfItself DEF FitsSome
    <3>3. Contract!Allowed(i, Ok(env))
      BY <2>2, <2>5, <3>2, OkAllowed
    <3> QED  BY <1>0, <2>3, <2>4, <2>7, <3>3, SimulatesResolve DEF i
  <2> QED  BY <2>6, <2>7
<1>5. CASE CacheSet(r)
  <2>1. InHand(r) /\ pc[r] = "set"
    BY <1>0, <1>5 DEF CacheSet, Working, ItemInHand
  <2>2. i \in UsableItems /\ Fits(envelope[r], i)
    BY <2>1 DEF InHand
  <2>3. /\ pc[r] \in Working \cup {"next"} /\ UNCHANGED <<etlVars, dbReady, body>>
        /\ Conclude(r, Ok(envelope[r]))
    BY <1>5 DEF CacheSet, Working
  <2>4. RowsOf(envelope[r]) \subseteq Remembered
    <3>1. RememberedSomewhere
      BY RememberedIs
    <3> QED  BY <2>1, <3>1 DEF RememberedSomewhere
  <2> HIDE DEF i
  <2>5. FitsSome(i, envelope[r])
    BY <2>2, SameQuestionOfItself DEF FitsSome
  <2>6. Contract!Allowed(i, Ok(envelope[r]))
    BY <2>2, <2>4, <2>5, OkAllowed
  <2> QED  BY <1>0, <2>3, <2>6, SimulatesResolve DEF i
<1>6. CASE QueryError(r) \/ KeyError(r) \/ UnreadableHit(r)
  <2>1. PICK end \in {"failed", "raised"} :
           /\ pc' = [pc EXCEPT ![r] = end]
           /\ UNCHANGED <<etlVars, dbReady, body, results>>
    BY <1>6 DEF QueryError, KeyError, UnreadableHit
  <2>2. pc[r] \in Working \cup {"next"}
    BY <1>6 DEF QueryError, KeyError, UnreadableHit, Working
  <2> QED  BY <1>0, <2>1, <2>2, SimulatesAbort
<1>7. CASE Start(r) \/ CacheMiss(r) \/ Acquire(r) \/ FindRow(r)
  <2>1. /\ pc[r] \in Working \cup {"next"}
        /\ pc'[r] \in Working
        /\ \A q \in Requests \ {r} : pc'[q] = pc[q]
    BY <1>0, <1>7 DEF Start, CacheMiss, Acquire, FindRow, AfterMiss, Working, TypeOK
  <2>2. UNCHANGED <<etlVars, dbReady, body, results>>
    BY <1>7 DEF Start, CacheMiss, Acquire, FindRow
  <2>3. \A q \in Requests : StatusOf(q)' = StatusOf(q)
    BY <2>1 DEF StatusOf, Working
  <2> QED  BY <2>2, <2>3, SimulatesBackground
<1> QED
  BY <1>1, <1>2, <1>3, <1>4, <1>5, <1>6, <1>7 DEF Step

LEMMA ArriveSimulated ==
    ASSUME TypeOK, NEW r \in Requests, NEW b \in Bodies, Arrive(r, b)
    PROVE  Contract!Ask(r, b)
<1> DEFINE status == [q \in Requests |-> StatusOf(q)]
           end == IF Len(b.items) > BatchCap THEN "lost"
                  ELSE IF b.items = <<>> THEN "answered" ELSE "open"
<1>1. status[r] = "new"
  BY DEF Arrive, StatusOf, Working
<1>2. StatusOf(r)' = end
  <2>1. pc'[r] = IF Len(b.items) > BatchCap THEN "rejected"
                 ELSE IF b.items = <<>> THEN "answered" ELSE "next"
    BY DEF Arrive, TypeOK
  <2> QED  BY <2>1 DEF StatusOf, Working
<1>3. \A q \in Requests \ {r} : StatusOf(q)' = StatusOf(q)
  BY DEF Arrive, StatusOf, TypeOK
<1>4. status' = [status EXCEPT ![r] = end]
  BY <1>2, <1>3
<1>5. UNCHANGED Contract!etlVars
  BY SameIdle DEF Arrive
<1>6. UNCHANGED Remembered
  <2>1. UNCHANGED <<table, row, envelope, cache>>
    BY DEF Arrive, etlVars
  <2>2. {q \in Requests : pc[q] = "set"}' = {q \in Requests : pc[q] = "set"}
    BY DEF Arrive, TypeOK
  <2> QED  BY <2>1, <2>2 DEF Remembered
<1> QED  BY <1>1, <1>4, <1>5, <1>6 DEF Contract!Ask, Arrive

LEMMA RestartSimulated ==
    ASSUME TypeOK, Restart, Contract!LearnsOnlyFromTables
    PROVE  Contract!Crash
<1> DEFINE status == [q \in Requests |-> StatusOf(q)]
<1>1. \A q \in Requests : StatusOf(q)' = IF status[q] = "new" THEN "new" ELSE "lost"
  BY DEF Restart, StatusOf, TypeOK, Working, Finished
<1>2. status' = [q \in Requests |-> IF status[q] = "new" THEN "new" ELSE "lost"]
  BY <1>1
<1>3. UNCHANGED Contract!etlVars
  BY SameIdle DEF Restart
<1> QED  BY <1>2, <1>3 DEF Contract!Crash, Restart

LEMMA OthersSimulated ==
    ASSUME \/ \E k \in CacheKeys : Evict(k)
           \/ Tick
           \/ EtlStep
           \/ UNCHANGED vars,
           Contract!LearnsOnlyFromTables
    PROVE  Contract!Background
<1>1. EtlNext \/ UNCHANGED etlVars
  BY DEF Evict, Tick, EtlStep, vars
<1>2. UNCHANGED <<pc, dbReady, body, results>>
  BY DEF Evict, Tick, EtlStep, vars, lookupVars, serviceVars
<1>3. \A q \in Requests : StatusOf(q)' = StatusOf(q)
  BY <1>2 DEF StatusOf
<1> QED  BY <1>1, <1>2, <1>3, SimulatesBackground

\* Every step is one of the contract.
LEMMA StepsKeepContract ==
    ASSUME LookupInv, [Next]_vars
    PROVE  Contract!ContractNext
<1>1. TypeOK /\ ItemInHand
  BY DEF LookupInv
<1>2. Contract!LearnsOnlyFromTables
  BY <1>1, LearnsStep
<1>3. ASSUME NEW r \in Requests, Step(r) PROVE Contract!ContractNext
  BY <1>2, <1>3, StepSimulated DEF Contract!ContractNext
<1>4. ASSUME NEW r \in Requests, NEW b \in Bodies, Arrive(r, b) PROVE Contract!ContractNext
  BY <1>1, <1>4, ArriveSimulated DEF Contract!ContractNext
<1>5. CASE Restart
  BY <1>1, <1>2, <1>5, RestartSimulated DEF Contract!ContractNext
<1>6. CASE \/ \E k \in CacheKeys : Evict(k)
           \/ Tick
           \/ EtlStep
           \/ UNCHANGED vars
  BY <1>2, <1>6, OthersSimulated DEF Contract!ContractNext
<1> QED  BY <1>3, <1>4, <1>5, <1>6 DEF Next

LEMMA ContractBegins ==
    ASSUME Init
    PROVE  Contract!ContractInit
<1>1. Contract!EtlInit
  BY SameLoader DEF Init
<1>2. [q \in Requests |-> StatusOf(q)] = [q \in Requests |-> "new"]
  BY DEF Init, StatusOf, Working
<1>3. Contract!NoBody = NoBody
  BY DEF Contract!NoBody, NoBody
<1>4. Remembered = Contract!Visible
  <2>1. RememberedSomewhere
    BY RememberedIs
  <2>2. \A q \in Requests : row[q] = None /\ pc[q] # "set"
    BY DEF Init
  <2>3. \A k \in CacheKeys : cache[k] = None
    BY DEF Init
  <2>4. \A x : x \in Remembered <=> \E t \in Tables : x \in table[t]
    BY <2>1, <2>2, <2>3 DEF RememberedSomewhere
  <2>5. \A x : x \in Contract!Visible <=> \E t \in Tables : x \in table[t]
    BY SameVisible
  <2> QED  BY <2>4, <2>5
<1> QED  BY <1>1, <1>2, <1>3, <1>4 DEF Contract!ContractInit, Init

\* Whatever happens in the service, its cache, its database and its loader, the
\* clients see what the contract allows and nothing else: the outcomes of main.py's
\* lookup and lookup_batch come one per item and in order, and an envelope is
\* made of rows that were read from the tables, for the question asked.
THEOREM KeepsContract == Spec => RefinesContract
<1>1. Init => Contract!ContractInit
  BY ContractBegins
<1>2. LookupInv /\ [Next]_vars => [Contract!ContractNext]_Contract!contractVars
  BY StepsKeepContract
<1> QED  BY <1>1, <1>2, LookupInvariant, PTL DEF Spec, RefinesContract, Contract!ContractSpec
=============================================================================
