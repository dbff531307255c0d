---------------------------- MODULE LookupProofs ----------------------------
(***************************************************************************)
(* Proofs about Lookup, for any number of requests, any bodies, any data   *)
(* and any behaviour of the loader.  LookupInv is the inductive invariant. *)
(***************************************************************************)
EXTENDS Lookup, EtlProofs, FiniteSetTheorems, SequenceTheorems

\* What a request being served has established about its current item.
InHand(r) ==
    LET i == Item(r) IN
    /\ i \in UsableItems
    /\ pc[r] \in {"wantRow", "row"} => NeedsRow(i)
    /\ pc[r] \in {"wantCities", "cities"} /\ NeedsRow(i) => RowAnswers(row[r], i)
    /\ pc[r] = "set" => envelope[r] \in Envelopes /\ Fits(envelope[r], i)

ItemInHand == \A r \in Requests : pc[r] \in Working => InHand(r)

\* An entry answers an item that has its key.
EntriesFit ==
    \A k \in CacheKeys : cache[k] # None =>
        \E j \in UsableItems : CacheKey(j) = k /\ Fits(cache[k].response, j)

\* No item is worked on for longer than MaxLatency, no entry outlives TTL, and
\* what cannot be read was there when the envelope changed.
InTime ==
    /\ \A r \in Requests : pc[r] \in Working => now <= began[r] + MaxLatency
    /\ \A k \in CacheKeys : cache[k] # None =>
          /\ now < cache[k].expires /\ cache[k].expires <= now + TTL
          /\ ~cache[k].readable => cache[k].expires <= upgradedAt + TTL

\* What was read is still so, or was read for an item begun before the change.
Current ==
    /\ \A r \in Requests :
          /\ pc[r] \in {"wantCities", "cities"} /\ NeedsRow(Item(r)) =>
                began[r] <= changedAt \/ row[r] \in RowsFor(Item(r))
          /\ pc[r] = "set" => began[r] <= changedAt \/ envelope[r] \in Answers(Item(r))
    /\ \A k \in CacheKeys : cache[k] # None =>
          \/ cache[k].expires <= changedAt + MaxLatency + TTL
          \/ \E i \in UsableItems : CacheKey(i) = k /\ cache[k].response \in Answers(i)

\* Nothing has been answered to a request that has not arrived.
NothingAnsweredYet == \A r \in Requests : pc[r] = "new" => results[r] = <<>>

LookupInv == /\ TypeOK /\ NothingAnsweredYet /\ ItemInHand /\ EntriesFit
             /\ AnswerFitsQuestion /\ InTime /\ Current

-----------------------------------------------------------------------------
(* Facts about the operators of LookupInput and LookupAnswers.             *)

LEMMA KindIsGiven ==
    ASSUME NEW i \in Items, WellFormed(i)
    PROVE  /\ Kind(i) = "phone" => i.phone \in PhoneTexts
           /\ Kind(i) = "ip" => i.ip \in IpTexts
           /\ Kind(i) = "coords" => i.lat \in Degrees /\ i.lng \in Degrees
           /\ Kind(i) \in {"phone", "ip", "coords"}
<1>1. /\ i.phone \in PhoneTexts \cup {None} /\ i.ip \in IpTexts \cup {None}
      /\ i.lat \in Degrees \cup {None} /\ i.lng \in Degrees \cup {None}
  BY DEF Items
<1>2. i.lat = None <=> i.lng = None
  BY DEF WellFormed
<1>3. PICK m \in Given(i) : Given(i) = {m}
  BY DEF WellFormed
<1>4. Kind(i) = "coords" => i.phone = None /\ i.ip = None
  BY DEF Kind
<1>5. Kind(i) = "coords" => m = "coords"
  BY <1>3, <1>4 DEF Given
<1>6. m = "coords" => i.lat # None \/ i.lng # None
  BY <1>3 DEF Given
<1> QED  BY <1>1, <1>2, <1>5, <1>6 DEF Kind

LEMMA ModeOfKind ==
    ASSUME NEW i \in Items
    PROVE  /\ Mode(i) \in Modes
           /\ Mode(i) \in {"phone", "fallback"} <=> Kind(i) = "phone"
           /\ Mode(i) = "ip" <=> Kind(i) = "ip"
           /\ Mode(i) = "coords" <=> Kind(i) = "coords"
BY DEF Mode, Kind, Modes

LEMMA RadiusTyped ==
    ASSUME NEW i \in Items, Keyed(i)
    PROVE  Radius(i) \in Int
BY InputAssumption DEF Radius, Items, Keyed

LEMMA ValueTyped ==
    ASSUME NEW i \in Items, Usable(i)
    PROVE  Value(i) \in Values
<1>1. CASE Kind(i) = "phone"
  <2>1. i.phone \in PhoneTexts /\ i.phone # None
    BY <1>1, KindIsGiven, InputAssumption DEF Usable
  <2>2. Parsed[i.phone] \in Numbers
    BY <2>1 DEF Usable, Parses, Parsed, Numbers
  <2> QED  BY <1>1, <2>2 DEF Value, Values
<1>2. CASE Kind(i) = "ip"
  BY <1>2, KindIsGiven DEF Usable, Value, Values
<1>3. CASE Kind(i) = "coords"
  BY <1>3, KindIsGiven DEF Usable, Value, Values
<1> QED  BY <1>1, <1>2, <1>3, KindIsGiven DEF Usable

LEMMA EnvelopeTyped ==
    ASSUME EtlTypeOK, NEW i \in Items, Usable(i), NEW x \in RowsOrNone,
           NEW env \in EnvelopesFrom(i, x)
    PROVE  env \in Envelopes
<1>1. CitiesWithin(Point(i, x), Radius(i)) \subseteq Rows("places")
  BY DEF CitiesWithin, EtlTypeOK, Tables
<1>2. PICK cities \in NearestCities(Point(i, x), Radius(i)) : env = Envelope(i, x, cities)
  BY DEF EnvelopesFrom
<1>3. cities \subseteq Rows("places")
  BY <1>1 DEF NearestCities
<1>4. Value(i) \in Values /\ Radius(i) \in Int /\ Mode(i) \in Modes
  BY ValueTyped, RadiusTyped, ModeOfKind DEF Usable
<1> QED  BY <1>2, <1>3, <1>4 DEF Envelope, Envelopes

\* Items with one key ask the same question.
LEMMA KeyTellsQuestion ==
    ASSUME NEW i, NEW j, CacheKey(i) = CacheKey(j)
    PROVE  SameQuestion(i, j)
<1>1. /\ CacheKey(i).kind = CacheKey(j).kind
      /\ CacheKey(i).value = CacheKey(j).value
      /\ CacheKey(i).km = CacheKey(j).km
  OBVIOUS
<1> QED  BY <1>1 DEF CacheKey, SameQuestion

\* An answer computed at once, from a row of the item's own, fits the item.
LEMMA EnvelopeFits ==
    ASSUME NEW i \in Items, NEW x, RowAnswers(x, i), NEW env \in EnvelopesFrom(i, x)
    PROVE  Fits(env, i)
<1>1. PICK cities \in NearestCities(Point(i, x), Radius(i)) : env = Envelope(i, x, cities)
  BY DEF EnvelopesFrom
<1>2. /\ env.mode = Mode(i) /\ env.value = Value(i) /\ env.radius = Radius(i) /\ env.row = x
      /\ env.cities = cities
  BY <1>1 DEF Envelope
<1>3. /\ Cardinality(cities) <= CityLimit
      /\ \A p \in cities : Distance(Point(i, x), p.key) <= Radius(i)
  BY DEF NearestCities, CitiesWithin
<1>4. /\ Cardinality(env.cities) <= CityLimit
      /\ \A p \in env.cities : Distance(Point(i, env.row), p.key) <= Radius(i)
  BY <1>2, <1>3
<1>5. RowAnswers(env.row, i)
  BY <1>2
<1> QED  BY <1>2, <1>4, <1>5, Zenon DEF Fits

\* The item being worked on.
LEMMA ItemTyped ==
    ASSUME TypeOK, NEW r \in Requests, Len(results[r]) < Len(body[r].items)
    PROVE  /\ Item(r) \in Items
           /\ body[r] \in Bodies
           /\ Item(r) \in ItemsOf(body[r])
           /\ Usable(Item(r)) => Item(r) \in UsableItems
<1>1. body[r] \in Bodies \cup {NoBody} /\ Len(results[r]) \in Nat
  BY DEF TypeOK
<1>2. body[r] # NoBody
  BY <1>1 DEF NoBody
<1>3. body[r] \in Bodies /\ body[r].items \in Seq(Items)
  BY <1>1, <1>2, AnswersAssumption
<1>4. Len(results[r]) + 1 \in DOMAIN body[r].items
  BY <1>1, <1>3
<1>5. Item(r) \in Items /\ Item(r) \in ItemsOf(body[r])
  BY <1>3, <1>4 DEF Item, ItemsOf
<1> QED  BY <1>3, <1>5 DEF UsableItems

LEMMA UsableTyped ==
    /\ UsableItems \subseteq Items
    /\ \A i \in UsableItems : Usable(i) /\ CacheKey(i) \in CacheKeys
<1>1. \A b \in Bodies : ItemsOf(b) \subseteq Items
  BY AnswersAssumption DEF ItemsOf
<1> QED  BY <1>1 DEF UsableItems, CacheKeys

-----------------------------------------------------------------------------
(* Types.                                                                  *)

LEMMA EtlTypeKept ==
    ASSUME EtlTypeOK, UNCHANGED etlVars
    PROVE  EtlTypeOK'
BY DEF EtlTypeOK, etlVars

LEMMA BumpTyped ==
    ASSUME TypeOK, NEW names, Bump(names)
    PROVE  counter' \in [Counters -> Nat]
BY DEF TypeOK, Bump

\* Nobody acquires a connection in a step after which the holders held before.
LEMMA PoolKept ==
    ASSUME TypeOK, \A r \in Requests : pc'[r] \in {"row", "cities"} => pc[r] \in {"row", "cities"}
    PROVE  Cardinality(Holding)' <= PoolSize
<1>1. Holding' \subseteq Holding
  BY DEF Holding
<1>2. IsFiniteSet(Holding)
  BY AnswersAssumption, FS_Subset DEF Holding
<1>3. Cardinality(Holding') <= Cardinality(Holding)
  BY <1>1, <1>2, FS_Subset
<1>4. IsFiniteSet(Holding')
  BY <1>1, <1>2, FS_Subset
<1> QED
  BY <1>2, <1>3, <1>4, FS_CardinalityType, LookupAssumption DEF TypeOK

\* A connection is acquired only when fewer than PoolSize are held.
LEMMA PoolAcquired ==
    ASSUME TypeOK, NEW r \in Requests, Acquire(r)
    PROVE  Cardinality(Holding)' <= PoolSize
<1>1. Holding' \subseteq Holding \cup {r}
  BY DEF Acquire, Holding, TypeOK
<1>2. IsFiniteSet(Holding)
  BY AnswersAssumption, FS_Subset DEF Holding
<1>3. /\ IsFiniteSet(Holding \cup {r})
      /\ \/ Cardinality(Holding \cup {r}) = Cardinality(Holding)
         \/ Cardinality(Holding \cup {r}) = Cardinality(Holding) + 1
  BY <1>2, FS_AddElement
<1>4. /\ IsFiniteSet(Holding')
      /\ Cardinality(Holding') <= Cardinality(Holding \cup {r})
  BY <1>1, <1>3, FS_Subset
<1>5. Cardinality(Holding) < PoolSize
  BY DEF Acquire, ConnectionFree
<1> QED
  BY <1>2, <1>3, <1>4, <1>5, FS_CardinalityType, LookupAssumption

\* The outcome of an item is appended; the request is answered or goes on.
LEMMA Concluded ==
    ASSUME TypeOK, NEW r \in Requests, pc[r] \in Working \cup {"next"},
           NEW result \in Results, Conclude(r, result), UNCHANGED <<body, now>>
    PROVE  /\ results' \in [Requests -> Seq(Results)]
           /\ pc' \in [Requests -> {"new", "next"} \cup Working \cup Finished]
           /\ row' \in [Requests -> RowsOrNone]
           /\ envelope' \in [Requests -> Envelopes \cup {None}]
           /\ began' \in [Requests -> 0 .. now']
           /\ \A q \in Requests : pc'[q] \in Working \cup {"next"} =>
                                      Len(results'[q]) < Len(body'[q].items)
           /\ \A q \in Requests : pc'[q] \in Working =>
                 /\ pc'[q] = pc[q] /\ results'[q] = results[q]
                 /\ row'[q] = row[q] /\ envelope'[q] = envelope[q] /\ began'[q] = began[q]
           /\ \A q \in Requests : q # r => results'[q] = results[q] /\ pc'[q] = pc[q]
           /\ results'[r] = Append(results[r], result) /\ pc'[r] \in {"answered", "next"}
<1>1. /\ results' = [results EXCEPT ![r] = Append(@, result)]
      /\ pc' = [pc EXCEPT ![r] =
                    IF Len(results[r]) + 1 = Len(body[r].items) THEN "answered" ELSE "next"]
      /\ row' = [row EXCEPT ![r] = None]
      /\ envelope' = [envelope EXCEPT ![r] = None]
      /\ began' = [began EXCEPT ![r] = 0]
  BY DEF Conclude
<1>2. results[r] \in Seq(Results) /\ Len(results[r]) \in Nat
  BY DEF TypeOK
<1>3. Append(results[r], result) \in Seq(Results)
      /\ Len(Append(results[r], result)) = Len(results[r]) + 1
  BY <1>2
<1>4. Len(results[r]) < Len(body[r].items) /\ Len(body[r].items) \in Nat
  BY AnswersAssumption, ItemTyped DEF TypeOK
<1>5. now \in Nat /\ 0 \in 0 .. now
  BY DEF TypeOK
<1>6. pc'[r] \in {"answered", "next"}
  BY <1>1 DEF TypeOK
<1>7. {"answered", "next"} \subseteq {"new", "next"} \cup Working \cup Finished
      /\ "answered" \notin Working /\ "next" \notin Working
  BY DEF Working, Finished
<1>8. results' \in [Requests -> Seq(Results)] /\ results'[r] = Append(results[r], result)
  BY <1>1, <1>3 DEF TypeOK
<1>9. pc' \in [Requests -> {"new", "next"} \cup Working \cup Finished]
  BY <1>1, <1>7 DEF TypeOK
<1>10. /\ row' \in [Requests -> RowsOrNone]
       /\ envelope' \in [Requests -> Envelopes \cup {None}]
       /\ began' \in [Requests -> 0 .. now']
  BY <1>1, <1>5 DEF TypeOK, RowsOrNone
<1>11. \A q \in Requests : q # r => /\ results'[q] = results[q] /\ pc'[q] = pc[q]
                                   /\ row'[q] = row[q] /\ envelope'[q] = envelope[q]
                                   /\ began'[q] = began[q]
  BY <1>1 DEF TypeOK
<1>12. pc'[r] = "next" => Len(results'[r]) < Len(body'[r].items)
  <2>1. pc'[r] = "next" => Len(results[r]) + 1 # Len(body[r].items)
    BY <1>1 DEF TypeOK
  <2> QED  BY <2>1, <1>2, <1>3, <1>4, <1>8
<1>13. \A q \in Requests : pc'[q] \in Working \cup {"next"} =>
                              Len(results'[q]) < Len(body'[q].items)
  BY <1>6, <1>7, <1>11, <1>12 DEF TypeOK
<1> QED
  BY <1>6, <1>7, <1>8, <1>9, <1>10, <1>11, <1>13

\* What is left of TypeOK' when the loader's part and the pool's are known.
LEMMA TypeStep ==
    ASSUME TypeOK, EtlTypeOK', ItemInHand, NothingAnsweredYet, [Next]_vars
    PROVE  TypeOK'
<1>1. ASSUME NEW r \in Requests, NEW b \in Bodies, Arrive(r, b) PROVE TypeOK'
  <2>1. Cardinality(Holding)' <= PoolSize
    BY <1>1, PoolKept DEF Arrive, TypeOK
  <2>2. body' \in [Requests -> Bodies \cup {NoBody}]
    BY <1>1 DEF Arrive, TypeOK
  <2>3. pc' \in [Requests -> {"new", "next"} \cup Working \cup Finished]
    BY <1>1 DEF Arrive, TypeOK, Finished
  <2>4. pc'[r] \notin Working /\ \A q \in Requests \ {r} : pc'[q] = pc[q] /\ body'[q] = body[q]
    BY <1>1 DEF Arrive, TypeOK, Working
  <2>5. pc'[r] = "next" => Len(results[r]) < Len(body'[r].items)
    <3>1. b.items \in Seq(Items) /\ results[r] = <<>>
      BY <1>1, AnswersAssumption DEF Arrive, NothingAnsweredYet
    <3>2. pc'[r] = "next" => b.items # <<>> /\ body'[r] = b
      BY <1>1 DEF Arrive, TypeOK
    <3> QED  BY <3>1, <3>2
  <2> QED
    BY <1>1, <2>1, <2>2, <2>3, <2>4, <2>5 DEF Arrive, TypeOK
<1>2. ASSUME NEW r \in Requests, NEW result \in Results, pc[r] \in Working \cup {"next"},
             Conclude(r, result), counter' \in [Counters -> Nat],
             cache' \in [CacheKeys -> Entries \cup {None}],
             UNCHANGED <<etlVars, dbReady, cacheUp, body, now, changedAt, upgradedAt, restarts>>
      PROVE  TypeOK'
  <2>1. \A q \in Requests : pc'[q] \in Working => pc'[q] = pc[q]
    BY <1>2, Concluded, Zenon
  <2>2. Cardinality(Holding)' <= PoolSize
    BY <2>1, PoolKept DEF Working
  <2>3. /\ results' \in [Requests -> Seq(Results)]
        /\ pc' \in [Requests -> {"new", "next"} \cup Working \cup Finished]
        /\ row' \in [Requests -> RowsOrNone]
        /\ envelope' \in [Requests -> Envelopes \cup {None}]
        /\ began' \in [Requests -> 0 .. now']
        /\ \A q \in Requests : pc'[q] \in Working \cup {"next"} =>
                                   Len(results'[q]) < Len(body'[q].items)
    BY <1>2, Concluded, Zenon
  <2> QED
    BY <1>2, <2>1, <2>2, <2>3 DEF TypeOK
<1>3. ASSUME NEW r \in Requests, Refuse(r) PROVE TypeOK'
  <2>1. \E code \in Errors : Conclude(r, Error(code))
    BY <1>3 DEF Refuse, Errors
  <2>2. \A code \in Errors : Error(code) \in Results
    BY DEF Error, Results
  <2>3. counter' \in [Counters -> Nat]
    BY <1>3, BumpTyped DEF Refuse
  <2> QED
    BY <1>2, <1>3, <2>1, <2>2, <2>3 DEF Refuse, TypeOK
<1>4. ASSUME NEW r \in Requests, Start(r) PROVE TypeOK'
  <2>1. Cardinality(Holding)' <= PoolSize
    BY <1>4, PoolKept DEF Start, AfterMiss, TypeOK
  <2>2. counter' \in [Counters -> Nat]
    BY <1>4, BumpTyped DEF Start
  <2>3. /\ pc' \in [Requests -> {"new", "next"} \cup Working \cup Finished]
        /\ \A q \in Requests : pc'[q] \in Working \cup {"next"} =>
                                   pc[q] \in Working \cup {"next"}
    BY <1>4 DEF Start, AfterMiss, TypeOK, Working
  <2>4. began' \in [Requests -> 0 .. now]
    BY <1>4 DEF Start, TypeOK
  <2>5. dbReady
    BY <1>4 DEF Start
  <2> QED
    BY <1>4, <2>1, <2>2, <2>3, <2>4, <2>5 DEF Start, TypeOK
<1>5. ASSUME NEW r \in Requests, CacheHit(r) PROVE TypeOK'
  <2> DEFINE env == cache[CacheKey(Item(r))].response
  <2>1. pc[r] \in Working /\ CacheKey(Item(r)) \in CacheKeys
    BY <1>5, UsableTyped DEF CacheHit, Working, ItemInHand, InHand
  <2>2. cache[CacheKey(Item(r))] \in Entries
    BY <1>5, <2>1 DEF CacheHit, TypeOK
  <2>3. Ok(env) \in Results
    BY <2>2 DEF Entries, Ok, Results
  <2>4. counter' \in [Counters -> Nat] /\ Conclude(r, Ok(env))
    BY <1>5, BumpTyped DEF CacheHit
  <2> QED
    BY <1>2, <1>5, <2>1, <2>3, <2>4 DEF CacheHit, TypeOK
<1>6. ASSUME NEW r \in Requests, CacheMiss(r) PROVE TypeOK'
  <2>1. Cardinality(Holding)' <= PoolSize
    BY <1>6, PoolKept DEF CacheMiss, AfterMiss, TypeOK
  <2>2. counter' \in [Counters -> Nat]
    BY <1>6, BumpTyped DEF CacheMiss
  <2>3. /\ pc' \in [Requests -> {"new", "next"} \cup Working \cup Finished]
        /\ \A q \in Requests : /\ pc'[q] \in Working => pc[q] \in Working
                               /\ pc'[q] = "next" => pc[q] = "next"
    BY <1>6 DEF CacheMiss, AfterMiss, TypeOK, Working
  <2> QED
    BY <1>6, <2>1, <2>2, <2>3 DEF CacheMiss, TypeOK
<1>7. ASSUME NEW r \in Requests, Acquire(r) PROVE TypeOK'
  <2>1. Cardinality(Holding)' <= PoolSize
    BY <1>7, PoolAcquired
  <2>2. /\ pc' \in [Requests -> {"new", "next"} \cup Working \cup Finished]
        /\ \A q \in Requests : /\ pc'[q] \in Working => pc[q] \in Working
                               /\ pc'[q] = "next" => pc[q] = "next"
    BY <1>7 DEF Acquire, TypeOK, Working
  <2> QED
    BY <1>7, <2>1, <2>2 DEF Acquire, TypeOK
<1>8. ASSUME NEW r \in Requests, FindRow(r) PROVE TypeOK'
  <2>1. Cardinality(Holding)' <= PoolSize
    BY <1>8, PoolKept DEF FindRow, TypeOK
  <2>2. counter' \in [Counters -> Nat]
    BY <1>8, BumpTyped DEF FindRow
  <2>3. /\ pc' \in [Requests -> {"new", "next"} \cup Working \cup Finished]
        /\ \A q \in Requests : /\ pc'[q] \in Working => pc[q] \in Working
                               /\ pc'[q] = "next" => pc[q] = "next"
    BY <1>8 DEF FindRow, TypeOK, Working
  <2>4. RowsFor(Item(r)) \subseteq RowsOrNone
    BY DEF RowsFor, LastStarting, RowsOrNone, TypeOK, EtlTypeOK, Tables
  <2>5. row' \in [Requests -> RowsOrNone]
    BY <1>8, <2>4 DEF FindRow, TypeOK
  <2> QED
    BY <1>8, <2>1, <2>2, <2>3, <2>5 DEF FindRow, TypeOK
<1>9. ASSUME NEW r \in Requests, FindNothing(r) PROVE TypeOK'
  <2>1. Error("missing") \in Results /\ pc[r] \in Working
    BY <1>9 DEF Error, Errors, Results, FindNothing, Working
  <2>2. counter' \in [Counters -> Nat]
    BY <1>9, BumpTyped DEF FindNothing
  <2> QED
    BY <1>2, <1>9, <2>1, <2>2 DEF FindNothing, TypeOK
<1>10. ASSUME NEW r \in Requests, FindCities(r) PROVE TypeOK'
  <2> DEFINE i == Item(r)
             x == IF NeedsRow(i) THEN row[r] ELSE None
  <2>1. i \in Items /\ Usable(i) /\ pc[r] \in Working
    BY <1>10, UsableTyped DEF FindCities, Working, ItemInHand, InHand
  <2>2. x \in RowsOrNone
    BY DEF TypeOK, RowsOrNone
  <2>5. PICK env \in EnvelopesFrom(i, x) :
           \/ /\ envelope' = [envelope EXCEPT ![r] = env]
              /\ pc' = [pc EXCEPT ![r] = "set"]
              /\ UNCHANGED <<results, row, began>>
           \/ Conclude(r, Ok(env))
    BY <1>10 DEF FindCities
  <2> HIDE DEF i, x
  <2>3. env \in Envelopes
    BY <2>1, <2>2, EnvelopeTyped DEF TypeOK
  <2>4. Ok(env) \in Results
    BY <2>3 DEF Ok, Results
  <2>6. UNCHANGED <<etlVars, dbReady, cacheUp, body, counter, cache, now, changedAt, upgradedAt, restarts>>
    BY <1>10 DEF FindCities
  <2>7. CASE Conclude(r, Ok(env))
    BY <1>2, <2>1, <2>4, <2>6, <2>7 DEF TypeOK
  <2>8. CASE /\ envelope' = [envelope EXCEPT ![r] = env]
             /\ pc' = [pc EXCEPT ![r] = "set"]
             /\ UNCHANGED <<results, row, began>>
    <3>1. Cardinality(Holding)' <= PoolSize
      BY <2>8, PoolKept DEF TypeOK
    <3>2. /\ pc' \in [Requests -> {"new", "next"} \cup Working \cup Finished]
          /\ \A q \in Requests : /\ pc'[q] \in Working => pc[q] \in Working
                                 /\ pc'[q] = "next" => pc[q] = "next"
      BY <2>1, <2>8 DEF TypeOK, Working
    <3> QED  BY <2>3, <2>6, <2>8, <3>1, <3>2 DEF TypeOK
  <2> QED  BY <2>5, <2>7, <2>8
<1>11. ASSUME NEW r \in Requests, QueryError(r) \/ KeyError(r) \/ UnreadableHit(r) PROVE TypeOK'
  <2> DEFINE changed == UNCHANGED <<etlVars, dbReady, cacheUp, body, results, row, envelope,
                                    began, cache, now, changedAt, upgradedAt, restarts>>
  <2>1. PICK end \in {"failed", "raised"} : pc' = [pc EXCEPT ![r] = end] /\ changed
    BY <1>11 DEF QueryError, KeyError, UnreadableHit
  <2>2. Cardinality(Holding)' <= PoolSize
    BY <2>1, PoolKept DEF TypeOK
  <2>3. /\ pc' \in [Requests -> {"new", "next"} \cup Working \cup Finished]
        /\ \A q \in Requests : /\ pc'[q] \in Working => pc[q] \in Working
                               /\ pc'[q] = "next" => pc[q] = "next"
    BY <2>1 DEF TypeOK, Working, Finished
  <2>4. counter' \in [Counters -> Nat]
    BY <1>11, BumpTyped DEF QueryError, KeyError, UnreadableHit, TypeOK
  <2> QED
    BY <2>1, <2>2, <2>3, <2>4 DEF TypeOK
<1>12. ASSUME NEW r \in Requests, CacheSet(r) PROVE TypeOK'
  <2>1. pc[r] \in Working /\ envelope[r] \in Envelopes
    BY <1>12 DEF CacheSet, Working, ItemInHand, InHand
  <2>2. Ok(envelope[r]) \in Results
    BY <2>1 DEF Ok, Results
  <2>3. [response |-> envelope[r], expires |-> Expiry, readable |-> TRUE] \in Entries
    BY <2>1, LookupAssumption DEF Entries, Expiry, TypeOK
  <2>4. cache' \in [CacheKeys -> Entries \cup {None}]
    BY <1>12, <2>3 DEF CacheSet, TypeOK
  <2> QED
    BY <1>2, <1>12, <2>1, <2>2, <2>4 DEF CacheSet, TypeOK
<1>13. ASSUME NEW k \in CacheKeys, Evict(k) PROVE TypeOK'
  <2>1. Cardinality(Holding)' <= PoolSize
    BY <1>13, PoolKept DEF Evict, serviceVars
  <2> QED  BY <1>13, <2>1 DEF Evict, TypeOK, serviceVars
<1>14. CASE Tick
  <2>1. Cardinality(Holding)' <= PoolSize
    BY <1>14, PoolKept DEF Tick, serviceVars
  <2>2. now' \in Nat /\ now <= now'
    BY <1>14 DEF Tick, TypeOK
  <2>3. /\ began' \in [Requests -> 0 .. now']
        /\ changedAt' \in 0 .. now' /\ upgradedAt' \in 0 .. now'
    BY <1>14, <2>2 DEF Tick, TypeOK, serviceVars
  <2>4. cache' \in [CacheKeys -> Entries \cup {None}]
    BY <1>14 DEF Tick, TypeOK
  <2> QED  BY <1>14, <2>1, <2>2, <2>3, <2>4 DEF Tick, TypeOK, serviceVars
<1>15. CASE Restart
  <2>1. pc' \in [Requests -> {"new", "gone"}]
    BY <1>15 DEF Restart
  <2>2. Cardinality(Holding)' <= PoolSize
    BY <2>1, PoolKept
  <2>3. /\ results' \in [Requests -> Seq(Results)]
        /\ row' \in [Requests -> RowsOrNone]
        /\ envelope' \in [Requests -> Envelopes \cup {None}]
        /\ began' \in [Requests -> 0 .. now]
    BY <1>15 DEF Restart, TypeOK, RowsOrNone
  <2>4. \A r \in Requests : pc'[r] \notin Working \cup {"next"}
    BY <2>1 DEF Working
  <2>5. pc' \in [Requests -> {"new", "next"} \cup Working \cup Finished]
    BY <2>1 DEF Finished
  <2>6. counter' \in [Counters -> Nat] /\ restarts' \in Nat
    BY <1>15 DEF Restart, TypeOK
  <2>7. cache' \in [CacheKeys -> Entries \cup {None}] /\ upgradedAt' \in 0 .. now
    <3>1. CASE UNCHANGED <<cache, upgradedAt>>
      BY <3>1 DEF TypeOK
    <3>2. CASE /\ upgradedAt' = now
               /\ cache' = [k \in CacheKeys |-> IF cache[k] = None THEN None
                                                 ELSE [cache[k] EXCEPT !.readable = FALSE]]
      <4>1. \A k \in CacheKeys : cache'[k] \in Entries \cup {None}
        BY <3>2 DEF TypeOK, Entries
      <4> QED  BY <3>2, <4>1 DEF TypeOK
    <3> QED  BY <1>15, <3>1, <3>2 DEF Restart
  <2> QED  BY <1>15, <2>2, <2>3, <2>4, <2>5, <2>6, <2>7 DEF Restart, TypeOK
<1>16. CASE EtlStep
  <2>1. Cardinality(Holding)' <= PoolSize
    BY <1>16, PoolKept DEF EtlStep, serviceVars
  <2>2. changedAt' \in 0 .. now'
    BY <1>16 DEF EtlStep, TypeOK
  <2> QED  BY <1>16, <2>1, <2>2 DEF EtlStep, TypeOK, serviceVars
<1>17. CASE UNCHANGED vars
  <2>1. Cardinality(Holding)' <= PoolSize
    BY <1>17, PoolKept DEF vars, lookupVars, serviceVars
  <2> QED  BY <1>17, <2>1 DEF vars, lookupVars, serviceVars, TypeOK
<1> QED
  BY <1>1, <1>3, <1>4, <1>5, <1>6, <1>7, <1>8, <1>9, <1>10, <1>11, <1>12, <1>13, <1>14,
     <1>15, <1>16, <1>17 DEF Next, Step

-----------------------------------------------------------------------------
(* The other conjuncts of LookupInv, one lemma each.                       *)

LEMMA NothingAnsweredStep ==
    ASSUME TypeOK, NothingAnsweredYet, [Next]_vars
    PROVE  NothingAnsweredYet'
<1>1. ASSUME NEW r \in Requests, NEW b \in Bodies, Arrive(r, b) PROVE NothingAnsweredYet'
  BY <1>1 DEF Arrive, TypeOK, NothingAnsweredYet
<1>2. ASSUME NEW r \in Requests, NEW result, Conclude(r, result) PROVE NothingAnsweredYet'
  BY <1>2 DEF Conclude, TypeOK, NothingAnsweredYet
<1>3. ASSUME NEW r \in Requests, Step(r) PROVE NothingAnsweredYet'
  <2>1. CASE \/ Start(r) \/ CacheMiss(r) \/ Acquire(r) \/ FindRow(r)
            \/ QueryError(r) \/ KeyError(r) \/ UnreadableHit(r)
    BY <2>1 DEF Start, CacheMiss, Acquire, FindRow, QueryError, KeyError, UnreadableHit,
                AfterMiss, TypeOK, NothingAnsweredYet
  <2>2. CASE Refuse(r) \/ CacheHit(r) \/ FindNothing(r) \/ CacheSet(r)
    BY <1>2, <2>2 DEF Refuse, CacheHit, FindNothing, CacheSet
  <2>3. CASE FindCities(r)
    <3>1. CASE cacheUp
      BY <2>3, <3>1 DEF FindCities, TypeOK, NothingAnsweredYet
    <3>2. CASE ~cacheUp
      BY <1>2, <2>3, <3>2 DEF FindCities
    <3> QED  BY <3>1, <3>2
  <2> QED  BY <1>3, <2>1, <2>2, <2>3 DEF Step
<1>4. CASE Restart
  BY <1>4 DEF Restart, NothingAnsweredYet
<1>5. ASSUME UNCHANGED serviceVars PROVE NothingAnsweredYet'
  BY <1>5 DEF serviceVars, NothingAnsweredYet
<1>6. ASSUME NEW k \in CacheKeys, Evict(k) PROVE NothingAnsweredYet'
  BY <1>5, <1>6 DEF Evict
<1>7. CASE Tick \/ EtlStep
  BY <1>5, <1>7 DEF Tick, EtlStep
<1>8. CASE UNCHANGED vars
  BY <1>5, <1>8 DEF vars, lookupVars
<1> QED
  BY <1>1, <1>3, <1>4, <1>6, <1>7, <1>8 DEF Next

\* What FindRow finds is a row of the item's own.
LEMMA RowFits ==
    ASSUME EtlTypeOK, NEW i \in UsableItems, NeedsRow(i), NEW x \in RowsFor(i)
    PROVE  RowAnswers(x, i)
<1>1. i \in Items
  BY UsableTyped
<1>2. Mode(i) = "phone" => Value(i) = Parsed[i.phone]
  BY <1>1, ModeOfKind DEF Value
<1> QED  BY <1>2 DEF NeedsRow, RowsFor, LastStarting, RowAnswers, EtlTypeOK, Tables

\* A step leaves what request q has in hand alone.
Kept(q) == /\ pc'[q] = pc[q] /\ body'[q] = body[q] /\ results'[q] = results[q]
           /\ row'[q] = row[q] /\ envelope'[q] = envelope[q] /\ began'[q] = began[q]

LEMMA ConcludeKeeps ==
    ASSUME TypeOK, NEW r \in Requests, NEW result, Conclude(r, result), UNCHANGED body
    PROVE  \A q \in Requests : pc'[q] \in Working => Kept(q)
<1>1. pc'[r] \notin Working
  BY DEF Conclude, TypeOK, Working
<1>2. \A q \in Requests \ {r} : Kept(q)
  BY DEF Conclude, TypeOK, Kept
<1> QED  BY <1>1, <1>2

\* The five steps that take a request on with its item; all others keep what
\* the requests that are being served have in hand.
LEMMA KeptOrTakenOn ==
    ASSUME TypeOK, [Next]_vars, NEW q \in Requests, pc'[q] \in Working
    PROVE  Kept(q) \/ Start(q) \/ CacheMiss(q) \/ Acquire(q) \/ FindRow(q)
           \/ (FindCities(q) /\ pc'[q] = "set")
<1>1. ASSUME NEW r \in Requests, NEW b \in Bodies, Arrive(r, b) PROVE Kept(q)
  <2>1. pc'[r] \notin Working
    BY <1>1 DEF Arrive, TypeOK, Working
  <2> QED  BY <1>1, <2>1 DEF Arrive, TypeOK, Kept
<1>2. ASSUME NEW r \in Requests, Step(r)
      PROVE  Kept(q) \/ Start(q) \/ CacheMiss(q) \/ Acquire(q) \/ FindRow(q)
             \/ (FindCities(q) /\ pc'[q] = "set")
  <2>1. CASE Refuse(r) \/ CacheHit(r) \/ FindNothing(r) \/ CacheSet(r)
    BY <2>1, ConcludeKeeps DEF Refuse, CacheHit, FindNothing, CacheSet
  <2>2. CASE QueryError(r) \/ KeyError(r) \/ UnreadableHit(r)
    <3>1. pc'[r] \notin Working
      BY <2>2 DEF QueryError, KeyError, UnreadableHit, TypeOK, Working
    <3> QED  BY <2>2, <3>1 DEF QueryError, KeyError, UnreadableHit, TypeOK, Kept
  <2>3. CASE Start(r) /\ q # r
    BY <2>3 DEF Start, TypeOK, Kept
  <2>4. CASE CacheMiss(r) /\ q # r
    BY <2>4 DEF CacheMiss, TypeOK, Kept
  <2>5. CASE Acquire(r) /\ q # r
    BY <2>5 DEF Acquire, TypeOK, Kept
  <2>6. CASE FindRow(r) /\ q # r
    BY <2>6 DEF FindRow, TypeOK, Kept
  <2>7. CASE FindCities(r)
    <3>1. CASE cacheUp /\ q # r
      BY <2>7, <3>1 DEF FindCities, TypeOK, Kept
    <3>2. CASE cacheUp /\ q = r
      BY <2>7, <3>2 DEF FindCities, TypeOK
    <3>3. CASE ~cacheUp
      BY <2>7, <3>3, ConcludeKeeps DEF FindCities
    <3> QED  BY <3>1, <3>2, <3>3
  <2> QED  BY <1>2, <2>1, <2>2, <2>3, <2>4, <2>5, <2>6, <2>7 DEF Step
<1>3. CASE Restart
  BY <1>3 DEF Restart, Working
<1>4. ASSUME UNCHANGED serviceVars PROVE Kept(q)
  BY <1>4 DEF serviceVars, Kept
<1>5. ASSUME NEW k \in CacheKeys, Evict(k) PROVE Kept(q)
  BY <1>4, <1>5 DEF Evict
<1>6. CASE Tick \/ EtlStep \/ UNCHANGED vars
  BY <1>4, <1>6 DEF Tick, EtlStep, vars, lookupVars
<1> QED
  BY <1>1, <1>2, <1>3, <1>5, <1>6 DEF Next

LEMMA ItemInHandStep ==
    ASSUME TypeOK, ItemInHand, [Next]_vars
    PROVE  ItemInHand'
<1> SUFFICES ASSUME NEW q \in Requests, pc'[q] \in Working PROVE InHand(q)'
  BY DEF ItemInHand
<1> DEFINE i == Item(q)
<1>1. CASE Kept(q)
  <2>1. Item(q)' = Item(q)
    BY <1>1 DEF Kept, Item
  <2>2. InHand(q)
    BY <1>1 DEF Kept, ItemInHand
  <2> HIDE DEF i
  <2> QED  BY <1>1, <2>1, <2>2 DEF Kept, InHand
<1>2. CASE Start(q)
  <2>1. i \in UsableItems
    BY <1>2, ItemTyped DEF Start, TypeOK
  <2>2. Item(q)' = i
    BY <1>2 DEF Start, Item
  <2>3. pc'[q] \in {"get", AfterMiss(i)}
    BY <1>2 DEF Start, TypeOK
  <2> HIDE DEF i
  <2>4. pc'[q] \in {"wantCities", "cities"} => ~NeedsRow(i)
    BY <2>3 DEF AfterMiss
  <2>5. pc'[q] \in {"wantRow", "row"} => NeedsRow(i)
    BY <2>3 DEF AfterMiss
  <2> QED  BY <2>1, <2>2, <2>3, <2>4, <2>5 DEF InHand, AfterMiss
<1>3. CASE CacheMiss(q)
  <2>1. i \in UsableItems
    BY <1>3 DEF CacheMiss, Working, ItemInHand, InHand
  <2>2. Item(q)' = i
    BY <1>3 DEF CacheMiss, Item
  <2>3. pc'[q] = AfterMiss(i)
    BY <1>3 DEF CacheMiss, TypeOK
  <2> HIDE DEF i
  <2> QED  BY <2>1, <2>2, <2>3 DEF InHand, AfterMiss
<1>4. CASE Acquire(q)
  <2>1. InHand(q)
    BY <1>4 DEF Acquire, Working, ItemInHand
  <2>2. Item(q)' = i
    BY <1>4 DEF Acquire, Item
  <2>3. \/ pc[q] = "wantRow" /\ pc'[q] = "row"
        \/ pc[q] = "wantCities" /\ pc'[q] = "cities"
    BY <1>4 DEF Acquire, TypeOK
  <2>4. row' = row
    BY <1>4 DEF Acquire
  <2> HIDE DEF i
  <2> QED  BY <2>1, <2>2, <2>3, <2>4 DEF InHand, i
<1>5. CASE FindRow(q)
  <2>1. i \in UsableItems /\ NeedsRow(i)
    BY <1>5 DEF FindRow, Working, ItemInHand, InHand
  <2>2. Item(q)' = i
    BY <1>5 DEF FindRow, Item
  <2>3. pc'[q] = "wantCities" /\ row'[q] \in RowsFor(i)
    BY <1>5 DEF FindRow, TypeOK
  <2> HIDE DEF i
  <2> QED  BY <2>1, <2>2, <2>3, RowFits DEF InHand, TypeOK
<1>6. CASE FindCities(q) /\ pc'[q] = "set"
  <2> DEFINE x == IF NeedsRow(i) THEN row[q] ELSE None
  <2>1. InHand(q) /\ pc[q] = "cities"
    BY <1>6 DEF FindCities, Working, ItemInHand
  <2>2. envelope'[q] \in EnvelopesFrom(i, x)
    <3>1. cacheUp
      BY <1>6 DEF FindCities, Conclude, TypeOK
    <3> QED  BY <1>6, <3>1 DEF FindCities, TypeOK
  <2>3. Item(q)' = i
    <3>1. cacheUp
      BY <1>6 DEF FindCities, Conclude, TypeOK
    <3> QED  BY <1>6, <3>1 DEF FindCities, Item
  <2>4. x \in RowsOrNone
    BY DEF TypeOK, RowsOrNone
  <2>5. i \in UsableItems /\ i \in Items /\ Usable(i)
    BY <2>1, UsableTyped DEF InHand
  <2>6. RowAnswers(x, i)
    BY <2>1 DEF InHand, RowAnswers, NeedsRow
  <2> HIDE DEF i, x
  <2>7. envelope'[q] \in Envelopes /\ Fits(envelope'[q], i)
    BY <2>2, <2>4, <2>5, <2>6, EnvelopeTyped, EnvelopeFits DEF TypeOK
  <2> QED  BY <1>6, <2>2, <2>3, <2>5, <2>7 DEF InHand
<1> QED
  BY <1>1, <1>2, <1>3, <1>4, <1>5, <1>6, KeptOrTakenOn

\* An entry stays, goes, becomes unreadable at an upgrade, or is written with
\* what a request has in hand.
Outdated(k) == /\ cache[k] # None /\ now' = now /\ upgradedAt' = now
               /\ cache'[k].response = cache[k].response
               /\ cache'[k].expires = cache[k].expires

LEMMA EntryChange ==
    ASSUME TypeOK, [Next]_vars, NEW k \in CacheKeys, cache'[k] # None
    PROVE  \/ cache'[k] = cache[k] /\ upgradedAt' = upgradedAt
           \/ Outdated(k)
           \/ \E r \in Requests : /\ CacheSet(r) /\ k = CacheKey(Item(r))
                                  /\ cache'[k] = [response |-> envelope[r], expires |-> Expiry, readable |-> TRUE]
<1> DEFINE kept == cache'[k] = cache[k] /\ upgradedAt' = upgradedAt
<1>1. ASSUME NEW r \in Requests, CacheSet(r), cache' # cache, k = CacheKey(Item(r))
      PROVE  cache'[k] = [response |-> envelope[r], expires |-> Expiry, readable |-> TRUE]
  BY <1>1 DEF CacheSet, TypeOK
<1>2. ASSUME NEW r \in Requests, CacheSet(r), cache' = cache \/ k # CacheKey(Item(r))
      PROVE  kept
  BY <1>2 DEF CacheSet, TypeOK
<1>3. ASSUME NEW l \in CacheKeys, Evict(l) PROVE kept
  BY <1>3 DEF Evict, TypeOK
<1>4. CASE Tick
  BY <1>4 DEF Tick
<1>5. ASSUME NEW r \in Requests, Step(r), ~CacheSet(r) PROVE kept
  BY <1>5 DEF Step, Refuse, KeyError, Start, CacheHit, UnreadableHit, CacheMiss, Acquire,
              FindRow, FindNothing, FindCities, QueryError
<1>6. ASSUME NEW r \in Requests, NEW b \in Bodies, Arrive(r, b) PROVE kept
  BY <1>6 DEF Arrive
<1>7. CASE EtlStep \/ UNCHANGED vars
  BY <1>7 DEF EtlStep, vars, lookupVars
<1>8. CASE Restart
  <2>1. CASE UNCHANGED <<cache, upgradedAt>>
    BY <2>1
  <2>2. CASE /\ upgradedAt' = now
             /\ cache' = [l \in CacheKeys |-> IF cache[l] = None THEN None
                                               ELSE [cache[l] EXCEPT !.readable = FALSE]]
    <3>1. cache[k] # None /\ cache[k] \in Entries
      BY <2>2 DEF TypeOK
    <3> QED  BY <1>8, <2>2, <3>1 DEF Restart, Outdated, Entries
  <2> QED  BY <1>8, <2>1, <2>2 DEF Restart
<1> QED
  BY <1>1, <1>2, <1>3, <1>4, <1>5, <1>6, <1>7, <1>8 DEF Next

LEMMA EntriesFitStep ==
    ASSUME TypeOK, ItemInHand, EntriesFit, [Next]_vars
    PROVE  EntriesFit'
<1> SUFFICES ASSUME NEW k \in CacheKeys, cache'[k] # None
             PROVE  \E j \in UsableItems : CacheKey(j) = k /\ Fits(cache'[k].response, j)
  BY DEF EntriesFit
<1>1. CASE cache'[k] = cache[k] \/ Outdated(k)
  BY <1>1 DEF EntriesFit, Outdated
<1>2. ASSUME NEW r \in Requests, CacheSet(r), k = CacheKey(Item(r)),
             cache'[k] = [response |-> envelope[r], expires |-> Expiry, readable |-> TRUE]
      PROVE  \E j \in UsableItems : CacheKey(j) = k /\ Fits(cache'[k].response, j)
  <2>1. Item(r) \in UsableItems /\ Fits(envelope[r], Item(r))
    BY <1>2 DEF CacheSet, Working, ItemInHand, InHand
  <2>2. cache'[k].response = envelope[r]
    BY <1>2
  <2> QED  BY <1>2, <2>1, <2>2
<1> QED  BY <1>1, <1>2, EntryChange

-----------------------------------------------------------------------------
LEMMA AppendFits ==
    ASSUME TypeOK, AnswerFitsQuestion, NEW r \in Requests, NEW result \in Results,
           pc[r] \in Working \cup {"next"}, Conclude(r, result), UNCHANGED body,
           result.ok => FitsSome(Item(r), result.response)
    PROVE  AnswerFitsQuestion'
<1> SUFFICES ASSUME NEW q \in Requests, NEW n \in DOMAIN results'[q], results'[q][n].ok
             PROVE  FitsSome(body[q].items[n], results'[q][n].response)
  BY DEF AnswerFitsQuestion
<1>1. results[q] \in Seq(Results) /\ results[r] \in Seq(Results)
  BY DEF TypeOK
<1>2. CASE n \in DOMAIN results[q] /\ results'[q][n] = results[q][n]
  BY <1>2 DEF AnswerFitsQuestion
<1>3. results'[q] = IF q = r THEN Append(results[r], result) ELSE results[q]
  BY DEF Conclude, TypeOK
<1>4. CASE q = r /\ n = Len(results[r]) + 1
  <2>1. results'[q][n] = result
    BY <1>1, <1>3, <1>4
  <2>2. body[q].items[n] = Item(r)
    BY <1>4 DEF Item
  <2> QED  BY <2>1, <2>2
<1>5. q = r => n \in DOMAIN results[r] \/ n = Len(results[r]) + 1
  BY <1>1, <1>3
<1>6. q = r /\ n \in DOMAIN results[r] => results'[q][n] = results[r][n]
  BY <1>1, <1>3
<1> QED  BY <1>2, <1>3, <1>4, <1>5, <1>6

LEMMA SameQuestionOfItself == \A i : SameQuestion(i, i)
BY DEF SameQuestion

LEMMA AnswerFitsStep ==
    ASSUME TypeOK, NothingAnsweredYet, ItemInHand, EntriesFit, AnswerFitsQuestion, [Next]_vars
    PROVE  AnswerFitsQuestion'
<1>1. ASSUME UNCHANGED <<body, results>> PROVE AnswerFitsQuestion'
  BY <1>1 DEF AnswerFitsQuestion
<1>2. ASSUME NEW r \in Requests, NEW b \in Bodies, Arrive(r, b) PROVE AnswerFitsQuestion'
  <2>1. results[r] = <<>> /\ results' = results
    BY <1>2 DEF Arrive, NothingAnsweredYet
  <2>2. \A q \in Requests \ {r} : body'[q] = body[q]
    BY <1>2 DEF Arrive, TypeOK
  <2>3. \A q \in Requests : \A n \in DOMAIN results[q] : q # r
    BY <2>1
  <2> QED  BY <2>1, <2>2, <2>3 DEF AnswerFitsQuestion
<1>3. ASSUME NEW r \in Requests, Refuse(r) PROVE AnswerFitsQuestion'
  <2>1. PICK code \in Errors : Conclude(r, Error(code))
    BY <1>3 DEF Refuse, Errors
  <2>2. Error(code) \in Results /\ ~Error(code).ok
    BY DEF Error, Results
  <2> QED  BY <1>3, <2>1, <2>2, AppendFits DEF Refuse
<1>4. ASSUME NEW r \in Requests, CacheHit(r) PROVE AnswerFitsQuestion'
  <2> DEFINE k == CacheKey(Item(r))
             env == cache[k].response
  <2>1. pc[r] \in Working /\ k \in CacheKeys /\ cache[k] # None
    BY <1>4, UsableTyped DEF CacheHit, Working, ItemInHand, InHand
  <2>2. cache[k] \in Entries
    BY <2>1 DEF TypeOK
  <2>3. Ok(env) \in Results /\ Ok(env).response = env
    BY <2>2 DEF Entries, Ok, Results
  <2>4. PICK j \in UsableItems : CacheKey(j) = k /\ Fits(env, j)
    BY <2>1 DEF EntriesFit
  <2>5. SameQuestion(Item(r), j)
    BY <2>4, KeyTellsQuestion
  <2>6. FitsSome(Item(r), env)
    BY <2>4, <2>5 DEF FitsSome
  <2>7. Conclude(r, Ok(env)) /\ UNCHANGED body
    BY <1>4 DEF CacheHit
  <2> QED  BY <2>1, <2>3, <2>6, <2>7, AppendFits
<1>5. ASSUME NEW r \in Requests, FindNothing(r) PROVE AnswerFitsQuestion'
  <2>1. Error("missing") \in Results /\ ~Error("missing").ok /\ pc[r] \in Working
    BY <1>5 DEF Error, Errors, Results, FindNothing, Working
  <2> QED  BY <1>5, <2>1, AppendFits DEF FindNothing
<1>6. ASSUME NEW r \in Requests, FindCities(r) PROVE AnswerFitsQuestion'
  <2> DEFINE i == Item(r)
             x == IF NeedsRow(i) THEN row[r] ELSE None
  <2>1. InHand(r) /\ pc[r] \in Working /\ pc[r] = "cities"
    BY <1>6 DEF FindCities, Working, ItemInHand
  <2>2. i \in UsableItems /\ i \in Items /\ Usable(i)
    BY <2>1, UsableTyped DEF InHand
  <2>3. x \in RowsOrNone
    BY DEF TypeOK, RowsOrNone
  <2>4. RowAnswers(x, i)
    BY <2>1 DEF InHand, RowAnswers, NeedsRow
  <2>5. PICK env \in EnvelopesFrom(i, x) : Conclude(r, Ok(env)) \/ UNCHANGED results
    BY <1>6 DEF FindCities
  <2>6. UNCHANGED body
    BY <1>6 DEF FindCities
  <2> HIDE DEF i, x
  <2>7. env \in Envelopes /\ Fits(env, i)
    BY <2>2, <2>3, <2>4, EnvelopeTyped, EnvelopeFits DEF TypeOK
  <2>8. Ok(env) \in Results /\ Ok(env).response = env
    BY <2>7 DEF Ok, Results
  <2>9. FitsSome(Item(r), env)
    BY <2>2, <2>7, SameQuestionOfItself DEF FitsSome, i
  <2> QED  BY <1>1, <2>1, <2>5, <2>6, <2>8, <2>9, AppendFits
<1>7. ASSUME NEW r \in Requests, CacheSet(r) PROVE AnswerFitsQuestion'
  <2>1. pc[r] \in Working /\ InHand(r) /\ pc[r] = "set"
    BY <1>7 DEF CacheSet, Working, ItemInHand
  <2>2. Ok(envelope[r]) \in Results /\ Ok(envelope[r]).response = envelope[r]
    BY <2>1 DEF Ok, Results, InHand
  <2>3. FitsSome(Item(r), envelope[r])
    BY <2>1, SameQuestionOfItself DEF FitsSome, InHand
  <2> QED  BY <1>7, <2>1, <2>2, <2>3, AppendFits DEF CacheSet
<1>8. ASSUME NEW r \in Requests, Step(r) PROVE AnswerFitsQuestion'
  <2>1. CASE \/ Start(r) \/ CacheMiss(r) \/ Acquire(r) \/ FindRow(r)
            \/ QueryError(r) \/ KeyError(r) \/ UnreadableHit(r)
    BY <1>1, <2>1 DEF Start, CacheMiss, Acquire, FindRow, QueryError, KeyError, UnreadableHit
  <2> QED  BY <1>3, <1>4, <1>5, <1>6, <1>7, <1>8, <2>1 DEF Step
<1>9. CASE Restart
  BY <1>9 DEF Restart, AnswerFitsQuestion
<1>10. ASSUME NEW k \in CacheKeys, Evict(k) PROVE AnswerFitsQuestion'
  BY <1>1, <1>10 DEF Evict, serviceVars
<1>11. CASE Tick \/ EtlStep \/ UNCHANGED vars
  BY <1>1, <1>11 DEF Tick, EtlStep, vars, lookupVars, serviceVars
<1> QED
  BY <1>2, <1>8, <1>9, <1>10, <1>11 DEF Next

-----------------------------------------------------------------------------
(* Time.                                                                   *)

LEMMA TimeMoves ==
    ASSUME [Next]_vars
    PROVE  now' = now \/ Tick
<1>1. ASSUME NEW r \in Requests, Step(r) PROVE now' = now
  BY <1>1 DEF Step, Refuse, KeyError, Start, CacheHit, UnreadableHit, CacheMiss, Acquire, FindRow, FindNothing,
              FindCities, QueryError, CacheSet
<1>2. ASSUME NEW r \in Requests, NEW b \in Bodies, Arrive(r, b) PROVE now' = now
  BY <1>2 DEF Arrive
<1>3. ASSUME NEW k \in CacheKeys, Evict(k) PROVE now' = now
  BY <1>3 DEF Evict
<1> QED
  BY <1>1, <1>2, <1>3 DEF Next, Restart, EtlStep, vars, lookupVars

\* Only the loader changes the tables, and it leaves the moment it did.
LEMMA TablesMove ==
    ASSUME [Next]_vars
    PROVE  \/ UNCHANGED <<table, changedAt>>
           \/ EtlStep /\ changedAt' = now /\ UNCHANGED serviceVars /\ UNCHANGED cache
<1>1. ASSUME NEW r \in Requests, Step(r) PROVE UNCHANGED <<table, changedAt>>
  BY <1>1 DEF Step, Refuse, KeyError, Start, CacheHit, UnreadableHit, CacheMiss, Acquire, FindRow, FindNothing,
              FindCities, QueryError, CacheSet, etlVars
<1>2. ASSUME NEW r \in Requests, NEW b \in Bodies, Arrive(r, b)
      PROVE  UNCHANGED <<table, changedAt>>
  BY <1>2 DEF Arrive, etlVars
<1>3. ASSUME NEW k \in CacheKeys, Evict(k) PROVE UNCHANGED <<table, changedAt>>
  BY <1>3 DEF Evict, etlVars
<1>4. CASE Tick \/ Restart \/ UNCHANGED vars
  BY <1>4 DEF Tick, Restart, vars, lookupVars, etlVars
<1>5. CASE EtlStep
  BY <1>5 DEF EtlStep
<1> QED
  BY <1>1, <1>2, <1>3, <1>4, <1>5 DEF Next

LEMMA InTimeStep ==
    ASSUME TypeOK, InTime, [Next]_vars
    PROVE  InTime'
<1>1. ASSUME NEW q \in Requests, pc'[q] \in Working PROVE now' <= began'[q] + MaxLatency
  <2>1. began[q] \in Nat /\ now \in Nat
    BY DEF TypeOK
  <2>2. CASE Kept(q) /\ now' = now
    BY <1>1, <2>2 DEF Kept, InTime
  <2>3. CASE Kept(q) /\ Tick
    BY <1>1, <2>1, <2>3, LookupAssumption DEF Kept, Tick
  <2>4. CASE Start(q)
    BY <2>1, <2>4, LookupAssumption DEF Start, TypeOK
  <2>5. CASE CacheMiss(q) \/ Acquire(q) \/ FindRow(q)
    BY <2>5 DEF CacheMiss, Acquire, FindRow, Working, InTime
  <2>6. CASE FindCities(q) /\ pc'[q] = "set"
    <3>1. cacheUp
      BY <2>6 DEF FindCities, Conclude, TypeOK
    <3>2. began' = began /\ now' = now /\ pc[q] \in Working
      BY <2>6, <3>1 DEF FindCities, Working
    <3> QED  BY <3>2 DEF InTime
  <2> QED
    BY <1>1, <2>2, <2>3, <2>4, <2>5, <2>6, KeptOrTakenOn, TimeMoves
<1>2. ASSUME NEW k \in CacheKeys, cache'[k] # None
      PROVE  /\ now' < cache'[k].expires /\ cache'[k].expires <= now' + TTL
             /\ ~cache'[k].readable => cache'[k].expires <= upgradedAt' + TTL
  <2>1. now \in Nat /\ cache[k] \in Entries \cup {None}
    BY DEF TypeOK
  <2>2. CASE cache'[k] = cache[k] /\ now' = now /\ upgradedAt' = upgradedAt
    BY <1>2, <2>2 DEF InTime
  <2>5. CASE Outdated(k)
    BY <2>5 DEF Outdated, InTime
  <2>3. CASE Tick
    <3>1. now' = now + 1 /\ cache'[k] = cache[k] /\ cache[k].expires # now + 1
      BY <1>2, <2>3 DEF Tick
    <3>2. cache[k].expires \in Nat
      BY <1>2, <2>1, <3>1 DEF Entries
    <3>3. /\ now < cache[k].expires /\ cache[k].expires <= now + TTL
          /\ ~cache[k].readable => cache[k].expires <= upgradedAt + TTL
      BY <1>2, <3>1 DEF InTime
    <3>4. upgradedAt' = upgradedAt
      BY <2>3 DEF Tick
    <3> QED  BY <2>1, <3>1, <3>2, <3>3, <3>4, LookupAssumption
  <2>4. ASSUME NEW r \in Requests, CacheSet(r),
               cache'[k] = [response |-> envelope[r], expires |-> Expiry, readable |-> TRUE]
        PROVE  /\ now' < cache'[k].expires /\ cache'[k].expires <= now' + TTL
               /\ cache'[k].readable
    BY <2>1, <2>4, LookupAssumption DEF CacheSet, Expiry
  <2> QED  BY <1>2, <2>2, <2>3, <2>4, <2>5, EntryChange, TimeMoves
<1> QED  BY <1>1, <1>2 DEF InTime

\* The answers depend on the tables alone.
LEMMA AnswersKept ==
    ASSUME UNCHANGED table, NEW i
    PROVE  RowsFor(i)' = RowsFor(i) /\ Answers(i)' = Answers(i)
<1>1. RowsFor(i)' = RowsFor(i)
  BY DEF RowsFor
<1>2. \A x : EnvelopesFrom(i, x)' = EnvelopesFrom(i, x)
  BY DEF EnvelopesFrom, NearestCities, CitiesWithin, Point
<1> QED  BY <1>1, <1>2, Zenon DEF Answers

\* What the cities query completes is an answer, if the row still is one.
LEMMA EnvelopeIsAnswer ==
    ASSUME NEW i \in Items, NEW x,
           NeedsRow(i) => x \in RowsFor(i), ~NeedsRow(i) => x = None,
           NEW env \in EnvelopesFrom(i, x)
    PROVE  env \in Answers(i)
<1>1. x \in RowsFor(i)
  BY DEF NeedsRow, RowsFor
<1> QED  BY <1>1 DEF Answers

LEMMA OwnResultsOnly ==
    ASSUME TypeOK, NEW r \in Requests, Step(r), NEW q \in Requests, q # r
    PROVE  results'[q] = results[q] /\ body'[q] = body[q]
<1>1. ASSUME NEW result, Conclude(r, result) PROVE results'[q] = results[q]
  BY <1>1 DEF Conclude, TypeOK
<1>2. CASE Refuse(r) \/ CacheHit(r) \/ FindNothing(r) \/ CacheSet(r)
  BY <1>1, <1>2 DEF Refuse, CacheHit, FindNothing, CacheSet
<1>3. CASE FindCities(r)
  BY <1>1, <1>3 DEF FindCities
<1>4. CASE \/ QueryError(r) \/ KeyError(r) \/ UnreadableHit(r)
           \/ Start(r) \/ CacheMiss(r) \/ Acquire(r) \/ FindRow(r)
  BY <1>4 DEF QueryError, KeyError, UnreadableHit, Start, CacheMiss, Acquire, FindRow
<1> QED  BY <1>2, <1>3, <1>4 DEF Step

\* What a request has read is still so while the tables are left alone.
LEMMA InHandStaysCurrent ==
    ASSUME TypeOK, ItemInHand, [Next]_vars, table' = table, NEW q \in Requests,
           pc[q] \in {"wantCities", "cities"} /\ NeedsRow(Item(q)) => row[q] \in RowsFor(Item(q)),
           pc[q] = "set" => envelope[q] \in Answers(Item(q))
    PROVE  /\ pc'[q] \in {"wantCities", "cities"} /\ NeedsRow(Item(q)') => row'[q] \in RowsFor(Item(q))'
           /\ pc'[q] = "set" => envelope'[q] \in Answers(Item(q))'
<1>0. \A i : RowsFor(i)' = RowsFor(i) /\ Answers(i)' = Answers(i)
  BY AnswersKept
<1>1. CASE pc'[q] \notin Working
  BY <1>1 DEF Working
<1>2. CASE Kept(q)
  <2>1. Item(q)' = Item(q)
    BY <1>2 DEF Kept, Item
  <2> QED  BY <1>0, <1>2, <2>1 DEF Kept
<1>3. CASE Start(q) \/ CacheMiss(q)
  <2>1. Item(q)' = Item(q) /\ pc'[q] \in {"get", AfterMiss(Item(q))}
    BY <1>3 DEF Start, CacheMiss, Item, TypeOK
  <2> QED  BY <2>1 DEF AfterMiss
<1>4. CASE Acquire(q)
  <2>1. Item(q)' = Item(q) /\ row' = row
    BY <1>4 DEF Acquire, Item
  <2>2. pc'[q] = "row" \/ (pc[q] = "wantCities" /\ pc'[q] = "cities")
    BY <1>4 DEF Acquire, TypeOK
  <2> QED  BY <1>0, <2>1, <2>2
<1>5. CASE FindRow(q)
  <2>1. Item(q)' = Item(q) /\ pc'[q] = "wantCities" /\ row'[q] \in RowsFor(Item(q))
    BY <1>5 DEF FindRow, Item, TypeOK
  <2> QED  BY <1>0, <2>1
<1>6. CASE FindCities(q) /\ pc'[q] = "set"
  <2> DEFINE i == Item(q)
             x == IF NeedsRow(i) THEN row[q] ELSE None
  <2>1. cacheUp /\ pc[q] = "cities"
    BY <1>6 DEF FindCities, Conclude, TypeOK
  <2>2. Item(q)' = i /\ envelope'[q] \in EnvelopesFrom(i, x)
    BY <1>6, <2>1 DEF FindCities, Item, TypeOK
  <2>3. i \in Items
    BY <2>1, UsableTyped DEF ItemInHand, InHand, Working
  <2>4. (NeedsRow(i) => x \in RowsFor(i)) /\ (~NeedsRow(i) => x = None)
    BY <2>1
  <2> HIDE DEF i, x
  <2>5. envelope'[q] \in Answers(i)
    BY <2>2, <2>3, <2>4, EnvelopeIsAnswer
  <2> QED  BY <1>0, <1>6, <2>2, <2>5
<1> QED
  BY <1>1, <1>2, <1>3, <1>4, <1>5, <1>6, KeptOrTakenOn

LEMMA CurrentStep ==
    ASSUME TypeOK, ItemInHand, InTime, InTime', TypeOK', Current, [Next]_vars
    PROVE  Current'
<1> DEFINE
      requestCurrent(q) ==
          /\ pc[q] \in {"wantCities", "cities"} /\ NeedsRow(Item(q)) =>
                began[q] <= changedAt \/ row[q] \in RowsFor(Item(q))
          /\ pc[q] = "set" => began[q] <= changedAt \/ envelope[q] \in Answers(Item(q))
      entryCurrent(k) ==
          \/ cache[k].expires <= changedAt + MaxLatency + TTL
          \/ \E i \in UsableItems : CacheKey(i) = k /\ cache[k].response \in Answers(i)
<1>0. /\ now \in Nat /\ changedAt \in Nat /\ MaxLatency \in Nat /\ TTL \in Nat
      /\ \A q \in Requests : began[q] \in Nat /\ began[q] <= now
      /\ \A k \in CacheKeys : cache[k] # None => cache[k].expires \in Nat
  BY LookupAssumption DEF TypeOK, Entries
<1>1. CASE EtlStep /\ changedAt' = now /\ UNCHANGED serviceVars /\ UNCHANGED cache
  <2>1. \A q \in Requests : began'[q] <= changedAt'
    BY <1>0, <1>1 DEF serviceVars
  <2>2. \A k \in CacheKeys : cache'[k] # None => cache'[k].expires <= changedAt' + MaxLatency + TTL
    BY <1>0, <1>1 DEF InTime
  <2> QED  BY <2>1, <2>2 DEF Current
<1>2. CASE UNCHANGED <<table, changedAt>>
  <2>1. ASSUME NEW q \in Requests PROVE requestCurrent(q)'
    <3> USE DEF requestCurrent
    <3>1. CASE pc'[q] \notin Working
      BY <3>1 DEF Working
    <3>2. CASE Kept(q)
      <4>1. Item(q)' = Item(q)
        BY <3>2 DEF Kept, Item
      <4>2. requestCurrent(q)
        BY DEF Current
      <4>3. \A i : RowsFor(i)' = RowsFor(i) /\ Answers(i)' = Answers(i)
        BY <1>2, AnswersKept
      <4> QED
        BY <1>2, <3>2, <4>1, <4>2, <4>3 DEF Kept
    <3>3. CASE Start(q) \/ CacheMiss(q)
      <4>1. Item(q)' = Item(q) /\ pc'[q] \in {"get", AfterMiss(Item(q))}
        BY <3>3 DEF Start, CacheMiss, Item, TypeOK
      <4> QED  BY <4>1 DEF AfterMiss
    <3>4. CASE Acquire(q)
      <4>1. Item(q)' = Item(q) /\ row' = row /\ began' = began /\ changedAt' = changedAt
        BY <1>2, <3>4 DEF Acquire, Item
      <4>2. pc'[q] = "row" \/ (pc[q] = "wantCities" /\ pc'[q] = "cities")
        BY <3>4 DEF Acquire, TypeOK
      <4>3. \A i : RowsFor(i)' = RowsFor(i)
        BY <1>2, AnswersKept
      <4> QED  BY <4>1, <4>2, <4>3 DEF Current
    <3>5. CASE FindRow(q)
      <4>1. Item(q)' = Item(q) /\ pc'[q] = "wantCities" /\ row'[q] \in RowsFor(Item(q))
        BY <3>5 DEF FindRow, Item, TypeOK
      <4>2. RowsFor(Item(q))' = RowsFor(Item(q))
        BY <4>1, <1>2 DEF RowsFor
      <4> QED  BY <4>1, <4>2
    <3>6. CASE FindCities(q) /\ pc'[q] = "set"
      <4> DEFINE i == Item(q)
                 x == IF NeedsRow(i) THEN row[q] ELSE None
      <4>1. cacheUp /\ pc[q] = "cities"
        BY <3>6 DEF FindCities, Conclude, TypeOK
      <4>2. Item(q)' = i /\ envelope'[q] \in EnvelopesFrom(i, x) /\ began' = began
        BY <3>6, <4>1 DEF FindCities, Item, TypeOK
      <4>3. began[q] <= changedAt \/ (NeedsRow(i) => row[q] \in RowsFor(i))
        BY <4>1 DEF Current
      <4>4. i \in Items
        BY <4>1, UsableTyped DEF ItemInHand, InHand, Working
      <4>5. ~NeedsRow(i) => x = None
        OBVIOUS
      <4>6. NeedsRow(i) => x = row[q]
        OBVIOUS
      <4> HIDE DEF i, x
      <4>7. began[q] <= changedAt \/ envelope'[q] \in Answers(i)
        BY <4>2, <4>3, <4>4, <4>5, <4>6, EnvelopeIsAnswer
      <4>8. \A j : Answers(j)' = Answers(j)
        BY <1>2, AnswersKept
      <4> QED  BY <1>2, <3>6, <4>2, <4>7, <4>8
    <3> QED
      BY <3>1, <3>2, <3>3, <3>4, <3>5, <3>6, KeptOrTakenOn
  <2>2. ASSUME NEW k \in CacheKeys, cache'[k] # None PROVE entryCurrent(k)'
    <3> USE DEF entryCurrent
    <3>1. \A i : Answers(i)' = Answers(i)
      BY <1>2, AnswersKept
    <3>2. CASE cache'[k] = cache[k] \/ Outdated(k)
      BY <1>2, <2>2, <3>1, <3>2 DEF Current, Outdated
    <3>3. ASSUME NEW r \in Requests, CacheSet(r), k = CacheKey(Item(r)),
                 cache'[k] = [response |-> envelope[r], expires |-> Expiry, readable |-> TRUE]
          PROVE  entryCurrent(k)'
      <4>1. Item(r) \in UsableItems /\ pc[r] = "set" /\ pc[r] \in Working
        BY <3>3 DEF CacheSet, Working, ItemInHand, InHand
      <4>2. began[r] <= changedAt \/ envelope[r] \in Answers(Item(r))
        BY <4>1 DEF Current
      <4>3. CASE envelope[r] \in Answers(Item(r))
        BY <3>1, <3>3, <4>1, <4>3
      <4>4. CASE began[r] <= changedAt
        <5>1. now <= began[r] + MaxLatency
          BY <4>1 DEF InTime
        <5>2. now + TTL <= changedAt + MaxLatency + TTL
          BY <1>0, <4>4, <5>1
        <5>3. cache'[k].expires = now + TTL /\ changedAt' = changedAt
          BY <1>2, <3>3 DEF Expiry
        <5> QED  BY <5>2, <5>3
      <4> QED  BY <4>2, <4>3, <4>4
    <3> QED  BY <2>2, <3>2, <3>3, EntryChange
  <2> QED  BY <2>1, <2>2 DEF Current
<1> QED  BY <1>1, <1>2, TablesMove

-----------------------------------------------------------------------------
(* The theorems.                                                           *)

LEMMA LoaderOrNothing ==
    ASSUME [Next]_vars
    PROVE  [EtlNext]_etlVars
<1>1. ASSUME NEW r \in Requests, Step(r) PROVE UNCHANGED etlVars
  BY <1>1 DEF Step, Refuse, KeyError, Start, CacheHit, UnreadableHit, CacheMiss, Acquire, FindRow, FindNothing,
              FindCities, QueryError, CacheSet
<1>2. ASSUME NEW r \in Requests, NEW b \in Bodies, Arrive(r, b) PROVE UNCHANGED etlVars
  BY <1>2 DEF Arrive
<1>3. ASSUME NEW k \in CacheKeys, Evict(k) PROVE UNCHANGED etlVars
  BY <1>3 DEF Evict
<1> QED
  BY <1>1, <1>2, <1>3 DEF Next, Tick, Restart, EtlStep, vars

\* The service never writes the tables: whatever it does, the loader is the
\* loader of Etl, and what is proved of Etl holds.
THEOREM ServiceOnlyReads == Spec => EtlSpec
<1>1. Init => EtlInit
  BY DEF Init
<1>2. [Next]_vars => [EtlNext]_etlVars
  BY LoaderOrNothing
<1> QED  BY <1>1, <1>2, PTL DEF Spec, EtlSpec

LEMMA InitLookupInv ==
    ASSUME Init, EtlTypeOK
    PROVE  LookupInv
<1>1. \A r \in Requests : pc[r] = "new" /\ results[r] = <<>>
  BY DEF Init
<1>2. Cardinality(Holding) <= PoolSize
  <2>1. Holding = {}
    BY <1>1 DEF Holding
  <2> QED  BY <2>1, FS_EmptySet, LookupAssumption
<1>3. TypeOK
  <2>1. <<>> \in Seq(Results)
    OBVIOUS
  <2>2. results \in [Requests -> Seq(Results)]
    BY <2>1 DEF Init
  <2>3. /\ pc \in [Requests -> {"new", "next"} \cup Working \cup Finished]
        /\ \A r \in Requests : pc[r] \notin Working \cup {"next"}
    BY DEF Init, Working
  <2>4. /\ body \in [Requests -> Bodies \cup {NoBody}] /\ row \in [Requests -> RowsOrNone]
        /\ envelope \in [Requests -> Envelopes \cup {None}] /\ began \in [Requests -> 0 .. now]
        /\ counter \in [Counters -> Nat] /\ cache \in [CacheKeys -> Entries \cup {None}]
    BY DEF Init, RowsOrNone
  <2>5. /\ dbReady \in BOOLEAN /\ cacheUp \in BOOLEAN
        /\ now \in Nat /\ changedAt \in 0 .. now /\ upgradedAt \in 0 .. now /\ restarts \in Nat
    BY DEF Init
  <2> QED  BY <1>2, <2>2, <2>3, <2>4, <2>5 DEF TypeOK
<1>4. NothingAnsweredYet /\ ItemInHand /\ AnswerFitsQuestion
  BY <1>1 DEF NothingAnsweredYet, ItemInHand, AnswerFitsQuestion, Working
<1>5. EntriesFit /\ InTime /\ Current
  BY <1>1 DEF Init, EntriesFit, InTime, Current, Working
<1> QED  BY <1>3, <1>4, <1>5 DEF LookupInv

LEMMA StepLookupInv ==
    ASSUME LookupInv, EtlTypeOK', [Next]_vars
    PROVE  LookupInv'
<1> USE DEF LookupInv
<1>1. TypeOK'
  BY TypeStep
<1>2. NothingAnsweredYet' /\ ItemInHand' /\ EntriesFit' /\ AnswerFitsQuestion' /\ InTime'
  BY NothingAnsweredStep, ItemInHandStep, EntriesFitStep, AnswerFitsStep, InTimeStep
<1>3. Current'
  BY <1>1, <1>2, CurrentStep
<1> QED  BY <1>1, <1>2, <1>3

\* The inductive invariant of the lookup path.
THEOREM LookupInvariant == Spec => []LookupInv
<1>1. Spec => []EtlTypeOK
  BY ServiceOnlyReads, EtlTypeCorrect, PTL
<1>2. Init /\ EtlTypeOK => LookupInv
  BY InitLookupInv
<1>3. LookupInv /\ EtlTypeOK' /\ [Next]_vars => LookupInv'
  BY StepLookupInv
<1> QED  BY <1>1, <1>2, <1>3, PTL DEF Spec

\* Every variable keeps its type, no request is worked on without a pool or
\* past its last item, and the pool never hands out more than its connections.
THEOREM TypeCorrect == Spec => []TypeOK
<1>1. LookupInv => TypeOK
  BY DEF LookupInv
<1> QED  BY <1>1, LookupInvariant, PTL

\* Every answer is one to the question asked, up to what shares a slot.
THEOREM AnswersFit == Spec => []AnswerFitsQuestion
<1>1. LookupInv => AnswerFitsQuestion
  BY DEF LookupInv
<1> QED  BY <1>1, LookupInvariant, PTL

\* Time to live and latency after the last change of the tables, the cache
\* holds nothing that the tables would not give.
THEOREM StalenessBounded == Spec => []StaleBounded
<1>1. LookupInv => StaleBounded
  <2> SUFFICES ASSUME LookupInv, now >= changedAt + TTL + MaxLatency,
                      NEW k \in CacheKeys, cache[k] # None
               PROVE  \E i \in UsableItems : CacheKey(i) = k /\ cache[k].response \in Answers(i)
    BY DEF StaleBounded
  <2>1. /\ now \in Nat /\ changedAt \in Nat /\ cache[k].expires \in Nat
        /\ TTL \in Nat /\ MaxLatency \in Nat
    BY LookupAssumption DEF LookupInv, TypeOK, Entries
  <2>2. now < cache[k].expires
    BY DEF LookupInv, InTime
  <2>3. ~(cache[k].expires <= changedAt + MaxLatency + TTL)
    BY <2>1, <2>2
  <2> QED  BY <2>3 DEF LookupInv, Current
<1> QED  BY <1>1, LookupInvariant, PTL

\* One time to live after an upgrade no request fails on an entry of the
\* release before.
THEOREM UpgradesHeal == Spec => []UpgradeOutlived
<1>1. LookupInv => UpgradeOutlived
  <2> SUFFICES ASSUME LookupInv, now >= upgradedAt + TTL, NEW k \in CacheKeys, cache[k] # None
               PROVE  cache[k].readable
    BY DEF UpgradeOutlived
  <2>1. /\ now \in Nat /\ upgradedAt \in Nat /\ TTL \in Nat
        /\ cache[k].expires \in Nat /\ cache[k].readable \in BOOLEAN
    BY LookupAssumption DEF LookupInv, TypeOK, Entries
  <2>2. /\ now < cache[k].expires
        /\ ~cache[k].readable => cache[k].expires <= upgradedAt + TTL
    BY DEF LookupInv, InTime
  <2> QED  BY <2>1, <2>2
<1> QED  BY <1>1, LookupInvariant, PTL

\* When no two blocks start at one address, a number or an address resolves to
\* one row, because the loader keeps its keys unique.
StartsDiffer == \A a, b \in KeysOf["ip_ranges"] : a[1] = b[1] => a = b

THEOREM RowsUnique ==
    ASSUME StartsDiffer
    PROVE  Spec => []OneRowPerQuestion
<1>1. Spec => []EtlTypeOK /\ []OneRowPerKey
  BY ServiceOnlyReads, EtlTypeCorrect, KeysStayUnique, PTL
<1>2. EtlTypeOK /\ OneRowPerKey => OneRowPerQuestion
  <2> SUFFICES ASSUME EtlTypeOK, OneRowPerKey, NEW i \in UsableItems,
                      Mode(i) = "ip" => \E e \in Runs : sole[e],
                      NEW x \in RowsFor(i), NEW y \in RowsFor(i)
               PROVE  x = y
    BY DEF OneRowPerQuestion
  <2>1. CASE Mode(i) = "phone"
    BY <2>1 DEF RowsFor, OneRowPerKey, Tables
  <2>2. CASE Mode(i) = "ip"
    <3>1. x \in table["ip_ranges"] /\ y \in table["ip_ranges"]
          /\ y.key[1] <= x.key[1] /\ x.key[1] <= y.key[1]
      BY <2>2 DEF RowsFor, LastStarting
    <3>2. x.key \in KeysOf["ip_ranges"] /\ y.key \in KeysOf["ip_ranges"]
      BY <3>1 DEF EtlTypeOK, Tables, Rows
    <3>3. x.key[1] \in Int /\ y.key[1] \in Int
      BY <3>2, AnswersAssumption
    <3>4. x.key = y.key
      BY <3>1, <3>2, <3>3 DEF StartsDiffer
    <3> QED  BY <2>2, <3>1, <3>4 DEF OneRowPerKey, Tables
  <2>3. CASE Mode(i) \notin {"phone", "ip"}
    BY <2>3 DEF RowsFor
  <2> QED  BY <2>1, <2>2, <2>3
<1> QED  BY <1>1, <1>2, PTL
=============================================================================
