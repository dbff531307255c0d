--------------------------- MODULE LookupAnswers ---------------------------
(***************************************************************************)
(* What answers a lookup: the requests and what they carry, the queries of *)
(* db.py over the loader's tables as they are at one moment, the envelope  *)
(* main.py builds from their results, and when an envelope answers an      *)
(* item.  Lookup and LookupContract both build on this.                    *)
(***************************************************************************)
EXTENDS Etl, LookupInput, Sequences

CONSTANTS
    Requests,       \* the HTTP requests that ever arrive
    Bodies,         \* what they may carry: [solo, items]
    BatchCap,       \* main._BATCH_CAP
    CityLimit,      \* limit= of cities_within
    Distance(_, _), \* from a resolved point to a place, in the unit of the radii
    Fallback        \* the Bowen Island point

ASSUME AnswersAssumption ==
    /\ IsFiniteSet(Requests)
    /\ Bodies \subseteq [solo : BOOLEAN, items : Seq(Items)]
    /\ \A b \in Bodies : b.solo => /\ Len(b.items) = 1
                                   /\ b.items[1].radius \in Nat \cup {None, NaN}
    /\ BatchCap \in Nat /\ CityLimit \in Nat
    /\ KeysOf["ip_ranges"] \subseteq Int \X Int
    /\ None \notin Rows("exchanges") /\ None \notin Rows("ip_ranges")

NoBody == [solo |-> TRUE, items |-> <<>>]

\* The outcomes of an item.
Ok(env) == [ok |-> TRUE, response |-> env]
Error(code) == [ok |-> FALSE, error |-> code]
Errors == {"unready", "shape", "phone", "missing"}    \* 503, 400, 400, 404

ItemsOf(b) == {b.items[n] : n \in DOMAIN b.items}
Usable(i) == WellFormed(i) /\ Parses(i) /\ Keyed(i)
UsableItems == {i \in UNION {ItemsOf(b) : b \in Bodies} : Usable(i)}
CacheKeys == {CacheKey(i) : i \in UsableItems}

\* The fallback and coords modes go straight to the cities query; the other
\* two look up a row first.
NeedsRow(i) == Mode(i) \in {"phone", "ip"}

-----------------------------------------------------------------------------
(* What the queries return at this moment.                                 *)

\* A fault of the code: no ORDER BY start_ip DESC.
LastStartingAny(rows) == rows

\* ORDER BY start_ip DESC LIMIT 1; of equal starts any one may come first.
LastStarting(rows) == {x \in rows : \A y \in rows : y.key[1] <= x.key[1]}

\* lookup_exchange and lookup_ip; the other two modes need no row.
RowsFor(i) ==
    CASE Mode(i) = "phone" -> {x \in table["exchanges"] : x.key = Exchange(Parsed[i.phone])}
      [] Mode(i) = "ip"    -> LastStarting({x \in table["ip_ranges"] : Covers(x.key, i.ip)})
      [] OTHER             -> {None}

Point(i, x) == CASE Mode(i) \in {"phone", "ip"} -> x.key
                 [] Mode(i) = "coords"          -> Value(i)
                 [] Mode(i) = "fallback"        -> Fallback

CitiesWithin(point, radius) == {p \in table["places"] : Distance(point, p.key) <= radius}

\* A fault of the code: LIMIT without ORDER BY distance_km.
AnyCities(point, radius) ==
    {cities \in SUBSET CitiesWithin(point, radius) :
        /\ Cardinality(cities) <= CityLimit
        /\ cities = CitiesWithin(point, radius) \/ Cardinality(cities) = CityLimit}

\* ORDER BY distance_km LIMIT $4: the nearest of those within the radius; of
\* equal distances any may be cut off.
NearestCities(point, radius) ==
    {cities \in SUBSET CitiesWithin(point, radius) :
        /\ Cardinality(cities) <= CityLimit
        /\ cities = CitiesWithin(point, radius) \/ Cardinality(cities) = CityLimit
        /\ \A p \in cities, q \in CitiesWithin(point, radius) \ cities :
              Distance(point, p.key) <= Distance(point, q.key)}

Envelope(i, x, cities) == [mode |-> Mode(i), value |-> Value(i), row |-> x,
                           radius |-> Radius(i), cities |-> cities]
EnvelopesFrom(i, x) == {Envelope(i, x, cities) : cities \in NearestCities(Point(i, x), Radius(i))}

\* Every envelope an uncached lookup of i could compute from the tables as they are.
Answers(i) == UNION {EnvelopesFrom(i, x) : x \in RowsFor(i)}

-----------------------------------------------------------------------------
(* Types of the data, and what makes an envelope an answer.                *)

Modes == {"phone", "ip", "coords", "fallback"}
Values == Numbers \cup IpTexts \cup (Degrees \X Degrees)
RowsOrNone == {None} \cup Rows("exchanges") \cup Rows("ip_ranges")
Envelopes == [mode : Modes, value : Values, row : RowsOrNone, radius : Int,
              cities : SUBSET Rows("places")]
Results == [ok : {TRUE}, response : Envelopes] \cup [ok : {FALSE}, error : Errors]

\* The row is one that the query of j can return.
RowAnswers(x, j) ==
    IF Mode(j) = "phone" THEN x \in Rows("exchanges") /\ x.key = Exchange(Value(j))
    ELSE IF Mode(j) = "ip" THEN x \in Rows("ip_ranges") /\ Covers(x.key, j.ip)
    ELSE x = None

\* The envelope answers j, from tables as they were at some moments.
Fits(env, j) ==
    /\ env.mode = Mode(j) /\ env.value = Value(j) /\ env.radius = Radius(j)
    /\ RowAnswers(env.row, j)
    /\ Cardinality(env.cities) <= CityLimit
    /\ \A p \in env.cities : Distance(Point(j, env.row), p.key) <= Radius(j)

\* An envelope that may be given for item i.
FitsSome(i, env) == \E j \in UsableItems : SameQuestion(i, j) /\ Fits(env, j)
=============================================================================
