---------------------------- MODULE LookupInput ----------------------------
(***************************************************************************)
(* What one lookup asks for: an item is the query string of GET /v1/lookup *)
(* or one row of POST /v1/lookup/batch.  Texts and coordinates are members *)
(* of small sets; the conversions applied to them are functions on those   *)
(* sets, so that several spellings can share one canonical form.           *)
(* Radii are in tenths of a kilometre, and Km of them make a kilometre.    *)
(***************************************************************************)
EXTENDS Phone

CONSTANTS
    NaN,            \* the float that is no number
    PhoneTexts,     \* the phone= arguments
    IpTexts,        \* the ip= arguments
    Stripped,       \* str.strip on them
    AddressOf,      \* the address in those that asyncpg can encode as an inet
    Degrees,        \* the lat= and lng= arguments
    Rounded,        \* round(_, 4) on them
    RadiusDefault,
    RadiusCeiling,
    Km

ASSUME InputAssumption ==
    /\ None \notin PhoneTexts \cup IpTexts \cup Degrees \cup Int \cup {NaN}
    /\ NaN \notin Int
    /\ PhoneTexts \subseteq Seq(0 .. NoDigit)
    /\ Stripped \in [IpTexts -> IpTexts]
    /\ DOMAIN AddressOf \subseteq IpTexts
    /\ \A ip \in DOMAIN AddressOf : AddressOf[ip] \in Int
    /\ DOMAIN Rounded = Degrees
    /\ RadiusDefault \in Nat /\ RadiusCeiling \in Nat /\ Km \in Nat \ {0}

\* phone.parse of each argument, and the numbers among the results.
Parsed == [text \in PhoneTexts |-> Parse(text)]
Numbers == {Parsed[text] : text \in PhoneTexts} \ {None}

Items == [phone : PhoneTexts \cup {None}, ip : IpTexts \cup {None},
          lat : Degrees \cup {None}, lng : Degrees \cup {None},
          radius : Int \cup {None, NaN}]

\* The input modes an item uses.
Given(i) == {m \in {"phone", "ip", "coords"} :
                CASE m = "phone"  -> i.phone # None
                  [] m = "ip"     -> i.ip # None
                  [] m = "coords" -> i.lat # None \/ i.lng # None}

\* Exactly one mode, and both coordinates or neither.
WellFormed(i) ==
    /\ \E m \in Given(i) : Given(i) = {m}
    /\ i.lat = None <=> i.lng = None

Parses(i) == i.phone # None => Parsed[i.phone] # None

Kind(i) == IF i.phone # None THEN "phone" ELSE IF i.ip # None THEN "ip" ELSE "coords"

\* The by-mode counter and the kind of match of an item.
Mode(i) == IF Kind(i) = "phone" /\ ~IsCanadian(Parsed[i.phone]) THEN "fallback" ELSE Kind(i)

\* min(radius or default, ceiling): no lower bound, and NaN stays NaN.
Keyed(i) == i.radius # NaN
Radius(i) ==
    LET asked == IF i.radius = None THEN RadiusDefault ELSE i.radius
    IN  IF asked <= RadiusCeiling THEN asked ELSE RadiusCeiling

\* The part of the cache key that stands for the question asked.
Canonical(i) ==
    CASE Kind(i) = "phone"  -> Parsed[i.phone]
      [] Kind(i) = "ip"     -> Stripped[i.ip]
      [] Kind(i) = "coords" -> <<Rounded[i.lat], Rounded[i.lng]>>

\* int(): towards zero, so that everything between -1 and 1 km is r0.
WholeKm(radius) == IF radius >= 0 THEN radius \div Km ELSE -((-radius) \div Km)

\* A fault of the code: the radius is left out of the key.
CacheKeyWithoutRadius(i) == [kind |-> Kind(i), value |-> Canonical(i), km |-> 0]

\* lookup:<kind>:<canonical value>:r<int(radius)>
CacheKey(i) == [kind |-> Kind(i), value |-> Canonical(i), km |-> WholeKm(Radius(i))]

\* Two questions that may be given one answer.
SameQuestion(i, j) ==
    /\ Kind(i) = Kind(j)
    /\ Canonical(i) = Canonical(j)
    /\ WholeKm(Radius(i)) = WholeKm(Radius(j))

\* What the envelope repeats of the question: the E.164 number, the ip
\* argument as it was sent, the coordinates as they were sent.
Value(i) ==
    CASE Kind(i) = "phone"  -> Parsed[i.phone]
      [] Kind(i) = "ip"     -> i.ip
      [] Kind(i) = "coords" -> <<i.lat, i.lng>>

\* A block of ip_ranges is its first and last address.  IPv4 comes before
\* IPv6 in Postgres's order of inet, so that one scale holds both.
Queryable(i) == Mode(i) = "ip" => i.ip \in DOMAIN AddressOf
Covers(block, ip) ==
    ip \in DOMAIN AddressOf /\ block[1] <= AddressOf[ip] /\ AddressOf[ip] <= block[2]
=============================================================================
