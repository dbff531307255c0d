------------------------------ MODULE MCLookup ------------------------------
(***************************************************************************)
(* Finite instances of Lookup.  One Canadian exchange that is loaded and   *)
(* one that is not, one foreign number, a db-ip block in another, two       *)
(* places; two spellings of a number, of an address and of a longitude,    *)
(* one text that is no phone number and one that is no address.            *)
(***************************************************************************)
EXTENDS LookupRefinement, TLC

CONSTANTS
    r1, r2, r3, e1,
    address, padded, word,                      \* ip=
    near, nearby,                               \* lat= and lng=
    town, village, island

MCCanadianNpas == {<<6, 0, 4>>}
tidy == <<6, 0, 4, 9, 4, 7, 0, 0, 0, 1>>                              \* 6049470001
dashed == <<NoDigit, 1>> \o SubSeq(tidy, 1, 3) \o <<NoDigit>> \o SubSeq(tidy, 4, 10)
elsewhere == <<6, 0, 4, 1, 1, 1, 0, 0, 0, 1>>                         \* not loaded
foreign == <<1, 1, 6, 0, 4, 9, 4, 7, 0, 0, 0>>                        \* no such area code
junk == <<6, 0, 4, NoDigit, 9, 4, 7, 0, 0, 0>>                        \* a digit short
loaded == Exchange(tidy)
MCPhoneTexts == {tidy, dashed, elsewhere, foreign, junk} \cup {E164(n) : n \in {tidy, elsewhere, Tail(foreign)}}
MCIpTexts == {address, padded, word}
MCStripped == address :> address @@ padded :> address @@ word :> word
MCAddressOf == address :> 5
outer == <<0, 9>>
inner == <<4, 6>>
MCDegrees == {near, nearby}
MCRounded == near :> near @@ nearby :> near

\* A radius of 2 km reaches the town from everywhere, the village only from
\* resolved points; 12 and 17 are 1.2 and 1.7 km, of the same whole kilometre.
MCDistance(point, place) ==
    IF place = town THEN 10 ELSE IF point \in {loaded, inner} THEN 15 ELSE 25

Blank == [phone |-> None, ip |-> None, lat |-> None, lng |-> None, radius |-> None]
Phone(text) == [Blank EXCEPT !.phone = text]
Ip(text) == [Blank EXCEPT !.ip = text]
Coords(lng) == [Blank EXCEPT !.lat = near, !.lng = lng]
Within(i, radius) == [i EXCEPT !.radius = radius]

Solo(i) == [solo |-> TRUE, items |-> <<i>>]
Batch(items) == [solo |-> FALSE, items |-> items]

\* Every outcome of an item, alone or next to another; every size of a batch;
\* questions that share, or nearly share, a slot of the cache.
EveryBody ==
    {Solo(Within(Phone(tidy), 12)), Solo(Within(Phone(dashed), 17)), Solo(Within(Phone(tidy), 21)),
     Solo(Phone(elsewhere)), Solo(Phone(junk)), Solo(Ip(padded)), Solo(Blank),
     Solo(Within(Coords(near), 5)), Solo(Within(Coords(near), NaN)),
     Batch(<<>>), Batch(<<Blank, Blank, Blank>>), Batch(<<Blank, Ip(word)>>),
     Batch(<<Ip(address), Coords(near)>>), Batch(<<Within(Coords(nearby), 0 - 5), Phone(foreign)>>)}

StaleBodies == {Solo(Ip(address)), Solo(Coords(near))}

LivenessBodies == {Solo(Phone(tidy)), Batch(<<Ip(address), Phone(junk), Coords(near)>>),
                   Batch(<<Phone(elsewhere), Ip(word)>>)}

SharedSlotBodies == {Solo(Within(Phone(tidy), 12)), Solo(Within(Phone(dashed), 17)),
                     Solo(Ip(address)), Solo(Ip(padded))}
BatchBodies == {Batch(<<Phone(foreign), Ip(word)>>), Batch(<<Coords(near), Ip(address)>>)}

MCKeysOf == [exchanges |-> {loaded}, places |-> {town, village}, ip_ranges |-> {outer, inner}]
StaleKeysOf == [exchanges |-> {}, places |-> {town}, ip_ranges |-> {outer, inner}]
NoRuns == {}
OneRun == {e1}
TwoRequests == {r1, r2}
ThreeRequests == {r1, r2, r3}
Symmetry == Permutations({r1, r2, r3})
Symmetry2 == Permutations({r1, r2})
=============================================================================
