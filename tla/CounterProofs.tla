--------------------------- MODULE CounterProofs ---------------------------
(***************************************************************************)
(* Proofs about the counters of Lookup, for any requests, any interleaving *)
(* of them and any faults.  CounterInv is the inductive invariant: beside  *)
(* the three balances, no batch longer than the cap is worked on and no    *)
(* row is kept for an item whose row has not been looked up.               *)
(***************************************************************************)
EXTENDS LookupProofs

\* What is worked on has been let through.
Capped == \A r \in Requests : pc[r] \in Working \cup {"next"} => Len(body[r].items) <= BatchCap

\* The row of an item is there from the row query on, and no longer than the item.
RowUnread == \A r \in Requests : pc[r] \in {"new", "next", "get", "wantRow", "row"} => row[r] = None

\* The sets that the balances count, and how many are in them.
Erroneous == UNION {EndedWith(code) : code \in Errors}
Unkeyed == {r \in WaitingAt({"raised"}) : ~Keyed(Item(r))}
RowFailed == {r \in WaitingAt({"failed"}) : NeedsRow(Item(r)) /\ row[r] = None}
AtGet == WaitingAt({"get"})
AtRow == WaitingAt({"wantRow", "row"})

Phones == Cardinality(EndedWith("phone"))
Missing == Cardinality(EndedWith("missing"))
AllErrors == Cardinality(Erroneous)
Raised == Cardinality(Unkeyed)
Getting == Cardinality(AtGet)
Seeking == Cardinality(AtRow)
Unsought == Cardinality(RowFailed)
ByMode == counter["phone"] + counter["ip"] + counter["coords"] + counter["fallback"]

\* The three balances in these terms.
Balanced ==
    /\ counter["lookups"] = counter["hits"] + counter["misses"] + Phones + Raised + Getting
    /\ counter["hits"] + counter["misses"] = ByMode + Missing + Seeking + Unsought
    /\ counter["errors"] = AllErrors

CounterInv == LookupInv /\ Capped /\ RowUnread /\ Balanced

-----------------------------------------------------------------------------
(* Counting.                                                               *)

One(b) == IF b THEN 1 ELSE 0

\* Two sets that agree on everything but x.
LEMMA OneApart ==
    ASSUME NEW S, IsFiniteSet(S), NEW T, NEW x, \A y : y # x => (y \in S <=> y \in T)
    PROVE  /\ IsFiniteSet(T)
           /\ Cardinality(S) \in Nat /\ Cardinality(T) \in Nat
           /\ Cardinality(T) = Cardinality(S) - One(x \in S) + One(x \in T)
<1>1. CASE x \in S
  <2>1. CASE x \in T
    <3>1. S = T
      BY <1>1, <2>1
    <3> QED  BY <1>1, <2>1, <3>1, FS_CardinalityType DEF One
  <2>2. CASE x \notin T
    <3>1. T = S \ {x}
      BY <1>1, <2>2
    <3> QED  BY <1>1, <2>2, <3>1, FS_RemoveElement, FS_CardinalityType DEF One
  <2> QED  BY <2>1, <2>2
<1>2. CASE x \notin S
  <2>1. CASE x \in T
    <3>1. T = S \cup {x}
      BY <1>2, <2>1
    <3> QED  BY <1>2, <2>1, <3>1, FS_AddElement, FS_CardinalityType DEF One
  <2>2. CASE x \notin T
    <3>1. S = T
      BY <1>2, <2>2
    <3> QED  BY <1>2, <2>2, <3>1, FS_CardinalityType DEF One
  <2> QED  BY <2>1, <2>2
<1> QED  BY <1>1, <1>2

LEMMA PositionsFinite ==
    /\ IsFiniteSet(Positions) /\ IsFiniteSet(Erroneous)
    /\ \A code : IsFiniteSet(EndedWith(code))
<1>1. IsFiniteSet(Requests) /\ IsFiniteSet(1 .. BatchCap)
  BY AnswersAssumption, FS_Interval
<1>2. IsFiniteSet(Requests \X (1 .. BatchCap))
  BY <1>1, FS_Product
<1>3. IsFiniteSet(Positions)
  BY <1>2, FS_Subset DEF Positions
<1>4. Erroneous \subseteq Positions /\ \A code : EndedWith(code) \subseteq Positions
  BY DEF Erroneous, EndedWith
<1> QED  BY <1>3, <1>4, FS_Subset

LEMMA RequestsFinite ==
    ASSUME NEW S, S \subseteq Requests
    PROVE  IsFiniteSet(S)
BY AnswersAssumption, FS_Subset

\* The counters that move move by one.
LEMMA Bumped ==
    ASSUME TypeOK, NEW names, Bump(names)
    PROVE  \A c \in Counters : counter[c] \in Nat /\ counter'[c] = counter[c] + One(c \in names)
BY DEF TypeOK, Bump, One

LEMMA CounterTyped ==
    ASSUME TypeOK
    PROVE  /\ \A c \in Counters : counter[c] \in Nat
           /\ {"lookups", "errors", "hits", "misses", "phone", "ip", "coords", "fallback"} = Counters
           /\ ByMode \in Nat
BY DEF TypeOK, Counters, Modes, ByMode

\* The sets of requests, when the step concerns r alone.
LEMMA RequestSets ==
    ASSUME NEW r \in Requests,
           \A q \in Requests \ {r} : /\ pc'[q] = pc[q] /\ body'[q] = body[q]
                                     /\ results'[q] = results[q] /\ row'[q] = row[q]
    PROVE  /\ Cardinality(AtGet)' = Cardinality(AtGet) - One(r \in AtGet) + One(r \in AtGet')
           /\ Cardinality(AtRow)' = Cardinality(AtRow) - One(r \in AtRow) + One(r \in AtRow')
           /\ Cardinality(Unkeyed)' = Cardinality(Unkeyed) - One(r \in Unkeyed) + One(r \in Unkeyed')
           /\ Cardinality(RowFailed)' = Cardinality(RowFailed) - One(r \in RowFailed) + One(r \in RowFailed')
           /\ Cardinality(AtGet) \in Nat /\ Cardinality(AtRow) \in Nat
           /\ Cardinality(Unkeyed) \in Nat /\ Cardinality(RowFailed) \in Nat
<1>1. /\ AtGet \subseteq Requests /\ AtGet' \subseteq Requests
      /\ AtRow \subseteq Requests /\ AtRow' \subseteq Requests
      /\ Unkeyed \subseteq Requests /\ Unkeyed' \subseteq Requests
      /\ RowFailed \subseteq Requests /\ RowFailed' \subseteq Requests
  BY DEF AtGet, AtRow, Unkeyed, RowFailed, WaitingAt
<1>2. \A q \in Requests \ {r} : Item(q)' = Item(q)
  BY DEF Item
<1>3. \A q : q # r => (q \in AtGet <=> q \in AtGet')
  BY DEF AtGet, WaitingAt
<1>4. \A q : q # r => (q \in AtRow <=> q \in AtRow')
  BY DEF AtRow, WaitingAt
<1>5. \A q : q # r => (q \in Unkeyed <=> q \in Unkeyed')
  BY <1>2 DEF Unkeyed, WaitingAt
<1>6. \A q : q # r => (q \in RowFailed <=> q \in RowFailed')
  BY <1>2 DEF RowFailed, WaitingAt
<1>7. /\ IsFiniteSet(AtGet) /\ IsFiniteSet(AtRow) /\ IsFiniteSet(Unkeyed) /\ IsFiniteSet(RowFailed)
  BY <1>1, RequestsFinite
<1>8. /\ Cardinality(AtGet') = Cardinality(AtGet) - One(r \in AtGet) + One(r \in AtGet')
      /\ Cardinality(AtGet) \in Nat
  BY <1>3, <1>7, OneApart
<1>9. /\ Cardinality(AtRow') = Cardinality(AtRow) - One(r \in AtRow) + One(r \in AtRow')
      /\ Cardinality(AtRow) \in Nat
  BY <1>4, <1>7, OneApart
<1>10. /\ Cardinality(Unkeyed') = Cardinality(Unkeyed) - One(r \in Unkeyed) + One(r \in Unkeyed')
       /\ Cardinality(Unkeyed) \in Nat
  BY <1>5, <1>7, OneApart
<1>11. /\ Cardinality(RowFailed') = Cardinality(RowFailed) - One(r \in RowFailed) + One(r \in RowFailed')
       /\ Cardinality(RowFailed) \in Nat
  BY <1>6, <1>7, OneApart
<1> QED  BY <1>8, <1>9, <1>10, <1>11

\* The sets of items, when the outcome of an item of r is appended.
LEMMA ItemSets ==
    ASSUME TypeOK, Capped, NEW r \in Requests, pc[r] \in Working \cup {"next"},
           NEW result \in Results, results' = [results EXCEPT ![r] = Append(@, result)]
    PROVE  /\ \A code : /\ Cardinality(EndedWith(code)) \in Nat
                        /\ Cardinality(EndedWith(code)') =
                              Cardinality(EndedWith(code)) + One(~result.ok /\ result.error = code)
           /\ Cardinality(Erroneous) \in Nat
           /\ Cardinality(Erroneous)' = Cardinality(Erroneous) + One(~result.ok)
<1> DEFINE n == Len(results[r]) + 1
           p == <<r, n>>
<1>1. /\ results[r] \in Seq(Results) /\ results'[r] = Append(results[r], result)
      /\ Len(results[r]) < Len(body[r].items) /\ Len(body[r].items) <= BatchCap
      /\ Len(body[r].items) \in Nat
  BY ItemTyped, AnswersAssumption DEF TypeOK, Capped
<1>2. /\ n \in 1 .. BatchCap /\ Len(results'[r]) = n /\ results'[r][n] = result
      /\ \A m \in 1 .. Len(results[r]) : results'[r][m] = results[r][m]
  BY <1>1, AnswersAssumption
<1>3. \A q \in Requests \ {r} : results'[q] = results[q]
  BY DEF TypeOK
<1>4. p \in Positions' /\ p \notin Positions /\ p[1] = r /\ p[2] = n
  BY <1>1, <1>2 DEF Positions
<1>5. \A y : y # p => (y \in Positions <=> y \in Positions')
  <2> SUFFICES ASSUME NEW y \in Requests \X (1 .. BatchCap), y # p
               PROVE  y[2] <= Len(results[y[1]]) <=> y[2] <= Len(results'[y[1]])
    BY DEF Positions
  <2>1. CASE y[1] # r
    BY <1>3, <2>1
  <2>2. CASE y[1] = r
    <3>1. y[2] # n /\ y[2] \in Nat /\ Len(results[r]) \in Nat
      BY <2>2, <1>1
    <3> QED  BY <2>2, <3>1, <1>2
  <2> QED  BY <2>1, <2>2
<1>6. \A y \in Positions : results'[y[1]][y[2]] = results[y[1]][y[2]]
  <2> SUFFICES ASSUME NEW y \in Positions, y[1] = r
               PROVE  y[2] \in 1 .. Len(results[r])
    BY <1>2, <1>3 DEF Positions
  <2> QED  BY <1>1 DEF Positions
<1> HIDE DEF p, n
<1>7. ASSUME NEW code
      PROVE  /\ \A y : y # p => (y \in EndedWith(code) <=> y \in EndedWith(code)')
             /\ p \notin EndedWith(code)
             /\ p \in EndedWith(code)' <=> ~result.ok /\ result.error = code
  BY <1>2, <1>4, <1>5, <1>6 DEF EndedWith
<1>8. ASSUME NEW code
      PROVE  /\ Cardinality(EndedWith(code)) \in Nat
             /\ Cardinality(EndedWith(code)') =
                   Cardinality(EndedWith(code)) + One(~result.ok /\ result.error = code)
  <2>1. IsFiniteSet(EndedWith(code))
    BY PositionsFinite
  <2>2. /\ Cardinality(EndedWith(code)) \in Nat
        /\ Cardinality(EndedWith(code)') = Cardinality(EndedWith(code))
                                           - One(p \in EndedWith(code)) + One(p \in EndedWith(code)')
    BY <1>7, <2>1, OneApart
  <2>3. CASE ~result.ok /\ result.error = code
    BY <1>7, <2>2, <2>3 DEF One
  <2>4. CASE ~(~result.ok /\ result.error = code)
    BY <1>7, <2>2, <2>4 DEF One
  <2> QED  BY <2>3, <2>4
<1>9. /\ Cardinality(Erroneous) \in Nat
      /\ Cardinality(Erroneous') = Cardinality(Erroneous) + One(~result.ok)
  <2>1. \A y : y # p => (y \in Erroneous <=> y \in Erroneous')
    BY <1>7, Zenon DEF Erroneous
  <2>2. p \notin Erroneous
    BY <1>7, Zenon DEF Erroneous
  <2>3. ~result.ok => result.error \in Errors
    BY DEF Results
  <2>4. p \in Erroneous' <=> \E code \in Errors : ~result.ok /\ result.error = code
    BY <1>7, Zenon DEF Erroneous
  <2>5. IsFiniteSet(Erroneous)
    BY PositionsFinite
  <2>6. /\ Cardinality(Erroneous) \in Nat
        /\ Cardinality(Erroneous') = Cardinality(Erroneous) - One(p \in Erroneous) + One(p \in Erroneous')
    BY <2>1, <2>5, OneApart
  <2>7. CASE ~result.ok
    BY <2>2, <2>3, <2>4, <2>6, <2>7 DEF One
  <2>8. CASE result.ok
    BY <2>2, <2>4, <2>6, <2>8 DEF One
  <2> QED  BY <2>7, <2>8
<1> QED  BY <1>8, <1>9

LEMMA ModeCounted ==
    ASSUME TypeOK, NEW names, Bump(names)
    PROVE  /\ ByMode' \in Nat
           /\ names \cap Modes = {} => ByMode' = ByMode
           /\ \A m \in Modes : names \cap Modes = {m} => ByMode' = ByMode + 1
<1>1. \A c \in Modes : c \in Counters /\ counter[c] \in Nat /\ counter'[c] = counter[c] + One(c \in names)
  BY Bumped DEF Counters
<1>2. {"phone", "ip", "coords", "fallback"} = Modes
  BY DEF Modes
<1>3. ByMode' \in Nat
  BY <1>1, <1>2 DEF ByMode, One
<1>4. names \cap Modes = {} => ByMode' = ByMode
  BY <1>1, <1>2 DEF ByMode, One
<1>5. ASSUME NEW m \in Modes, names \cap Modes = {m} PROVE ByMode' = ByMode + 1
  <2>1. \A c \in Modes : counter'[c] = IF c = m THEN counter[c] + 1 ELSE counter[c]
    BY <1>1, <1>5 DEF One
  <2>2. m \in {"phone", "ip", "coords", "fallback"}
    BY <1>2
  <2> QED  BY <1>1, <1>2, <2>1, <2>2 DEF ByMode
<1> QED  BY <1>3, <1>4, <1>5

\* What the end of an item changes in the sets.
LEMMA ConcludeCounts ==
    ASSUME TypeOK, Capped, NEW r \in Requests, pc[r] \in Working \cup {"next"},
           NEW result \in Results, Conclude(r, result), UNCHANGED body
    PROVE  /\ Phones' = Phones + One(~result.ok /\ result.error = "phone") /\ Phones \in Nat
           /\ Missing' = Missing + One(~result.ok /\ result.error = "missing") /\ Missing \in Nat
           /\ AllErrors' = AllErrors + One(~result.ok) /\ AllErrors \in Nat
           /\ Getting' = Getting - One(pc[r] = "get") /\ Getting \in Nat
           /\ Seeking' = Seeking - One(pc[r] \in {"wantRow", "row"}) /\ Seeking \in Nat
           /\ Raised' = Raised /\ Raised \in Nat
           /\ Unsought' = Unsought /\ Unsought \in Nat
<1>1. /\ results' = [results EXCEPT ![r] = Append(@, result)]
      /\ pc'[r] \in {"answered", "next"}
      /\ \A q \in Requests \ {r} : /\ pc'[q] = pc[q] /\ body'[q] = body[q]
                                   /\ results'[q] = results[q] /\ row'[q] = row[q]
  BY DEF Conclude, TypeOK
<1>2. /\ Phones' = Phones + One(~result.ok /\ result.error = "phone") /\ Phones \in Nat
      /\ Missing' = Missing + One(~result.ok /\ result.error = "missing") /\ Missing \in Nat
      /\ AllErrors' = AllErrors + One(~result.ok) /\ AllErrors \in Nat
  BY <1>1, ItemSets DEF Phones, Missing, AllErrors
<1>3. pc[r] \notin {"raised", "failed"}
  BY DEF Working
<1>4. /\ r \notin AtGet' /\ r \notin AtRow' /\ r \notin Unkeyed' /\ r \notin RowFailed'
      /\ r \notin Unkeyed /\ r \notin RowFailed
      /\ r \in AtGet <=> pc[r] = "get"
      /\ r \in AtRow <=> pc[r] \in {"wantRow", "row"}
  BY <1>1, <1>3 DEF AtGet, AtRow, Unkeyed, RowFailed, WaitingAt
<1>5. /\ Getting' = Getting - One(r \in AtGet) + One(r \in AtGet') /\ Getting \in Nat
      /\ Seeking' = Seeking - One(r \in AtRow) + One(r \in AtRow') /\ Seeking \in Nat
      /\ Raised' = Raised - One(r \in Unkeyed) + One(r \in Unkeyed') /\ Raised \in Nat
      /\ Unsought' = Unsought - One(r \in RowFailed) + One(r \in RowFailed') /\ Unsought \in Nat
  BY <1>1, RequestSets DEF Getting, Seeking, Raised, Unsought
<1> QED  BY <1>2, <1>4, <1>5 DEF One

\* What any other step of a request changes in them.
LEMMA MoveCounts ==
    ASSUME TypeOK, NEW r \in Requests, pc[r] \notin {"raised", "failed"}, UNCHANGED results,
           \A q \in Requests \ {r} : pc'[q] = pc[q] /\ body'[q] = body[q] /\ row'[q] = row[q]
    PROVE  /\ Phones' = Phones /\ Phones \in Nat
           /\ Missing' = Missing /\ Missing \in Nat
           /\ AllErrors' = AllErrors /\ AllErrors \in Nat
           /\ Getting' = Getting - One(pc[r] = "get") + One(pc'[r] = "get") /\ Getting \in Nat
           /\ Seeking' = Seeking - One(pc[r] \in {"wantRow", "row"})
                                 + One(pc'[r] \in {"wantRow", "row"}) /\ Seeking \in Nat
           /\ Raised' = Raised + One(pc'[r] = "raised" /\ ~Keyed(Item(r)')) /\ Raised \in Nat
           /\ Unsought' = Unsought + One(pc'[r] = "failed" /\ NeedsRow(Item(r)') /\ row'[r] = None)
           /\ Unsought \in Nat
<1>1. \A code : EndedWith(code)' = EndedWith(code)
  BY DEF EndedWith, Positions
<1>2. Erroneous' = Erroneous
  BY <1>1, Zenon DEF Erroneous
<1>3. /\ Phones' = Phones /\ Phones \in Nat
      /\ Missing' = Missing /\ Missing \in Nat
      /\ AllErrors' = AllErrors /\ AllErrors \in Nat
  BY <1>1, <1>2, PositionsFinite, FS_CardinalityType DEF Phones, Missing, AllErrors
<1>4. /\ r \notin Unkeyed /\ r \notin RowFailed
      /\ r \in AtGet <=> pc[r] = "get"
      /\ r \in AtRow <=> pc[r] \in {"wantRow", "row"}
      /\ r \in AtGet' <=> pc'[r] = "get"
      /\ r \in AtRow' <=> pc'[r] \in {"wantRow", "row"}
      /\ r \in Unkeyed' <=> pc'[r] = "raised" /\ ~Keyed(Item(r)')
      /\ r \in RowFailed' <=> pc'[r] = "failed" /\ NeedsRow(Item(r)') /\ row'[r] = None
  BY DEF AtGet, AtRow, Unkeyed, RowFailed, WaitingAt
<1>5. /\ Getting' = Getting - One(r \in AtGet) + One(r \in AtGet') /\ Getting \in Nat
      /\ Seeking' = Seeking - One(r \in AtRow) + One(r \in AtRow') /\ Seeking \in Nat
      /\ Raised' = Raised - One(r \in Unkeyed) + One(r \in Unkeyed') /\ Raised \in Nat
      /\ Unsought' = Unsought - One(r \in RowFailed) + One(r \in RowFailed') /\ Unsought \in Nat
  BY RequestSets DEF Getting, Seeking, Raised, Unsought
<1> QED  BY <1>3, <1>4, <1>5 DEF One

-----------------------------------------------------------------------------
(* The balances, action by action.                                         *)

\* What a request in the hands of the service can rely on.
LEMMA InHandOf ==
    ASSUME CounterInv, NEW r \in Requests, pc[r] \in Working
    PROVE  /\ InHand(r) /\ Item(r) \in Items /\ Keyed(Item(r)) /\ Mode(Item(r)) \in Modes
           /\ CacheKey(Item(r)) \in CacheKeys
           /\ pc[r] \in {"wantCities", "cities"} /\ NeedsRow(Item(r)) => row[r] # None
<1>1. InHand(r) /\ Item(r) \in UsableItems
  BY DEF CounterInv, LookupInv, ItemInHand, InHand
<1>2. Item(r) \in Items /\ Keyed(Item(r)) /\ CacheKey(Item(r)) \in CacheKeys
  BY <1>1, UsableTyped DEF Usable
<1>3. Mode(Item(r)) \in Modes
  BY <1>2, ModeOfKind
<1>4. RowAnswers(row[r], Item(r)) /\ NeedsRow(Item(r)) => row[r] # None
  BY AnswersAssumption DEF RowAnswers, NeedsRow
<1> QED  BY <1>1, <1>2, <1>3, <1>4 DEF InHand

LEMMA RefuseBalances ==
    ASSUME CounterInv, NEW r \in Requests, Refuse(r)
    PROVE  Balanced'
<1>1. PICK code \in {"unready", "shape", "phone"} :
         /\ Conclude(r, Error(code)) /\ UNCHANGED body
         /\ Bump(IF code = "phone" THEN CountedOnBadPhone ELSE {"errors"})
  BY DEF Refuse
<1> DEFINE names == IF code = "phone" THEN CountedOnBadPhone ELSE {"errors"}
<1>2. TypeOK /\ Capped /\ Balanced /\ pc[r] \in Working \cup {"next"}
  BY DEF CounterInv, LookupInv, Refuse
<1>3. /\ Error(code) \in Results /\ ~Error(code).ok /\ Error(code).error = code
  BY DEF Error, Results, Errors
<1>4. /\ Phones' = Phones + One(code = "phone") /\ Phones \in Nat
      /\ Missing' = Missing /\ Missing \in Nat
      /\ AllErrors' = AllErrors + 1 /\ AllErrors \in Nat
      /\ Getting' = Getting /\ Getting \in Nat
      /\ Seeking' = Seeking /\ Seeking \in Nat
      /\ Raised' = Raised /\ Raised \in Nat
      /\ Unsought' = Unsought /\ Unsought \in Nat
  <2>1. pc[r] = "next"
    BY DEF Refuse
  <2> QED  BY <1>1, <1>2, <1>3, <2>1, ConcludeCounts DEF One
<1>5. names \cap Modes = {}
  BY DEF Modes, CountedOnBadPhone
<1>6. ByMode' = ByMode
  BY <1>1, <1>2, <1>5, ModeCounted
<1>7. /\ counter'["lookups"] = counter["lookups"] + One(code = "phone")
      /\ counter'["errors"] = counter["errors"] + 1
      /\ counter'["hits"] = counter["hits"] /\ counter'["misses"] = counter["misses"]
  BY <1>1, <1>2, Bumped, CounterTyped DEF One, CountedOnBadPhone
<1> QED  BY <1>2, <1>4, <1>6, <1>7, CounterTyped DEF Balanced, One

LEMMA KeyErrorBalances ==
    ASSUME CounterInv, NEW r \in Requests, KeyError(r)
    PROVE  Balanced'
<1>1. TypeOK /\ Balanced
  BY DEF CounterInv, LookupInv
<1>2. /\ pc[r] = "next" /\ pc'[r] = "raised" /\ Item(r)' = Item(r) /\ ~Keyed(Item(r))
      /\ UNCHANGED <<body, results, row>> /\ \A q \in Requests \ {r} : pc'[q] = pc[q]
  BY <1>1 DEF KeyError, Item, TypeOK
<1>3. /\ Phones' = Phones /\ Phones \in Nat
      /\ Missing' = Missing /\ Missing \in Nat
      /\ AllErrors' = AllErrors /\ AllErrors \in Nat
      /\ Getting' = Getting /\ Getting \in Nat
      /\ Seeking' = Seeking /\ Seeking \in Nat
      /\ Raised' = Raised + 1 /\ Raised \in Nat
      /\ Unsought' = Unsought /\ Unsought \in Nat
  BY <1>1, <1>2, MoveCounts DEF One
<1>4. Bump({"lookups"}) /\ {"lookups"} \cap Modes = {}
  BY DEF KeyError, Modes
<1>5. ByMode' = ByMode
  BY <1>1, <1>4, ModeCounted
<1>6. /\ counter'["lookups"] = counter["lookups"] + 1
      /\ counter'["errors"] = counter["errors"]
      /\ counter'["hits"] = counter["hits"] /\ counter'["misses"] = counter["misses"]
  BY <1>1, <1>4, Bumped, CounterTyped DEF One
<1> QED  BY <1>1, <1>3, <1>5, <1>6, CounterTyped DEF Balanced

\* A miss counts its mode at once or leaves it to the row query.
LEMMA MissCounts ==
    ASSUME TypeOK, NEW i \in Items, NEW names, names \subseteq {"lookups"},
           Bump(names \cup CountedOnMiss(i))
    PROVE  /\ ByMode' = ByMode + One(AfterMiss(i) # "wantRow")
           /\ counter'["lookups"] = counter["lookups"] + One("lookups" \in names)
           /\ counter'["errors"] = counter["errors"] /\ counter'["hits"] = counter["hits"]
           /\ counter'["misses"] = counter["misses"] + 1
<1>1. /\ Mode(i) \in Modes /\ (AfterMiss(i) # "wantRow" <=> ~NeedsRow(i))
      /\ Modes \subseteq Counters
      /\ \A m \in Modes : m \notin {"lookups", "errors", "hits", "misses"}
  BY ModeOfKind DEF AfterMiss, Counters, Modes
<1>2. CASE NeedsRow(i)
  <2>1. names \cup CountedOnMiss(i) = names \cup {"misses"}
    BY <1>2 DEF CountedOnMiss
  <2>2. (names \cup {"misses"}) \cap Modes = {}
    BY <1>1
  <2>3. ByMode' = ByMode
    BY <2>1, <2>2, ModeCounted
  <2>4. /\ counter'["lookups"] = counter["lookups"] + One("lookups" \in names)
        /\ counter'["errors"] = counter["errors"] /\ counter'["hits"] = counter["hits"]
        /\ counter'["misses"] = counter["misses"] + 1
    BY <2>1, Bumped, CounterTyped DEF One
  <2>5. ByMode \in Nat /\ AfterMiss(i) = "wantRow"
    BY <1>1, <1>2, CounterTyped
  <2> QED  BY <2>3, <2>4, <2>5 DEF One
<1>3. CASE ~NeedsRow(i)
  <2>1. names \cup CountedOnMiss(i) = names \cup {"misses", Mode(i)}
    BY <1>3 DEF CountedOnMiss
  <2>2. (names \cup {"misses", Mode(i)}) \cap Modes = {Mode(i)}
    <3> DEFINE m == Mode(i)
    <3>1. m \in Modes /\ "lookups" \notin Modes /\ "misses" \notin Modes
      BY <1>1
    <3> HIDE DEF m
    <3>2. (names \cup {"misses", m}) \cap Modes = {m}
      BY <3>1
    <3> QED  BY <3>2 DEF m
  <2>3. ByMode' = ByMode + 1
    BY <1>1, <2>1, <2>2, ModeCounted
  <2>4. /\ counter'["lookups"] = counter["lookups"] + One("lookups" \in names)
        /\ counter'["errors"] = counter["errors"] /\ counter'["hits"] = counter["hits"]
        /\ counter'["misses"] = counter["misses"] + 1
    <3> DEFINE m == Mode(i)
    <3>1. m \notin {"lookups", "errors", "hits", "misses"}
      BY <1>1
    <3>2. Bump(names \cup {"misses", m})
      BY <2>1
    <3> HIDE DEF m
    <3> QED  BY <3>1, <3>2, Bumped, CounterTyped DEF One
  <2> QED  BY <1>1, <1>3, <2>3, <2>4 DEF One
<1> QED  BY <1>2, <1>3

LEMMA StartBalances ==
    ASSUME CounterInv, NEW r \in Requests, Start(r)
    PROVE  Balanced'
<1>1. TypeOK /\ Balanced /\ Item(r) \in Items
  BY ItemTyped DEF CounterInv, LookupInv, TypeOK, Start
<1>2. /\ pc[r] = "next" /\ pc'[r] = (IF cacheUp THEN "get" ELSE AfterMiss(Item(r)))
      /\ UNCHANGED <<body, results, row>> /\ \A q \in Requests \ {r} : pc'[q] = pc[q]
  BY <1>1 DEF Start, TypeOK
<1>3. AfterMiss(Item(r)) \in {"wantRow", "wantCities"}
  BY DEF AfterMiss
<1>4. /\ Phones' = Phones /\ Phones \in Nat
      /\ Missing' = Missing /\ Missing \in Nat
      /\ AllErrors' = AllErrors /\ AllErrors \in Nat
      /\ Getting' = Getting + One(cacheUp) /\ Getting \in Nat
      /\ Seeking' = Seeking + One(~cacheUp /\ AfterMiss(Item(r)) = "wantRow") /\ Seeking \in Nat
      /\ Raised' = Raised /\ Raised \in Nat
      /\ Unsought' = Unsought /\ Unsought \in Nat
  BY <1>1, <1>2, <1>3, MoveCounts DEF One
<1>5. CASE cacheUp
  <2>1. Bump({"lookups"}) /\ {"lookups"} \cap Modes = {}
    BY <1>5 DEF Start, Modes
  <2>2. ByMode' = ByMode
    BY <1>1, <2>1, ModeCounted
  <2>3. /\ counter'["lookups"] = counter["lookups"] + 1
        /\ counter'["errors"] = counter["errors"]
        /\ counter'["hits"] = counter["hits"] /\ counter'["misses"] = counter["misses"]
    BY <1>1, <2>1, Bumped, CounterTyped DEF One
  <2>4. /\ Phones' = Phones /\ Missing' = Missing /\ AllErrors' = AllErrors
        /\ Getting' = Getting + 1 /\ Seeking' = Seeking /\ Raised' = Raised /\ Unsought' = Unsought
    BY <1>4, <1>5 DEF One
  <2>5. /\ counter["lookups"] \in Nat /\ counter["hits"] \in Nat /\ counter["misses"] \in Nat
        /\ Phones \in Nat /\ Raised \in Nat /\ Getting \in Nat
    BY <1>1, <1>4, CounterTyped
  <2> QED  BY <1>1, <2>2, <2>3, <2>4, <2>5 DEF Balanced
<1>6. CASE ~cacheUp
  <2>1. Bump({"lookups"} \cup CountedOnMiss(Item(r)))
    BY <1>6 DEF Start
  <2>2. /\ ByMode' = ByMode + One(AfterMiss(Item(r)) # "wantRow")
        /\ counter'["lookups"] = counter["lookups"] + 1
        /\ counter'["errors"] = counter["errors"] /\ counter'["hits"] = counter["hits"]
        /\ counter'["misses"] = counter["misses"] + 1
    BY <1>1, <2>1, MissCounts DEF One
  <2>3. /\ counter["lookups"] \in Nat /\ counter["hits"] \in Nat /\ counter["misses"] \in Nat
        /\ Phones \in Nat /\ Raised \in Nat /\ Getting \in Nat
    BY <1>1, <1>4, CounterTyped
  <2>4. ByMode \in Nat /\ Missing \in Nat /\ Seeking \in Nat /\ Unsought \in Nat
    BY <1>1, <1>4, CounterTyped
  <2>5. Getting' = Getting /\ Phones' = Phones /\ Raised' = Raised /\ Missing' = Missing
        /\ AllErrors' = AllErrors /\ Unsought' = Unsought
    BY <1>4, <1>6 DEF One
  <2>6. CASE AfterMiss(Item(r)) = "wantRow"
    <3>1. Seeking' = Seeking + 1 /\ ByMode' = ByMode
      BY <1>4, <1>6, <2>2, <2>4, <2>6 DEF One
    <3> QED  BY <1>1, <2>2, <2>3, <2>4, <2>5, <3>1 DEF Balanced
  <2>7. CASE AfterMiss(Item(r)) # "wantRow"
    <3>1. Seeking' = Seeking /\ ByMode' = ByMode + 1
      BY <1>4, <1>6, <2>2, <2>4, <2>7 DEF One
    <3> QED  BY <1>1, <2>2, <2>3, <2>4, <2>5, <3>1 DEF Balanced
  <2> QED  BY <2>6, <2>7
<1> QED  BY <1>5, <1>6

\* A hit, readable or not, counts its mode.
LEMMA HitCounts ==
    ASSUME TypeOK, NEW k \in CacheKeys, cache[k] # None, Bump(CountedOnHit(cache[k].response))
    PROVE  /\ ByMode' = ByMode + 1 /\ counter'["hits"] = counter["hits"] + 1
           /\ UNCHANGED <<counter["lookups"], counter["errors"], counter["misses"]>>
<1> DEFINE m == cache[k].response.mode
<1>1. m \in Modes
  BY DEF TypeOK, Entries, Envelopes
<1>2. Bump({"hits", m})
  BY DEF CountedOnHit
<1> HIDE DEF m
<1>3. /\ m \notin {"lookups", "errors", "misses", "hits"}
      /\ {"hits", m} \cap Modes = {m}
  BY <1>1 DEF Modes
<1>4. ByMode' = ByMode + 1
  BY <1>1, <1>2, <1>3, ModeCounted
<1>5. /\ counter'["hits"] = counter["hits"] + 1
      /\ counter'["lookups"] = counter["lookups"] /\ counter'["errors"] = counter["errors"]
      /\ counter'["misses"] = counter["misses"]
  BY <1>2, <1>3, Bumped, CounterTyped DEF One
<1> QED  BY <1>4, <1>5

LEMMA CacheHitBalances ==
    ASSUME CounterInv, NEW r \in Requests, CacheHit(r)
    PROVE  Balanced'
<1> DEFINE k == CacheKey(Item(r))
           env == cache[k].response
<1>1. TypeOK /\ Capped /\ Balanced /\ pc[r] = "get" /\ pc[r] \in Working
  BY DEF CounterInv, LookupInv, CacheHit, Working
<1>2. k \in CacheKeys /\ cache[k] # None /\ cache[k] \in Entries
  BY <1>1, InHandOf DEF CacheHit, TypeOK
<1>3. Ok(env) \in Results /\ Ok(env).ok
  BY <1>2 DEF Entries, Ok, Results
<1>4. Conclude(r, Ok(env)) /\ Bump(CountedOnHit(env)) /\ UNCHANGED body
  BY DEF CacheHit
<1> HIDE DEF k, env
<1>5. /\ Phones' = Phones /\ Missing' = Missing /\ AllErrors' = AllErrors
      /\ Getting' = Getting - 1 /\ Seeking' = Seeking /\ Raised' = Raised /\ Unsought' = Unsought
      /\ Phones \in Nat /\ Raised \in Nat /\ Getting \in Nat
      /\ Missing \in Nat /\ Seeking \in Nat /\ Unsought \in Nat /\ AllErrors \in Nat
  BY <1>1, <1>3, <1>4, ConcludeCounts DEF One
<1>6. /\ ByMode' = ByMode + 1 /\ counter'["hits"] = counter["hits"] + 1
      /\ counter'["lookups"] = counter["lookups"] /\ counter'["errors"] = counter["errors"]
      /\ counter'["misses"] = counter["misses"]
  BY <1>1, <1>2, <1>4, HitCounts DEF env
<1>7. counter["lookups"] \in Nat /\ counter["hits"] \in Nat /\ counter["misses"] \in Nat /\ ByMode \in Nat
  BY <1>1, CounterTyped
<1> QED  BY <1>1, <1>5, <1>6, <1>7 DEF Balanced

LEMMA UnreadableHitBalances ==
    ASSUME CounterInv, NEW r \in Requests, UnreadableHit(r)
    PROVE  Balanced'
<1> DEFINE k == CacheKey(Item(r))
<1>1. TypeOK /\ Balanced /\ pc[r] = "get" /\ pc[r] \in Working
  BY DEF CounterInv, LookupInv, UnreadableHit, Working
<1>2. /\ pc'[r] = "raised" /\ UNCHANGED <<body, results, row>> /\ Item(r)' = Item(r)
      /\ \A q \in Requests \ {r} : pc'[q] = pc[q]
  BY <1>1 DEF UnreadableHit, TypeOK, Item
<1>3. k \in CacheKeys /\ cache[k] # None /\ Bump(CountedOnHit(cache[k].response)) /\ Keyed(Item(r))
  BY <1>1, InHandOf DEF UnreadableHit
<1> HIDE DEF k
<1>4. /\ Phones' = Phones /\ Missing' = Missing /\ AllErrors' = AllErrors
      /\ Getting' = Getting - 1 /\ Seeking' = Seeking /\ Raised' = Raised /\ Unsought' = Unsought
      /\ Phones \in Nat /\ Raised \in Nat /\ Getting \in Nat
      /\ Missing \in Nat /\ Seeking \in Nat /\ Unsought \in Nat /\ AllErrors \in Nat
  BY <1>1, <1>2, <1>3, MoveCounts DEF One
<1>5. /\ ByMode' = ByMode + 1 /\ counter'["hits"] = counter["hits"] + 1
      /\ counter'["lookups"] = counter["lookups"] /\ counter'["errors"] = counter["errors"]
      /\ counter'["misses"] = counter["misses"]
  BY <1>1, <1>3, HitCounts
<1>6. counter["lookups"] \in Nat /\ counter["hits"] \in Nat /\ counter["misses"] \in Nat /\ ByMode \in Nat
  BY <1>1, CounterTyped
<1> QED  BY <1>1, <1>4, <1>5, <1>6 DEF Balanced

LEMMA CacheMissBalances ==
    ASSUME CounterInv, NEW r \in Requests, CacheMiss(r)
    PROVE  Balanced'
<1>1. TypeOK /\ Balanced /\ pc[r] = "get" /\ pc[r] \in Working
  BY DEF CounterInv, LookupInv, CacheMiss, Working
<1>2. /\ pc'[r] = AfterMiss(Item(r)) /\ UNCHANGED <<body, results, row>>
      /\ \A q \in Requests \ {r} : pc'[q] = pc[q]
  BY <1>1 DEF CacheMiss, TypeOK
<1>3. Item(r) \in Items /\ Bump({} \cup CountedOnMiss(Item(r)))
  BY <1>1, InHandOf DEF CacheMiss
<1>4. AfterMiss(Item(r)) \in {"wantRow", "wantCities"}
  BY DEF AfterMiss
<1>5. /\ Phones' = Phones /\ Missing' = Missing /\ AllErrors' = AllErrors /\ Getting' = Getting - 1
      /\ Seeking' = Seeking + One(AfterMiss(Item(r)) = "wantRow")
      /\ Raised' = Raised /\ Unsought' = Unsought
      /\ Phones \in Nat /\ Raised \in Nat /\ Getting \in Nat
      /\ Missing \in Nat /\ Seeking \in Nat /\ Unsought \in Nat /\ AllErrors \in Nat
  BY <1>1, <1>2, <1>4, MoveCounts DEF One
<1>6. /\ ByMode' = ByMode + One(AfterMiss(Item(r)) # "wantRow")
      /\ counter'["lookups"] = counter["lookups"] /\ counter'["errors"] = counter["errors"]
      /\ counter'["hits"] = counter["hits"] /\ counter'["misses"] = counter["misses"] + 1
  <2> DEFINE none == {}
  <2>1. Bump(none \cup CountedOnMiss(Item(r))) /\ none \subseteq {"lookups"}
    BY <1>3
  <2>2. counter["lookups"] \in Nat /\ One("lookups" \in none) = 0
    BY <1>1, CounterTyped DEF One
  <2> HIDE DEF none
  <2>3. /\ ByMode' = ByMode + One(AfterMiss(Item(r)) # "wantRow")
        /\ counter'["lookups"] = counter["lookups"] + One("lookups" \in none)
        /\ counter'["errors"] = counter["errors"] /\ counter'["hits"] = counter["hits"]
        /\ counter'["misses"] = counter["misses"] + 1
    BY <1>1, <1>3, <2>1, MissCounts
  <2> QED  BY <2>2, <2>3
<1>7. counter["lookups"] \in Nat /\ counter["hits"] \in Nat /\ counter["misses"] \in Nat /\ ByMode \in Nat
  BY <1>1, CounterTyped
<1>8. One(AfterMiss(Item(r)) # "wantRow") = 1 - One(AfterMiss(Item(r)) = "wantRow")
      /\ One(AfterMiss(Item(r)) = "wantRow") \in Nat
  BY DEF One
<1> QED  BY <1>1, <1>5, <1>6, <1>7, <1>8 DEF Balanced

LEMMA AcquireBalances ==
    ASSUME CounterInv, NEW r \in Requests, Acquire(r)
    PROVE  Balanced'
<1>1. TypeOK /\ Balanced
  BY DEF CounterInv, LookupInv
<1>2. /\ \/ pc[r] = "wantRow" /\ pc'[r] = "row"
         \/ pc[r] = "wantCities" /\ pc'[r] = "cities"
      /\ UNCHANGED <<body, results, row, counter>>
      /\ \A q \in Requests \ {r} : pc'[q] = pc[q]
  BY <1>1 DEF Acquire, TypeOK
<1>3. /\ Phones' = Phones /\ Missing' = Missing /\ AllErrors' = AllErrors /\ Getting' = Getting
      /\ Seeking' = Seeking /\ Raised' = Raised /\ Unsought' = Unsought
  BY <1>1, <1>2, MoveCounts DEF One
<1> QED  BY <1>1, <1>2, <1>3 DEF Balanced, ByMode

LEMMA FindRowBalances ==
    ASSUME CounterInv, NEW r \in Requests, FindRow(r)
    PROVE  Balanced'
<1>1. TypeOK /\ Balanced /\ pc[r] = "row" /\ pc[r] \in Working
  BY DEF CounterInv, LookupInv, FindRow, Working
<1>2. /\ pc'[r] = "wantCities" /\ UNCHANGED <<body, results>>
      /\ \A q \in Requests \ {r} : pc'[q] = pc[q] /\ row'[q] = row[q]
  BY <1>1 DEF FindRow, TypeOK
<1>3. /\ Phones' = Phones /\ Missing' = Missing /\ AllErrors' = AllErrors /\ Getting' = Getting
      /\ Seeking' = Seeking - 1 /\ Raised' = Raised /\ Unsought' = Unsought
      /\ Phones \in Nat /\ Raised \in Nat /\ Getting \in Nat
      /\ Missing \in Nat /\ Seeking \in Nat /\ Unsought \in Nat /\ AllErrors \in Nat
  BY <1>1, <1>2, MoveCounts DEF One
<1> DEFINE m == Mode(Item(r))
<1>4. m \in Modes /\ Bump({m})
  BY <1>1, InHandOf DEF FindRow
<1> HIDE DEF m
<1>5. {m} \cap Modes = {m} /\ m \notin {"lookups", "errors", "misses", "hits"}
  BY <1>4 DEF Modes
<1>6. ByMode' = ByMode + 1
  BY <1>1, <1>4, <1>5, ModeCounted
<1>7. /\ counter'["lookups"] = counter["lookups"] /\ counter'["errors"] = counter["errors"]
      /\ counter'["hits"] = counter["hits"] /\ counter'["misses"] = counter["misses"]
  BY <1>1, <1>4, <1>5, Bumped, CounterTyped DEF One
<1>8. counter["lookups"] \in Nat /\ counter["hits"] \in Nat /\ counter["misses"] \in Nat /\ ByMode \in Nat
  BY <1>1, CounterTyped
<1> QED  BY <1>1, <1>3, <1>6, <1>7, <1>8 DEF Balanced

LEMMA FindNothingBalances ==
    ASSUME CounterInv, NEW r \in Requests, FindNothing(r)
    PROVE  Balanced'
<1>1. TypeOK /\ Capped /\ Balanced /\ pc[r] = "row" /\ pc[r] \in Working
  BY DEF CounterInv, LookupInv, FindNothing, Working
<1>2. Error("missing") \in Results /\ ~Error("missing").ok /\ Error("missing").error = "missing"
  BY DEF Error, Results, Errors
<1>3. Conclude(r, Error("missing")) /\ Bump({"errors"}) /\ UNCHANGED body
  BY DEF FindNothing
<1>4. /\ Phones' = Phones /\ Missing' = Missing + 1 /\ AllErrors' = AllErrors + 1 /\ Getting' = Getting
      /\ Seeking' = Seeking - 1 /\ Raised' = Raised /\ Unsought' = Unsought
      /\ Phones \in Nat /\ Raised \in Nat /\ Getting \in Nat
      /\ Missing \in Nat /\ Seeking \in Nat /\ Unsought \in Nat /\ AllErrors \in Nat
  BY <1>1, <1>2, <1>3, ConcludeCounts DEF One
<1>5. ByMode' = ByMode
  <2>1. {"errors"} \cap Modes = {}
    BY DEF Modes
  <2> QED  BY <1>1, <1>3, <2>1, ModeCounted
<1>6. /\ counter'["lookups"] = counter["lookups"] /\ counter'["errors"] = counter["errors"] + 1
      /\ counter'["hits"] = counter["hits"] /\ counter'["misses"] = counter["misses"]
  BY <1>1, <1>3, Bumped, CounterTyped DEF One
<1>7. /\ counter["lookups"] \in Nat /\ counter["hits"] \in Nat /\ counter["misses"] \in Nat
      /\ counter["errors"] \in Nat /\ ByMode \in Nat
  BY <1>1, CounterTyped
<1> QED  BY <1>1, <1>4, <1>5, <1>6, <1>7 DEF Balanced

LEMMA FindCitiesBalances ==
    ASSUME CounterInv, NEW r \in Requests, FindCities(r)
    PROVE  Balanced'
<1>1. TypeOK /\ Capped /\ Balanced /\ pc[r] = "cities" /\ pc[r] \in Working
  BY DEF CounterInv, LookupInv, FindCities, Working
<1>2. UNCHANGED <<body, counter>>
  BY DEF FindCities
<1> DEFINE i == Item(r)
           x == IF NeedsRow(i) THEN row[r] ELSE None
<1>3. PICK env \in EnvelopesFrom(i, x) :
         IF cacheUp THEN /\ envelope' = [envelope EXCEPT ![r] = env]
                         /\ pc' = [pc EXCEPT ![r] = "set"]
                         /\ UNCHANGED <<results, row, began>>
                    ELSE Conclude(r, Ok(env))
  BY DEF FindCities
<1>4. env \in Envelopes
  <2>1. i \in UsableItems /\ i \in Items /\ Usable(i)
    BY <1>1, InHandOf, UsableTyped DEF InHand
  <2>2. x \in RowsOrNone /\ EtlTypeOK
    BY <1>1 DEF TypeOK, RowsOrNone
  <2> HIDE DEF i, x
  <2> QED  BY <2>1, <2>2, EnvelopeTyped
<1>5. /\ Phones' = Phones /\ Missing' = Missing /\ AllErrors' = AllErrors /\ Getting' = Getting
      /\ Seeking' = Seeking /\ Raised' = Raised /\ Unsought' = Unsought
  <2>1. CASE cacheUp
    <3>1. /\ pc'[r] = "set" /\ UNCHANGED <<results, row>>
          /\ \A q \in Requests \ {r} : pc'[q] = pc[q]
      BY <1>1, <1>3, <2>1 DEF TypeOK
    <3> QED  BY <1>1, <1>2, <3>1, MoveCounts DEF One
  <2>2. CASE ~cacheUp
    <3>1. Conclude(r, Ok(env)) /\ Ok(env) \in Results /\ Ok(env).ok
      BY <1>3, <1>4, <2>2 DEF Ok, Results
    <3> QED  BY <1>1, <1>2, <3>1, ConcludeCounts DEF One
  <2> QED  BY <2>1, <2>2
<1> QED  BY <1>1, <1>2, <1>5 DEF Balanced, ByMode

LEMMA QueryErrorBalances ==
    ASSUME CounterInv, NEW r \in Requests, QueryError(r)
    PROVE  Balanced'
<1>1. TypeOK /\ RowUnread /\ Balanced /\ pc[r] \in {"wantRow", "row", "wantCities", "cities"} /\ pc[r] \in Working
  BY DEF CounterInv, LookupInv, QueryError, Working
<1>2. /\ pc'[r] = "failed" /\ UNCHANGED <<body, results, row, counter>> /\ Item(r)' = Item(r)
      /\ \A q \in Requests \ {r} : pc'[q] = pc[q]
  BY <1>1 DEF QueryError, TypeOK, Item
<1>3. NeedsRow(Item(r)) /\ row[r] = None <=> pc[r] \in {"wantRow", "row"}
  <2>1. pc[r] \in {"wantRow", "row"} => row[r] = None /\ NeedsRow(Item(r))
    BY <1>1, InHandOf DEF RowUnread, InHand
  <2>2. pc[r] \in {"wantCities", "cities"} => ~(NeedsRow(Item(r)) /\ row[r] = None)
    BY <1>1, InHandOf
  <2> QED  BY <1>1, <2>1, <2>2
<1>4. /\ Phones' = Phones /\ Missing' = Missing /\ AllErrors' = AllErrors /\ Getting' = Getting
      /\ Seeking' = Seeking - One(pc[r] \in {"wantRow", "row"})
      /\ Raised' = Raised /\ Unsought' = Unsought + One(pc[r] \in {"wantRow", "row"})
      /\ Raised \in Nat /\ Missing \in Nat /\ Seeking \in Nat /\ Unsought \in Nat
  BY <1>1, <1>2, <1>3, MoveCounts DEF One
<1>5. ByMode' = ByMode /\ ByMode \in Nat /\ One(pc[r] \in {"wantRow", "row"}) \in Nat
  BY <1>1, <1>2, CounterTyped DEF ByMode, One
<1> QED  BY <1>1, <1>2, <1>4, <1>5 DEF Balanced

LEMMA CacheSetBalances ==
    ASSUME CounterInv, NEW r \in Requests, CacheSet(r)
    PROVE  Balanced'
<1>1. TypeOK /\ Capped /\ Balanced /\ pc[r] = "set" /\ pc[r] \in Working
  BY DEF CounterInv, LookupInv, CacheSet, Working
<1>2. Conclude(r, Ok(envelope[r])) /\ UNCHANGED <<body, counter>>
  BY DEF CacheSet
<1>3. Ok(envelope[r]) \in Results /\ Ok(envelope[r]).ok
  BY <1>1, InHandOf DEF InHand, Ok, Results
<1>4. /\ Phones' = Phones /\ Missing' = Missing /\ AllErrors' = AllErrors /\ Getting' = Getting
      /\ Seeking' = Seeking /\ Raised' = Raised /\ Unsought' = Unsought
  BY <1>1, <1>2, <1>3, ConcludeCounts DEF One
<1> QED  BY <1>1, <1>2, <1>4 DEF Balanced, ByMode

LEMMA ArriveBalances ==
    ASSUME CounterInv, NEW r \in Requests, NEW b \in Bodies, Arrive(r, b)
    PROVE  Balanced'
<1>1. TypeOK /\ Balanced /\ pc[r] = "new"
  BY DEF CounterInv, LookupInv, Arrive
<1>2. /\ pc'[r] \in {"rejected", "answered", "next"} /\ UNCHANGED <<results, row, counter>>
      /\ \A q \in Requests \ {r} : pc'[q] = pc[q] /\ body'[q] = body[q]
  BY <1>1 DEF Arrive, TypeOK
<1>3. /\ Phones' = Phones /\ Missing' = Missing /\ AllErrors' = AllErrors /\ Getting' = Getting
      /\ Seeking' = Seeking /\ Raised' = Raised /\ Unsought' = Unsought
  BY <1>1, <1>2, MoveCounts DEF One
<1> QED  BY <1>1, <1>2, <1>3 DEF Balanced, ByMode

\* Counters and sets start from nothing, at the first boot and at every other.
Blank == /\ \A r \in Requests : pc[r] \in {"new", "gone"} /\ results[r] = <<>>
         /\ counter = [c \in Counters |-> 0]

LEMMA BlankBalances == Blank => Balanced
<1> SUFFICES ASSUME Blank PROVE Balanced
  OBVIOUS
<1> USE DEF Blank
<1>1. Positions = {}
  BY AnswersAssumption DEF Positions
<1>2. Erroneous = {} /\ \A code : EndedWith(code) = {}
  BY <1>1 DEF Erroneous, EndedWith
<1>3. AtGet = {} /\ AtRow = {} /\ Unkeyed = {} /\ RowFailed = {}
  BY DEF AtGet, AtRow, Unkeyed, RowFailed, WaitingAt
<1>4. /\ Phones = 0 /\ Missing = 0 /\ AllErrors = 0
      /\ Getting = 0 /\ Seeking = 0 /\ Raised = 0 /\ Unsought = 0
  BY <1>2, <1>3, FS_EmptySet DEF Phones, Missing, AllErrors, Getting, Seeking, Raised, Unsought
<1>5. \A c \in Counters : counter[c] = 0
  OBVIOUS
<1>6. {"lookups", "errors", "hits", "misses", "phone", "ip", "coords", "fallback"} = Counters
  BY DEF Counters, Modes
<1> QED  BY <1>4, <1>5, <1>6 DEF Balanced, ByMode

LEMMA RestartBalances == Restart => Balanced'
<1>1. Restart => Blank'
  BY DEF Restart, Blank
<1>2. Blank' => Balanced'
  BY BlankBalances, PTL
<1> QED  BY <1>1, <1>2

LEMMA UnchangedBalances ==
    ASSUME Balanced, UNCHANGED serviceVars
    PROVE  Balanced'
<1>1. UNCHANGED <<pc, body, results, row, counter>>
  BY DEF serviceVars
<1>2. \A code : EndedWith(code)' = EndedWith(code)
  BY <1>1 DEF EndedWith, Positions
<1>3. Erroneous' = Erroneous
  BY <1>2, Zenon DEF Erroneous
<1>4. \A r : Item(r)' = Item(r)
  BY <1>1 DEF Item
<1>5. AtGet' = AtGet /\ AtRow' = AtRow /\ Unkeyed' = Unkeyed /\ RowFailed' = RowFailed
  BY <1>1, <1>4 DEF AtGet, AtRow, Unkeyed, RowFailed, WaitingAt
<1> QED
  BY <1>1, <1>2, <1>3, <1>5
     DEF Balanced, ByMode, Phones, Missing, AllErrors, Getting, Seeking, Raised, Unsought

-----------------------------------------------------------------------------
(* The other two conjuncts.                                                *)

LEMMA CappedStep ==
    ASSUME TypeOK, Capped, [Next]_vars
    PROVE  Capped'
<1>1. ASSUME NEW r \in Requests, NEW b \in Bodies, Arrive(r, b) PROVE Capped'
  <2>1. pc'[r] \in Working \cup {"next"} => Len(body'[r].items) <= BatchCap
    <3>1. CASE Len(b.items) > BatchCap
      BY <1>1, <3>1 DEF Arrive, TypeOK, Working
    <3>2. CASE ~(Len(b.items) > BatchCap)
      <4>1. Len(b.items) \in Nat /\ BatchCap \in Nat
        BY AnswersAssumption
      <4>2. body'[r] = b
        BY <1>1 DEF Arrive, TypeOK
      <4> QED  BY <3>2, <4>1, <4>2
    <3> QED  BY <3>1, <3>2
  <2>2. \A q \in Requests \ {r} : pc'[q] = pc[q] /\ body'[q] = body[q]
    BY <1>1 DEF Arrive, TypeOK
  <2> QED  BY <2>1, <2>2 DEF Capped
<1>2. ASSUME UNCHANGED body,
             \A q \in Requests : pc'[q] \in Working \cup {"next"} => pc[q] \in Working \cup {"next"}
      PROVE  Capped'
  BY <1>2 DEF Capped
<1>3. ASSUME NEW r \in Requests, Step(r) PROVE Capped'
  <2>1. UNCHANGED body
    BY <1>3 DEF Step, Refuse, KeyError, Start, CacheHit, UnreadableHit, CacheMiss, Acquire,
                FindRow, FindNothing, FindCities, QueryError, CacheSet
  <2>2. pc[r] \in Working \cup {"next"}
    BY <1>3 DEF Step, Refuse, KeyError, Start, CacheHit, UnreadableHit, CacheMiss, Acquire,
                FindRow, FindNothing, FindCities, QueryError, CacheSet, Working
  <2>3. \E x : pc' = [pc EXCEPT ![r] = x]
    BY <1>3 DEF Step, Refuse, KeyError, Start, CacheHit, UnreadableHit, CacheMiss, Acquire,
                FindRow, FindNothing, FindCities, QueryError, CacheSet, Conclude
  <2> QED  BY <1>2, <2>1, <2>2, <2>3 DEF TypeOK
<1>4. CASE Restart
  BY <1>4 DEF Restart, Capped, Working
<1>5. ASSUME UNCHANGED serviceVars PROVE Capped'
  BY <1>2, <1>5 DEF serviceVars
<1>6. ASSUME NEW k \in CacheKeys, Evict(k) PROVE Capped'
  BY <1>5, <1>6 DEF Evict
<1>7. CASE Tick \/ EtlStep \/ UNCHANGED vars
  BY <1>5, <1>7 DEF Tick, EtlStep, vars, lookupVars
<1> QED  BY <1>1, <1>3, <1>4, <1>6, <1>7 DEF Next

LEMMA RowUnreadStep ==
    ASSUME TypeOK, RowUnread, [Next]_vars
    PROVE  RowUnread'
<1> DEFINE Early == {"new", "next", "get", "wantRow", "row"}
<1>1. ASSUME UNCHANGED row, \A q \in Requests : pc'[q] \in Early => pc[q] \in Early
      PROVE  RowUnread'
  BY <1>1 DEF RowUnread
<1>2. ASSUME NEW r \in Requests, NEW result, Conclude(r, result) PROVE RowUnread'
  BY <1>2 DEF Conclude, TypeOK, RowUnread
<1>3. ASSUME NEW r \in Requests, Step(r) PROVE RowUnread'
  <2>1. CASE Refuse(r) \/ CacheHit(r) \/ FindNothing(r) \/ CacheSet(r)
    BY <1>2, <2>1 DEF Refuse, CacheHit, FindNothing, CacheSet
  <2>2. CASE KeyError(r) \/ UnreadableHit(r) \/ QueryError(r)
    BY <1>1, <2>2 DEF KeyError, UnreadableHit, QueryError, TypeOK
  <2>3. CASE Start(r) \/ CacheMiss(r)
    BY <1>1, <2>3 DEF Start, CacheMiss, AfterMiss, TypeOK
  <2>4. CASE Acquire(r)
    BY <1>1, <2>4 DEF Acquire, TypeOK
  <2>5. CASE FindRow(r)
    BY <2>5 DEF FindRow, TypeOK, RowUnread
  <2>6. CASE FindCities(r)
    <3>1. CASE cacheUp
      BY <1>1, <2>6, <3>1 DEF FindCities, TypeOK
    <3>2. CASE ~cacheUp
      BY <1>2, <2>6, <3>2 DEF FindCities
    <3> QED  BY <3>1, <3>2
  <2> QED  BY <1>3, <2>1, <2>2, <2>3, <2>4, <2>5, <2>6 DEF Step
<1>4. ASSUME NEW r \in Requests, NEW b \in Bodies, Arrive(r, b) PROVE RowUnread'
  BY <1>1, <1>4 DEF Arrive, TypeOK
<1>5. CASE Restart
  BY <1>5 DEF Restart, RowUnread
<1>6. ASSUME UNCHANGED serviceVars PROVE RowUnread'
  BY <1>1, <1>6 DEF serviceVars
<1>7. ASSUME NEW k \in CacheKeys, Evict(k) PROVE RowUnread'
  BY <1>6, <1>7 DEF Evict
<1>8. CASE Tick \/ EtlStep \/ UNCHANGED vars
  BY <1>6, <1>8 DEF Tick, EtlStep, vars, lookupVars
<1> QED  BY <1>3, <1>4, <1>5, <1>7, <1>8 DEF Next

LEMMA BalancedStep ==
    ASSUME CounterInv, [Next]_vars
    PROVE  Balanced'
<1>1. ASSUME NEW r \in Requests, Step(r) PROVE Balanced'
  BY <1>1, RefuseBalances, KeyErrorBalances, StartBalances, CacheHitBalances,
     UnreadableHitBalances, CacheMissBalances, AcquireBalances, FindRowBalances,
     FindNothingBalances, FindCitiesBalances, QueryErrorBalances, CacheSetBalances DEF Step
<1>2. ASSUME UNCHANGED serviceVars PROVE Balanced'
  BY <1>2, UnchangedBalances DEF CounterInv
<1>3. ASSUME NEW k \in CacheKeys, Evict(k) PROVE Balanced'
  BY <1>2, <1>3 DEF Evict
<1>4. CASE Tick \/ EtlStep \/ UNCHANGED vars
  BY <1>2, <1>4 DEF Tick, EtlStep, vars, lookupVars
<1> QED  BY <1>1, <1>3, <1>4, ArriveBalances, RestartBalances DEF Next

-----------------------------------------------------------------------------
(* The theorems.                                                           *)

\* The inductive invariant of the counters.
THEOREM CounterInvariant == Spec => []CounterInv
<1>1. Init /\ LookupInv => CounterInv
  <2> SUFFICES ASSUME Init, LookupInv PROVE CounterInv
    OBVIOUS
  <2>1. Blank
    BY DEF Init, Blank
  <2>2. Capped /\ RowUnread
    BY DEF Init, Capped, RowUnread, Working
  <2> QED  BY <2>1, <2>2, BlankBalances DEF CounterInv
<1>2. CounterInv /\ LookupInv' /\ [Next]_vars => CounterInv'
  <2> SUFFICES ASSUME CounterInv, LookupInv', [Next]_vars PROVE CounterInv'
    OBVIOUS
  <2>1. TypeOK /\ Capped /\ RowUnread
    BY DEF CounterInv, LookupInv
  <2> QED  BY <2>1, CappedStep, RowUnreadStep, BalancedStep DEF CounterInv
<1> QED  BY <1>1, <1>2, LookupInvariant, PTL DEF Spec

\* Every counted lookup is a hit, a miss, one of the refusals that come after
\* the count, or on its way to the cache.
THEOREM HitsAndMissesAddUp == Spec => []HitsAndMissesBalance
<1>1. CounterInv => HitsAndMissesBalance
  BY DEF CounterInv, Balanced, HitsAndMissesBalance, Phones, Raised, Getting, Unkeyed, AtGet
<1> QED  BY <1>1, CounterInvariant, PTL

\* The modes break the hits and the misses out without loss.
THEOREM ModesAddUp == Spec => []ModesBalance
<1>1. CounterInv => ModesBalance
  BY DEF CounterInv, Balanced, ModesBalance, ByMode, Missing, Seeking, Unsought, AtRow, RowFailed
<1> QED  BY <1>1, CounterInvariant, PTL

\* The errors counted are the items answered with an error.
THEOREM ErrorsAddUp == Spec => []ErrorsBalance
<1>1. CounterInv => ErrorsBalance
  BY DEF CounterInv, Balanced, ErrorsBalance, AllErrors, Erroneous
<1> QED  BY <1>1, CounterInvariant, PTL
=============================================================================
