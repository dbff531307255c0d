---------------------------- MODULE AnswerProofs ----------------------------
(***************************************************************************)
(* Proofs about what is in an answer: that the number it repeats can be    *)
(* asked for in place of the one it was asked with, for any texts; and     *)
(* that, while the tables are left alone, it lists the nearest towns.      *)
(***************************************************************************)
EXTENDS LookupProofs, WellFoundedInduction

-----------------------------------------------------------------------------
(* Induction.  The library states it for an operator; the provers can use  *)
(* it for a set.                                                           *)

LEMMA Least ==
    ASSUME NEW S, S \subseteq Nat, S # {}
    PROVE  \E m \in S : \A n \in S : m <= n
<1> DEFINE R == {pair \in Nat \X Nat : pair[1] < pair[2]}
<1>1. IsWellFoundedOn(R, Nat)
  BY NatLessThanWellFounded DEF OpToRel
<1>2. \A m, n \in Nat : <<m, n>> \in R <=> m < n
  OBVIOUS
<1> HIDE DEF R
<1>3. PICK m \in S : \A n \in S : <<n, m>> \notin R
  BY <1>1, WFMin
<1>4. ASSUME NEW n \in S PROVE m <= n
  <2>1. m \in Nat /\ n \in Nat /\ ~(n < m)
    BY <1>2, <1>3
  <2> QED  BY <2>1
<1> QED  BY <1>4

\* What the first number has, and each next one after its predecessor, all have.
LEMMA UpTo ==
    ASSUME NEW last \in Nat, NEW S, 0 \in S,
           \A n \in 1 .. last : n - 1 \in S => n \in S
    PROVE  0 .. last \subseteq S
<1> SUFFICES ASSUME (0 .. last) \ S # {} PROVE FALSE
  OBVIOUS
<1>1. PICK m \in (0 .. last) \ S : \A n \in (0 .. last) \ S : m <= n
  <2>1. (0 .. last) \ S \subseteq Nat
    OBVIOUS
  <2> QED  BY <2>1, Least
<1>2. m \in 1 .. last
  BY <1>1
<1>3. m - 1 \in S
  BY <1>1, <1>2
<1> QED  BY <1>1, <1>2, <1>3

-----------------------------------------------------------------------------
(* Numbers.                                                                *)

\* The equation that defines DigitsAmong.
DigitsAt(raw, kept, n) ==
    IF n = 0 THEN <<>>
    ELSE IF raw[n] = NoDigit THEN kept[n - 1] ELSE Append(kept[n - 1], raw[n])

LEMMA DigitsExist ==
    ASSUME NEW raw, Len(raw) \in Nat
    PROVE  \E f : f = [n \in 0 .. Len(raw) |-> DigitsAt(raw, f, n)]
<1> DEFINE Defined == {m \in 0 .. Len(raw) : \E f : f = [n \in 0 .. m |-> DigitsAt(raw, f, n)]}
<1>1. 0 \in Defined
  <2>1. [n \in 0 .. 0 |-> <<>>] = [n \in 0 .. 0 |-> DigitsAt(raw, [l \in 0 .. 0 |-> <<>>], n)]
    BY DEF DigitsAt
  <2> QED  BY <2>1
<1>2. ASSUME NEW m \in 1 .. Len(raw), m - 1 \in Defined PROVE m \in Defined
  <2>1. PICK f : f = [n \in 0 .. m - 1 |-> DigitsAt(raw, f, n)]
    BY <1>2
  <2> DEFINE g == [n \in 0 .. m |-> IF n = m THEN DigitsAt(raw, f, m) ELSE f[n]]
  <2>2. \A n \in 0 .. m - 1 : g[n] = f[n]
    BY <1>2
  <2>3. \A n \in 0 .. m : g[n] = DigitsAt(raw, g, n)
    <3>1. ASSUME NEW n \in 0 .. m, n # m PROVE g[n] = DigitsAt(raw, g, n)
      <4>1. f[n] = DigitsAt(raw, f, n)
        BY <2>1, <3>1
      <4>2. n # 0 => g[n - 1] = f[n - 1]
        BY <2>2, <3>1
      <4> QED  BY <2>2, <3>1, <4>1, <4>2 DEF DigitsAt
    <3>2. g[m] = DigitsAt(raw, g, m)
      <4>1. g[m - 1] = f[m - 1]
        BY <2>2
      <4>2. g[m] = DigitsAt(raw, f, m)
        OBVIOUS
      <4> HIDE DEF g
      <4> QED  BY <4>1, <4>2 DEF DigitsAt
    <3> QED  BY <3>1, <3>2
  <2>4. g = [n \in 0 .. m |-> DigitsAt(raw, g, n)]
    <3>1. g = [n \in 0 .. m |-> g[n]]
      OBVIOUS
    <3> HIDE DEF g
    <3> QED  BY <2>3, <3>1
  <2> HIDE DEF g
  <2> QED  BY <2>4
<1> HIDE DEF Defined
<1>3. 0 .. Len(raw) \subseteq Defined
  BY <1>1, <1>2, UpTo
<1>4. Len(raw) \in Defined
  BY <1>3
<1> QED  BY <1>4 DEF Defined

LEMMA DigitsAre ==
    ASSUME NEW raw, Len(raw) \in Nat
    PROVE  LET kept == DigitsAmong(raw) IN
           /\ kept[0] = <<>>
           /\ \A n \in 1 .. Len(raw) :
                 kept[n] = IF raw[n] = NoDigit THEN kept[n - 1] ELSE Append(kept[n - 1], raw[n])
<1> DEFINE kept == DigitsAmong(raw)
<1>1. kept = CHOOSE f : f = [n \in 0 .. Len(raw) |-> DigitsAt(raw, f, n)]
  BY DEF DigitsAmong, DigitsAt
<1>2. kept = [n \in 0 .. Len(raw) |-> DigitsAt(raw, kept, n)]
  <2> HIDE DEF kept
  <2> QED  BY <1>1, DigitsExist
<1> HIDE DEF kept
<1>3. \A n \in 0 .. Len(raw) : kept[n] = DigitsAt(raw, kept, n)
  BY <1>2
<1> QED  BY <1>3 DEF DigitsAt, kept

\* Only digits are left.
LEMMA OnlyDigitsLeft ==
    ASSUME NEW raw \in Seq(0 .. NoDigit)
    PROVE  Digits(raw) \in Seq((0 .. NoDigit) \ {NoDigit})
<1> DEFINE kept == DigitsAmong(raw)
           D == (0 .. NoDigit) \ {NoDigit}
           Clean == {n \in 0 .. Len(raw) : kept[n] \in Seq(D)}
<1>0. Len(raw) \in Nat /\ \A n \in 1 .. Len(raw) : raw[n] \in 0 .. NoDigit
  BY LenProperties, ElementOfSeq
<1>1. /\ kept[0] = <<>>
      /\ \A n \in 1 .. Len(raw) :
            kept[n] = IF raw[n] = NoDigit THEN kept[n - 1] ELSE Append(kept[n - 1], raw[n])
  BY <1>0, DigitsAre
<1> HIDE DEF kept, D
<1>2. 0 \in Clean
  <2>1. 0 \in 0 .. Len(raw)
    BY <1>0
  <2> QED  BY <1>1, <2>1, EmptySeq
<1>3. ASSUME NEW n \in 1 .. Len(raw), n - 1 \in Clean PROVE n \in Clean
  <2>1. kept[n - 1] \in Seq(D)
    BY <1>3
  <2>2. CASE raw[n] = NoDigit
    BY <1>1, <2>1, <2>2
  <2>3. CASE raw[n] # NoDigit
    <3>1. raw[n] \in D
      BY <1>0, <2>3 DEF D
    <3>2. Append(kept[n - 1], raw[n]) \in Seq(D)
      BY <2>1, <3>1, AppendProperties
    <3>3. kept[n] = Append(kept[n - 1], raw[n])
      BY <1>1, <2>3
    <3>4. kept[n] \in Seq(D)
      BY <3>2, <3>3, Zenon
    <3>5. n \in 0 .. Len(raw)
      BY <1>0
    <3> QED  BY <3>4, <3>5
  <2> QED  BY <2>2, <2>3
<1> HIDE DEF Clean
<1>4. 0 .. Len(raw) \subseteq Clean
  BY <1>0, <1>2, <1>3, UpTo
<1>5. Len(raw) \in Clean
  BY <1>0, <1>4
<1> QED  BY <1>5 DEF Clean, Digits, kept, D

\* What is put in front of a number is taken off again.
LEMMA DigitsOfE164 ==
    ASSUME NEW number \in Seq((0 .. NoDigit) \ {NoDigit})
    PROVE  /\ Len(Digits(E164(number))) = Len(number) + 1
           /\ Digits(E164(number))[1] = 1
           /\ \A k \in 1 .. Len(number) : Digits(E164(number))[k + 1] = number[k]
           /\ Digits(E164(number)) \in Seq(0 .. NoDigit)
<1> DEFINE raw == E164(number)
           kept == DigitsAmong(raw)
           Right == {n \in 0 .. Len(number) : /\ kept[n + 2] \in Seq(0 .. NoDigit)
                                              /\ Len(kept[n + 2]) = n + 1
                                              /\ kept[n + 2][1] = 1
                                              /\ \A k \in 1 .. n : kept[n + 2][k + 1] = number[k]}
<1>0. /\ Len(raw) = Len(number) + 2 /\ Len(number) \in Nat
      /\ raw[1] = NoDigit /\ raw[2] = 1
      /\ \A k \in 1 .. Len(number) : raw[k + 2] = number[k] /\ number[k] # NoDigit /\ number[k] \in 0 .. NoDigit
      /\ 1 \in 0 .. NoDigit /\ 1 # NoDigit
  BY DEF E164, NoDigit
<1> HIDE DEF raw
<1>1. /\ kept[0] = <<>>
      /\ \A n \in 1 .. Len(raw) :
            kept[n] = IF raw[n] = NoDigit THEN kept[n - 1] ELSE Append(kept[n - 1], raw[n])
  BY <1>0, DigitsAre
<1> HIDE DEF kept
<1>2. 0 \in Right
  <2>0. 1 \in 1 .. Len(raw) /\ 2 \in 1 .. Len(raw)
    BY <1>0
  <2>1. kept[1] = <<>>
    <3>1. kept[1] = kept[1 - 1]
      BY <1>0, <1>1, <2>0
    <3> QED  BY <1>1, <3>1
  <2>2. kept[2] = Append(<<>>, 1)
    <3>1. kept[2] = Append(kept[2 - 1], raw[2])
      BY <1>0, <1>1, <2>0
    <3>2. 2 - 1 = 1
      OBVIOUS
    <3> QED  BY <1>0, <2>1, <3>1, <3>2, Zenon
  <2>3. kept[2] \in Seq(0 .. NoDigit) /\ Len(kept[2]) = 1 /\ kept[2][1] = 1
    <3>1. <<>> \in Seq(0 .. NoDigit) /\ Len(<<>>) = 0
      BY EmptySeq
    <3> QED  BY <1>0, <2>2, <3>1, AppendProperties
  <2>4. 0 \in 0 .. Len(number) /\ 0 + 2 = 2 /\ 0 + 1 = 1
    BY <1>0
  <2> QED  BY <2>3, <2>4
<1>3. ASSUME NEW n \in 1 .. Len(number), n - 1 \in Right PROVE n \in Right
  <2>1. /\ kept[n + 1] \in Seq(0 .. NoDigit) /\ Len(kept[n + 1]) = n /\ kept[n + 1][1] = 1
        /\ \A k \in 1 .. n - 1 : kept[n + 1][k + 1] = number[k]
    <3>1. n - 1 + 2 = n + 1 /\ n - 1 + 1 = n
      OBVIOUS
    <3> QED  BY <1>3, <3>1
  <2>2. kept[n + 2] = Append(kept[n + 1], number[n])
    <3>1. n + 2 \in 1 .. Len(raw) /\ n + 2 - 1 = n + 1 /\ raw[n + 2] = number[n] /\ number[n] # NoDigit
      BY <1>0
    <3>2. \A m \in 1 .. Len(raw) : raw[m] # NoDigit => kept[m] = Append(kept[m - 1], raw[m])
      BY <1>1
    <3> DEFINE m == n + 2
    <3>3. m \in 1 .. Len(raw) /\ raw[m] = number[n] /\ number[n] # NoDigit /\ m - 1 = n + 1
      BY <3>1
    <3> HIDE DEF m
    <3>4. kept[m] = Append(kept[m - 1], raw[m])
      BY <3>2, <3>3, Zenon
    <3>5. kept[m] = Append(kept[n + 1], number[n])
      BY <3>3, <3>4, Zenon
    <3> QED  BY <3>5 DEF m
  <2>3. /\ kept[n + 2] \in Seq(0 .. NoDigit) /\ Len(kept[n + 2]) = n + 1
        /\ \A k \in 1 .. n : kept[n + 2][k] = kept[n + 1][k]
        /\ kept[n + 2][n + 1] = number[n]
    <3>1. number[n] \in 0 .. NoDigit
      BY <1>0
    <3> HIDE DEF raw
    <3>2. /\ Append(kept[n + 1], number[n]) \in Seq(0 .. NoDigit)
          /\ Len(Append(kept[n + 1], number[n])) = Len(kept[n + 1]) + 1
          /\ \A k \in 1 .. Len(kept[n + 1]) : Append(kept[n + 1], number[n])[k] = kept[n + 1][k]
          /\ Append(kept[n + 1], number[n])[Len(kept[n + 1]) + 1] = number[n]
      BY <2>1, <3>1, AppendProperties
    <3>3. Append(kept[n + 1], number[n]) = kept[n + 2] /\ Len(kept[n + 1]) = n
      BY <2>1, <2>2, Zenon
    <3> QED  BY <3>2, <3>3, Zenon
  <2>4. kept[n + 2][1] = 1
    <3>1. 1 \in 1 .. n
      BY <1>0
    <3> QED  BY <2>1, <2>3, <3>1, Zenon
  <2>5. ASSUME NEW k \in 1 .. n PROVE kept[n + 2][k + 1] = number[k]
    <3>1. CASE k = n
      BY <2>3, <3>1
    <3>2. CASE k # n
      <4>1. k + 1 \in 1 .. n /\ k \in 1 .. n - 1
        BY <1>0, <3>2
      <4>2. kept[n + 2][k + 1] = kept[n + 1][k + 1]
        BY <2>3, <4>1
      <4> QED  BY <2>1, <4>1, <4>2
    <3> QED  BY <3>1, <3>2
  <2> QED  BY <2>3, <2>4, <2>5
<1> HIDE DEF Right
<1>4. 0 .. Len(number) \subseteq Right
  BY <1>0, <1>2, <1>3, UpTo
<1>5. Len(number) \in Right
  BY <1>0, <1>4
<1>6. Digits(raw) = kept[Len(number) + 2]
  BY <1>0 DEF Digits, kept
<1> QED  BY <1>5, <1>6 DEF Right, raw

\* A number, once parsed, parses to itself in the E.164 form in which an answer
\* repeats it, whatever the text it came from (phone.py:61-78).
THEOREM NumberParses ==
    ASSUME NEW text \in PhoneTexts, Parsed[text] # None
    PROVE  Parse(E164(Parsed[text])) = Parsed[text]
<1> DEFINE D == (0 .. NoDigit) \ {NoDigit}
           digits == Digits(text)
           number == National(digits)
<1>1. digits \in Seq(D)
  BY InputAssumption, OnlyDigitsLeft
<1> HIDE DEF digits
<1>2. number \in Seq(D)
  BY <1>1 DEF National
<1>3. Parsed[text] = number /\ Len(number) = 10
  BY DEF Parsed, Parse, digits
<1> HIDE DEF number
<1>4. /\ Len(Digits(E164(number))) = 11
      /\ Digits(E164(number))[1] = 1
      /\ \A k \in 1 .. 10 : Digits(E164(number))[k + 1] = number[k]
      /\ Digits(E164(number)) \in Seq(0 .. NoDigit)
  <2>1. Len(number) + 1 = 11
    BY <1>3
  <2> QED  BY <1>2, <1>3, <2>1, DigitsOfE164
<1>5. National(Digits(E164(number))) = number
  <2>1. National(Digits(E164(number))) = Tail(Digits(E164(number)))
    BY <1>4 DEF National
  <2> DEFINE longer == Digits(E164(number))
  <2>2. longer \in Seq(0 .. NoDigit) /\ Len(longer) = 11 /\ \A k \in 1 .. 10 : longer[k + 1] = number[k]
    BY <1>4
  <2> HIDE DEF longer
  <2>3. longer # <<>>
    <3>1. Len(<<>>) = 0
      BY EmptySeq
    <3>2. Len(longer) # Len(<<>>)
      BY <2>2, <3>1
    <3> QED  BY <3>2, Zenon
  <2>4. /\ Tail(longer) \in Seq(0 .. NoDigit) /\ Len(Tail(longer)) = 10
        /\ \A k \in 1 .. 10 : Tail(longer)[k] = number[k]
    <3>1. /\ Tail(longer) \in Seq(0 .. NoDigit) /\ Len(Tail(longer)) = Len(longer) - 1
          /\ \A k \in 1 .. Len(Tail(longer)) : Tail(longer)[k] = longer[k + 1]
      BY <2>2, <2>3, HeadTailProperties
    <3>2. Len(longer) - 1 = 10
      BY <2>2
    <3> QED  BY <2>2, <3>1, <3>2, Zenon
  <2>5. number \in Seq(0 .. NoDigit)
    <3>1. D \subseteq 0 .. NoDigit
      OBVIOUS
    <3> QED  BY <1>2, <3>1, SeqMonotonic
  <2>6. Tail(longer) = number
    BY <1>3, <2>4, <2>5, SeqEqual
  <2> QED  BY <2>1, <2>6 DEF longer
<1> QED  BY <1>3, <1>5 DEF Parse

-----------------------------------------------------------------------------
(* Where an outcome comes from.                                            *)

\* The step that gives request r this outcome of its current item.
Resolves(r, result) ==
    result.ok => \/ CacheHit(r) /\ result.response = cache[CacheKey(Item(r))].response
                 \/ /\ FindCities(r)
                    /\ result.response \in EnvelopesFrom(Item(r), IF NeedsRow(Item(r)) THEN row[r] ELSE None)
                 \/ CacheSet(r) /\ result.response = envelope[r]

\* The n-th outcome of r is the one this step adds.
Added(r, n) ==
    /\ n = Len(results[r]) + 1
    /\ body'[r] = body[r] /\ body[r] \in Bodies /\ n \in DOMAIN body[r].items
    /\ Resolves(r, results'[r][n])

LEMMA ConcludeAdds ==
    ASSUME TypeOK, NEW r \in Requests, NEW result, pc[r] \in Working \cup {"next"},
           Conclude(r, result), UNCHANGED body, Resolves(r, result),
           NEW n \in DOMAIN results'[r]
    PROVE  (n \in DOMAIN results[r] /\ results'[r][n] = results[r][n]) \/ Added(r, n)
<1>1. results[r] \in Seq(Results) /\ Len(results[r]) < Len(body[r].items)
  BY DEF TypeOK
<1>2. results'[r] = Append(results[r], result)
  BY DEF Conclude, TypeOK
<1>3. n \in DOMAIN results[r] \/ n = Len(results[r]) + 1
  BY <1>1, <1>2
<1>4. CASE n \in DOMAIN results[r]
  BY <1>1, <1>2, <1>4
<1>5. CASE n = Len(results[r]) + 1
  <2>1. results'[r][n] = result
    BY <1>1, <1>2, <1>5
  <2>2. body[r] \in Bodies
    BY <1>1, ItemTyped
  <2>3. body[r].items \in Seq(Items)
    BY <2>2, AnswersAssumption
  <2>4. n \in DOMAIN body[r].items
    BY <1>1, <1>5, <2>3
  <2> QED  BY <1>5, <2>1, <2>2, <2>4 DEF Added
<1> QED  BY <1>3, <1>4, <1>5

LEMMA OutcomeKeptOrAdded ==
    ASSUME TypeOK, NothingAnsweredYet, [Next]_vars, NEW q \in Requests, NEW n \in DOMAIN results'[q]
    PROVE  \/ n \in DOMAIN results[q] /\ results'[q][n] = results[q][n] /\ body'[q] = body[q]
           \/ Added(q, n)
<1>1. CASE UNCHANGED <<body, results>>
  BY <1>1
<1>2. ASSUME NEW r \in Requests, NEW b \in Bodies, Arrive(r, b)
      PROVE  n \in DOMAIN results[q] /\ results'[q][n] = results[q][n] /\ body'[q] = body[q]
  <2>1. results[r] = <<>> /\ results' = results
    BY <1>2 DEF Arrive, NothingAnsweredYet
  <2>2. q # r
    <3>1. n \in DOMAIN results[q]
      BY <2>1
    <3>2. DOMAIN <<>> = {}
      OBVIOUS
    <3> QED  BY <2>1, <3>1, <3>2, Zenon
  <2> QED  BY <1>2, <2>1, <2>2 DEF Arrive, TypeOK
<1>3. ASSUME NEW result, Conclude(q, result), UNCHANGED body, pc[q] \in Working \cup {"next"},
             Resolves(q, result)
      PROVE  \/ n \in DOMAIN results[q] /\ results'[q][n] = results[q][n] /\ body'[q] = body[q]
             \/ Added(q, n)
  BY <1>3, ConcludeAdds
<1>4. ASSUME NEW r \in Requests, Step(r), r # q
      PROVE  n \in DOMAIN results[q] /\ results'[q][n] = results[q][n] /\ body'[q] = body[q]
  BY <1>4, OwnResultsOnly
<1>5. CASE Refuse(q)
  <2>1. PICK code : Conclude(q, Error(code))
    BY <1>5 DEF Refuse
  <2>2. Resolves(q, Error(code))
    BY DEF Resolves, Error
  <2> QED  BY <1>3, <1>5, <2>1, <2>2 DEF Refuse
<1>6. CASE CacheHit(q)
  <2> DEFINE env == cache[CacheKey(Item(q))].response
  <2>1. Resolves(q, Ok(env))
    BY <1>6 DEF Resolves, Ok
  <2>2. Conclude(q, Ok(env)) /\ UNCHANGED body /\ pc[q] \in Working
    BY <1>6 DEF CacheHit, Working
  <2> QED  BY <1>3, <2>1, <2>2
<1>7. CASE FindNothing(q)
  <2>1. Resolves(q, Error("missing"))
    BY DEF Resolves, Error
  <2> QED  BY <1>3, <1>7, <2>1 DEF FindNothing, Working
<1>8. CASE FindCities(q)
  <2>1. PICK env \in EnvelopesFrom(Item(q), IF NeedsRow(Item(q)) THEN row[q] ELSE None) :
            Conclude(q, Ok(env)) \/ UNCHANGED results
    BY <1>8 DEF FindCities
  <2>2. Resolves(q, Ok(env))
    BY <1>8, <2>1 DEF Resolves, Ok
  <2>3. UNCHANGED body /\ pc[q] \in Working
    BY <1>8 DEF FindCities, Working
  <2> QED  BY <1>1, <1>3, <2>1, <2>2, <2>3
<1>9. CASE CacheSet(q)
  <2>1. Resolves(q, Ok(envelope[q]))
    BY <1>9 DEF Resolves, Ok
  <2> QED  BY <1>3, <1>9, <2>1 DEF CacheSet, Working
<1>10. CASE \/ Start(q) \/ CacheMiss(q) \/ Acquire(q) \/ FindRow(q)
            \/ QueryError(q) \/ KeyError(q) \/ UnreadableHit(q)
  BY <1>1, <1>10 DEF Start, CacheMiss, Acquire, FindRow, QueryError, KeyError, UnreadableHit
<1>11. ASSUME NEW r \in Requests, Step(r)
       PROVE  \/ n \in DOMAIN results[q] /\ results'[q][n] = results[q][n] /\ body'[q] = body[q]
              \/ Added(q, n)
  <2>1. CASE r = q
    BY <1>5, <1>6, <1>7, <1>8, <1>9, <1>10, <1>11, <2>1 DEF Step
  <2> QED  BY <1>4, <1>11, <2>1
<1>12. ~Restart
  <2>1. ASSUME Restart PROVE FALSE
    <3>1. results'[q] = <<>>
      BY <2>1 DEF Restart
    <3> QED  BY <3>1
  <2> QED  BY <2>1
<1>13. ASSUME NEW k \in CacheKeys, Evict(k) PROVE UNCHANGED <<body, results>>
  BY <1>13 DEF Evict, serviceVars
<1>14. CASE Tick \/ EtlStep \/ UNCHANGED vars
  BY <1>1, <1>14 DEF Tick, EtlStep, vars, lookupVars, serviceVars
<1> QED
  BY <1>1, <1>2, <1>11, <1>12, <1>13, <1>14 DEF Next

-----------------------------------------------------------------------------
(* The question and its echo.                                              *)

\* Every outcome is that of an item that came in, and a good one that of an
\* item which passed the checks.
OutcomesAsked ==
    \A r \in Requests : \A n \in DOMAIN results[r] :
        /\ body[r] \in Bodies /\ n \in DOMAIN body[r].items
        /\ results[r][n].ok => body[r].items[n] \in UsableItems

LEMMA OutcomesAskedStep ==
    ASSUME TypeOK, NothingAnsweredYet, ItemInHand, OutcomesAsked, [Next]_vars
    PROVE  OutcomesAsked'
<1> SUFFICES ASSUME NEW r \in Requests, NEW n \in DOMAIN results'[r]
             PROVE  /\ body'[r] \in Bodies /\ n \in DOMAIN body'[r].items
                    /\ results'[r][n].ok => body'[r].items[n] \in UsableItems
  BY DEF OutcomesAsked
<1>1. CASE n \in DOMAIN results[r] /\ results'[r][n] = results[r][n] /\ body'[r] = body[r]
  BY <1>1 DEF OutcomesAsked
<1>2. CASE Added(r, n)
  <2>1. body'[r].items[n] = Item(r)
    BY <1>2 DEF Added, Item
  <2>2. results'[r][n].ok => pc[r] \in Working
    BY <1>2 DEF Added, Resolves, CacheHit, FindCities, CacheSet, Working
  <2> QED  BY <1>2, <2>1, <2>2 DEF Added, ItemInHand, InHand
<1> QED  BY <1>1, <1>2, OutcomeKeptOrAdded

\* Whatever the requests, their interleaving and their faults: nobody gets the
\* outcome of an item he has not sent, and no item that should have been
\* refused or raised is answered (main.py:397-441, 630-651).
THEOREM OnlyOutcomesAsked == Spec => []OutcomesAsked
<1>1. Init => OutcomesAsked
  BY DEF Init, OutcomesAsked
<1>2. LookupInv /\ OutcomesAsked /\ [Next]_vars => OutcomesAsked'
  BY OutcomesAskedStep DEF LookupInv
<1> QED  BY <1>1, <1>2, LookupInvariant, PTL DEF Spec

\* Two radii of one whole kilometre.
LEMMA SameWholeKm ==
    ASSUME NEW a \in Int, NEW b \in Int, WholeKm(a) = WholeKm(b)
    PROVE  /\ a < b + 2 * Km
           /\ a >= 0 /\ b >= 0 => a < b + Km
<1>1. Km \in Nat \ {0}
  BY InputAssumption
<1>2. ASSUME NEW c \in Nat, NEW d \in Nat, c \div Km = d \div Km PROVE c - d < Km
  BY <1>1, <1>2
<1>3. \A c \in Nat : c \div Km \in Nat /\ (c \div Km = 0 => c < Km)
  BY <1>1
<1>4. CASE a >= 0 /\ b >= 0
  BY <1>1, <1>2, <1>4 DEF WholeKm
<1>5. CASE a < 0 /\ b < 0
  <2>1. (-b) \in Nat /\ (-a) \in Nat /\ (-a) \div Km = (-b) \div Km
    BY <1>1, <1>3, <1>5 DEF WholeKm
  <2>2. (-b) - (-a) < Km
    BY <1>2, <2>1
  <2> QED  BY <1>1, <1>5, <2>2
<1>6. CASE a >= 0 /\ b < 0
  <2>1. a \div Km = 0 /\ (-b) \div Km = 0
    <3>1. a \in Nat /\ (-b) \in Nat /\ a \div Km = -((-b) \div Km)
      BY <1>6 DEF WholeKm
    <3> QED  BY <1>3, <3>1
  <2>2. a < Km /\ -b < Km
    BY <1>3, <1>6, <2>1
  <2> QED  BY <1>1, <1>6, <2>2
<1>7. CASE a < 0 /\ b >= 0
  BY <1>1, <1>7
<1> QED  BY <1>4, <1>5, <1>6, <1>7

\* The radius of an answer is less than a kilometre off the one asked for
\* (cache.py:130-134), or less than two for the negative ones of a batch.
THEOREM RadiusIsNear == Spec => []RadiusNearlyHonoured
<1>1. AnswerFitsQuestion /\ OutcomesAsked => RadiusNearlyHonoured
  <2> SUFFICES ASSUME AnswerFitsQuestion, OutcomesAsked,
                      NEW r \in Requests, NEW n \in DOMAIN results[r], results[r][n].ok
               PROVE  LET asked == Radius(body[r].items[n])
                          given == results[r][n].response.radius
                          apart == IF asked >= 0 /\ given >= 0 THEN Km ELSE 2 * Km
                      IN  asked < given + apart /\ given < asked + apart
    BY DEF RadiusNearlyHonoured
  <2> DEFINE i == body[r].items[n]
             env == results[r][n].response
  <2>1. i \in UsableItems
    BY DEF OutcomesAsked
  <2>2. PICK j \in UsableItems : SameQuestion(i, j) /\ Fits(env, j)
    BY DEF AnswerFitsQuestion, FitsSome
  <2>3. Radius(i) \in Int /\ Radius(j) \in Int
    BY <2>1, <2>2, UsableTyped, RadiusTyped DEF Usable
  <2>4. WholeKm(Radius(i)) = WholeKm(Radius(j)) /\ env.radius = Radius(j)
    BY <2>2 DEF SameQuestion, Fits
  <2> HIDE DEF i, env
  <2>5. /\ Radius(i) < Radius(j) + 2 * Km /\ Radius(j) < Radius(i) + 2 * Km
        /\ Radius(i) >= 0 /\ Radius(j) >= 0 =>
              Radius(i) < Radius(j) + Km /\ Radius(j) < Radius(i) + Km
    BY <2>3, <2>4, SameWholeKm
  <2> QED  BY <2>4, <2>5 DEF i, env
<1> QED  BY <1>1, AnswersFit, OnlyOutcomesAsked, PTL

\* A phone item written as the number its answer repeats has the key it had.
LEMMA EchoedKey ==
    ASSUME NEW i \in Items, Kind(i) = "phone", NEW env, FitsSome(i, env),
           E164(env.value) \in PhoneTexts
    PROVE  CacheKey([i EXCEPT !.phone = E164(env.value)]) = CacheKey(i)
<1> DEFINE echo == E164(env.value)
           k == [i EXCEPT !.phone = echo]
<1>1. PICK j \in UsableItems : SameQuestion(i, j) /\ Fits(env, j)
  BY DEF FitsSome
<1>2. i.phone # None /\ i.phone \in PhoneTexts
  BY DEF Kind, Items
<1>3. Kind(j) = "phone" /\ Parsed[i.phone] = Parsed[j.phone]
  BY <1>1 DEF SameQuestion, Canonical
<1>4. Parsed[j.phone] # None
  BY <1>1, <1>3, UsableTyped DEF Usable, Parses, Kind
<1>5. env.value = Parsed[i.phone]
  BY <1>1, <1>3 DEF Fits, Value
<1>6. Parse(echo) = Parsed[i.phone]
  BY <1>2, <1>3, <1>4, <1>5, NumberParses
<1>7. Parsed[echo] = Parsed[i.phone]
  BY <1>6 DEF Parsed
<1>8. echo # None
  BY InputAssumption
<1> HIDE DEF echo
<1>9. k.phone = echo /\ k.radius = i.radius
  BY DEF Items
<1> HIDE DEF k
<1>10. Kind(k) = "phone" /\ Canonical(k) = Parsed[i.phone] /\ Canonical(i) = Parsed[i.phone]
  BY <1>7, <1>8, <1>9 DEF Kind, Canonical
<1>11. Radius(k) = Radius(i)
  BY <1>9 DEF Radius
<1> QED  BY <1>10, <1>11 DEF CacheKey, k, echo

\* However a number was written, its answer repeats it in a form that parses
\* to the same number, and asking for that form shares the slot of the answer
\* (phone.py:61-78, main.py:474 and 501).
THEOREM EchoSharesItsSlot == Spec => []EchoSharesSlot
<1>1. AnswerFitsQuestion /\ OutcomesAsked => EchoSharesSlot
  <2> SUFFICES ASSUME AnswerFitsQuestion, OutcomesAsked,
                      NEW r \in Requests, NEW n \in DOMAIN results[r],
                      results[r][n].ok, Kind(body[r].items[n]) = "phone",
                      E164(results[r][n].response.value) \in PhoneTexts
               PROVE  CacheKey([body[r].items[n] EXCEPT !.phone = E164(results[r][n].response.value)])
                          = CacheKey(body[r].items[n])
    BY DEF EchoSharesSlot
  <2>1. body[r].items[n] \in Items
    <3>1. body[r] \in Bodies /\ n \in DOMAIN body[r].items
      BY DEF OutcomesAsked
    <3>2. body[r].items \in Seq(Items)
      BY <3>1, AnswersAssumption
    <3> QED  BY <3>1, <3>2
  <2>2. FitsSome(body[r].items[n], results[r][n].response)
    BY DEF AnswerFitsQuestion
  <2> QED  BY <2>1, <2>2, EchoedKey
<1> QED  BY <1>1, AnswersFit, OnlyOutcomesAsked, PTL

-----------------------------------------------------------------------------
(* The nearest towns.                                                      *)

\* What has been read, cached and answered is what the tables give: inductive
\* only while they are left alone.
AllCurrent ==
    /\ \A r \in Requests :
          /\ pc[r] \in {"wantCities", "cities"} /\ NeedsRow(Item(r)) => row[r] \in RowsFor(Item(r))
          /\ pc[r] = "set" => envelope[r] \in Answers(Item(r))
    /\ \A k \in CacheKeys : cache[k] # None =>
          \E i \in UsableItems : CacheKey(i) = k /\ cache[k].response \in Answers(i)
    /\ \A r \in Requests : \A n \in DOMAIN results[r] : results[r][n].ok =>
          \E j \in UsableItems : /\ SameQuestion(body[r].items[n], j)
                                 /\ results[r][n].response \in Answers(j)

\* What NearestListed says of one answer.
LEMMA AnswerIsNearest ==
    ASSUME EtlTypeOK, NEW j \in UsableItems, NEW env \in Answers(j)
    PROVE  /\ Fits(env, j)
           /\ \A q \in CitiesWithin(Point(j, env.row), env.radius) \ env.cities :
                 /\ Cardinality(env.cities) = CityLimit
                 /\ \A p \in env.cities : Distance(Point(j, env.row), p.key)
                                            <= Distance(Point(j, env.row), q.key)
<1>1. PICK x \in RowsFor(j) : env \in EnvelopesFrom(j, x)
  BY DEF Answers
<1>2. RowAnswers(x, j)
  <2>1. CASE NeedsRow(j)
    BY <1>1, <2>1, RowFits
  <2>2. CASE ~NeedsRow(j)
    BY <1>1, <2>2 DEF NeedsRow, RowsFor, RowAnswers
  <2> QED  BY <2>1, <2>2
<1>3. Fits(env, j)
  BY <1>1, <1>2, UsableTyped, EnvelopeFits
<1>4. PICK cities \in NearestCities(Point(j, x), Radius(j)) : env = Envelope(j, x, cities)
  BY <1>1 DEF EnvelopesFrom
<1>5. env.row = x /\ env.radius = Radius(j) /\ env.cities = cities
  BY <1>4 DEF Envelope
<1>6. ASSUME NEW q \in CitiesWithin(Point(j, x), Radius(j)) \ cities
      PROVE  /\ Cardinality(cities) = CityLimit
             /\ \A p \in cities : Distance(Point(j, x), p.key) <= Distance(Point(j, x), q.key)
  BY <1>4, <1>6 DEF NearestCities
<1> QED  BY <1>3, <1>5, <1>6

LEMMA EntriesStayCurrent ==
    ASSUME TypeOK, ItemInHand, AllCurrent, [Next]_vars, table' = table,
           NEW k \in CacheKeys, cache'[k] # None
    PROVE  \E i \in UsableItems : CacheKey(i) = k /\ cache'[k].response \in Answers(i)'
<1>1. \A i : Answers(i)' = Answers(i)
  BY AnswersKept
<1>2. CASE cache'[k] = cache[k] \/ Outdated(k)
  BY <1>1, <1>2 DEF AllCurrent, Outdated
<1>3. ASSUME NEW r \in Requests, CacheSet(r), k = CacheKey(Item(r)),
             cache'[k] = [response |-> envelope[r], expires |-> Expiry, readable |-> TRUE]
      PROVE  \E i \in UsableItems : CacheKey(i) = k /\ cache'[k].response \in Answers(i)'
  <2>1. Item(r) \in UsableItems /\ pc[r] = "set"
    BY <1>3 DEF CacheSet, Working, ItemInHand, InHand
  <2>2. envelope[r] \in Answers(Item(r))
    BY <2>1 DEF AllCurrent
  <2> QED  BY <1>1, <1>3, <2>1, <2>2
<1> QED  BY <1>2, <1>3, EntryChange

\* An outcome that is added is one the tables give.
LEMMA AddedIsCurrent ==
    ASSUME TypeOK, ItemInHand, AllCurrent, NEW r \in Requests, NEW result, result.ok,
           Resolves(r, result)
    PROVE  \E j \in UsableItems : SameQuestion(Item(r), j) /\ result.response \in Answers(j)
<1>1. CASE CacheHit(r) /\ result.response = cache[CacheKey(Item(r))].response
  <2> DEFINE k == CacheKey(Item(r))
  <2>1. k \in CacheKeys /\ cache[k] # None
    BY <1>1, UsableTyped DEF CacheHit, Working, ItemInHand, InHand
  <2>2. PICK j \in UsableItems : CacheKey(j) = k /\ cache[k].response \in Answers(j)
    BY <2>1 DEF AllCurrent
  <2> QED  BY <1>1, <2>2, KeyTellsQuestion
<1>2. CASE CacheSet(r) /\ result.response = envelope[r]
  <2>1. Item(r) \in UsableItems /\ envelope[r] \in Answers(Item(r))
    BY <1>2 DEF CacheSet, Working, ItemInHand, InHand, AllCurrent
  <2> QED  BY <1>2, <2>1, SameQuestionOfItself
<1>3. CASE /\ FindCities(r)
           /\ result.response \in EnvelopesFrom(Item(r), IF NeedsRow(Item(r)) THEN row[r] ELSE None)
  <2> DEFINE i == Item(r)
             x == IF NeedsRow(i) THEN row[r] ELSE None
  <2>1. pc[r] = "cities"
    BY <1>3 DEF FindCities
  <2>2. i \in UsableItems /\ i \in Items
    BY <2>1, UsableTyped DEF Working, ItemInHand, InHand
  <2>3. (NeedsRow(i) => x \in RowsFor(i)) /\ (~NeedsRow(i) => x = None)
    BY <2>1 DEF AllCurrent
  <2>4. result.response \in EnvelopesFrom(i, x)
    BY <1>3
  <2> HIDE DEF i, x
  <2>5. result.response \in Answers(i)
    BY <2>2, <2>3, <2>4, EnvelopeIsAnswer
  <2> QED  BY <2>2, <2>5, SameQuestionOfItself DEF i
<1> QED  BY <1>1, <1>2, <1>3 DEF Resolves

LEMMA AllCurrentStep ==
    ASSUME LookupInv, AllCurrent, [Next]_vars, table' = table
    PROVE  AllCurrent'
<1> USE DEF LookupInv
<1>0. \A i : Answers(i)' = Answers(i)
  BY AnswersKept
<1>1. ASSUME NEW r \in Requests
      PROVE  /\ pc'[r] \in {"wantCities", "cities"} /\ NeedsRow(Item(r)') => row'[r] \in RowsFor(Item(r))'
             /\ pc'[r] = "set" => envelope'[r] \in Answers(Item(r))'
  BY InHandStaysCurrent DEF AllCurrent
<1>2. ASSUME NEW k \in CacheKeys, cache'[k] # None
      PROVE  \E i \in UsableItems : CacheKey(i) = k /\ cache'[k].response \in Answers(i)'
  BY <1>2, EntriesStayCurrent
<1>3. ASSUME NEW r \in Requests, NEW n \in DOMAIN results'[r], results'[r][n].ok
      PROVE  \E j \in UsableItems : /\ SameQuestion(body'[r].items[n], j)
                                    /\ results'[r][n].response \in Answers(j)'
  <2>1. CASE n \in DOMAIN results[r] /\ results'[r][n] = results[r][n] /\ body'[r] = body[r]
    BY <1>0, <1>3, <2>1 DEF AllCurrent
  <2>2. CASE Added(r, n)
    <3>1. body'[r].items[n] = Item(r) /\ Resolves(r, results'[r][n])
      BY <2>2 DEF Added, Item
    <3> QED  BY <1>0, <1>3, <3>1, AddedIsCurrent
  <2> QED  BY <2>1, <2>2, OutcomeKeptOrAdded
<1> QED  BY <1>1, <1>2, <1>3 DEF AllCurrent

LEMMA CurrentWhileLeftAlone == Spec /\ [][table' = table]_vars => []AllCurrent
<1>1. Init => AllCurrent
  BY DEF Init, AllCurrent
<1>2. LookupInv /\ AllCurrent /\ [Next]_vars /\ [table' = table]_vars => AllCurrent'
  <2>1. [table' = table]_vars => table' = table
    BY DEF vars, etlVars
  <2> QED  BY <2>1, AllCurrentStep
<1> QED  BY <1>1, <1>2, LookupInvariant, PTL DEF Spec

\* As long as the tables are left alone, every town within the radius is in
\* the answer, or the answer is full of towns at least as near: computed or
\* cached, through any interleaving of requests, faults and restarts (db.py:130).
THEOREM NearestAreListed == Spec /\ [][table' = table]_vars => []NearestListed
<1>1. LookupInv /\ AllCurrent => NearestListed
  <2> SUFFICES ASSUME LookupInv, AllCurrent, NEW r \in Requests, NEW n \in DOMAIN results[r],
                      results[r][n].ok
               PROVE  LET env == results[r][n].response IN
                      \E j \in UsableItems :
                          /\ SameQuestion(body[r].items[n], j) /\ Fits(env, j)
                          /\ \A q \in CitiesWithin(Point(j, env.row), env.radius) \ env.cities :
                                /\ Cardinality(env.cities) = CityLimit
                                /\ \A p \in env.cities : Distance(Point(j, env.row), p.key)
                                                           <= Distance(Point(j, env.row), q.key)
    BY DEF NearestListed
  <2>1. PICK j \in UsableItems : /\ SameQuestion(body[r].items[n], j)
                                 /\ results[r][n].response \in Answers(j)
    BY DEF AllCurrent
  <2>2. EtlTypeOK
    BY DEF LookupInv, TypeOK
  <2> QED  BY <2>1, <2>2, AnswerIsNearest
<1> QED  BY <1>1, CurrentWhileLeftAlone, LookupInvariant, PTL

\* In particular where no loader ever runs, which is the case the run checks.
COROLLARY NearestWithoutLoader ==
    ASSUME Runs = {}
    PROVE  Spec => []NearestListed
<1>1. [Next]_vars => [table' = table]_vars
  <2>1. [EtlNext]_etlVars => table' = table
    BY DEF EtlNext, Rebuild, etlVars
  <2> QED  BY <2>1, LoaderOrNothing
<1> QED  BY <1>1, NearestAreListed, PTL DEF Spec

-----------------------------------------------------------------------------
(* How far the documentation is right.                                     *)

\* Texts that str.strip makes alike are one address to asyncpg, or none.
StrippingIsHarmless ==
    \A a, b \in IpTexts :
        Stripped[a] = Stripped[b] /\ b \in DOMAIN AddressOf =>
            a \in DOMAIN AddressOf /\ AddressOf[a] = AddressOf[b]

\* Then two items with one question have the same rows.
LEMMA SameQuestionSameRows ==
    ASSUME StrippingIsHarmless, NEW i \in UsableItems, NEW j \in UsableItems,
           SameQuestion(i, j), RowsFor(j) # {}
    PROVE  Queryable(i) /\ RowsFor(i) # {}
<1>1. Kind(i) = Kind(j) /\ Canonical(i) = Canonical(j)
  BY DEF SameQuestion
<1>2. i \in Items /\ j \in Items /\ WellFormed(i) /\ WellFormed(j)
  BY UsableTyped DEF Usable
<1>3. CASE Kind(i) = "phone"
  <2>1. Parsed[i.phone] = Parsed[j.phone]
    BY <1>1, <1>3 DEF Canonical
  <2>2. Mode(i) = Mode(j) /\ Mode(i) # "ip"
    BY <1>1, <1>3, <2>1 DEF Mode
  <2> QED  BY <2>1, <2>2 DEF RowsFor, Queryable
<1>4. CASE Kind(i) = "ip"
  <2>1. Mode(i) = "ip" /\ Mode(j) = "ip" /\ i.ip \in IpTexts /\ j.ip \in IpTexts
    BY <1>1, <1>2, <1>4, ModeOfKind, KindIsGiven
  <2>2. Stripped[i.ip] = Stripped[j.ip]
    BY <1>1, <1>4 DEF Canonical
  <2>3. PICK x \in table["ip_ranges"] : Covers(x.key, j.ip)
    BY <2>1 DEF RowsFor, LastStarting
  <2>4. i.ip \in DOMAIN AddressOf /\ j.ip \in DOMAIN AddressOf /\ AddressOf[i.ip] = AddressOf[j.ip]
    BY <2>1, <2>2, <2>3 DEF Covers, StrippingIsHarmless
  <2>5. \A block : Covers(block, i.ip) <=> Covers(block, j.ip)
    BY <2>4 DEF Covers
  <2>6. RowsFor(i) = RowsFor(j)
    BY <2>1, <2>5 DEF RowsFor
  <2> QED  BY <2>4, <2>6 DEF Queryable
<1>5. CASE Kind(i) = "coords"
  <2>1. Mode(i) = "coords"
    BY <1>2, <1>5, ModeOfKind
  <2> QED  BY <2>1 DEF RowsFor, Queryable
<1> QED  BY <1>2, <1>3, <1>4, <1>5, KindIsGiven

\* What is cached or about to be was read from tables, and those stay.
TablesWereThere ==
    /\ \A k \in CacheKeys : cache[k] # None => schema
    /\ \A r \in Requests : pc[r] = "set" => schema

LEMMA TablesThere == Spec => []TablesWereThere
<1>1. Init => TablesWereThere
  BY DEF Init, TablesWereThere
<1>2. LookupInv /\ TablesWereThere /\ [Next]_vars => TablesWereThere'
  <2> SUFFICES ASSUME LookupInv, TablesWereThere, [Next]_vars PROVE TablesWereThere'
    OBVIOUS
  <2> USE DEF LookupInv
  <2>1. schema => schema'
    BY LoaderOrNothing DEF EtlNext, Rebuild, ApplySchema, Truncate, SkipLoad, ReadFile, BeginLoad,
                           Load, Analyze, Fail, etlVars
  <2>2. ASSUME NEW k \in CacheKeys, cache'[k] # None PROVE schema
    <3>1. ASSUME NEW r \in Requests, CacheSet(r) PROVE schema
      BY <3>1 DEF CacheSet, TablesWereThere
    <3> QED  BY <2>2, <3>1, EntryChange DEF Outdated, TablesWereThere
  <2>3. ASSUME NEW r \in Requests, pc'[r] = "set" PROVE schema
    <3>1. FindCities(r) => schema
      BY DEF FindCities, Executable
    <3>2. ~Start(r) /\ ~CacheMiss(r) /\ ~Acquire(r) /\ ~FindRow(r)
      BY <2>3 DEF Start, CacheMiss, AfterMiss, Acquire, FindRow, TypeOK
    <3>3. Kept(r) => pc[r] = "set"
      BY <2>3 DEF Kept
    <3>4. pc'[r] \in Working
      BY <2>3 DEF Working
    <3> QED  BY <3>1, <3>2, <3>3, <3>4, KeptOrTakenOn DEF TablesWereThere
  <2> QED  BY <2>1, <2>2, <2>3 DEF TablesWereThere
<1> QED  BY <1>1, <1>2, LookupInvariant, PTL DEF Spec

\* Entries that are answers the tables give now are no loss.
LEMMA CurrentEntriesNoLoss ==
    ASSUME StrippingIsHarmless, LookupInv, TablesWereThere,
           \A k \in CacheKeys : cache[k] # None =>
              \E i \in UsableItems : CacheKey(i) = k /\ cache[k].response \in Answers(i)
    PROVE  CacheLossHarmless
<1> SUFFICES ASSUME NEW r \in Requests, pc[r] = "get", cache[CacheKey(Item(r))] # None
             PROVE  Answerable(Item(r))
  BY DEF CacheLossHarmless
<1>1. Item(r) \in UsableItems /\ CacheKey(Item(r)) \in CacheKeys
  BY UsableTyped DEF LookupInv, ItemInHand, InHand, Working
<1>2. PICK j \in UsableItems : /\ CacheKey(j) = CacheKey(Item(r))
                              /\ cache[CacheKey(Item(r))].response \in Answers(j)
  BY <1>1
<1>3. RowsFor(j) # {}
  BY <1>2 DEF Answers
<1>4. SameQuestion(Item(r), j)
  BY <1>2, KeyTellsQuestion
<1>5. Queryable(Item(r)) /\ RowsFor(Item(r)) # {}
  BY <1>1, <1>3, <1>4, SameQuestionSameRows
<1>6. schema
  BY <1>1 DEF TablesWereThere
<1> QED  BY <1>5, <1>6 DEF Answerable

\* Losing the cache breaks nothing (cache.py:5-6) once the tables have been left
\* alone for the time to live and the time one item can take, if no two texts
\* that str.strip makes alike differ for asyncpg: with Postgres there, every
\* item that the cache can answer has an answer without it.
THEOREM CacheLossCostsTime ==
    ASSUME StrippingIsHarmless
    PROVE  Spec => [](now >= changedAt + TTL + MaxLatency => CacheLossHarmless)
<1>1. LookupInv /\ TablesWereThere /\ StaleBounded =>
          (now >= changedAt + TTL + MaxLatency => CacheLossHarmless)
  BY CurrentEntriesNoLoss DEF StaleBounded
<1> QED  BY <1>1, LookupInvariant, TablesThere, StalenessBounded, PTL

\* And at any time, as long as the tables are left alone from the start.
THEOREM CacheLossWhileLeftAlone ==
    ASSUME StrippingIsHarmless
    PROVE  Spec /\ [][table' = table]_vars => []CacheLossHarmless
<1>1. LookupInv /\ TablesWereThere /\ AllCurrent => CacheLossHarmless
  BY CurrentEntriesNoLoss DEF AllCurrent
<1> QED  BY <1>1, LookupInvariant, TablesThere, CurrentWhileLeftAlone, PTL

\* Nobody asks for a fraction of a kilometre.
WholeRadii == \A i \in UsableItems : Radius(i) % Km = 0

\* The radius is part of the key (cache.py:130-132) as long as all radii are
\* whole kilometres: int() is the only thing that lets two of them share a slot.
THEOREM WholeRadiiHonoured ==
    ASSUME WholeRadii
    PROVE  Spec => []RadiusHonoured
<1>1. ASSUME NEW a \in Int, NEW b \in Int, WholeKm(a) = WholeKm(b), a % Km = 0, b % Km = 0
      PROVE  a = b
  <2>1. Km \in Nat \ {0}
    BY InputAssumption
  <2>2. \A c \in Int : c % Km = 0 => c = Km * (c \div Km) /\ (-c) \div Km = -(c \div Km)
    BY <2>1
  <2>3. ASSUME NEW c \in Int, c % Km = 0 PROVE c \div Km = WholeKm(c)
    <3>1. (-c) \div Km = -(c \div Km) /\ c \div Km \in Int
      BY <2>1, <2>2, <2>3
    <3> QED  BY <3>1 DEF WholeKm
  <2>4. a \div Km = b \div Km
    BY <1>1, <2>3
  <2> QED  BY <1>1, <2>2, <2>4
<1>2. AnswerFitsQuestion /\ OutcomesAsked => RadiusHonoured
  <2> SUFFICES ASSUME AnswerFitsQuestion, OutcomesAsked,
                      NEW r \in Requests, NEW n \in DOMAIN results[r], results[r][n].ok
               PROVE  results[r][n].response.radius = Radius(body[r].items[n])
    BY DEF RadiusHonoured
  <2> DEFINE i == body[r].items[n]
             env == results[r][n].response
  <2>1. i \in UsableItems
    BY DEF OutcomesAsked
  <2>2. PICK j \in UsableItems : SameQuestion(i, j) /\ Fits(env, j)
    BY DEF AnswerFitsQuestion, FitsSome
  <2>3. Radius(i) \in Int /\ Radius(j) \in Int
    BY <2>1, <2>2, UsableTyped, RadiusTyped DEF Usable
  <2>4. WholeKm(Radius(i)) = WholeKm(Radius(j)) /\ env.radius = Radius(j)
    BY <2>2 DEF SameQuestion, Fits
  <2>5. Radius(i) % Km = 0 /\ Radius(j) % Km = 0
    BY <2>1, <2>2 DEF WholeRadii
  <2> HIDE DEF i, env
  <2>6. Radius(i) = Radius(j)
    BY <1>1, <2>3, <2>4, <2>5
  <2> QED  BY <2>4, <2>6 DEF i, env
<1> QED  BY <1>2, AnswersFit, OnlyOutcomesAsked, PTL
=============================================================================
