---------------------------- MODULE PollingProofs ----------------------------
(***************************************************************************)
(* Proof that the version token does what it is for: what a client keeps   *)
(* under a token that is still the version of the tables is what the       *)
(* tables answer.  The argument is that a version never comes back: the    *)
(* loader only grows a table, which the number of rows shows even when the *)
(* loads of several runs commit in another order than their transaction    *)
(* ids; or it empties all three, when no load is under way, after which    *)
(* every row will be newer than any version given out before.              *)
(***************************************************************************)
EXTENDS Polling, LookupProofs

\* The rows of a table are finite in number, so that they can be counted.  They
\* carry the ids of transactions that have committed, none above xid and one
\* the largest; those that loads have open are in no row yet.
RowsNumbered ==
    /\ table = [t \in Tables |-> table[t]]
    /\ \A t \in Tables :
          /\ IsFiniteSet(table[t])
          /\ \A x \in table[t] : x.xid <= xid
          /\ table[t] # {} => \E x \in table[t] : \A y \in table[t] : y.xid <= x.xid
    /\ \A e \in Runs :
          /\ \A t \in Tables : IsFiniteSet(read[e][t])
          /\ txn[e] # 0 => /\ \A o \in Runs \ {e} : txn[o] # txn[e]
                           /\ \A t \in Tables : \A x \in table[t] : x.xid # txn[e]

\* The tables have moved on from version v: rows have been added to those it
\* counted, perhaps by transactions older than its xmin; or the tables have
\* been emptied, and every row there is or will be is newer than any it had.
Grown(v) == /\ \A t \in Tables : v[t].rows <= Cardinality(table[t])
            /\ \E t \in Tables : v[t].rows < Cardinality(table[t])
Replaced(v) == \A u \in Tables :
                  /\ \A t \in Tables : \A x \in table[t] : v[u].xmin < x.xid
                  /\ \A e \in Runs : txn[e] # 0 => v[u].xmin < txn[e]
Past(v) == Grown(v) \/ Replaced(v)

\* v was the version of the tables at some moment.
Seen(v) ==
    /\ \A t \in Tables : v[t].rows \in Nat /\ v[t].xmin \in Nat /\ v[t].xmin <= xid
    /\ v = Version \/ Past(v)

VersionsSeen ==
    /\ DOMAIN sent = Requests
    /\ answer # None => Seen(answer)
    /\ token # None => Seen(token)
    /\ \A r \in Requests : sent[r] # None => token # None /\ Seen(sent[r].under)
    /\ kept # {} => token # None

\* Nothing in the tables has changed since version v was read.
Holds(v) == v = Version /\ \E t \in Tables : table[t] # {}

\* A response that the client may get to a request it sent at the time given.
MayGet(at, i, response) ==
    \/ cacheUp /\ at < changedAt + TTL + MaxLatency
    \/ \E j \in UsableItems : SameQuestion(j, i) /\ response \in Answers(j)

\* What a request has in hand and has answered, while the token it was sent
\* under holds.
SentIsCurrent ==
    \A r \in Requests : sent[r] # None =>
        /\ sent[r].at \in Nat /\ sent[r].at <= now
        /\ Holds(sent[r].under) =>
              /\ pc[r] \in {"wantCities", "cities"} /\ NeedsRow(Item(r)) => row[r] \in RowsFor(Item(r))
              /\ pc[r] = "set" => envelope[r] \in Answers(Item(r))
              /\ \A n \in DOMAIN results[r] : results[r][n].ok =>
                    MayGet(sent[r].at, body[r].items[n], results[r][n].response)

CacheInUse == \A r \in Requests : pc[r] \in {"get", "set"} => cacheUp

PollingInv == /\ LookupInv /\ RowsNumbered /\ VersionsSeen /\ SentIsCurrent /\ CacheInUse
              /\ KeptIsCurrent

-----------------------------------------------------------------------------
(* Versions.                                                               *)

\* The image of a finite set, with the function in place of the library's operator.
LEMMA FiniteImage ==
    ASSUME NEW S, IsFiniteSet(S), NEW T, NEW f \in [S -> T], \A y \in T : \E x \in S : f[x] = y
    PROVE  IsFiniteSet(T)
<1>1. f \in Surjection(S, T)
  BY DEF Surjection
<1> QED  BY <1>1, FS_Surjection

\* COUNT(*) and MAX(xmin) are what they should be.
LEMMA VersionIs ==
    ASSUME EtlTypeOK, RowsNumbered, NEW t \in Tables
    PROVE  /\ Version[t].rows = Cardinality(table[t]) /\ Version[t].rows \in Nat
           /\ Version[t].xmin \in Nat /\ Version[t].xmin <= xid
           /\ \A x \in table[t] : x.xid \in Nat /\ x.xid <= Version[t].xmin
<1>1. Version[t].xmin = Newest(table[t]) /\ Version[t].rows = Cardinality(table[t])
  BY DEF Version, VersionOf
<1>2. xid \in Nat /\ \A x \in table[t] : x.xid \in Nat /\ x.xid <= xid
  BY DEF EtlTypeOK, Rows, RowsNumbered
<1>3. Cardinality(table[t]) \in Nat
  BY FS_CardinalityType DEF RowsNumbered
<1>4. CASE table[t] = {}
  <2>1. Newest(table[t]) = 0
    BY <1>4 DEF Newest
  <2> QED  BY <1>1, <1>2, <1>3, <1>4, <2>1
<1>5. CASE table[t] # {}
  <2> DEFINE ids == {x.xid : x \in table[t]}
             largest(n) == \A x \in table[t] : x.xid <= n
  <2>1. PICK x \in table[t] : largest(x.xid)
    BY <1>5 DEF RowsNumbered
  <2>2. \E n \in ids : largest(n)
    BY <2>1
  <2>3. Newest(table[t]) = CHOOSE n \in ids : largest(n)
    BY <1>5 DEF Newest
  <2>4. Newest(table[t]) \in ids /\ largest(Newest(table[t]))
    BY <2>2, <2>3
  <2> QED  BY <1>1, <1>2, <1>3, <2>4
<1> QED  BY <1>4, <1>5

\* The three things a step of the loader can do to the tables.
Aside ==
    /\ table' = table
    /\ xid' \in Nat /\ xid <= xid'
    /\ \A e \in Runs : txn'[e] \in {0, txn[e]} \/ (txn'[e] = xid + 1 /\ xid' = xid + 1)
    /\ \A e, o \in Runs : txn'[e] = xid + 1 /\ txn'[o] = xid + 1 => e = o
Emptying == table' = Emptied /\ xid' = xid /\ \A e \in Runs : txn'[e] = 0
Adding(e, t, new) ==
    /\ table' = [table EXCEPT ![t] = table[t] \cup new]
    /\ new # {} /\ IsFiniteSet(new) /\ txn[e] # 0 /\ \A x \in new : x.xid = txn[e]
    /\ xid' = xid /\ txn'[e] = 0 /\ \A o \in Runs \ {e} : txn'[o] = txn[o]

LEMMA TableChange ==
    ASSUME EtlTypeOK, RowsNumbered, [EtlNext]_etlVars
    PROVE  Aside \/ Emptying \/ \E e \in Runs : \E t \in Tables : \E new : Adding(e, t, new)
<1>0. xid \in Nat /\ \A e \in Runs : txn[e] \in 0 .. xid
  BY DEF EtlTypeOK
<1>1. ASSUME NEW e \in Runs, NEW t \in Tables, Load(e, t)
      PROVE  Aside \/ \E new : Adding(e, t, new)
  <2> DEFINE records == read[e][t]
             fresh == {x \in records : t = "ip_ranges" \/ x.key \notin {y.key : y \in table[t]}}
             asRow(x) == [key |-> x.key, build |-> x.build, xid |-> txn[e]]
             new == {asRow(x) : x \in fresh}
  <2>1. /\ table' = [table EXCEPT ![t] = table[t] \cup new] /\ xid' = xid
        /\ txn[e] # 0 /\ txn' = [txn EXCEPT ![e] = 0]
    BY <1>1 DEF Load, Inserted
  <2>2. IsFiniteSet(new) /\ \A x \in new : x.xid = txn[e]
    <3>1. IsFiniteSet(fresh)
      BY FS_Subset DEF RowsNumbered
    <3> DEFINE f == [x \in fresh |-> asRow(x)]
    <3>2. f \in [fresh -> new] /\ \A y \in new : \E x \in fresh : f[x] = y
      OBVIOUS
    <3>3. \A x \in new : x.xid = txn[e]
      OBVIOUS
    <3> HIDE DEF fresh, f, new
    <3>4. IsFiniteSet(new)
      BY <3>1, <3>2, FiniteImage
    <3> QED  BY <3>3, <3>4
  <2> HIDE DEF new
  <2>3. txn'[e] = 0 /\ \A o \in Runs \ {e} : txn'[o] = txn[o]
    BY <2>1 DEF EtlTypeOK
  <2>4. CASE new = {}
    <3>1. table = [u \in Tables |-> table[u]]
      BY DEF RowsNumbered
    <3>2. table' = table
      BY <2>1, <2>4, <3>1
    <3> QED  BY <1>0, <2>1, <2>3, <3>2 DEF Aside
  <2>5. CASE new # {}
    BY <2>1, <2>2, <2>3, <2>5 DEF Adding
  <2> QED  BY <2>4, <2>5
<1>2. ASSUME NEW e \in Runs, Truncate(e) PROVE Emptying
  BY <1>2 DEF Truncate, Truncated, Emptying
<1>3. CASE \E t \in Tables : Rebuild(t)
  BY <1>0, <1>3 DEF Rebuild, Aside
<1>4. ASSUME NEW e \in Runs,
             \/ ApplySchema(e) \/ Analyze(e)
             \/ \E t \in Tables : SkipLoad(e, t) \/ ReadFile(e, t)
      PROVE  Aside
  BY <1>0, <1>4 DEF ApplySchema, Analyze, SkipLoad, ReadFile, Aside
<1>5. ASSUME NEW e \in Runs, BeginLoad(e) \/ Fail(e) PROVE Aside
  BY <1>0, <1>5 DEF BeginLoad, Fail, Aside, EtlTypeOK
<1>6. CASE UNCHANGED etlVars
  BY <1>0, <1>6 DEF etlVars, Aside
<1> QED  BY <1>1, <1>2, <1>3, <1>4, <1>5, <1>6 DEF EtlNext

\* What a run reads is finite, as its file is.
LEMMA ReadFinite ==
    ASSUME EtlTypeOK, RowsNumbered, [EtlNext]_etlVars
    PROVE  \A e \in Runs : \A t \in Tables : IsFiniteSet(read'[e][t])
<1>1. ASSUME NEW e \in Runs, NEW t \in Tables, ReadFile(e, t)
      PROVE  \A o \in Runs : \A u \in Tables : IsFiniteSet(read'[o][u])
  <2> DEFINE record(k) == [key |-> k, build |-> file[t].build]
             contents == {record(k) : k \in file[t].keys}
  <2>1. IsFiniteSet(file[t].keys)
    <3>1. file[t].keys \subseteq KeysOf[t]
      BY DEF EtlTypeOK, Files
    <3> QED  BY <3>1, EtlAssumption, FS_Subset
  <2>2. IsFiniteSet(contents)
    <3> DEFINE f == [k \in file[t].keys |-> record(k)]
    <3>1. f \in [file[t].keys -> contents] /\ \A x \in contents : \E k \in file[t].keys : f[k] = x
      OBVIOUS
    <3> HIDE DEF f, contents
    <3> QED  BY <2>1, <3>1, FiniteImage
  <2>3. read' = [read EXCEPT ![e][t] = contents]
    BY <1>1 DEF ReadFile, Contents
  <2> HIDE DEF contents
  <2> QED  BY <2>2, <2>3 DEF RowsNumbered, EtlTypeOK
<1>2. CASE read' = read
  BY <1>2 DEF RowsNumbered
<1>3. read' = read \/ \E e \in Runs, t \in Tables : ReadFile(e, t)
  BY DEF EtlNext, Rebuild, ApplySchema, Truncate, SkipLoad, BeginLoad, Load, Analyze, Fail, etlVars
<1> QED  BY <1>1, <1>2, <1>3

LEMMA NumberedStep ==
    ASSUME EtlTypeOK, RowsNumbered, [EtlNext]_etlVars
    PROVE  RowsNumbered'
<1>0. /\ xid \in Nat /\ \A e \in Runs : txn[e] \in 0 .. xid
      /\ \A t \in Tables : \A x \in table[t] : x.xid \in Nat /\ x.xid <= xid
  BY DEF EtlTypeOK, Rows, RowsNumbered
<1>1. \A e \in Runs : \A t \in Tables : IsFiniteSet(read'[e][t])
  BY ReadFinite
<1>2. CASE Aside
  <2>1. /\ table' = [t \in Tables |-> table'[t]]
        /\ \A t \in Tables :
              /\ IsFiniteSet(table'[t])
              /\ \A x \in table'[t] : x.xid <= xid'
              /\ table'[t] # {} => \E x \in table'[t] : \A y \in table'[t] : y.xid <= x.xid
    BY <1>0, <1>2 DEF RowsNumbered, Aside
  <2>2. ASSUME NEW e \in Runs, txn'[e] # 0
        PROVE  /\ \A o \in Runs \ {e} : txn'[o] # txn'[e]
               /\ \A t \in Tables : \A x \in table'[t] : x.xid # txn'[e]
    <3>1. CASE txn'[e] = xid + 1
      BY <1>0, <1>2, <2>2, <3>1 DEF Aside
    <3>2. CASE txn'[e] = txn[e]
      BY <1>0, <1>2, <2>2, <3>2 DEF Aside, RowsNumbered
    <3> QED  BY <1>2, <2>2, <3>1, <3>2 DEF Aside
  <2> QED  BY <1>1, <2>1, <2>2 DEF RowsNumbered
<1>3. CASE Emptying
  BY <1>1, <1>3, FS_EmptySet DEF RowsNumbered, Emptying, Emptied
<1>4. ASSUME NEW e \in Runs, NEW t \in Tables, NEW new, Adding(e, t, new)
      PROVE  RowsNumbered'
  <2>0. /\ table' = [table EXCEPT ![t] = table[t] \cup new]
        /\ new # {} /\ IsFiniteSet(new) /\ txn[e] # 0 /\ \A x \in new : x.xid = txn[e]
        /\ xid' = xid /\ txn'[e] = 0 /\ \A o \in Runs \ {e} : txn'[o] = txn[o]
    BY <1>4 DEF Adding
  <2>1. table'[t] = table[t] \cup new /\ \A u \in Tables \ {t} : table'[u] = table[u]
    BY <2>0 DEF EtlTypeOK
  <2>2. \A u \in Tables : \A x \in table'[u] : x.xid \in Nat /\ x.xid <= xid'
    BY <1>0, <2>0, <2>1
  <2>3. table'[t] # {} => \E x \in table'[t] : \A y \in table'[t] : y.xid <= x.xid
    <3>1. PICK z \in new : z.xid = txn[e]
      BY <2>0
    <3>2. CASE table[t] = {}
      BY <1>0, <2>0, <2>1, <3>1, <3>2
    <3>3. CASE table[t] # {}
      <4>1. PICK x \in table[t] : \A y \in table[t] : y.xid <= x.xid
        BY <3>3 DEF RowsNumbered
      <4> DEFINE top == IF x.xid <= txn[e] THEN z ELSE x
      <4>2. x.xid \in Nat /\ txn[e] \in Nat /\ \A y \in table[t] : y.xid \in Nat
        BY <1>0
      <4>3. top \in table'[t] /\ top.xid \in Nat /\ x.xid <= top.xid /\ txn[e] <= top.xid
        BY <2>1, <3>1, <4>2
      <4> HIDE DEF top
      <4>4. \A y \in table'[t] : y.xid <= top.xid
        BY <2>0, <2>1, <4>1, <4>2, <4>3
      <4> QED  BY <4>3, <4>4
    <3> QED  BY <3>2, <3>3
  <2>4. ASSUME NEW u \in Tables, u # t, table'[u] # {}
        PROVE  \E x \in table'[u] : \A y \in table'[u] : y.xid <= x.xid
    BY <2>1, <2>4 DEF RowsNumbered
  <2>5. table' = [u \in Tables |-> table'[u]]
    BY <2>0 DEF EtlTypeOK
  <2>6. \A u \in Tables : IsFiniteSet(table'[u])
    BY <2>0, <2>1, FS_Union DEF RowsNumbered
  <2>7. ASSUME NEW o \in Runs, txn'[o] # 0
        PROVE  /\ \A q \in Runs \ {o} : txn'[q] # txn'[o]
               /\ \A u \in Tables : \A x \in table'[u] : x.xid # txn'[o]
    <3>1. o # e /\ txn'[o] = txn[o] /\ txn[o] # txn[e]
      BY <2>0, <2>7 DEF RowsNumbered
    <3> QED  BY <2>0, <2>1, <2>7, <3>1 DEF RowsNumbered
  <2> QED  BY <1>1, <2>2, <2>3, <2>4, <2>5, <2>6, <2>7 DEF RowsNumbered
<1> QED  BY <1>2, <1>3, <1>4, TableChange

\* A load that adds rows adds to the number of rows.
LEMMA AddingCounts ==
    ASSUME EtlTypeOK, RowsNumbered, NEW e \in Runs, NEW t \in Tables, NEW new, Adding(e, t, new)
    PROVE  \A u \in Tables : /\ Cardinality(table[u]) \in Nat /\ Cardinality(table'[u]) \in Nat
                             /\ Cardinality(table[u]) <= Cardinality(table'[u])
                             /\ u = t => Cardinality(table[u]) < Cardinality(table'[u])
<1>1. table'[t] = table[t] \cup new /\ \A u \in Tables \ {t} : table'[u] = table[u]
  BY DEF Adding, EtlTypeOK
<1>2. IsFiniteSet(table'[t]) /\ \A u \in Tables : IsFiniteSet(table[u])
  BY <1>1, FS_Union DEF Adding, RowsNumbered
<1>3. table[t] \subseteq table'[t] /\ table[t] # table'[t]
  <2>1. PICK x \in new : x.xid = txn[e]
    BY DEF Adding
  <2>2. x \notin table[t]
    BY <2>1 DEF Adding, RowsNumbered
  <2> QED  BY <1>1, <2>2
<1>4. /\ Cardinality(table[t]) <= Cardinality(table'[t])
      /\ Cardinality(table[t]) # Cardinality(table'[t])
  BY <1>2, <1>3, FS_Subset
<1>5. Cardinality(table'[t]) \in Nat /\ \A u \in Tables : Cardinality(table[u]) \in Nat
  BY <1>2, FS_CardinalityType
<1>6. \A u \in Tables \ {t} : Cardinality(table'[u]) = Cardinality(table[u])
  BY <1>1
<1>7. Cardinality(table'[t]) \in Nat /\ Cardinality(table[t]) \in Nat
  BY <1>5
<1>8. Cardinality(table[t]) < Cardinality(table'[t])
  BY <1>4, <1>7
<1> QED
  <2> SUFFICES ASSUME NEW u \in Tables
               PROVE  /\ Cardinality(table[u]) \in Nat /\ Cardinality(table'[u]) \in Nat
                      /\ Cardinality(table[u]) <= Cardinality(table'[u])
                      /\ u = t => Cardinality(table[u]) < Cardinality(table'[u])
    OBVIOUS
  <2>1. CASE u = t
    BY <1>4, <1>7, <1>8, <2>1
  <2>2. CASE u # t
    BY <1>5, <1>6, <2>2
  <2> QED  BY <2>1, <2>2

\* A version that was seen stays one that was seen.
LEMMA SeenStep ==
    ASSUME EtlTypeOK, RowsNumbered, [EtlNext]_etlVars, NEW v, Seen(v)
    PROVE  /\ Seen(v)'
           /\ table' = table \/ Past(v)'
<1>0. /\ xid \in Nat /\ \A e \in Runs : txn[e] \in 0 .. xid
      /\ \A t \in Tables : v[t].rows \in Nat /\ v[t].xmin \in Nat /\ v[t].xmin <= xid
  BY DEF EtlTypeOK, Seen
<1>1. CASE Aside
  <2>1. Version' = Version /\ table' = table
    BY <1>1 DEF Version, Aside
  <2>2. Grown(v) => Grown(v)'
    BY <2>1 DEF Grown
  <2>3. Replaced(v) => Replaced(v)'
    <3> SUFFICES ASSUME Replaced(v), NEW u \in Tables, NEW e \in Runs, txn'[e] # 0
                 PROVE  v[u].xmin < txn'[e]
      BY <2>1 DEF Replaced
    <3>1. CASE txn'[e] = txn[e]
      BY <3>1 DEF Replaced
    <3>2. CASE txn'[e] = xid + 1
      BY <1>0, <3>2
    <3> QED  BY <1>1, <3>1, <3>2 DEF Aside
  <2>4. \A t \in Tables : v[t].rows \in Nat /\ v[t].xmin \in Nat /\ v[t].xmin <= xid'
    BY <1>0, <1>1 DEF Aside
  <2> QED  BY <2>1, <2>2, <2>3, <2>4 DEF Seen, Past
<1>2. CASE Emptying
  <2>1. Replaced(v)'
    BY <1>2 DEF Replaced, Emptying, Emptied
  <2> QED  BY <1>0, <1>2, <2>1 DEF Seen, Past, Emptying
<1>3. ASSUME NEW e \in Runs, NEW t \in Tables, NEW new, Adding(e, t, new)
      PROVE  Seen(v)' /\ Past(v)'
  <2>1. \A u \in Tables : /\ Cardinality(table[u]) \in Nat /\ Cardinality(table'[u]) \in Nat
                          /\ Cardinality(table[u]) <= Cardinality(table'[u])
                          /\ u = t => Cardinality(table[u]) < Cardinality(table'[u])
    BY <1>3, AddingCounts
  <2>2. ASSUME v = Version PROVE Past(v)'
    <3>1. \A u \in Tables : v[u].rows = Cardinality(table[u])
      BY <2>2, VersionIs
    <3>2. Grown(v)'
      BY <1>0, <2>1, <3>1 DEF Grown
    <3> QED  BY <3>2 DEF Past
  <2>3. ASSUME Grown(v) PROVE Past(v)'
    <3>1. Grown(v)'
      BY <1>0, <2>1, <2>3 DEF Grown
    <3> QED  BY <3>1 DEF Past
  <2>4. ASSUME Replaced(v) PROVE Past(v)'
    <3>1. \A u \in Tables : \A x \in table'[u] : x \in table[u] \/ x.xid = txn[e]
      BY <1>3 DEF Adding, EtlTypeOK
    <3>2. \A o \in Runs : txn'[o] # 0 => txn'[o] = txn[o]
      BY <1>3 DEF Adding
    <3>3. txn[e] # 0
      BY <1>3 DEF Adding
    <3>4. Replaced(v)'
      BY <2>4, <3>1, <3>2, <3>3 DEF Replaced
    <3> QED  BY <3>4 DEF Past
  <2>5. Past(v)'
    BY <2>2, <2>3, <2>4 DEF Seen, Past
  <2> QED  BY <1>0, <1>3, <2>5 DEF Seen, Adding
<1> QED  BY <1>1, <1>2, <1>3, TableChange

\* A version that the tables have moved on from is not theirs.
PastIsOver == \A v : Past(v) => ~Holds(v)

LEMMA NoWayBack == EtlTypeOK /\ RowsNumbered => PastIsOver
<1> SUFFICES ASSUME EtlTypeOK, RowsNumbered, NEW v, Past(v),
                    v = Version, NEW u \in Tables, table[u] # {}
             PROVE  FALSE
  BY DEF PastIsOver, Holds
<1>1. \A t \in Tables : /\ v[t].rows = Cardinality(table[t]) /\ v[t].rows \in Nat
                        /\ v[t].xmin \in Nat
                        /\ \A x \in table[t] : x.xid \in Nat /\ x.xid <= v[t].xmin
  BY VersionIs
<1>2. CASE Grown(v)
  BY <1>1, <1>2 DEF Grown
<1>3. CASE Replaced(v)
  <2>1. PICK x \in table[u] : TRUE
    OBVIOUS
  <2>2. v[u].xmin < x.xid
    BY <1>3, <2>1 DEF Replaced
  <2> QED  BY <1>1, <2>1, <2>2
<1> QED  BY <1>2, <1>3 DEF Past

\* If a version that was seen is still that of the tables after a step, the
\* step has left the tables alone.
LEMMA HeldThroughout ==
    ASSUME EtlTypeOK, RowsNumbered, EtlTypeOK', RowsNumbered', [EtlNext]_etlVars,
           NEW v, Seen(v), Holds(v)'
    PROVE  table' = table /\ Holds(v)
<1>1. ~Past(v)'
  <2>1. PastIsOver'
    BY NoWayBack, PTL
  <2> QED  BY <2>1 DEF PastIsOver
<1>2. table' = table
  BY <1>1, SeenStep
<1>3. Version' = Version
  BY <1>2 DEF Version
<1> QED  BY <1>2, <1>3 DEF Holds

-----------------------------------------------------------------------------
(* The client next to the service.                                         *)

LEMMA PollingStepIsStep ==
    ASSUME [PollingNext]_pollingVars
    PROVE  [Next]_vars
<1>1. ASSUME NEW r \in Requests, Keep(r) PROVE UNCHANGED vars
  BY <1>1 DEF Keep
<1>2. ASSUME NEW r \in Requests, NEW b \in Bodies, Send(r, b) PROVE Next
  BY <1>2 DEF Send, Next
<1>3. CASE ServiceStep
  BY <1>3 DEF ServiceStep, Next
<1>4. CASE ReadVersion \/ LearnVersion \/ UNCHANGED pollingVars
  BY <1>4 DEF ReadVersion, LearnVersion, pollingVars
<1> QED  BY <1>1, <1>2, <1>3, <1>4 DEF PollingNext

LEMMA CacheStays ==
    ASSUME [PollingNext]_pollingVars
    PROVE  cacheUp' = cacheUp
<1>1. ASSUME UNCHANGED vars PROVE cacheUp' = cacheUp
  BY <1>1 DEF vars, lookupVars, serviceVars
<1>2. ASSUME NEW r \in Requests, Keep(r) PROVE cacheUp' = cacheUp
  BY <1>1, <1>2 DEF Keep
<1>3. ASSUME NEW r \in Requests, NEW b \in Bodies, Send(r, b) PROVE cacheUp' = cacheUp
  BY <1>3 DEF Send, Arrive
<1>4. ASSUME NEW r \in Requests, Step(r) PROVE cacheUp' = cacheUp
  BY <1>4 DEF Step, Refuse, KeyError, Start, CacheHit, UnreadableHit, CacheMiss, Acquire, FindRow,
              FindNothing, FindCities, QueryError, CacheSet
<1>5. CASE Tick \/ EtlStep
  BY <1>5 DEF Tick, EtlStep, serviceVars
<1>6. CASE ReadVersion \/ LearnVersion \/ UNCHANGED pollingVars
  BY <1>1, <1>6 DEF ReadVersion, LearnVersion, pollingVars
<1> QED  BY <1>2, <1>3, <1>4, <1>5, <1>6 DEF PollingNext, ServiceStep

LEMMA CacheInUseStep ==
    ASSUME TypeOK, CacheInUse, [PollingNext]_pollingVars
    PROVE  CacheInUse'
<1> SUFFICES ASSUME NEW q \in Requests, pc'[q] \in {"get", "set"} PROVE cacheUp
  BY CacheStays DEF CacheInUse
<1>1. pc'[q] \in Working /\ [Next]_vars
  BY PollingStepIsStep DEF Working
<1>2. CASE Kept(q)
  BY <1>2 DEF Kept, CacheInUse
<1>3. CASE Start(q)
  BY <1>3 DEF Start, AfterMiss, TypeOK
<1>4. CASE CacheMiss(q) \/ Acquire(q) \/ FindRow(q)
  BY <1>4 DEF CacheMiss, Acquire, FindRow, AfterMiss, TypeOK
<1>5. CASE FindCities(q)
  BY <1>5 DEF FindCities, Conclude, TypeOK
<1> QED  BY <1>1, <1>2, <1>3, <1>4, <1>5, KeptOrTakenOn

\* Every version the client has came from the tables.
LEMMA VersionsSeenStep ==
    ASSUME EtlTypeOK, RowsNumbered, VersionsSeen, [PollingNext]_pollingVars
    PROVE  VersionsSeen'
<1>0. [EtlNext]_etlVars
  BY PollingStepIsStep, LoaderOrNothing
<1>1. \A v : Seen(v) => Seen(v)'
  BY <1>0, SeenStep
<1>2. Seen(Version)
  BY VersionIs DEF Seen
<1>3. answer' \in {answer, Version, None} => (answer' # None => Seen(answer)')
  <2>1. PICK v : v = answer'
    OBVIOUS
  <2>2. answer' \in {answer, Version, None} /\ answer' # None => Seen(v)'
    BY <1>1, <1>2, <2>1 DEF VersionsSeen
  <2> QED  BY <2>1, <2>2 DEF Seen, Past, Grown, Replaced
<1>4. token' \in {token, answer} => (token' # None => Seen(token)')
  <2>1. PICK v : v = token'
    OBVIOUS
  <2>2. token' \in {token, answer} /\ token' # None => Seen(v)'
    BY <1>1, <2>1 DEF VersionsSeen
  <2> QED  BY <2>1, <2>2 DEF Seen, Past, Grown, Replaced
<1>5. ASSUME NEW r \in Requests, sent'[r] # None,
             \/ sent'[r] = sent[r]
             \/ token # None /\ sent'[r].under = token
      PROVE  token # None /\ Seen(sent[r].under)'
  <2>1. PICK v : v = sent'[r].under
    OBVIOUS
  <2>2. token # None /\ Seen(v)'
    BY <1>1, <1>5, <2>1 DEF VersionsSeen
  <2> QED  BY <2>1, <2>2 DEF Seen, Past, Grown, Replaced
<1>6. CASE UNCHANGED clientVars
  BY <1>3, <1>4, <1>5, <1>6 DEF clientVars, VersionsSeen
<1>7. CASE ReadVersion
  BY <1>3, <1>4, <1>5, <1>7 DEF ReadVersion, VersionsSeen
<1>8. CASE LearnVersion
  <2>1. token' = answer /\ token' # None /\ answer' = None /\ sent' = sent
    BY <1>8 DEF LearnVersion
  <2> QED  BY <1>3, <1>4, <1>5, <2>1 DEF VersionsSeen
<1>9. ASSUME NEW r \in Requests, NEW b \in Bodies, Send(r, b) PROVE VersionsSeen'
  <2>1. token # None /\ sent' = [sent EXCEPT ![r] = [under |-> token, at |-> now]]
        /\ UNCHANGED <<answer, token, kept>>
    BY <1>9 DEF Send
  <2>2. \A q \in Requests : sent'[q] = sent[q] \/ sent'[q].under = token
    BY <2>1 DEF VersionsSeen
  <2> QED  BY <1>3, <1>4, <1>5, <2>1, <2>2 DEF VersionsSeen
<1>10. ASSUME NEW r \in Requests, Keep(r) PROVE VersionsSeen'
  <2>1. sent[r] # None /\ sent' = [sent EXCEPT ![r] = None]
        /\ UNCHANGED <<answer, token>>
    BY <1>10 DEF Keep
  <2>2. \A q \in Requests : sent'[q] # None => sent'[q] = sent[q]
    BY <2>1 DEF VersionsSeen
  <2>3. token # None
    BY <2>1 DEF VersionsSeen
  <2> QED  BY <1>3, <1>4, <1>5, <2>1, <2>2, <2>3 DEF VersionsSeen
<1> QED
  BY <1>6, <1>7, <1>8, <1>9, <1>10 DEF PollingNext, ServiceStep, pollingVars

\* What an item ends with is what the client may get, while the token holds.
LEMMA OutcomeMayBeGot ==
    ASSUME LookupInv, CacheInUse, SentIsCurrent, NEW r \in Requests, Step(r),
           sent[r] # None, Holds(sent[r].under)
    PROVE  \/ UNCHANGED <<results, body>>
           \/ \E result : /\ Conclude(r, result) /\ UNCHANGED body
                          /\ result.ok => MayGet(sent[r].at, Item(r), result.response)
<1> DEFINE i == Item(r)
           at == sent[r].at
<1>0. TypeOK /\ ItemInHand /\ EntriesFit /\ InTime /\ Current
  BY DEF LookupInv
<1>1. CASE Refuse(r) \/ FindNothing(r)
  <2>1. \E code : Conclude(r, Error(code)) /\ UNCHANGED body
    BY <1>1 DEF Refuse, FindNothing
  <2>2. \A code : ~Error(code).ok
    BY DEF Error
  <2> QED  BY <2>1, <2>2
<1>2. CASE CacheHit(r)
  <2> DEFINE k == CacheKey(i)
             env == cache[k].response
  <2>1. /\ pc[r] = "get" /\ cache[k] # None
        /\ Conclude(r, Ok(env)) /\ UNCHANGED body
    BY <1>2 DEF CacheHit
  <2>2. i \in UsableItems /\ k \in CacheKeys
    BY <1>0, <2>1, UsableTyped DEF Working, ItemInHand, InHand
  <2>3. /\ cache[k].expires \in Nat /\ now < cache[k].expires
        /\ \/ cache[k].expires <= changedAt + MaxLatency + TTL
           \/ \E j \in UsableItems : CacheKey(j) = k /\ env \in Answers(j)
    BY <1>0, <2>1, <2>2 DEF TypeOK, Entries, InTime, Current
  <2>4. at \in Nat /\ at <= now /\ cacheUp
    BY <2>1 DEF SentIsCurrent, CacheInUse
  <2>5. /\ now \in Nat /\ changedAt \in Nat /\ TTL \in Nat /\ MaxLatency \in Nat
    BY <1>0, LookupAssumption DEF TypeOK
  <2> HIDE DEF at, env
  <2>6. MayGet(at, i, env)
    <3>1. CASE cache[k].expires <= changedAt + MaxLatency + TTL
      <4>1. at < changedAt + TTL + MaxLatency
        <5> HIDE DEF i, k
        <5> QED  BY <2>3, <2>4, <2>5, <3>1
      <4> QED  BY <2>4, <4>1 DEF MayGet
    <3>2. ASSUME NEW j \in UsableItems, CacheKey(j) = k, env \in Answers(j)
          PROVE  MayGet(at, i, env)
      BY <3>2, KeyTellsQuestion DEF MayGet
    <3> QED  BY <2>3, <3>1, <3>2
  <2>7. Ok(env).response = env
    BY DEF Ok
  <2> QED  BY <2>1, <2>6, <2>7 DEF at
<1>3. CASE FindCities(r)
  <2> DEFINE x == IF NeedsRow(i) THEN row[r] ELSE None
  <2>1. pc[r] = "cities" /\ i \in UsableItems /\ i \in Items
    BY <1>0, <1>3, UsableTyped DEF FindCities, Working, ItemInHand, InHand
  <2>2. NeedsRow(i) => x \in RowsFor(i)
    BY <2>1 DEF SentIsCurrent
  <2>3. ~NeedsRow(i) => x = None
    OBVIOUS
  <2>4. PICK env \in EnvelopesFrom(i, x) :
           Conclude(r, Ok(env)) \/ UNCHANGED results
    BY <1>3 DEF FindCities
  <2>5. UNCHANGED body
    BY <1>3 DEF FindCities
  <2> HIDE DEF i, x, at
  <2>6. env \in Answers(i)
    BY <2>1, <2>2, <2>3, <2>4, EnvelopeIsAnswer
  <2>7. MayGet(at, i, env)
    BY <2>1, <2>6, SameQuestionOfItself DEF MayGet
  <2>8. Ok(env).response = env
    BY DEF Ok
  <2> QED  BY <2>4, <2>5, <2>7, <2>8 DEF at, i
<1>4. CASE CacheSet(r)
  <2>1. /\ pc[r] = "set" /\ i \in UsableItems
        /\ Conclude(r, Ok(envelope[r])) /\ UNCHANGED body
    BY <1>0, <1>4 DEF CacheSet, Working, ItemInHand, InHand
  <2>2. envelope[r] \in Answers(i)
    BY <2>1 DEF SentIsCurrent
  <2> HIDE DEF i, at
  <2>3. MayGet(at, i, envelope[r])
    BY <2>1, <2>2, SameQuestionOfItself DEF MayGet
  <2>4. Ok(envelope[r]).response = envelope[r]
    BY DEF Ok
  <2> QED  BY <2>1, <2>3, <2>4 DEF at, i
<1>5. CASE \/ QueryError(r) \/ KeyError(r) \/ UnreadableHit(r)
           \/ Start(r) \/ CacheMiss(r) \/ Acquire(r) \/ FindRow(r)
  BY <1>5 DEF QueryError, KeyError, UnreadableHit, Start, CacheMiss, Acquire, FindRow
<1> QED  BY <1>1, <1>2, <1>3, <1>4, <1>5 DEF Step

\* Who asked what when the tables were left alone.
LEMMA MayStillGet ==
    ASSUME UNCHANGED <<table, changedAt, cacheUp>>, NEW at, NEW i, NEW response,
           MayGet(at, i, response)
    PROVE  MayGet(at, i, response)'
<1>1. \A j : Answers(j)' = Answers(j)
  BY AnswersKept
<1> QED  BY <1>1 DEF MayGet

LEMMA SentIsCurrentStep ==
    ASSUME LookupInv, RowsNumbered, EtlTypeOK', RowsNumbered', VersionsSeen, SentIsCurrent,
           CacheInUse, [PollingNext]_pollingVars
    PROVE  SentIsCurrent'
<1>0. /\ TypeOK /\ ItemInHand /\ NothingAnsweredYet /\ EtlTypeOK
      /\ [Next]_vars /\ [EtlNext]_etlVars /\ cacheUp' = cacheUp
  BY PollingStepIsStep, LoaderOrNothing, CacheStays DEF LookupInv, TypeOK
<1> SUFFICES ASSUME NEW q \in Requests, sent'[q] # None
             PROVE  /\ sent'[q].at \in Nat /\ sent'[q].at <= now'
                    /\ Holds(sent[q].under)' =>
                          /\ pc'[q] \in {"wantCities", "cities"} /\ NeedsRow(Item(q)') =>
                                row'[q] \in RowsFor(Item(q))'
                          /\ pc'[q] = "set" => envelope'[q] \in Answers(Item(q))'
                          /\ \A n \in DOMAIN results'[q] : results'[q][n].ok =>
                                MayGet(sent[q].at, body[q].items[n], results[q][n].response)'
  BY DEF SentIsCurrent
<1>1. ASSUME NEW b \in Bodies, Send(q, b)
      PROVE  /\ sent'[q].at \in Nat /\ sent'[q].at <= now'
             /\ pc'[q] \notin {"wantCities", "cities", "set"} /\ results'[q] = <<>>
  <2>1. sent' = [sent EXCEPT ![q] = [under |-> token, at |-> now]] /\ Arrive(q, b)
    BY <1>1 DEF Send
  <2>2. sent'[q].at = now /\ now' = now /\ now \in Nat
    BY <1>0, <2>1 DEF VersionsSeen, Arrive, TypeOK
  <2>3. pc'[q] \in {"rejected", "answered", "next"} /\ results'[q] = <<>>
    BY <1>0, <2>1 DEF Arrive, TypeOK, NothingAnsweredYet
  <2> QED  BY <2>2, <2>3
<1>2. ASSUME sent'[q] = sent[q]
      PROVE  sent'[q].at \in Nat /\ sent'[q].at <= now'
  <2>1. sent[q].at \in Nat /\ sent[q].at <= now
    BY <1>2 DEF SentIsCurrent
  <2>2. now \in Nat /\ (now' = now \/ now' = now + 1)
    BY <1>0, TimeMoves DEF TypeOK, Tick
  <2> QED  BY <1>2, <2>1, <2>2
<1>3. ASSUME sent'[q] = sent[q], Holds(sent[q].under)'
      PROVE  UNCHANGED <<table, changedAt, cacheUp>> /\ Holds(sent[q].under)
  <2>1. PICK v : v = sent[q].under
    OBVIOUS
  <2>2. Holds(v)'
    BY <1>3, <2>1 DEF Holds
  <2>3. Seen(v)
    BY <1>3, <2>1 DEF VersionsSeen
  <2>4. table' = table /\ Holds(v)
    BY <1>0, <2>2, <2>3, HeldThroughout
  <2>5. changedAt' = changedAt
    BY <1>0, <2>4, TablesMove DEF EtlStep
  <2> QED  BY <1>0, <2>1, <2>4, <2>5
<1>4. ASSUME sent'[q] = sent[q], Holds(sent[q].under)'
      PROVE  /\ pc'[q] \in {"wantCities", "cities"} /\ NeedsRow(Item(q)') => row'[q] \in RowsFor(Item(q))'
             /\ pc'[q] = "set" => envelope'[q] \in Answers(Item(q))'
  <2>1. /\ pc[q] \in {"wantCities", "cities"} /\ NeedsRow(Item(q)) => row[q] \in RowsFor(Item(q))
        /\ pc[q] = "set" => envelope[q] \in Answers(Item(q))
    BY <1>3, <1>4 DEF SentIsCurrent
  <2> QED  BY <1>0, <1>3, <1>4, <2>1, InHandStaysCurrent
<1>5. ASSUME sent'[q] = sent[q], Holds(sent[q].under)',
             (results'[q] = results[q] /\ body'[q] = body[q]) \/ Step(q),
             NEW n \in DOMAIN results'[q], results'[q][n].ok
      PROVE  MayGet(sent[q].at, body[q].items[n], results[q][n].response)'
  <2> DEFINE at == sent'[q].at
             i == body'[q].items[n]
             response == results'[q][n].response
  <2>1. MayGet(at, i, response)
    <3>1. CASE n \in DOMAIN results[q] /\ results'[q][n] = results[q][n] /\ body'[q] = body[q]
      BY <1>3, <1>5, <3>1 DEF SentIsCurrent
    <3>2. ASSUME NEW result, Conclude(q, result), UNCHANGED body,
                 result.ok => MayGet(sent[q].at, Item(q), result.response)
          PROVE  MayGet(at, i, response)
      <4>1. results[q] \in Seq(Results) /\ results'[q] = Append(results[q], result)
        BY <1>0, <3>2 DEF TypeOK, Conclude
      <4>2. \/ n \in DOMAIN results[q] /\ results'[q][n] = results[q][n]
            \/ n = Len(results[q]) + 1 /\ results'[q][n] = result
        BY <1>5, <4>1
      <4>3. CASE n = Len(results[q]) + 1 /\ results'[q][n] = result
        BY <1>5, <3>2, <4>3 DEF Item
      <4> QED  BY <3>1, <3>2, <4>2, <4>3
    <3>3. ASSUME Step(q) PROVE MayGet(at, i, response)
      <4>1. \/ UNCHANGED <<results, body>>
            \/ \E result : /\ Conclude(q, result) /\ UNCHANGED body
                           /\ result.ok => MayGet(sent[q].at, Item(q), result.response)
        BY <1>3, <1>5, <3>3, OutcomeMayBeGot
      <4> QED  BY <3>1, <3>2, <4>1, <1>5
    <3> QED  BY <3>1, <3>3, <1>5
  <2>2. PICK a, j, response0 : a = at /\ j = i /\ response0 = response
    OBVIOUS
  <2>3. MayGet(a, j, response0)'
    BY <1>3, <1>5, <2>1, <2>2, MayStillGet
  <2> QED  BY <2>2, <2>3 DEF MayGet
<1>6. ASSUME sent'[q] = sent[q], (results'[q] = results[q] /\ body'[q] = body[q]) \/ Step(q)
      PROVE  /\ sent'[q].at \in Nat /\ sent'[q].at <= now'
             /\ Holds(sent[q].under)' =>
                   /\ pc'[q] \in {"wantCities", "cities"} /\ NeedsRow(Item(q)') =>
                         row'[q] \in RowsFor(Item(q))'
                   /\ pc'[q] = "set" => envelope'[q] \in Answers(Item(q))'
                   /\ \A n \in DOMAIN results'[q] : results'[q][n].ok =>
                         MayGet(sent[q].at, body[q].items[n], results[q][n].response)'
  BY <1>2, <1>4, <1>5, <1>6
<1>7. ASSUME NEW r \in Requests, NEW b \in Bodies, Send(r, b), r # q
      PROVE  sent'[q] = sent[q] /\ results'[q] = results[q] /\ body'[q] = body[q]
  BY <1>0, <1>7 DEF Send, Arrive, TypeOK, VersionsSeen
<1>8. ASSUME NEW r \in Requests, Keep(r)
      PROVE  sent'[q] = sent[q] /\ results'[q] = results[q] /\ body'[q] = body[q]
  BY <1>8 DEF Keep, VersionsSeen, vars, lookupVars, serviceVars
<1>9. ASSUME NEW r \in Requests, Step(r), UNCHANGED clientVars
      PROVE  sent'[q] = sent[q] /\ ((results'[q] = results[q] /\ body'[q] = body[q]) \/ Step(q))
  BY <1>0, <1>9, OwnResultsOnly DEF clientVars
<1>10. CASE ReadVersion \/ LearnVersion \/ (ServiceStep /\ (Tick \/ EtlStep)) \/ UNCHANGED pollingVars
  <2>1. sent'[q] = sent[q] /\ results'[q] = results[q] /\ body'[q] = body[q]
    BY <1>10 DEF ReadVersion, LearnVersion, ServiceStep, Tick, EtlStep, pollingVars, clientVars,
                 vars, lookupVars, serviceVars
  <2> QED  BY <1>6, <2>1
<1>11. CASE \E b \in Bodies : Send(q, b)
  BY <1>1, <1>11
<1> QED
  BY <1>6, <1>7, <1>8, <1>9, <1>10, <1>11 DEF PollingNext, ServiceStep

\* What the client keeps stays current, or its token is no longer the version.
LEMMA KeptIs ==
    KeptIsCurrent <=> (Holds(token) => \A k \in kept : MayGet(k.at, k.item, k.response))
BY DEF KeptIsCurrent, Holds, MayGet

LEMMA KeptIsCurrentStep ==
    ASSUME LookupInv, RowsNumbered, EtlTypeOK', RowsNumbered', VersionsSeen, SentIsCurrent,
           KeptIsCurrent, [PollingNext]_pollingVars
    PROVE  KeptIsCurrent'
<1>0. /\ EtlTypeOK /\ [Next]_vars /\ [EtlNext]_etlVars /\ cacheUp' = cacheUp
  BY PollingStepIsStep, LoaderOrNothing, CacheStays DEF LookupInv, TypeOK
<1>1. Holds(token) => \A k \in kept : MayGet(k.at, k.item, k.response)
  BY KeptIs
<1>2. ASSUME token' = token, kept' = kept PROVE KeptIsCurrent'
  <2> SUFFICES ASSUME Holds(token)', NEW k \in kept
               PROVE  MayGet(k.at, k.item, k.response)'
    BY <1>2 DEF KeptIsCurrent, Holds, MayGet
  <2>1. PICK v : v = token
    OBVIOUS
  <2>2. Holds(v)' /\ Seen(v)
    BY <1>2, <2>1 DEF Holds, VersionsSeen
  <2>3. table' = table /\ Holds(v)
    BY <1>0, <2>2, HeldThroughout
  <2>4. changedAt' = changedAt
    BY <1>0, <2>3, TablesMove DEF EtlStep
  <2>5. MayGet(k.at, k.item, k.response)
    BY <1>1, <2>1, <2>3
  <2> QED  BY <1>0, <2>3, <2>4, <2>5, MayStillGet
<1>3. CASE LearnVersion
  <2>1. CASE answer = token
    BY <1>2, <1>3, <2>1 DEF LearnVersion
  <2>2. CASE answer # token
    BY <1>3, <2>2 DEF LearnVersion, KeptIsCurrent
  <2> QED  BY <2>1, <2>2
<1>4. ASSUME NEW r \in Requests, Keep(r) PROVE KeptIsCurrent'
  <2>1. /\ UNCHANGED vars /\ token' = token /\ sent[r] # None
        /\ kept' = kept \cup IF sent[r].under # token THEN {}
                             ELSE {[item |-> body[r].items[n], response |-> results[r][n].response,
                                    at |-> sent[r].at] : n \in {m \in DOMAIN results[r] : results[r][m].ok}}
    BY <1>4 DEF Keep
  <2>2. CASE sent[r].under # token
    BY <1>2, <2>1, <2>2
  <2>3. CASE sent[r].under = token
    <3>1. Holds(token) => \A n \in DOMAIN results[r] : results[r][n].ok =>
                             MayGet(sent[r].at, body[r].items[n], results[r][n].response)
      BY <2>1, <2>3 DEF SentIsCurrent
    <3>2. Holds(token) => \A k \in kept' : MayGet(k.at, k.item, k.response)
      BY <1>1, <2>1, <2>3, <3>1
    <3>3. UNCHANGED <<table, changedAt, cacheUp>>
      BY <2>1 DEF vars, etlVars, lookupVars, serviceVars
    <3> SUFFICES ASSUME Holds(token)', NEW k \in kept'
                 PROVE  MayGet(k.at, k.item, k.response)'
      BY DEF KeptIsCurrent, Holds, MayGet
    <3>4. Holds(token)
      BY <2>1, <3>3 DEF Holds, Version
    <3> QED  BY <3>2, <3>3, <3>4, MayStillGet
  <2> QED  BY <2>2, <2>3
<1>5. ASSUME NEW r \in Requests, NEW b \in Bodies, Send(r, b) PROVE KeptIsCurrent'
  BY <1>2, <1>5 DEF Send
<1>6. CASE ReadVersion \/ ServiceStep \/ UNCHANGED pollingVars
  BY <1>2, <1>6 DEF ReadVersion, ServiceStep, pollingVars, clientVars
<1> QED  BY <1>3, <1>4, <1>5, <1>6 DEF PollingNext

-----------------------------------------------------------------------------
(* The theorems.                                                           *)

\* The service in front of a polling client is the service of Lookup: what is
\* proved of Lookup holds.
THEOREM ClientOnlyAsks == PollingSpec => Spec
<1>1. PollingInit => Init
  BY DEF PollingInit
<1>2. [PollingNext]_pollingVars => [Next]_vars
  BY PollingStepIsStep
<1> QED  BY <1>1, <1>2, PTL DEF PollingSpec, Spec

LEMMA NumberedFirst ==
    ASSUME EtlInit
    PROVE  RowsNumbered
<1>1. /\ xid = 0
      /\ \A t \in Tables : table[t] \in {{[key |-> k, build |-> 0, xid |-> 0] : k \in KeysOf[t]}, {}}
      /\ table = [t \in Tables |-> table[t]]
  BY DEF EtlInit
<1>2. \A t \in Tables : \A x \in table[t] : x.xid = 0
  BY <1>1
<1>3. \A t \in Tables : table[t] # {} => \E x \in table[t] : \A y \in table[t] : y.xid <= x.xid
  <2> SUFFICES ASSUME NEW t \in Tables, NEW x \in table[t]
               PROVE  \A y \in table[t] : y.xid <= x.xid
    OBVIOUS
  <2> QED  BY <1>2
<1>4. ASSUME NEW t \in Tables PROVE IsFiniteSet(table[t])
  <2> DEFINE first(k) == [key |-> k, build |-> 0, xid |-> 0]
             rows == {first(k) : k \in KeysOf[t]}
  <2>1. IsFiniteSet(rows)
    <3> DEFINE f == [k \in KeysOf[t] |-> first(k)]
    <3>1. f \in [KeysOf[t] -> rows] /\ \A x \in rows : \E k \in KeysOf[t] : f[k] = x
      OBVIOUS
    <3> HIDE DEF f, rows
    <3> QED  BY <3>1, EtlAssumption, FiniteImage
  <2> QED  BY <1>1, <2>1, FS_EmptySet
<1>5. \A e \in Runs : txn[e] = 0 /\ \A t \in Tables : IsFiniteSet(read[e][t])
  BY FS_EmptySet DEF EtlInit, Emptied
<1> QED  BY <1>1, <1>2, <1>3, <1>4, <1>5 DEF RowsNumbered

LEMMA RowsAreNumbered == EtlSpec => []RowsNumbered
<1>1. EtlInit => RowsNumbered
  BY NumberedFirst
<1>2. EtlTypeOK /\ RowsNumbered /\ [EtlNext]_etlVars => RowsNumbered'
  BY NumberedStep
<1> QED  BY <1>1, <1>2, EtlTypeCorrect, PTL DEF EtlSpec

LEMMA InitPollingInv ==
    ASSUME PollingInit
    PROVE  VersionsSeen /\ SentIsCurrent /\ CacheInUse /\ KeptIsCurrent
BY DEF PollingInit, Init, VersionsSeen, SentIsCurrent, CacheInUse, KeptIsCurrent

\* The inductive invariant of the client, the service and the loader together.
THEOREM PollingInvariant == PollingSpec => []PollingInv
<1> DEFINE Known == LookupInv /\ EtlTypeOK /\ RowsNumbered
           Inv == VersionsSeen /\ SentIsCurrent /\ CacheInUse /\ KeptIsCurrent
<1>1. PollingSpec => []LookupInv /\ []EtlTypeOK /\ []RowsNumbered
  BY ClientOnlyAsks, LookupInvariant, ServiceOnlyReads, EtlTypeCorrect, RowsAreNumbered, PTL
<1>2. PollingInit => Inv
  BY InitPollingInv
<1>3. Known /\ Known' /\ Inv /\ [PollingNext]_pollingVars => Inv'
  <2> SUFFICES ASSUME LookupInv, EtlTypeOK, RowsNumbered, EtlTypeOK', RowsNumbered',
                      VersionsSeen, SentIsCurrent, CacheInUse, KeptIsCurrent,
                      [PollingNext]_pollingVars
               PROVE  Inv'
    OBVIOUS
  <2>1. TypeOK
    BY DEF LookupInv
  <2>2. VersionsSeen'
    BY VersionsSeenStep
  <2>3. SentIsCurrent'
    BY SentIsCurrentStep
  <2>4. CacheInUse'
    BY <2>1, CacheInUseStep
  <2>5. KeptIsCurrent'
    BY KeptIsCurrentStep
  <2> QED  BY <2>2, <2>3, <2>4, <2>5
<1>4. PollingSpec => []Inv
  <2> HIDE DEF Inv
  <2>1. PollingSpec => []Known
    BY <1>1, PTL
  <2> HIDE DEF Known
  <2> QED  BY <1>2, <1>3, <2>1, PTL DEF PollingSpec
<1> QED  BY <1>1, <1>4, PTL DEF PollingInv

\* While the token of GET /v1/data-version stays the same, what a client keeps
\* is what the tables answer, apart from what the service's own cache may hand
\* out again for one time to live (main.py data_version).
THEOREM KeptStaysCurrent == PollingSpec => []KeptIsCurrent
<1>1. PollingInv => KeptIsCurrent
  BY DEF PollingInv
<1> QED  BY <1>1, PollingInvariant, PTL
=============================================================================
