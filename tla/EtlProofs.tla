----------------------------- MODULE EtlProofs -----------------------------
(***************************************************************************)
(* Proofs about Etl, for any number of runs, any keys and any number of    *)
(* rebuilds.  EtlInv is the inductive invariant: what a run that has had   *)
(* the tables to itself has read so far is what the tables hold.           *)
(***************************************************************************)
EXTENDS Etl, TLAPS

\* What run e has read for t is not in the table yet.
Pending(e, t) == parsed[e] /\ stage[e] = Before[t]

\* A run has read nothing for the tables it has not come to yet, and writes
\* only what it has read.
NothingReadYet ==
    \A e \in Runs :
        /\ \A t \in Tables : stage[e] = Before[t] /\ ~parsed[e] => read[e][t] = {}
        /\ stage[e] \in {"idle", "schema"} => read[e]["exchanges"] = {}
        /\ stage[e] \in {"idle", "schema", "truncated"} => read[e]["places"] = {}
        /\ stage[e] \in {"idle", "schema", "truncated", "exchanges"} => read[e]["ip_ranges"] = {}
        /\ parsed[e] => \E t \in Tables : stage[e] = Before[t]
        /\ txn[e] # 0 => parsed[e]

HeldIsRead ==
    \A e \in Runs : sole[e] /\ stage[e] # "failed" =>
        \A t \in Tables : Content(table[t]) = IF Pending(e, t) THEN {} ELSE read[e][t]

KeyedOnce == \A t \in Tables \ {"ip_ranges"} :
                 \A a, b \in table[t] : a.key = b.key => a = b

\* What nobody else has disturbed since a TRUNCATE has been copied once.
CopiedOnce == (\E e \in Runs : sole[e]) =>
                  \A a, b \in table["ip_ranges"] : a.key = b.key => a = b

\* A file has each key once.
ReadOnce == \A e \in Runs : \A t \in Tables : \A a, b \in read[e][t] : a.key = b.key => a = b

EtlInv == EtlTypeOK /\ NothingReadYet /\ HeldIsRead /\ KeyedOnce /\ CopiedOnce /\ ReadOnce

-----------------------------------------------------------------------------
\* A load into an empty table makes its content that of the records, one row
\* per key if they have each key once, whichever of the two INSERT forms.
LEMMA InsertIntoEmpty ==
    ASSUME NEW t \in Tables, table[t] = {}, NEW records \in SUBSET Records(t), NEW id
    PROVE  /\ Content(Inserted(t, records, id)) = records
           /\ (\A a, b \in records : a.key = b.key => a = b)
                  => \A a, b \in Inserted(t, records, id) : a.key = b.key => a = b
<1> DEFINE new(x) == [key |-> x.key, build |-> x.build, xid |-> id]
           rows == {new(x) : x \in records}
<1>1. Inserted(t, records, id) = rows
  BY DEF Inserted
<1>2. Content(rows) = records
  <2>1. \A x \in records : x = [key |-> x.key, build |-> x.build]
    BY DEF Records
  <2>2. \A x \in records : new(x).key = x.key /\ new(x).build = x.build
    OBVIOUS
  <2> QED  BY <2>1, <2>2 DEF Content
<1>3. (\A a, b \in records : a.key = b.key => a = b) => \A a, b \in rows : a.key = b.key => a = b
  OBVIOUS
<1> QED  BY <1>1, <1>2, <1>3, Zenon

\* A row inserted into a keyed table never has the key of another row, if the
\* records have each key once.
LEMMA InsertKeepsKeys ==
    ASSUME NEW t \in Tables \ {"ip_ranges"}, NEW records, NEW id,
           \A a, b \in records : a.key = b.key => a = b,
           \A a, b \in table[t] : a.key = b.key => a = b
    PROVE  \A a, b \in Inserted(t, records, id) : a.key = b.key => a = b
BY DEF Inserted

LEMMA InsertedRows ==
    ASSUME EtlTypeOK, NEW t \in Tables, NEW records \in SUBSET Records(t), NEW id \in Nat
    PROVE  Inserted(t, records, id) \subseteq Rows(t)
<1>1. table[t] \subseteq Rows(t)
  BY DEF EtlTypeOK
<1> QED  BY <1>1 DEF Inserted, Records, Rows

\* A table whose content is empty is empty.
LEMMA NoContent ==
    ASSUME NEW rows, Content(rows) = {}
    PROVE  rows = {}
BY DEF Content

-----------------------------------------------------------------------------
LEMMA InitEtlInv == EtlInit => EtlInv
<1> SUFFICES ASSUME EtlInit PROVE EtlInv
  OBVIOUS
<1> USE EtlAssumption
<1>1. \A t \in Tables : file[t] \in Files(t)
  BY DEF EtlInit, Files
<1>2. \A t \in Tables : table[t] \subseteq Rows(t)
  BY DEF EtlInit, Rows
<1>3. EtlTypeOK
  BY <1>1, <1>2 DEF EtlInit, EtlTypeOK, Emptied, Stages
<1>4. NothingReadYet
  BY DEF EtlInit, NothingReadYet, Emptied, Before, Tables
<1>5. HeldIsRead /\ ReadOnce
  BY DEF EtlInit, HeldIsRead, ReadOnce, Emptied
<1>6. \A t \in Tables : \A a, b \in table[t] : a.key = b.key => a = b
  BY DEF EtlInit
<1>7. KeyedOnce
  BY <1>6 DEF KeyedOnce
<1>8. CopiedOnce
  BY <1>6 DEF EtlInit, CopiedOnce, Tables
<1> QED  BY <1>3, <1>4, <1>5, <1>7, <1>8 DEF EtlInv

\* A step that neither reads nor writes rows, and takes nobody to or from a load.
LEMMA HeldStays ==
    ASSUME HeldIsRead, UNCHANGED <<table, read, sole>>,
           \A o \in Runs : stage'[o] # "failed" =>
               stage[o] # "failed" /\ \A u \in Tables : Pending(o, u)' <=> Pending(o, u)
    PROVE  HeldIsRead'
<1> SUFFICES ASSUME NEW o \in Runs, sole[o], stage'[o] # "failed", NEW u \in Tables
             PROVE  Content(table[u]) = IF Pending(o, u)' THEN {} ELSE read[o][u]
  BY DEF HeldIsRead
<1>1. Content(table[u]) = IF Pending(o, u) THEN {} ELSE read[o][u]
  BY DEF HeldIsRead
<1>2. Pending(o, u)' <=> Pending(o, u)
  OBVIOUS
<1> QED  BY <1>1, <1>2

LEMMA StepEtlInv == EtlInv /\ [EtlNext]_etlVars => EtlInv'
<1> SUFFICES ASSUME EtlInv, [EtlNext]_etlVars PROVE EtlInv'
  OBVIOUS
<1> USE DEF EtlInv
<1>1. ASSUME NEW t \in Tables, Rebuild(t) PROVE EtlInv'
  <2>1. /\ DOMAIN file' = Tables
        /\ \A u \in Tables : file'[u] \in Files(u)
    <3>1. PICK state \in {"missing", "good", "bad"}, keys \in SUBSET KeysOf[t] :
              file' = [file EXCEPT ![t] = [state |-> state, build |-> @.build + 1, keys |-> keys]]
      BY <1>1 DEF Rebuild
    <3> DEFINE new == [state |-> state, build |-> file[t].build + 1, keys |-> keys]
    <3>2. file' = [file EXCEPT ![t] = new]
      BY <3>1
    <3>3. new \in Files(t)
      BY DEF EtlTypeOK, Files
    <3> QED  BY <3>2, <3>3 DEF EtlTypeOK
  <2>2. EtlTypeOK'
    BY <1>1, <2>1 DEF Rebuild, EtlTypeOK
  <2> QED
    BY <1>1, <2>2 DEF Rebuild, NothingReadYet, HeldIsRead, Pending, KeyedOnce, CopiedOnce, ReadOnce
<1>2. ASSUME NEW e \in Runs, ApplySchema(e) PROVE EtlInv'
  <2>1. EtlTypeOK'
    BY <1>2 DEF ApplySchema, EtlTypeOK, Stages
  <2>2. NothingReadYet'
    BY <1>2 DEF ApplySchema, EtlTypeOK, NothingReadYet, Before, Tables
  <2>3. HeldIsRead'
    <3>1. ~parsed[e] /\ parsed' = parsed /\ \A o \in Runs \ {e} : stage'[o] = stage[o]
      BY <1>2 DEF ApplySchema, EtlTypeOK, NothingReadYet, Before, Tables
    <3>2. stage[e] # "failed" /\ UNCHANGED <<table, read, sole>>
      BY <1>2 DEF ApplySchema, Before, Tables
    <3>3. \A o \in Runs : \A u \in Tables : Pending(o, u)' <=> Pending(o, u)
      BY <3>1 DEF Pending
    <3> QED  BY <3>1, <3>2, <3>3, HeldStays
  <2>4. KeyedOnce' /\ CopiedOnce' /\ ReadOnce'
    BY <1>2 DEF ApplySchema, KeyedOnce, CopiedOnce, ReadOnce
  <2> QED  BY <2>1, <2>2, <2>3, <2>4
<1>3. ASSUME NEW e \in Runs, Truncate(e) PROVE EtlInv'
  <2>1. EtlTypeOK'
    BY <1>3 DEF Truncate, EtlTypeOK, Stages, Truncated, Emptied
  <2>2. ~parsed[e] /\ \A t \in Tables : read[e][t] = {}
    BY <1>3 DEF Truncate, NothingReadYet, Before, Tables
  <2>3. NothingReadYet'
    BY <1>3, <2>2 DEF Truncate, EtlTypeOK, NothingReadYet, Before, Tables
  <2>4. HeldIsRead'
    BY <1>3, <2>2 DEF Truncate, EtlTypeOK, HeldIsRead, Truncated, Emptied, Content
  <2>5. KeyedOnce' /\ ReadOnce'
    BY <1>3 DEF Truncate, KeyedOnce, ReadOnce, Truncated, Emptied
  <2>6. CopiedOnce'
    BY <1>3 DEF Truncate, EtlTypeOK, CopiedOnce, Truncated, Emptied, Tables
  <2> QED  BY <2>1, <2>3, <2>4, <2>5, <2>6
<1>4. ASSUME NEW e \in Runs, NEW t \in Tables, SkipLoad(e, t) PROVE EtlInv'
  <2>1. EtlTypeOK'
    BY <1>4 DEF SkipLoad, EtlTypeOK, Stages, Tables
  <2>2. NothingReadYet'
    BY <1>4 DEF SkipLoad, EtlTypeOK, NothingReadYet, Before, Tables
  <2>3. HeldIsRead'
    <3>1. ~parsed[e] /\ parsed' = parsed /\ \A o \in Runs \ {e} : stage'[o] = stage[o]
      BY <1>4 DEF SkipLoad, EtlTypeOK, NothingReadYet, Before, Tables
    <3>2. stage[e] # "failed" /\ UNCHANGED <<table, read, sole>>
      BY <1>4 DEF SkipLoad, Before, Tables
    <3>3. \A o \in Runs : \A u \in Tables : Pending(o, u)' <=> Pending(o, u)
      BY <3>1 DEF Pending
    <3> QED  BY <3>1, <3>2, <3>3, HeldStays
  <2>4. KeyedOnce' /\ CopiedOnce' /\ ReadOnce'
    BY <1>4 DEF SkipLoad, KeyedOnce, CopiedOnce, ReadOnce
  <2> QED  BY <2>1, <2>2, <2>3, <2>4
<1>5. ASSUME NEW e \in Runs, NEW t \in Tables, ReadFile(e, t) PROVE EtlInv'
  <2> DEFINE contents == Contents(file[t])
  <2>1. /\ stage[e] = Before[t] /\ ~parsed[e]
        /\ read' = [read EXCEPT ![e][t] = contents]
        /\ parsed' = [parsed EXCEPT ![e] = TRUE]
        /\ UNCHANGED <<file, table, schema, stage, txn, sole, xid, generation>>
    BY <1>5 DEF ReadFile
  <2>2. contents \subseteq Records(t)
    BY DEF EtlTypeOK, Contents, Files, Records
  <2>3. \A a, b \in contents : a.key = b.key => a = b
    BY DEF Contents
  <2>4. read[e][t] = {}
    BY <2>1 DEF NothingReadYet
  <2> HIDE DEF contents
  <2>5. EtlTypeOK'
    BY <2>1, <2>2 DEF EtlTypeOK
  <2>6. NothingReadYet'
    BY <2>1 DEF EtlTypeOK, NothingReadYet, Before, Tables
  <2>7. HeldIsRead'
    <3> SUFFICES ASSUME NEW o \in Runs, sole[o], stage[o] # "failed", NEW u \in Tables
                 PROVE  Content(table[u]) = IF Pending(o, u)' THEN {} ELSE read'[o][u]
      BY <2>1 DEF HeldIsRead
    <3>0. Content(table[u]) = IF Pending(o, u) THEN {} ELSE read[o][u]
      BY DEF HeldIsRead
    <3>1. CASE o = e /\ u = t
      <4>1. Pending(o, u)' /\ ~Pending(o, u)
        BY <2>1, <3>1 DEF Pending, EtlTypeOK
      <4> QED  BY <2>4, <3>0, <3>1, <4>1
    <3>2. CASE ~(o = e /\ u = t)
      <4>1. read'[o][u] = read[o][u]
        BY <2>1, <3>2 DEF EtlTypeOK
      <4>2. o # e => parsed'[o] = parsed[o]
        BY <2>1 DEF EtlTypeOK
      <4>3. o = e => stage[o] # Before[u]
        BY <2>1, <3>2 DEF Before, Tables
      <4>4. Pending(o, u)' <=> Pending(o, u)
        BY <2>1, <4>2, <4>3 DEF Pending
      <4> QED  BY <3>0, <4>1, <4>4
    <3> QED  BY <3>1, <3>2
  <2>8. KeyedOnce' /\ CopiedOnce'
    BY <2>1 DEF KeyedOnce, CopiedOnce
  <2>9. ReadOnce'
    BY <2>1, <2>3 DEF EtlTypeOK, ReadOnce
  <2> QED  BY <2>5, <2>6, <2>7, <2>8, <2>9
<1>6. ASSUME NEW e \in Runs, BeginLoad(e) PROVE EtlInv'
  <2>1. EtlTypeOK'
    BY <1>6 DEF BeginLoad, EtlTypeOK
  <2>2. NothingReadYet'
    BY <1>6 DEF BeginLoad, EtlTypeOK, NothingReadYet
  <2> QED
    BY <1>6, <2>1, <2>2 DEF BeginLoad, HeldIsRead, Pending, KeyedOnce, CopiedOnce, ReadOnce
<1>7. ASSUME NEW e \in Runs, NEW t \in Tables, Load(e, t) PROVE EtlInv'
  <2> DEFINE records == read[e][t]
             inserted == Inserted(t, records, txn[e])
  <2>1. /\ stage' = [stage EXCEPT ![e] = t] /\ stage[e] = Before[t] /\ parsed[e]
        /\ table' = [table EXCEPT ![t] = inserted]
        /\ parsed' = [parsed EXCEPT ![e] = FALSE] /\ txn' = [txn EXCEPT ![e] = 0]
        /\ sole' = [o \in Runs |-> sole[o] /\ o = e]
        /\ UNCHANGED <<file, schema, read, xid, generation>>
    BY <1>7 DEF Load, NothingReadYet
  <2>2. records \in SUBSET Records(t) /\ txn[e] \in Nat
    BY DEF EtlTypeOK
  <2>3. inserted \subseteq Rows(t)
    BY <2>2, InsertedRows
  <2>4. \A a, b \in records : a.key = b.key => a = b
    BY DEF ReadOnce
  <2>5. table[t] = {} => /\ Content(inserted) = records
                         /\ \A a, b \in inserted : a.key = b.key => a = b
    BY <2>2, <2>4, InsertIntoEmpty
  <2>6. sole[e] => table[t] = {}
    <3>1. Pending(e, t) /\ stage[e] # "failed"
      BY <2>1 DEF Pending, Before, Tables
    <3> QED  BY <3>1, NoContent DEF HeldIsRead
  <2>7. t # "ip_ranges" => \A a, b \in inserted : a.key = b.key => a = b
    BY <2>4, InsertKeepsKeys DEF KeyedOnce
  <2> HIDE DEF inserted, records
  <2>8. EtlTypeOK'
    BY <2>1, <2>3 DEF EtlTypeOK, Stages, Tables
  <2>9. NothingReadYet'
    BY <2>1 DEF EtlTypeOK, NothingReadYet, Before, Tables
  <2>10. HeldIsRead'
    <3> SUFFICES ASSUME NEW o \in Runs, sole'[o], stage'[o] # "failed", NEW u \in Tables
                 PROVE  Content(table'[u]) = IF Pending(o, u)' THEN {} ELSE read'[o][u]
      BY DEF HeldIsRead
    <3>0. sole[o] /\ o = e
      BY <2>1
    <3>1. o = e /\ sole[e] /\ ~Pending(o, u)' /\ stage[e] # "failed"
      <4>1. parsed'[e] = FALSE
        BY <2>1 DEF EtlTypeOK
      <4>2. stage[e] # "failed"
        BY <2>1 DEF Before, Tables
      <4> QED  BY <3>0, <4>1, <4>2 DEF Pending
    <3>2. CASE u = t
      BY <2>1, <2>5, <2>6, <3>1, <3>2 DEF EtlTypeOK, records
    <3>3. CASE u # t
      <4>1. ~Pending(e, u)
        BY <2>1, <3>3 DEF Pending, Before, Tables
      <4> QED  BY <2>1, <3>1, <3>3, <4>1 DEF EtlTypeOK, HeldIsRead
    <3> QED  BY <3>2, <3>3
  <2>11. KeyedOnce'
    BY <2>1, <2>7 DEF EtlTypeOK, KeyedOnce
  <2>12. CopiedOnce'
    BY <2>1, <2>5, <2>6 DEF EtlTypeOK, CopiedOnce, Before, Tables
  <2>13. ReadOnce'
    BY <2>1 DEF ReadOnce
  <2> QED  BY <2>8, <2>9, <2>10, <2>11, <2>12, <2>13
<1>8. ASSUME NEW e \in Runs, Analyze(e) PROVE EtlInv'
  <2>1. EtlTypeOK'
    BY <1>8 DEF Analyze, EtlTypeOK, Stages
  <2>2. NothingReadYet'
    BY <1>8 DEF Analyze, EtlTypeOK, NothingReadYet, Before, Tables
  <2>3. HeldIsRead'
    <3>1. ~parsed[e] /\ parsed' = parsed /\ \A o \in Runs \ {e} : stage'[o] = stage[o]
      BY <1>8 DEF Analyze, EtlTypeOK, NothingReadYet, Before, Tables
    <3>2. stage[e] # "failed" /\ UNCHANGED <<table, read, sole>>
      BY <1>8 DEF Analyze, Before, Tables
    <3>3. \A o \in Runs : \A u \in Tables : Pending(o, u)' <=> Pending(o, u)
      BY <3>1 DEF Pending
    <3> QED  BY <3>1, <3>2, <3>3, HeldStays
  <2>4. KeyedOnce' /\ CopiedOnce' /\ ReadOnce'
    BY <1>8 DEF Analyze, KeyedOnce, CopiedOnce, ReadOnce
  <2> QED  BY <2>1, <2>2, <2>3, <2>4
<1>9. ASSUME NEW e \in Runs, Fail(e) PROVE EtlInv'
  <2>1. EtlTypeOK'
    BY <1>9 DEF Fail, EtlTypeOK, Stages
  <2>2. NothingReadYet'
    BY <1>9 DEF Fail, EtlTypeOK, NothingReadYet, Before, Tables
  <2>3. HeldIsRead'
    <3>1. \A o \in Runs : stage'[o] # "failed" => stage'[o] = stage[o] /\ parsed'[o] = parsed[o]
      BY <1>9 DEF Fail, EtlTypeOK
    <3>2. UNCHANGED <<table, read, sole>>
      BY <1>9 DEF Fail
    <3>3. \A o \in Runs : stage'[o] # "failed" => \A u \in Tables : Pending(o, u)' <=> Pending(o, u)
      BY <3>1 DEF Pending
    <3> QED  BY <3>1, <3>2, <3>3, HeldStays
  <2>4. KeyedOnce' /\ CopiedOnce' /\ ReadOnce'
    BY <1>9 DEF Fail, KeyedOnce, CopiedOnce, ReadOnce
  <2> QED  BY <2>1, <2>2, <2>3, <2>4
<1>10. CASE UNCHANGED etlVars
  BY <1>10 DEF etlVars, EtlTypeOK, NothingReadYet, HeldIsRead, Pending, KeyedOnce, CopiedOnce, ReadOnce
<1> QED
  BY <1>1, <1>2, <1>3, <1>4, <1>5, <1>6, <1>7, <1>8, <1>9, <1>10 DEF EtlNext

-----------------------------------------------------------------------------
\* The inductive invariant of the loader.
THEOREM EtlInvariant == EtlSpec => []EtlInv
BY InitEtlInv, StepEtlInv, PTL DEF EtlSpec

\* Every variable of the loader keeps its type.
THEOREM EtlTypeCorrect == EtlSpec => []EtlTypeOK
<1>1. EtlInv => EtlTypeOK
  BY DEF EtlInv
<1> QED  BY <1>1, EtlInvariant, PTL

\* TRUNCATE and reload leaves exactly what the run read, whatever other runs
\* did before it, or started to do.
THEOREM ReloadIsClean == EtlSpec => []CleanReload
<1>1. EtlInv => CleanReload
  BY DEF EtlInv, HeldIsRead, NothingReadYet, Pending, CleanReload, Before, Tables
<1> QED  BY <1>1, EtlInvariant, PTL

\* No key is ever in a table twice; in ip_ranges, when runs do not overlap.
THEOREM KeysStayUnique == EtlSpec => []OneRowPerKey
<1>1. EtlInv => OneRowPerKey
  BY DEF EtlInv, KeyedOnce, CopiedOnce, OneRowPerKey
<1> QED  BY <1>1, EtlInvariant, PTL
=============================================================================
