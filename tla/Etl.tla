-------------------------------- MODULE Etl --------------------------------
(***************************************************************************)
(* The nightly loader, scripts/load.py, against the three tables of        *)
(* scripts/schema.sql.  A run opens one connection and issues, in order,   *)
(* the schema script, one TRUNCATE of all three tables, one bulk load per  *)
(* table and an ANALYZE.  There is no transaction around them: every       *)
(* statement commits by itself, so other connections read the tables       *)
(* between any two of them, and a run that dies leaves what it has done.   *)
(* executemany and COPY are atomic: of a load, other connections see only  *)
(* the commit.  But its file was read before, and its transaction got its  *)
(* id with the first row, so that loads may commit in another order.       *)
(***************************************************************************)
EXTENDS Naturals, FiniteSets

CONSTANTS
    Runs,       \* the loader processes ever started, by cron or by hand
    KeysOf,     \* per table, the keys a source record can carry
    MaxBuilds   \* bound: how often each source file is rebuilt

Tables == {"exchanges", "places", "ip_ranges"}

ASSUME EtlAssumption ==
    /\ DOMAIN KeysOf = Tables
    /\ \A t \in Tables : IsFiniteSet(KeysOf[t])
    /\ MaxBuilds \in Nat

VARIABLES
    file,        \* file[t]: the source file of table t on the shared volume
    table,       \* table[t]: the committed rows of table t
    schema,      \* have the tables been created?
    stage,       \* stage[e]: the last statement of run e that committed
    read,        \* read[e][t]: the records run e read for table t
    parsed,      \* parsed[e]: has run e read the file of the load it is at?
    txn,         \* txn[e]: the transaction run e is writing rows in, 0 for none
    sole,        \* sole[e]: no other run has touched the tables since e's TRUNCATE
    xid,         \* the last transaction id given to a load
    generation   \* the tables as the last run that finished left them

etlVars == <<file, table, schema, stage, read, parsed, txn, sole, xid, generation>>

-----------------------------------------------------------------------------
(* Data.  A record of a file and the row it becomes carry a key and the    *)
(* build of the file; a row also carries the transaction that wrote it     *)
(* (Postgres's xmin).  The other columns follow from key and build.        *)

Records(t) == [key : KeysOf[t], build : Nat]
Rows(t) == [key : KeysOf[t], build : Nat, xid : Nat]
Files(t) == [state : {"missing", "good", "bad"}, build : Nat, keys : SUBSET KeysOf[t]]

Contents(f) == {[key |-> k, build |-> f.build] : k \in f.keys}
Content(rows) == {[key |-> row.key, build |-> row.build] : row \in rows}

Stages == {"idle", "schema", "truncated", "exchanges", "places", "ip_ranges",
           "done", "failed"}
Going == {"schema", "truncated", "exchanges", "places", "ip_ranges"}
NobodyGoing == \A e \in Runs : stage[e] \notin Going

\* The statement that comes before the load of each table.
Before == [exchanges |-> "truncated", places |-> "exchanges", ip_ranges |-> "places"]

Emptied == [t \in Tables |-> {}]

\* A fault of the loader: places is forgotten in the TRUNCATE.
TruncatedWithoutPlaces == [t \in Tables |-> IF t = "places" THEN table[t] ELSE {}]
Truncated == Emptied

\* A fault of the loader: no ON CONFLICT clause and no primary key.
InsertedBlindly(t, records, id) ==
    table[t] \cup {[key |-> x.key, build |-> x.build, xid |-> id] : x \in records}

\* INSERT ... ON CONFLICT DO NOTHING for the two keyed tables; a plain COPY
\* into ip_ranges, whose only key is a serial number.  A conflict with a row
\* of an open transaction waits for its end, so that what is taken is what is
\* committed when the load commits.
Inserted(t, records, id) ==
    LET taken == {row.key : row \in table[t]}
        fresh == {x \in records : t = "ip_ranges" \/ x.key \notin taken}
    IN  table[t] \cup {[key |-> x.key, build |-> x.build, xid |-> id] : x \in fresh}

-----------------------------------------------------------------------------
\* The service can be started before the first load, when the tables do not
\* exist, or after a load of the current files.
EtlInit ==
    /\ file = [t \in Tables |-> [state |-> "good", build |-> 0, keys |-> KeysOf[t]]]
    /\ schema \in BOOLEAN
    /\ table = [t \in Tables |->
                   IF schema THEN {[key |-> k, build |-> 0, xid |-> 0] : k \in KeysOf[t]}
                             ELSE {}]
    /\ stage = [e \in Runs |-> "idle"]
    /\ read = [e \in Runs |-> Emptied]
    /\ parsed = [e \in Runs |-> FALSE]
    /\ txn = [e \in Runs |-> 0]
    /\ sole = [e \in Runs |-> FALSE]
    /\ xid = 0
    /\ generation = table

\* gazetteer, or the db-ip download, replaces a source file: a new build with
\* any part of the keys, or one the loader cannot parse, or nothing.
Rebuild(t) ==
    /\ file[t].build < MaxBuilds
    /\ \E state \in {"missing", "good", "bad"}, keys \in SUBSET KeysOf[t] :
          /\ state # "good" => keys = {}
          /\ file' = [file EXCEPT ![t] = [state |-> state, build |-> @.build + 1,
                                          keys |-> keys]]
    /\ UNCHANGED <<table, schema, stage, read, parsed, txn, sole, xid, generation>>

\* Connect and run schema.sql: CREATE TABLE IF NOT EXISTS.
ApplySchema(e) ==
    /\ stage[e] = "idle"
    /\ stage' = [stage EXCEPT ![e] = "schema"]
    /\ schema' = TRUE
    /\ UNCHANGED <<file, table, read, parsed, txn, sole, xid, generation>>

\* TRUNCATE locks the tables and waits for the loads of other runs to commit.
Truncate(e) ==
    /\ stage[e] = "schema"
    /\ \A o \in Runs : txn[o] = 0
    /\ stage' = [stage EXCEPT ![e] = "truncated"]
    /\ table' = Truncated
    /\ sole' = [o \in Runs |-> o = e]
    /\ UNCHANGED <<file, schema, read, parsed, txn, xid, generation>>

\* Path(...).exists() is false: the load is left out and the table stays empty.
SkipLoad(e, t) ==
    /\ stage[e] = Before[t] /\ ~parsed[e]
    /\ file[t].state = "missing"
    /\ stage' = [stage EXCEPT ![e] = t]
    /\ UNCHANGED <<file, table, schema, read, parsed, txn, sole, xid, generation>>

\* json.loads, or the CSV reader: the whole file is in memory before any row of
\* it goes to Postgres.
ReadFile(e, t) ==
    /\ stage[e] = Before[t] /\ ~parsed[e]
    /\ file[t].state = "good"
    /\ read' = [read EXCEPT ![e][t] = Contents(file[t])]
    /\ parsed' = [parsed EXCEPT ![e] = TRUE]
    /\ UNCHANGED <<file, table, schema, stage, txn, sole, xid, generation>>

\* The first row: from here on the load has its transaction id.
BeginLoad(e) ==
    /\ parsed[e] /\ txn[e] = 0
    /\ xid' = xid + 1
    /\ txn' = [txn EXCEPT ![e] = xid + 1]
    /\ UNCHANGED <<file, table, schema, stage, read, parsed, sole, generation>>

\* The last row, and the commit.
Load(e, t) ==
    /\ stage[e] = Before[t] /\ txn[e] # 0
    /\ stage' = [stage EXCEPT ![e] = t]
    /\ table' = [table EXCEPT ![t] = Inserted(t, read[e][t], txn[e])]
    /\ parsed' = [parsed EXCEPT ![e] = FALSE]
    /\ txn' = [txn EXCEPT ![e] = 0]
    /\ sole' = [o \in Runs |-> sole[o] /\ o = e]
    /\ UNCHANGED <<file, schema, read, xid, generation>>

Analyze(e) ==
    /\ stage[e] = "ip_ranges"
    /\ stage' = [stage EXCEPT ![e] = "done"]
    /\ generation' = table
    /\ UNCHANGED <<file, table, schema, read, parsed, txn, sole, xid>>

\* A file that does not parse, a lost connection, a killed container: the
\* finally clause closes the connection, Postgres rolls back, the run is over.
Fail(e) ==
    /\ stage[e] \in Going
    /\ stage' = [stage EXCEPT ![e] = "failed"]
    /\ parsed' = [parsed EXCEPT ![e] = FALSE]
    /\ txn' = [txn EXCEPT ![e] = 0]
    /\ UNCHANGED <<file, table, schema, read, sole, xid, generation>>

EtlNext ==
    \/ \E t \in Tables : Rebuild(t)
    \/ \E e \in Runs :
          \/ ApplySchema(e)
          \/ Truncate(e)
          \/ \E t \in Tables : SkipLoad(e, t) \/ ReadFile(e, t) \/ Load(e, t)
          \/ BeginLoad(e)
          \/ Analyze(e)
          \/ Fail(e)

EtlSpec == EtlInit /\ [][EtlNext]_etlVars

-----------------------------------------------------------------------------
\* Every variable of the loader has its type.
EtlTypeOK ==
    /\ \A t \in Tables : file[t] \in Files(t) /\ table[t] \subseteq Rows(t)
                                              /\ generation[t] \subseteq Rows(t)
    /\ DOMAIN file = Tables /\ DOMAIN table = Tables /\ DOMAIN generation = Tables
    /\ schema \in BOOLEAN
    /\ stage \in [Runs -> Stages]
    /\ \A e \in Runs : DOMAIN read[e] = Tables /\ \A t \in Tables : read[e][t] \subseteq Records(t)
    /\ DOMAIN read = Runs
    /\ sole \in [Runs -> BOOLEAN] /\ parsed \in [Runs -> BOOLEAN]
    /\ xid \in Nat /\ txn \in [Runs -> 0 .. xid]

\* "TRUNCATE + reload": when a run has finished and no other run has touched
\* the tables since its TRUNCATE, each table holds exactly the records that
\* run read from its source file, whatever earlier runs, failed or
\* overlapping ones included, had left there (load.py main, schema.sql:2-4).
CleanReload ==
    \A e \in Runs : stage[e] = "done" /\ sole[e]
                        => \A t \in Tables : Content(table[t]) = read[e][t]

\* No key is ever in a table twice.  For exchanges and places this holds even
\* when two runs interleave, thanks to ON CONFLICT DO NOTHING (load.py
\* 133-140, 164-172).  ip_ranges has no natural key and is loaded with a plain
\* COPY (221-226): it relies on no other run having loaded since the last
\* TRUNCATE, or a lookup_ip of a doubled range has no unique answer.
OneRowPerKey ==
    \A t \in Tables : (t = "ip_ranges" => \E e \in Runs : sole[e]) =>
        \A a, b \in table[t] : a.key = b.key => a = b

\* load.py:22-25: "a load failure doesn't crash the running webserver -- the
\* service keeps serving against the previous generation of data until the
\* next successful ETL".  Once a run has failed and none is going, the tables
\* are those the last run that finished left behind.
FailureKeepsGeneration ==
    (\E e \in Runs : stage[e] = "failed") /\ NobodyGoing => table = generation
=============================================================================
