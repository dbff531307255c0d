-------------------------- MODULE LookupRefinement --------------------------
(***************************************************************************)
(* The lookup path keeps its contract: how a state of Lookup is one of     *)
(* LookupContract.                                                         *)
(***************************************************************************)
EXTENDS Lookup

\* The tables, and what is left in the tasks and in Redis of what was read.
RowsOf(env) == env.cities \cup ({env.row} \ {None})
Remembered ==
    (UNION {table[t] : t \in Tables})
    \cup ({row[r] : r \in Requests} \ {None})
    \cup (UNION {RowsOf(envelope[r]) : r \in {q \in Requests : pc[q] = "set"}})
    \cup (UNION {RowsOf(cache[k].response) : k \in {l \in CacheKeys : cache[l] # None}})

StatusOf(r) == CASE pc[r] = "new"                               -> "new"
                 [] pc[r] = "answered"                          -> "answered"
                 [] pc[r] \in Working \cup {"next"}             -> "open"
                 [] pc[r] \in {"failed", "raised", "rejected", "gone"} -> "lost"

Contract == INSTANCE LookupContract WITH
                ready  <- dbReady,
                status <- [r \in Requests |-> StatusOf(r)],
                known  <- Remembered

\* Every behaviour of the service is one the contract allows: outcomes come one
\* per item, in order, and are never taken back while the client can still get
\* them; an envelope is made of rows that are in the tables or were read from
\* them, whoever read them and through whichever entry they came (main.py:
\* 435-560); a 404 is given only while there is no row, a 503 only without a
\* pool; and neither a fault nor a restart is ever answered as a result.
RefinesContract == Contract!ContractSpec
=============================================================================
