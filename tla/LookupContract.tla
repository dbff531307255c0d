--------------------------- MODULE LookupContract ---------------------------
(***************************************************************************)
(* What the lookup path promises its clients, without tasks, pool, cache,  *)
(* counters and clock.  The service has seen some rows of the tables and   *)
(* may forget them, but can only come to know what is in the tables then.  *)
(* A request is worked off item by item, each answered once and for good:  *)
(* with an envelope to the question made of rows the service knows, or     *)
(* with the error the item, the service or the tables have earned.         *)
(***************************************************************************)
EXTENDS LookupAnswers

VARIABLES
    ready,      \* can the service reach the database?
    status,     \* status[r]: "new", "open", "answered", or "lost"
    body,       \* body[r]: what request r carries
    results,    \* results[r]: the outcomes of its items so far
    known       \* the rows the service can see or remember

contractVars == <<etlVars, ready, status, body, results, known>>

Visible == UNION {table[t] : t \in Tables}
RowsIn(env) == env.cities \cup ({env.row} \ {None})
NextItem(r) == body[r].items[Len(results[r]) + 1]
LastOutcome(r) == results[r][Len(results[r])]

\* Rows become known from the tables alone.
LearnsOnlyFromTables == known' \subseteq known \cup Visible'

\* The outcomes that the item may have now.
Allowed(i, outcome) ==
    IF outcome.ok THEN /\ Usable(i) /\ FitsSome(i, outcome.response)
                       /\ RowsIn(outcome.response) \subseteq known
    ELSE CASE outcome.error = "unready" -> ~ready
           [] outcome.error = "shape"   -> ready /\ ~WellFormed(i)
           [] outcome.error = "phone"   -> ready /\ WellFormed(i) /\ ~Parses(i)
           [] outcome.error = "missing" -> Usable(i) /\ RowsFor(i) = {}

Ask(r, b) ==
    /\ status[r] = "new"
    /\ body' = [body EXCEPT ![r] = b]
    /\ status' = [status EXCEPT ![r] = IF Len(b.items) > BatchCap THEN "lost"
                                       ELSE IF b.items = <<>> THEN "answered" ELSE "open"]
    /\ UNCHANGED <<etlVars, ready, results, known>>

\* The next item of r gets its outcome; after the last the client has them all.
Resolve(r) ==
    /\ status[r] = "open"
    /\ Len(results'[r]) = Len(results[r]) + 1
    /\ results' = [results EXCEPT ![r] = Append(@, LastOutcome(r)')]
    /\ Allowed(NextItem(r), LastOutcome(r)')
    /\ status' = [status EXCEPT ![r] = IF Len(results'[r]) = Len(body[r].items)
                                       THEN "answered" ELSE "open"]
    /\ LearnsOnlyFromTables
    /\ UNCHANGED <<etlVars, ready, body>>

\* An exception: the client gets a 500 and none of the outcomes.
Abort(r) ==
    /\ status[r] = "open"
    /\ status' = [status EXCEPT ![r] = "lost"]
    /\ LearnsOnlyFromTables
    /\ UNCHANGED <<etlVars, ready, body, results>>

Crash ==
    /\ ready' \in BOOLEAN
    /\ status' = [r \in Requests |-> IF status[r] = "new" THEN "new" ELSE "lost"]
    /\ results' = [r \in Requests |-> <<>>]
    /\ LearnsOnlyFromTables
    /\ UNCHANGED <<etlVars, body>>

\* The tables change, rows are read, remembered, forgotten.
Background ==
    /\ EtlNext \/ UNCHANGED etlVars
    /\ LearnsOnlyFromTables
    /\ UNCHANGED <<ready, status, body, results>>

ContractInit ==
    /\ EtlInit
    /\ ready \in BOOLEAN
    /\ status = [r \in Requests |-> "new"]
    /\ body = [r \in Requests |-> NoBody]
    /\ results = [r \in Requests |-> <<>>]
    /\ known = Visible

ContractNext ==
    \/ \E r \in Requests : Resolve(r) \/ Abort(r) \/ \E b \in Bodies : Ask(r, b)
    \/ Crash
    \/ Background

ContractSpec == ContractInit /\ [][ContractNext]_contractVars
=============================================================================
