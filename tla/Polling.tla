------------------------------ MODULE Polling ------------------------------
(***************************************************************************)
(* A client that keeps the answers of /v1/lookup for as long as the token  *)
(* of GET /v1/data-version stays the same, which is what that endpoint is  *)
(* for (main.py:200-211), next to the service and the loader.  The client  *)
(* is not in the repository: it is the careful reader of that docstring.   *)
(***************************************************************************)
EXTENDS Lookup

VARIABLES
    answer,     \* the version in a response under way to the client, or None
    token,      \* the version the client last got, None before the first
    sent,       \* sent[r]: its token and the time when it sent r, None unless r is open
    kept        \* the answers it keeps: [item, response, at]

clientVars == <<answer, token, sent, kept>>
pollingVars == <<vars, clientVars>>

-----------------------------------------------------------------------------
\* MAX(xmin) or 0, of one table.
Newest(rows) == IF rows = {} THEN 0
                ELSE CHOOSE n \in {x.xid : x \in rows} : \A x \in rows : x.xid <= n

\* A fault of the code: the row counts alone.
VersionWithoutXmin(rows) == [rows |-> Cardinality(rows)]
VersionOf(rows) == [rows |-> Cardinality(rows), xmin |-> Newest(rows)]

\* One statement reads all three tables, so the version is of one moment.
Version == [t \in Tables |-> VersionOf(table[t])]

\* The query of data_version.  Without a pool, without the tables or without
\* Postgres the body says ok=false, and the client learns nothing.
ReadVersion ==
    /\ answer = None
    /\ dbReady /\ schema /\ ConnectionFree
    /\ answer' = Version
    /\ UNCHANGED <<vars, token, sent, kept>>

\* The response arrives: a token that has changed empties the client's cache.
LearnVersion ==
    /\ answer # None
    /\ token' = answer /\ answer' = None
    /\ kept' = IF answer = token THEN kept ELSE {}
    /\ UNCHANGED <<vars, sent>>

Send(r, b) ==
    /\ token # None
    /\ Arrive(r, b)
    /\ sent' = [sent EXCEPT ![r] = [under |-> token, at |-> now]]
    /\ UNCHANGED <<answer, token, kept>>

\* A response arrives: what was asked for under an earlier token is used but
\* not kept.
Keep(r) ==
    /\ pc[r] = "answered" /\ sent[r] # None
    /\ kept' = kept \cup IF sent[r].under # token THEN {}
                         ELSE {[item |-> body[r].items[n], response |-> results[r][n].response,
                                at |-> sent[r].at] : n \in {m \in DOMAIN results[r] : results[r][m].ok}}
    /\ sent' = [sent EXCEPT ![r] = None]
    /\ UNCHANGED <<vars, answer, token>>

\* The service stays up and Redis loses nothing but what expires: neither
\* would make an answer older.
ServiceStep ==
    /\ \/ \E r \in Requests : Step(r)
       \/ Tick
       \/ EtlStep
    /\ UNCHANGED clientVars

PollingInit ==
    /\ Init
    /\ answer = None /\ token = None
    /\ sent = [r \in Requests |-> None]
    /\ kept = {}

PollingNext ==
    \/ ReadVersion
    \/ LearnVersion
    \/ \E r \in Requests : Keep(r) \/ \E b \in Bodies : Send(r, b)
    \/ ServiceStep

PollingSpec == PollingInit /\ [][PollingNext]_pollingVars

-----------------------------------------------------------------------------
\* main.py:200-211, "so clients can detect data refreshes + invalidate their
\* own caches": while the token the client holds is still the version of the
\* tables, what it keeps under it is what the tables answer, whatever runs of
\* the loader came between its polls, its requests and their responses --
\* except that with Redis the service itself may hand out the older answer
\* again, to a client that asks before the entries of that time have expired
\* (cache.py:17, "No explicit invalidation").  Three empty tables are one
\* version whenever they are seen, and nothing is said of those.
KeptIsCurrent ==
    token = Version /\ (\E t \in Tables : table[t] # {}) =>
        \A k \in kept :
            \/ cacheUp /\ k.at < changedAt + TTL + MaxLatency
            \/ \E i \in UsableItems : SameQuestion(i, k.item) /\ k.response \in Answers(i)
=============================================================================
