----------------------------- MODULE MCService -----------------------------
(***************************************************************************)
(* A finite instance of Service.                                           *)
(***************************************************************************)
EXTENDS Service

CONSTANTS r1, r2, trace

TwoRequests == {r1, r2}
OneCaller == {trace}
MCIncoming == [r \in TwoRequests |-> IF r = r1 THEN trace ELSE None]
=============================================================================
