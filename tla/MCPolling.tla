----------------------------- MODULE MCPolling -----------------------------
(***************************************************************************)
(* Finite instances of Polling, with the texts and tables of MCLookup.     *)
(***************************************************************************)
EXTENDS Polling, MCLookup

CONSTANT e2

OneRequest == {r1}
TwoRuns == {e1, e2}
LoaderSymmetry == Permutations({e1, e2})
PollingBodies == {Solo(Ip(address))}
PollingKeysOf == [exchanges |-> {}, places |-> {town}, ip_ranges |-> {inner}]
=============================================================================
