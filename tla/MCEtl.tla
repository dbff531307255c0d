------------------------------- MODULE MCEtl -------------------------------
(* Finite instances of Etl: two keys in the tables whose keys can collide. *)
EXTENDS Etl, TLC

CONSTANTS e1, e2, k1, k2

MCKeysOf == [exchanges |-> {k1, k2}, places |-> {k1}, ip_ranges |-> {k1}]
OneRun == {e1}
TwoRuns == {e1, e2}
Symmetry == Permutations(TwoRuns)
=============================================================================
