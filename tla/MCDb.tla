-------------------------------- MODULE MCDb --------------------------------
(* Db for TLC: keys k1 and k2 share a chain, k3 has one of its own; the data *)
(* v2 is longer than v1.                                                     *)
EXTENDS Db

CONSTANTS p1, p2, k1, k2, k3, v1, v2, c1, c2

ChainOf == [k \in Keys |-> IF k = k3 THEN c2 ELSE c1]
OneLength == [k \in Keys |-> 1]
DataLength == [v \in Vals |-> IF v = v2 THEN 2 ELSE 1]
Mixed == [p \in Procs |-> IF p = p1 THEN {"fetch", "store", "nextrec"}
                                   ELSE {"delete", "store"}]
=============================================================================
