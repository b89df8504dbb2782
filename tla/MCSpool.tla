-------------------------------- MODULE MCSpool --------------------------------
(* A small instance of Spool: two connections, a tree whose plan is blocked    *)
(* and one whose plan is not.                                                  *)
EXTENDS Spool

CONSTANTS c1, c2, h1, h2

TwoConns == {c1, c2}
TwoHashes == {h1, h2}
Refused == {h2}

(* Bound: two plans are both of the first connection and of the tree that can *)
(* be applied, and the second connection stays open; with one plan, or none,  *)
(* anything goes.                                                             *)
Planned == {p \in Plans : key[p] # NoKey}
Load == \/ Cardinality(Planned) <= 1
        \/ link[c2] = "open" /\ \A p \in Planned : key[p] = <<c1, h1>>
================================================================================
