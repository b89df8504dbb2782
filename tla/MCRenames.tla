------------------------------- MODULE MCRenames -------------------------------
(* A directory of six names and one temporary.  c and C share a key: they  *)
(* are twins a directory that does not normalise may both hold.             *)
EXTENDS Renames

CONSTANTS a, b, c, C, t1, x, y, b1, u1, u2

MCKey == [n \in Names |-> IF n = C THEN c ELSE n]
MCTemps == <<t1>>
MCStart == [n \in Names |-> CASE n = a -> 1 [] n = b -> 2 [] n = y -> 3 [] OTHER -> 0]
(* Before, file 3 was renamed from x to y. *)
MCHistory == <<[from |-> x, to |-> y, undoes |-> 0, batch |-> 1,
                by |-> "earlier", file |-> 3]>>
Pair(p, q) == [from |-> p, to |-> q]
(* A cycle, a chain that ends on one of the twins, and a single rename. *)
MCRequests == {<<Pair(a, b), Pair(b, a)>>, <<Pair(a, b), Pair(b, c)>>, <<Pair(a, C)>>}

Symmetry == Permutations(Undos)
================================================================================
