------------------------------ MODULE MCTransfer ------------------------------
(* Copies and moves, on one provider and across two, with every policy;    *)
(* a rename is only asked of the provider that has both names.             *)
EXTENDS Transfer

MCAsks == {a \in [move : BOOLEAN, same : BOOLEAN, renames : BOOLEAN, ids : BOOLEAN,
                  policy : Policies] :
            (a.move /\ a.same) \/ ~(a.renames \/ a.ids)}
=============================================================================
