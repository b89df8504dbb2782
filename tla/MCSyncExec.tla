------------------------------ MODULE MCSyncExec ------------------------------
(* A plan with one step of every kind: a directory and a file in it, an    *)
(* overwrite, an orphan tree of two nodes and a file already equal.        *)
EXTENDS SyncExec

MCPlan == <<[kind |-> "CreateDir", path |-> "d"], [kind |-> "Copy", path |-> "d/f"],
            [kind |-> "Overwrite", path |-> "o"], [kind |-> "Skip", path |-> "s"],
            [kind |-> "DeleteTree", path |-> "t"]>>
MCParent == [p \in {"d", "d/f", "o", "s", "t"} |-> IF p = "d/f" THEN "d" ELSE "/"]
MCBefore == [p \in {"d", "d/f", "o", "s", "t"} |->
                IF p \in {"d", "d/f"} THEN "nothing" ELSE "old"]
=============================================================================
