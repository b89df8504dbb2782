------------------------------ MODULE MCScheduler ------------------------------
(* Small instances of Scheduler: the .cfg files choose among these values. *)
EXTENDS Scheduler

NoTask == {}
FirstTask == {1}
OneScheme == {"file"}
NoScheme == {}
Normal == {1}
LowAndHigh == {0, 2}
OneCaller == {"main"}
TwoCallers == {"main", "file"}
================================================================================
