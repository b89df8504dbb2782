------------------------------ MODULE MCApprovals ------------------------------
(* A small instance of Approvals: two frontends, one of them with a feed, and *)
(* two processes.                                                             *)
EXTENDS Approvals

CONSTANTS tui, gui

TwoFrontends == {tui, gui}
FeedOfGui == {gui}

(* Bound: with a second Ask only one frontend is on, or ever showed an Ask. *)
Busy == {f \in Frontends : link[f] # "off" \/ shown[f] # {}}
Load == asked <= 1 \/ (asked = 2 /\ Cardinality(Busy) <= 1)
================================================================================
