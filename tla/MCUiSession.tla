------------------------------ MODULE MCUiSession ------------------------------
(* A small instance of UiSession: a daemon and a window that runs a newer  *)
(* binary.                                                                 *)
EXTENDS UiSession

CONSTANTS d1, w1

OneDaemon == {d1}
OneWindow == {w1}
WindowIsNewer == [p \in Procs |-> IF p = w1 THEN 2 ELSE 1]
================================================================================
