------------------------------- MODULE MCSessions -------------------------------
(* A small instance of Sessions: an endpoint with an alias, and another    *)
(* endpoint.                                                               *)
EXTENDS Sessions

CONSTANTS host, alias, other

Forms == {host, alias, other}
Aliased == [k \in Forms |-> IF k = alias THEN host ELSE k]
================================================================================
