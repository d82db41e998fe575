------------------------------- MODULE MCPgPool -------------------------------
(* A pool of a few connections and the callers that compete for them.           *)
EXTENDS PgPool

CONSTANTS p1, p2, p3

TwoCallers == {p1, p2}
ThreeCallers == {p1, p2, p3}
===============================================================================
