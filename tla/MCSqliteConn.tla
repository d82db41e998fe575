----------------------------- MODULE MCSqliteConn -----------------------------
(* One SQLite handle, opened, shared and closed by a few clients.               *)
EXTENDS SqliteConn

CONSTANTS c1, c2, wk, x1, x2

OneClient == {c1}
TwoClients == {c1, c2}
OneProcs == {c1, wk}
TwoProcs == {c1, c2, wk}
TwoWrites == {x1, x2}
OneWrite == {x1}
Symmetric == Permutations(TwoClients) \union Permutations(TwoWrites)
===============================================================================
