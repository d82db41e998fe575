------------------------- MODULE MCReloadReceipts -------------------------
(* ReloadReceipts for TLC. *)
EXTENDS ReloadReceipts
=============================================================================
