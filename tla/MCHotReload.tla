---------------------------- MODULE MCHotReload ----------------------------
(* Small nodes for TLC. *)
EXTENDS HotReloadInv
=============================================================================
