----------------------------- MODULE MCMessages -----------------------------
(* Two senders, one actor and two reloads; version 3 cannot migrate version 1.   *)
EXTENDS Messages

CONSTANTS s1, s2

TwoSenders == {s1, s2}
OneAsker == {s1}
WithGap == {<<1, 2>>, <<2, 3>>}
===============================================================================
