-------------------------- MODULE MCActorMigration --------------------------
(* Small declarations for TLC: two names, two types, with and without default. *)
EXTENDS ActorMigration

F(n, t, d) == [name |-> n, ty |-> t, dflt |-> d]

Declared ==
  {<<F("x", "Int", TRUE)>>, <<F("x", "Text", TRUE)>>, <<F("y", "Int", FALSE)>>,
   <<F("x", "Int", TRUE), F("y", "Int", TRUE)>>, <<F("x", "Int", TRUE), F("y", "Int", FALSE)>>,
   <<F("y", "Int", TRUE), F("x", "Int", FALSE)>>, <<F("x", "Text", TRUE), F("y", "Int", TRUE)>>,
   <<F("z", "Int", TRUE), F("y", "Int", TRUE)>>, <<F("x", "Int", TRUE), F("y", "Text", TRUE)>>}

\* An actor may also declare no state at all.
WithStateless == Declared \cup {<<>>}
=============================================================================
