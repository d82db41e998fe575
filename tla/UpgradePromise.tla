--------------------------- MODULE UpgradePromise ---------------------------
(***************************************************************************)
(* What a hot upgrade promises to the code it upgrades, with no process of *)
(* the implementation in sight: user code of one version at a time, on     *)
(* state of that version, and a node that takes requests only while its    *)
(* published version is the loaded one.                                    *)
(***************************************************************************)
EXTENDS Naturals

CONSTANT Actors

VARIABLES
  running,    \* the actors inside user code or ready to enter it
  outdated,   \* the actors whose state is in the form of older code
  code,       \* the loaded version
  published,  \* the version the node reports
  open        \* the node takes reloads

pvars == <<running, outdated, code, published, open>>

Init ==
  /\ running \subseteq Actors /\ outdated = {}
  /\ code = 0 /\ published = 0 /\ open = TRUE

\* Actors start, stop, are suspended and resumed; none runs outdated.
Schedule ==
  /\ running' \subseteq Actors /\ running' \cap outdated = {}
  /\ UNCHANGED <<outdated, code, published>>

\* The code changes under nobody's feet, one version at a time.
Swap ==
  /\ running = {} /\ code = published
  /\ code' = code + 1 /\ outdated' \subseteq Actors
  /\ UNCHANGED <<running, published>>

\* Converting state is done to halted actors only.
Convert ==
  /\ outdated' \subseteq outdated
  /\ running \cap outdated = {}
  /\ UNCHANGED <<running, code, published>>

Publish ==
  /\ published' = code /\ published + 1 = code
  /\ UNCHANGED <<running, outdated, code>>

Next ==
  /\ Schedule \/ Swap \/ Convert \/ Publish
  /\ open' \in BOOLEAN /\ (open' => code' = published')

Spec == Init /\ [][Next]_pvars
=============================================================================
